-------------------------- MODULE ChatThreads_proofs --------------------------
(***************************************************************************)
(* Proofs about ChatThreads, for every number of connections, names and    *)
(* requests and every choice of faulty and slow clients.                   *)
(***************************************************************************)
EXTENDS ChatThreads, FiniteSetTheorems, TLAPS

\* c has been given its Welcome.
Welcomed(c) == sent[c] # <<>> /\ sent[c][1].kind = "Welcome"

\* c is connected and nobody has done anything for it yet.
Fresh(c) == c \in Conns => pc[c] = "none" /\ sent[c] = <<>> /\ peer[c] # "absent"

\* The listener's queue and the acceptor's connection are fresh and distinct;
\* Drop's own connection is in sight only once the flag is set.
FreshInv ==
  /\ \A i \in 1 .. Len(backlog) : /\ Fresh(backlog[i])
                                  /\ backlog[i] = Wake => terminated
                                  /\ backlog[i] \in Conns => backlog[i] # accConn
  /\ \A i, j \in 1 .. Len(backlog) :
       backlog[i] = backlog[j] /\ backlog[i] \in Conns => i = j
  /\ Fresh(accConn)
  /\ accConn = Wake => terminated
  /\ \A c \in Conns : peer[c] = "absent" => pc[c] = "none" /\ sent[c] = <<>>

\* Drop is under way exactly when the flag is set.
TerminatedInv == main # "run" <=> terminated

AcceptorInv ==
  /\ acc \in {"check", "reject"} => accConn \in Conns \cup {Wake}
  /\ acc = "reject" => accConn \in Conns

\* Where a handler is says what it has written, asked and been asked.
HandlerOK(c) ==
    /\ pc[c] \in JoiningPcs => sent[c] = <<>>
    /\ pc[c] \in {"insert", "serve", "lookup", "leave"} \cup LockedPcs => Welcomed(c)
    /\ pc[c] \in {"check", "taken", "welcome", "insert", "serve", "lookup", "leave"}
                   \cup LockedPcs => name[c] \in Names
    /\ pc[c] \in {"lookup"} \cup LockedPcs => req[c] \in MayAsk[c]
    /\ pc[c] = "locksender" => req[c].op = "SendDM"
HandlerInv == \A c \in Conns : HandlerOK(c)

\* Only welcomed clients are in the map or in anybody's loop over it.
WelcomedConns == {c \in Conns : Welcomed(c)}
TargetsIn(W) ==
  /\ clients \in [Names -> W \cup {None}]
  /\ tgt \in [Threads -> W \cup {None}]
  /\ todo \in [Threads -> SUBSET W]
TargetInv == TargetsIn(WelcomedConns)

\* Who writes to a shared writer holds its Mutex.
MutexOK(c) ==
  /\ pc[c] \in LockedPcs => tgt[c] \in Conns
  /\ pc[c] = "write" => mutex[tgt[c]] = c
MutexInv == \A c \in Conns : MutexOK(c)

\* Every live handler's handle is kept.
LiveInv == {c \in Conns : Live(c)} \subseteq handles

IInv ==
  /\ TypeOK /\ FreshInv /\ TerminatedInv /\ AcceptorInv /\ HandlerInv 
  /\ TargetInv /\ MutexInv /\ LiveInv
\* Moving on in a loop over connections keeps the targets connections.
LEMMA AimType ==
  ASSUME NEW W, NEW t, NEW S \in SUBSET W, Aim(t, S),
         tgt \in [Threads -> W \cup {None}], todo \in [Threads -> SUBSET W]
  PROVE  /\ tgt' \in [Threads -> W \cup {None}]
         /\ todo' \in [Threads -> SUBSET W]
<1>1. CASE S = {} /\ tgt' = [tgt EXCEPT ![t] = None] /\ todo' = [todo EXCEPT ![t] = {}]
  BY <1>1
<1>2. CASE \E d \in S : /\ tgt' = [tgt EXCEPT ![t] = d]
                        /\ todo' = [todo EXCEPT ![t] = S \ {d}]
  <2>1. PICK d \in S : /\ tgt' = [tgt EXCEPT ![t] = d]
                       /\ todo' = [todo EXCEPT ![t] = S \ {d}]
    BY <1>2
  <2>2. d \in W /\ S \ {d} \in SUBSET W
    OBVIOUS
  <2>3. QED
    BY <2>1, <2>2
<1>3. QED
  BY <1>1, <1>2 DEF Aim

\* Only t's target moves, and it moves into S.
LEMMA AimTarget ==
  ASSUME NEW t, NEW S, Aim(t, S), tgt \in [Threads -> Conns \cup {None}]
  PROVE  /\ \A d \in Threads : d # t => tgt'[d] = tgt[d]
         /\ t \in Threads /\ S # {} => tgt'[t] \in S
BY DEF Aim

\* Writing a frame appends it to what one connection was sent.
LEMMA PutEffect ==
  ASSUME TypeOK, NEW c \in Conns, NEW kind, NEW by, Put(c, kind, by),
         [kind |-> kind, by |-> by] \in Frames
  PROVE  /\ sent' \in [Conns -> Seq(Frames)]
         /\ \A d \in Conns : d # c => sent'[d] = sent[d]
         /\ sent'[c] # <<>>
         /\ sent[c] # <<>> => sent'[c][1] = sent[c][1]
         /\ sent[c] = <<>> => Len(sent'[c]) = 1 /\ sent'[c][1].kind = kind
<1>1. sent[c] \in Seq(Frames) /\ sent \in [Conns -> Seq(Frames)]
  BY DEF TypeOK
<1>2. sent' = [sent EXCEPT ![c] = Append(sent[c], [kind |-> kind, by |-> by])]
  BY DEF Put
<1>3. DEFINE s == Append(sent[c], [kind |-> kind, by |-> by])
<1>4. s \in Seq(Frames) /\ Len(s) = Len(sent[c]) + 1
  BY <1>1
<1>5. /\ sent' \in [Conns -> Seq(Frames)] /\ sent'[c] = s
      /\ \A d \in Conns : d # c => sent'[d] = sent[d]
  BY <1>1, <1>2, <1>4
<1>6. sent[c] # <<>> => s[1] = sent[c][1]
  BY <1>1
<1>7. sent[c] = <<>> => s[1] = [kind |-> kind, by |-> by]
  BY <1>1
<1>8. s # <<>>
  BY <1>1
<1>9. QED
  BY <1>4, <1>5, <1>6, <1>7, <1>8

\* The frames the code writes are frames.
LEMMA FrameType ==
  ASSUME NEW c \in Conns \cup {None}
  PROVE  /\ [kind |-> "Error", by |-> c] \in Frames
         /\ [kind |-> "Welcome", by |-> c] \in Frames
         /\ [kind |-> FrameKind(c), by |-> c] \in Frames
<1>1. FrameKind(c) \in {"Welcome", "Pong", "UserList", "Message", "Error"}
  BY DEF FrameKind
<1>2. QED
  BY <1>1 DEF Frames

\* Types are preserved.
LEMMA TypeStep == IInv /\ [Next]_vars => TypeOK'
<1> SUFFICES ASSUME IInv, [Next]_vars PROVE TypeOK'
  OBVIOUS
<1> USE ConnsAssumption, BoundsAssumption, ClientsAssumption
<1> USE DEF IInv, TypeOK, Goto, Lock, UnlockAll, Threads, Pcs, JoiningPcs,
            LockedPcs, acceptorVars, mainVars, joinVars, loopVars, lockVars,
            netVars
<1>1. ASSUME NEW c \in Conns, Connect(c) PROVE TypeOK'
  BY <1>1 DEF Connect
<1>2. ASSUME NEW c \in Conns, PeerStep(c) PROVE TypeOK'
  <2>1. CASE peer' = [peer EXCEPT ![c] = "eof"]
    BY <1>2, <2>1 DEF PeerStep
  <2>2. CASE peer' = [peer EXCEPT ![c] = "reset"]
    BY <1>2, <2>2 DEF PeerStep
  <2>3. CASE peer' = [peer EXCEPT ![c] = "stalled"]
    BY <1>2, <2>3 DEF PeerStep
  <2>4. CASE peer' = [peer EXCEPT ![c] = "open"]
    BY <1>2, <2>4 DEF PeerStep
  <2>5. QED
    BY <1>2, <2>1, <2>2, <2>3, <2>4 DEF PeerStep
<1>3. ASSUME NEW c \in Conns, ReadJoin(c) PROVE TypeOK'
  <2>1. CASE \E n \in MayJoin[c] : name' = [name EXCEPT ![c] = n] /\ Goto(c, "check")
    BY <1>3, <2>1 DEF ReadJoin
  <2>2. CASE Goto(c, "unexpected") /\ UNCHANGED name
    BY <1>3, <2>2 DEF ReadJoin
  <2>3. QED
    BY <1>3, <2>1, <2>2 DEF ReadJoin
<1>4. ASSUME NEW c \in Conns, JoinEof(c) PROVE TypeOK'
  BY <1>4 DEF JoinEof
<1>5. ASSUME NEW c \in Conns, CheckName(c) PROVE TypeOK'
  BY <1>5 DEF CheckName
<1>6. ASSUME NEW c \in Conns, RefuseJoin(c) PROVE TypeOK'
  BY <1>6, PutEffect, FrameType DEF RefuseJoin
<1>7. ASSUME NEW c \in Conns, SendWelcome(c) PROVE TypeOK'
  <2>1. sent' \in [Conns -> Seq(Frames)]
    BY <1>7, PutEffect, FrameType DEF SendWelcome
  <2>2. pc' \in [Conns -> Pcs]
    BY <1>7 DEF SendWelcome
  <2>3. QED
    BY <1>7, <2>1, <2>2 DEF SendWelcome
<1>8. ASSUME NEW c \in Conns, Insert(c) PROVE TypeOK'
  BY <1>8 DEF Insert
<1>9. ASSUME NEW c \in Conns, Receive(c) PROVE TypeOK'
  BY <1>9 DEF Receive
<1>10. ASSUME NEW c \in Conns, Eof(c) PROVE TypeOK'
  BY <1>10 DEF Eof
<1>11. ASSUME NEW c \in Conns, ReadError(c) PROVE TypeOK'
  BY <1>11 DEF ReadError
<1>12. ASSUME NEW c \in Conns, Lookup(c) PROVE TypeOK'
  <2>1. Audience(c) \in SUBSET Conns
    BY <1>12 DEF Lookup, Audience, Others, Own, HandlerInv, HandlerOK
  <2>2. tgt' \in [Threads -> Conns \cup {None}] /\ todo' \in [Threads -> SUBSET Conns]
    BY <1>12, <2>1, AimType DEF Lookup
  <2>3. pc' \in [Conns -> Pcs]
    <3>1. AfterRequest(c) \in Pcs
      BY DEF AfterRequest
    <3>2. (IF req[c].op = "SendDM" THEN "locksender" ELSE "lock") \in Pcs
      OBVIOUS
    <3>3. \E l \in Pcs : Goto(c, l)
      BY <1>12, <3>1, <3>2 DEF Lookup
    <3>4. QED
      BY <3>3
  <2>4. readers' \subseteq Threads
    BY <1>12 DEF Lookup
  <2>5. QED
    BY <1>12, <2>2, <2>3, <2>4 DEF Lookup
<1>13. ASSUME NEW c \in Conns, LockSender(c) PROVE TypeOK'
  <2>1. clients[req[c].to] \in Conns \cup {None}
    BY <1>13 DEF LockSender, HandlerInv, HandlerOK
  <2>2. tgt' \in [Threads -> Conns \cup {None}] /\ pc' \in [Conns -> Pcs]
    <3>1. CASE HasRecipient(c)
      BY <1>13, <2>1, <3>1 DEF LockSender
    <3>2. CASE ~HasRecipient(c)
      BY <1>13, <3>2 DEF LockSender
    <3>3. QED
      BY <3>1, <3>2
  <2>3. QED
    BY <1>13, <2>2 DEF LockSender
<1>14. ASSUME NEW c \in Conns, LockWriter(c) PROVE TypeOK'
  BY <1>14 DEF LockWriter
<1>15. ASSUME NEW c \in Conns, FinishWrite(c) PROVE TypeOK'
  <2>1. tgt[c] \in Conns /\ todo[c] \in SUBSET Conns
    BY <1>15 DEF MutexInv, MutexOK, FinishWrite
  <2>2. tgt' \in [Threads -> Conns \cup {None}] /\ todo' \in [Threads -> SUBSET Conns]
    BY <1>15, <2>1, AimType DEF FinishWrite
  <2>3. sent' \in [Conns -> Seq(Frames)]
    BY <1>15, <2>1, PutEffect, FrameType DEF FinishWrite
  <2>4. QED
    BY <1>15, <2>2, <2>3 DEF FinishWrite, AfterRequest
<1>16. ASSUME NEW c \in Conns, WriteError(c) PROVE TypeOK'
  <2>1. tgt' \in [Threads -> Conns \cup {None}] /\ todo' \in [Threads -> SUBSET Conns]
    BY <1>16, AimType DEF WriteError
  <2>2. QED
    BY <1>16, <2>1 DEF WriteError
<1>17. ASSUME NEW c \in Conns, Leave(c) PROVE TypeOK'
  BY <1>17 DEF Leave
<1>18. CASE Accept
  BY <1>18 DEF Accept
<1>19. CASE SeeTermination
  BY <1>19 DEF SeeTermination
<1>20. CASE Spawn
  <2>1. accConn \in Conns
    BY <1>20 DEF Spawn, AcceptorInv, FreshInv
  <2>2. QED
    BY <1>20, <2>1 DEF Spawn, Unfinished
<1>21. CASE Full
  BY <1>21 DEF Full, Unfinished
<1>22. CASE Reject
  BY <1>22, PutEffect, FrameType DEF Reject, AcceptorInv
<1>23. CASE BeginDrop
  BY <1>23 DEF BeginDrop
<1>24. CASE WakeAcceptor
  BY <1>24 DEF WakeAcceptor
<1>25. CASE JoinAcceptor
  <2>1. Registered \in SUBSET Conns
    BY DEF Registered
  <2>2. tgt' \in [Threads -> Conns \cup {None}] /\ todo' \in [Threads -> SUBSET Conns]
    BY <1>25, <2>1, AimType DEF JoinAcceptor
  <2>3. QED
    BY <1>25, <2>2 DEF JoinAcceptor
<1>26. CASE ShutdownClient
  <2>1. tgt' \in [Threads -> Conns \cup {None}] /\ todo' \in [Threads -> SUBSET Conns]
    BY <1>26, AimType DEF ShutdownClient
  <2>2. QED
    BY <1>26, <2>1 DEF ShutdownClient
<1>27. CASE JoinHandlers
  BY <1>27 DEF JoinHandlers
<1>28. CASE UNCHANGED vars
  BY <1>28 DEF vars, acceptorVars, mainVars, joinVars, loopVars, lockVars,
     netVars
<1>29. QED
  BY <1>1, <1>2, <1>3, <1>4, <1>5, <1>6, <1>7, <1>8, <1>9, <1>10, <1>11,
     <1>12, <1>13, <1>14, <1>15, <1>16, <1>17, <1>18, <1>19, <1>20, <1>21,
     <1>22, <1>23, <1>24, <1>25, <1>26, <1>27, <1>28 DEF Next, HandlerStep,
     ClientStep, AcceptorStep, DropStep, Idle

\* What a step may do to the frames sent to a connection.
SentStep(d) ==
  \/ sent'[d] = sent[d]
  \/ Welcomed(d) /\ Welcomed(d)'
  \/ /\ sent[d] = <<>> /\ Len(sent'[d]) = 1
     /\ \/ pc[d] = "welcome" /\ pc'[d] = "insert" /\ Welcomed(d)'
        \/ /\ sent'[d][1].kind = "Error"
           /\ \/ pc[d] \in {"taken", "unexpected"} /\ pc'[d] = "done"
              \/ acc = "reject" /\ accConn = d /\ accConn' # d

\* A step writes to a welcomed client, or the first frame of a client.
LEMMA FramesGrow == IInv /\ [Next]_vars => \A d \in Conns : SentStep(d)
<1> SUFFICES ASSUME IInv, [Next]_vars PROVE \A d \in Conns : SentStep(d)
  OBVIOUS
<1> USE ConnsAssumption
<1> USE DEF IInv, SentStep
<1>1. ASSUME NEW c \in Conns, Connect(c) PROVE \A d \in Conns : SentStep(d)
  BY <1>1 DEF Connect, acceptorVars, mainVars, joinVars, loopVars, lockVars,
     netVars
<1>2. ASSUME NEW c \in Conns, PeerStep(c) PROVE \A d \in Conns : SentStep(d)
  BY <1>2 DEF PeerStep, acceptorVars, mainVars, joinVars, loopVars, lockVars,
     netVars
<1>3. ASSUME NEW c \in Conns, ReadJoin(c) PROVE \A d \in Conns : SentStep(d)
  BY <1>3 DEF ReadJoin, acceptorVars, mainVars, joinVars, loopVars, lockVars,
     netVars
<1>4. ASSUME NEW c \in Conns, JoinEof(c) PROVE \A d \in Conns : SentStep(d)
  BY <1>4 DEF JoinEof, acceptorVars, mainVars, joinVars, loopVars, lockVars,
     netVars
<1>5. ASSUME NEW c \in Conns, CheckName(c) PROVE \A d \in Conns : SentStep(d)
  BY <1>5 DEF CheckName, acceptorVars, mainVars, joinVars, loopVars, lockVars,
     netVars
<1>6. ASSUME NEW c \in Conns, RefuseJoin(c) PROVE \A d \in Conns : SentStep(d)
  <2>1. CASE Put(c, "Error", c)
    <3>1. sent[c] = <<>> /\ pc'[c] = "done"
      BY <1>6 DEF RefuseJoin, Goto, TypeOK, HandlerInv, HandlerOK, JoiningPcs
    <3>2. QED
      BY <1>6, <2>1, <3>1, PutEffect, FrameType DEF RefuseJoin
  <2>2. QED
    BY <1>6, <2>1 DEF RefuseJoin
<1>7. ASSUME NEW c \in Conns, SendWelcome(c) PROVE \A d \in Conns : SentStep(d)
  <2>1. CASE Put(c, "Welcome", c) /\ Goto(c, "insert")
    <3>1. sent[c] = <<>> /\ pc'[c] = "insert"
      BY <1>7, <2>1 DEF SendWelcome, Goto, TypeOK, HandlerInv, HandlerOK, JoiningPcs
    <3>2. QED
      BY <1>7, <2>1, <3>1, PutEffect, FrameType DEF SendWelcome, Welcomed
  <2>2. QED
    BY <1>7, <2>1 DEF SendWelcome
<1>8. ASSUME NEW c \in Conns, Insert(c) PROVE \A d \in Conns : SentStep(d)
  BY <1>8 DEF Insert, acceptorVars, mainVars, joinVars, loopVars, lockVars,
     netVars
<1>9. ASSUME NEW c \in Conns, Receive(c) PROVE \A d \in Conns : SentStep(d)
  BY <1>9 DEF Receive, acceptorVars, mainVars, joinVars, loopVars, lockVars,
     netVars
<1>10. ASSUME NEW c \in Conns, Eof(c) PROVE \A d \in Conns : SentStep(d)
  BY <1>10 DEF Eof, acceptorVars, mainVars, joinVars, loopVars, lockVars,
     netVars
<1>11. ASSUME NEW c \in Conns, ReadError(c) PROVE \A d \in Conns : SentStep(d)
  BY <1>11 DEF ReadError, acceptorVars, mainVars, joinVars, loopVars,
     lockVars, netVars
<1>12. ASSUME NEW c \in Conns, Lookup(c) PROVE \A d \in Conns : SentStep(d)
  BY <1>12 DEF Lookup, acceptorVars, mainVars, joinVars, loopVars, lockVars,
     netVars
<1>13. ASSUME NEW c \in Conns, LockSender(c) PROVE \A d \in Conns : SentStep(d)
  BY <1>13 DEF LockSender, acceptorVars, mainVars, joinVars, loopVars,
     lockVars, netVars
<1>14. ASSUME NEW c \in Conns, LockWriter(c) PROVE \A d \in Conns : SentStep(d)
  BY <1>14 DEF LockWriter, acceptorVars, mainVars, joinVars, loopVars,
     lockVars, netVars
<1>15. ASSUME NEW c \in Conns, FinishWrite(c) PROVE \A d \in Conns : SentStep(d)
  <2>1. PICK x \in Conns : x = tgt[c] /\ Welcomed(x)
    BY <1>15 DEF FinishWrite, MutexInv, MutexOK, TargetInv, TargetsIn, WelcomedConns, LockedPcs, Threads
  <2>2. Put(x, FrameKind(c), c)
    BY <1>15, <2>1 DEF FinishWrite
  <2>3. Welcomed(x)'
    BY <2>1, <2>2, PutEffect, FrameType DEF Welcomed
  <2>4. \A d \in Conns : d # x => sent'[d] = sent[d]
    BY <2>1, <2>2, PutEffect, FrameType
  <2>5. QED
    BY <2>1, <2>3, <2>4
<1>16. ASSUME NEW c \in Conns, WriteError(c) PROVE \A d \in Conns : SentStep(d)
  BY <1>16 DEF WriteError, acceptorVars, mainVars, joinVars, loopVars,
     lockVars, netVars
<1>17. ASSUME NEW c \in Conns, Leave(c) PROVE \A d \in Conns : SentStep(d)
  BY <1>17 DEF Leave, acceptorVars, mainVars, joinVars, loopVars, lockVars,
     netVars
<1>18. CASE Accept
  BY <1>18 DEF Accept, acceptorVars, mainVars, joinVars, loopVars, lockVars,
     netVars
<1>19. CASE SeeTermination
  BY <1>19 DEF SeeTermination, acceptorVars, mainVars, joinVars, loopVars,
     lockVars, netVars
<1>20. CASE Spawn
  BY <1>20 DEF Spawn, acceptorVars, mainVars, joinVars, loopVars, lockVars,
     netVars
<1>21. CASE Full
  BY <1>21 DEF Full, acceptorVars, mainVars, joinVars, loopVars, lockVars,
     netVars
<1>22. CASE Reject
  <2>1. CASE Put(accConn, "Error", None)
    <3>1. accConn \in Conns /\ sent[accConn] = <<>> /\ accConn' = None
      BY <1>22 DEF Reject, AcceptorInv, FreshInv, Fresh
    <3>2. QED
      BY <1>22, <2>1, <3>1, PutEffect, FrameType DEF Reject
  <2>2. QED
    BY <1>22, <2>1 DEF Reject
<1>23. CASE BeginDrop
  BY <1>23 DEF BeginDrop, acceptorVars, mainVars, joinVars, loopVars,
     lockVars, netVars
<1>24. CASE WakeAcceptor
  BY <1>24 DEF WakeAcceptor, acceptorVars, mainVars, joinVars, loopVars,
     lockVars, netVars
<1>25. CASE JoinAcceptor
  BY <1>25 DEF JoinAcceptor, acceptorVars, mainVars, joinVars, loopVars,
     lockVars, netVars
<1>26. CASE ShutdownClient
  BY <1>26 DEF ShutdownClient, acceptorVars, mainVars, joinVars, loopVars,
     lockVars, netVars
<1>27. CASE JoinHandlers
  BY <1>27 DEF JoinHandlers, acceptorVars, mainVars, joinVars, loopVars,
     lockVars, netVars
<1>28. CASE UNCHANGED vars
  BY <1>28 DEF vars, acceptorVars, mainVars, joinVars, loopVars, lockVars,
     netVars
<1>29. QED
  BY <1>1, <1>2, <1>3, <1>4, <1>5, <1>6, <1>7, <1>8, <1>9, <1>10, <1>11,
     <1>12, <1>13, <1>14, <1>15, <1>16, <1>17, <1>18, <1>19, <1>20, <1>21,
     <1>22, <1>23, <1>24, <1>25, <1>26, <1>27, <1>28 DEF Next, HandlerStep,
     ClientStep, AcceptorStep, DropStep, Idle

\* Every step keeps HandlerOK of every connection.
LEMMA HandlerStepOK == IInv /\ [Next]_vars => \A d \in Conns : HandlerOK(d)'
<1> SUFFICES ASSUME IInv, [Next]_vars PROVE \A d \in Conns : HandlerOK(d)'
  OBVIOUS
<1>0. TAKE d \in Conns
<1>a. HandlerOK(d) /\ SentStep(d) /\ pc \in [Conns -> Pcs]
  BY FramesGrow DEF IInv, HandlerInv, TypeOK
<1>b. accConn = d => pc[d] = "none"
  BY DEF IInv, FreshInv, Fresh
<1>c. Welcomed(d) => Welcomed(d)'
  BY <1>a DEF SentStep, Welcomed
<1>d. pc'[d] = pc[d] /\ pc[d] \in JoiningPcs => sent'[d] = <<>>
  BY <1>a, <1>b DEF SentStep, Welcomed, HandlerOK, JoiningPcs
<1>e. ASSUME pc'[d] = pc[d], name'[d] = name[d], req'[d] = req[d] PROVE HandlerOK(d)'
  BY <1>a, <1>c, <1>d, <1>e DEF HandlerOK
<1>f. name \in [Conns -> Names \cup {None}] /\ req \in [Conns -> Requests \cup {None}]
  BY DEF IInv, TypeOK
<1> USE <1>a, <1>c, <1>d, <1>f DEF Goto, JoiningPcs, LockedPcs
<1>1. ASSUME NEW c \in Conns, Connect(c) PROVE HandlerOK(d)'
  BY <1>1 DEF Connect, HandlerOK, acceptorVars, mainVars, joinVars, loopVars,
     lockVars, netVars
<1>2. ASSUME NEW c \in Conns, PeerStep(c) PROVE HandlerOK(d)'
  BY <1>2 DEF PeerStep, HandlerOK, acceptorVars, mainVars, joinVars, loopVars,
     lockVars, netVars
<1>3. ASSUME NEW c \in Conns, ReadJoin(c) PROVE HandlerOK(d)'
  <2>1. CASE d # c
    BY <1>3, <2>1, <1>e DEF ReadJoin
  <2>2. CASE d = c /\ \E n \in MayJoin[c] : name' = [name EXCEPT ![c] = n] /\ Goto(c, "check")
    <3>1. pc'[d] = "check" /\ name'[d] \in Names
      BY <2>2, ClientsAssumption
    <3>2. sent'[d] = <<>>
      BY <1>3, <2>2 DEF ReadJoin, netVars, HandlerOK
    <3>3. QED
      BY <3>1, <3>2 DEF HandlerOK
  <2>3. CASE d = c /\ Goto(c, "unexpected")
    BY <1>3, <2>3 DEF ReadJoin, netVars, HandlerOK
  <2>4. QED
    BY <1>3, <2>1, <2>2, <2>3 DEF ReadJoin
<1>4. ASSUME NEW c \in Conns, JoinEof(c) PROVE HandlerOK(d)'
  BY <1>4 DEF JoinEof, HandlerOK, acceptorVars, mainVars, joinVars, loopVars,
     lockVars, netVars
<1>5. ASSUME NEW c \in Conns, CheckName(c) PROVE HandlerOK(d)'
  BY <1>5 DEF CheckName, HandlerOK, acceptorVars, mainVars, joinVars,
     loopVars, lockVars, netVars
<1>6. ASSUME NEW c \in Conns, RefuseJoin(c) PROVE HandlerOK(d)'
  <2>1. CASE d # c
    BY <1>6, <2>1, <1>e DEF RefuseJoin, joinVars
  <2>2. CASE d = c
    BY <1>6, <2>2 DEF RefuseJoin, HandlerOK
  <2>3. QED
    BY <2>1, <2>2
<1>7. ASSUME NEW c \in Conns, SendWelcome(c) PROVE HandlerOK(d)'
  <2>1. CASE d # c
    BY <1>7, <2>1, <1>e DEF SendWelcome, joinVars
  <2>2. CASE d = c /\ Put(c, "Welcome", c) /\ Goto(c, "insert")
    <3>1. sent[c] = <<>>
      BY <1>7, <2>2 DEF SendWelcome, HandlerOK
    <3>2. Welcomed(d)'
      BY <1>7, <2>2, <3>1, PutEffect, FrameType DEF Welcomed, IInv
    <3>3. QED
      BY <1>7, <2>2, <3>2 DEF SendWelcome, joinVars, HandlerOK
  <2>3. CASE d = c /\ Goto(c, "done")
    BY <1>7, <2>3 DEF SendWelcome, joinVars, HandlerOK
  <2>4. QED
    BY <1>7, <2>1, <2>2, <2>3 DEF SendWelcome
<1>8. ASSUME NEW c \in Conns, Insert(c) PROVE HandlerOK(d)'
  BY <1>8 DEF Insert, HandlerOK, acceptorVars, mainVars, joinVars, loopVars,
     lockVars, netVars
<1>9. ASSUME NEW c \in Conns, Receive(c) PROVE HandlerOK(d)'
  <2>1. CASE d # c
    BY <1>9, <2>1, <1>e DEF Receive, joinVars
  <2>2. CASE d = c
    BY <1>9, <2>2 DEF Receive, HandlerOK
  <2>3. QED
    BY <2>1, <2>2
<1>10. ASSUME NEW c \in Conns, Eof(c) PROVE HandlerOK(d)'
  BY <1>10 DEF Eof, HandlerOK, acceptorVars, mainVars, joinVars, loopVars,
     lockVars, netVars
<1>11. ASSUME NEW c \in Conns, ReadError(c) PROVE HandlerOK(d)'
  BY <1>11 DEF ReadError, HandlerOK, acceptorVars, mainVars, joinVars,
     loopVars, lockVars, netVars
<1>12. ASSUME NEW c \in Conns, Lookup(c) PROVE HandlerOK(d)'
  <2>1. CASE d # c
    BY <1>12, <2>1, <1>e DEF Lookup, joinVars
  <2>2. CASE d = c
    <3>1. Welcomed(d) /\ name'[d] = name[d] /\ req'[d] = req[d]
      BY <1>12, <2>2 DEF HandlerOK, Lookup, joinVars
    <3>2. name[d] \in Names /\ req[d] \in MayAsk[d]
      BY <1>12, <2>2 DEF HandlerOK, Lookup
    <3>3. pc'[d] \in {"leave", "serve", "lock", "locksender"}
      BY <1>12, <2>2 DEF HandlerOK, Lookup, AfterRequest
    <3>4. pc'[d] = "locksender" => req[d].op = "SendDM"
      BY <1>12, <2>2 DEF HandlerOK, Lookup, AfterRequest
    <3>5. QED
      BY <3>1, <3>2, <3>3, <3>4 DEF HandlerOK
  <2>3. QED
    BY <2>1, <2>2
<1>13. ASSUME NEW c \in Conns, LockSender(c) PROVE HandlerOK(d)'
  BY <1>13 DEF LockSender, HandlerOK, acceptorVars, mainVars, joinVars,
     loopVars, lockVars, netVars
<1>14. ASSUME NEW c \in Conns, LockWriter(c) PROVE HandlerOK(d)'
  BY <1>14 DEF LockWriter, HandlerOK, acceptorVars, mainVars, joinVars,
     loopVars, lockVars, netVars
<1>15. ASSUME NEW c \in Conns, FinishWrite(c) PROVE HandlerOK(d)'
  <2>1. CASE d # c
    BY <1>15, <2>1, <1>e DEF FinishWrite, joinVars
  <2>2. CASE d = c
    <3>1. Welcomed(d) /\ name'[d] = name[d] /\ req'[d] = req[d]
      BY <1>15, <2>2 DEF HandlerOK, FinishWrite, joinVars
    <3>2. name[d] \in Names /\ req[d] \in MayAsk[d]
      BY <1>15, <2>2 DEF HandlerOK, FinishWrite
    <3>3. pc'[d] \in {"leave", "serve", "lock"}
      BY <1>15, <2>2 DEF HandlerOK, FinishWrite, AfterRequest
    <3>4. QED
      BY <3>1, <3>2, <3>3 DEF HandlerOK
  <2>3. QED
    BY <2>1, <2>2
<1>16. ASSUME NEW c \in Conns, WriteError(c) PROVE HandlerOK(d)'
  BY <1>16 DEF WriteError, HandlerOK, acceptorVars, mainVars, joinVars,
     loopVars, lockVars, netVars
<1>17. ASSUME NEW c \in Conns, Leave(c) PROVE HandlerOK(d)'
  BY <1>17 DEF Leave, HandlerOK, acceptorVars, mainVars, joinVars, loopVars,
     lockVars, netVars
<1>18. CASE Accept
  BY <1>18 DEF Accept, HandlerOK, acceptorVars, mainVars, joinVars, loopVars,
     lockVars, netVars
<1>19. CASE SeeTermination
  BY <1>19 DEF SeeTermination, HandlerOK, acceptorVars, mainVars, joinVars,
     loopVars, lockVars, netVars
<1>20. CASE Spawn
  <2>1. accConn \in Conns /\ sent[accConn] = <<>>
    BY <1>20 DEF IInv, Spawn, AcceptorInv, FreshInv, Fresh
  <2>2. QED
    BY <1>20, <2>1 DEF HandlerOK, Spawn, joinVars, netVars
<1>21. CASE Full
  BY <1>21 DEF Full, HandlerOK, acceptorVars, mainVars, joinVars, loopVars,
     lockVars, netVars
<1>22. CASE Reject
  BY <1>22, <1>e DEF Reject, joinVars
<1>23. CASE BeginDrop
  BY <1>23 DEF BeginDrop, HandlerOK, acceptorVars, mainVars, joinVars,
     loopVars, lockVars, netVars
<1>24. CASE WakeAcceptor
  BY <1>24 DEF WakeAcceptor, HandlerOK, acceptorVars, mainVars, joinVars,
     loopVars, lockVars, netVars
<1>25. CASE JoinAcceptor
  BY <1>25 DEF JoinAcceptor, HandlerOK, acceptorVars, mainVars, joinVars,
     loopVars, lockVars, netVars
<1>26. CASE ShutdownClient
  BY <1>26 DEF ShutdownClient, HandlerOK, acceptorVars, mainVars, joinVars,
     loopVars, lockVars, netVars
<1>27. CASE JoinHandlers
  BY <1>27 DEF JoinHandlers, HandlerOK, acceptorVars, mainVars, joinVars,
     loopVars, lockVars, netVars
<1>28. CASE UNCHANGED vars
  BY <1>28, <1>e DEF vars, acceptorVars, mainVars, joinVars, loopVars, lockVars,
     netVars
<1>29. QED
  BY <1>1, <1>2, <1>3, <1>4, <1>5, <1>6, <1>7, <1>8, <1>9, <1>10, <1>11,
     <1>12, <1>13, <1>14, <1>15, <1>16, <1>17, <1>18, <1>19, <1>20, <1>21,
     <1>22, <1>23, <1>24, <1>25, <1>26, <1>27, <1>28 DEF Next, HandlerStep,
     ClientStep, AcceptorStep, DropStep, Idle

\* HandlerInv is preserved.
LEMMA HandlerInvStep == IInv /\ [Next]_vars => HandlerInv'
BY HandlerStepOK DEF HandlerInv

\* Who has been welcomed stays welcomed.
LEMMA WelcomedStay == IInv /\ [Next]_vars => WelcomedConns \subseteq WelcomedConns'
BY FramesGrow DEF SentStep, Welcomed, WelcomedConns

\* TargetInv is preserved.
LEMMA TargetStep == IInv /\ [Next]_vars => TargetInv'
<1> SUFFICES ASSUME IInv, [Next]_vars PROVE TargetInv'
  OBVIOUS
<1>a. PICK W : W = WelcomedConns'
  OBVIOUS
<1>b. WelcomedConns \subseteq W
  BY <1>a, WelcomedStay
<1>c. TargetsIn(W)
  BY <1>b DEF IInv, TargetInv, TargetsIn
<1>d. SUFFICES TargetsIn(W)'
  BY <1>a DEF TargetInv, TargetsIn
<1> USE <1>c DEF TargetsIn
<1>1. ASSUME NEW c \in Conns, Insert(c) PROVE TargetsIn(W)'
  <2>1. c \in W
    BY <1>1, <1>b DEF Insert, IInv, HandlerInv, HandlerOK, WelcomedConns
  <2>2. QED
    BY <1>1, <2>1 DEF Insert, loopVars
<1>2. ASSUME NEW c \in Conns, Lookup(c) PROVE TargetsIn(W)'
  <2>1. Audience(c) \in SUBSET W
    BY <1>2 DEF Lookup, Audience, Others, Own, IInv, HandlerInv, HandlerOK
  <2>2. QED
    BY <1>2, <2>1, AimType DEF Lookup
<1>3. ASSUME NEW c \in Conns, LockSender(c) PROVE TargetsIn(W)'
  <2>1. clients[req[c].to] \in W \cup {None}
    BY <1>3, ClientsAssumption DEF LockSender, IInv, HandlerInv, HandlerOK, LockedPcs
  <2>2. QED
    BY <1>3, <2>1 DEF LockSender, HasRecipient
<1>4. ASSUME NEW c \in Conns, FinishWrite(c) PROVE TargetsIn(W)'
  <2>1. todo[c] \in SUBSET W
    BY DEF Threads
  <2>2. QED
    BY <1>4, <2>1, AimType DEF FinishWrite
<1>5. ASSUME NEW c \in Conns, WriteError(c) PROVE TargetsIn(W)'
  BY <1>5, AimType DEF WriteError
<1>6. CASE JoinAcceptor
  <2>1. Registered \in SUBSET W
    BY DEF Registered
  <2>2. QED
    BY <1>6, <2>1, AimType DEF JoinAcceptor
<1>7. CASE ShutdownClient
  <2>1. todo[Main] \in SUBSET W
    BY DEF Threads
  <2>2. QED
    BY <1>7, <2>1, AimType DEF ShutdownClient, lockVars
<1>8. ASSUME NEW c \in Conns,
              \/ Connect(c) \/ PeerStep(c) \/ ReadJoin(c) \/ JoinEof(c)
              \/ CheckName(c) \/ RefuseJoin(c) \/ SendWelcome(c)
              \/ Receive(c) \/ Eof(c) \/ ReadError(c) \/ LockWriter(c)
              \/ Leave(c)
      PROVE  TargetsIn(W)'
  BY <1>8 DEF Connect, PeerStep, ReadJoin, JoinEof, CheckName, RefuseJoin,
     SendWelcome, Receive, Eof, ReadError, LockWriter, Leave, lockVars,
     loopVars
<1>9. CASE \/ Accept \/ SeeTermination \/ Spawn \/ Full \/ Reject
            \/ BeginDrop \/ WakeAcceptor \/ JoinHandlers
  BY <1>9 DEF Accept, SeeTermination, Spawn, Full, Reject, BeginDrop,
     WakeAcceptor, JoinHandlers, lockVars, loopVars
<1>10. CASE UNCHANGED vars
  BY <1>10 DEF vars, acceptorVars, mainVars, joinVars, loopVars, lockVars,
     netVars
<1>11. QED
  BY <1>1, <1>2, <1>3, <1>4, <1>5, <1>6, <1>7, <1>8, <1>9, <1>10 DEF Next,
     HandlerStep, ClientStep, AcceptorStep, DropStep, Idle

\* FreshInv is preserved.
LEMMA FreshStep == IInv /\ [Next]_vars => FreshInv'
<1> SUFFICES ASSUME IInv, [Next]_vars PROVE FreshInv'
  OBVIOUS
<1>a. /\ backlog \in Seq(Conns \cup {Wake}) /\ pc \in [Conns -> Pcs]
      /\ None \notin Conns /\ Wake # None /\ Wake \notin Conns
      /\ accConn \in Conns \cup {Wake, None}
  BY ConnsAssumption DEF IInv, TypeOK
<1>b. FreshInv /\ AcceptorInv
  BY DEF IInv
<1>c. ASSUME NEW d \in Conns, pc[d] = "none", sent[d] = <<>>,
             ~(acc = "reject" /\ accConn = d /\ accConn' # d)
      PROVE  sent'[d] = <<>>
  BY <1>c, FramesGrow DEF SentStep, Welcomed
<1>d. ASSUME backlog' = backlog, accConn' \in {accConn, None}, terminated => terminated',
             \A d \in Conns :
               /\ d # accConn => (pc[d] = "none" => pc'[d] = "none")
               /\ d = accConn => accConn' = None \/ pc'[d] = "none"
               /\ peer'[d] = "absent" <=> peer[d] = "absent"
      PROVE  FreshInv'
  <2>1. ASSUME NEW x, x # accConn, Fresh(x)
        PROVE  Fresh(x)'
    BY <1>c, <1>d, <2>1 DEF Fresh
  <2>2. Fresh(accConn)'
    BY <1>a, <1>b, <1>c, <1>d DEF FreshInv, Fresh
  <2>3. ASSUME NEW d \in Conns, peer'[d] = "absent"
        PROVE  pc'[d] = "none" /\ sent'[d] = <<>>
    <3>1. peer[d] = "absent" /\ pc[d] = "none" /\ sent[d] = <<>>
      BY <1>b, <1>d, <2>3 DEF FreshInv
    <3>2. d # accConn
      BY <1>b, <3>1 DEF FreshInv, Fresh
    <3>3. QED
      BY <1>c, <1>d, <3>1, <3>2
  <2>4. ASSUME NEW i \in 1 .. Len(backlog)
        PROVE  /\ backlog[i] \in Conns => pc'[backlog[i]] = "none" /\ sent'[backlog[i]] = <<>>
                                             /\ peer'[backlog[i]] # "absent"
               /\ backlog[i] = Wake => terminated'
               /\ backlog[i] \in Conns => backlog[i] # accConn'
    BY <1>a, <1>b, <1>c, <1>d, <2>4 DEF FreshInv, Fresh
  <2>5. QED
    BY <1>b, <1>a, <1>d, <2>2, <2>3, <2>4 DEF FreshInv, Fresh
<1> USE <1>a DEF Goto
<1>1. ASSUME NEW c \in Conns, Connect(c) PROVE FreshInv'
  <2>1. /\ backlog' = Append(backlog, c) /\ peer' = [peer EXCEPT ![c] = "open"]
        /\ peer[c] = "absent" /\ UNCHANGED <<accConn, acc, terminated, pc, sent>>
        /\ peer \in [Conns -> {"absent", "open", "stalled", "eof", "reset", "shut"}]
    BY <1>1 DEF Connect, mainVars, IInv, TypeOK
  <2>2. pc[c] = "none" /\ sent[c] = <<>> /\ accConn # c
    BY <1>b, <2>1 DEF FreshInv, Fresh
  <2>3. \A i \in 1 .. Len(backlog) : backlog[i] # c
    BY <1>b, <2>1 DEF FreshInv, Fresh
  <2>4. /\ Len(backlog') = Len(backlog) + 1 /\ Len(backlog) \in Nat
        /\ backlog'[Len(backlog) + 1] = c
        /\ \A i \in 1 .. Len(backlog) : backlog'[i] = backlog[i]
    BY <2>1
  <2>5. QED
    BY <1>b, <2>1, <2>2, <2>3, <2>4 DEF FreshInv, Fresh
<1>2. ASSUME NEW c \in Conns, PeerStep(c) PROVE FreshInv'
  <2>1. \A d \in Conns : peer'[d] = "absent" <=> peer[d] = "absent"
    BY <1>2 DEF PeerStep, IInv, TypeOK
  <2>2. QED
    BY <1>2, <1>d, <2>1, <1>b DEF PeerStep, acceptorVars, mainVars, FreshInv, Fresh
<1>3. CASE Accept
  <2>1. /\ backlog # <<>> /\ accConn' = Head(backlog) /\ backlog' = Tail(backlog)
        /\ UNCHANGED <<terminated, pc, peer, sent>>
    BY <1>3 DEF Accept, mainVars, netVars
  <2>2. /\ accConn' = backlog[1] /\ 1 \in 1 .. Len(backlog)
        /\ \A i \in 1 .. Len(backlog') : i + 1 \in 1 .. Len(backlog) /\ backlog'[i] = backlog[i + 1]
    BY <2>1
  <2>3. \A i \in 1 .. Len(backlog') : backlog'[i] \in Conns => backlog'[i] # accConn'
    <3>1. ASSUME NEW i \in 1 .. Len(backlog'), backlog'[i] \in Conns, backlog'[i] = accConn'
          PROVE  FALSE
      <4>1. i + 1 = 1
        BY <1>b, <2>2, <3>1 DEF FreshInv
      <4>2. QED
        BY <4>1, <3>1
    <3>2. QED
      BY <3>1
  <2>4. \A i, j \in 1 .. Len(backlog') :
          backlog'[i] = backlog'[j] /\ backlog'[i] \in Conns => i = j
    <3>1. ASSUME NEW i \in 1 .. Len(backlog'), NEW j \in 1 .. Len(backlog'),
                 backlog'[i] = backlog'[j], backlog'[i] \in Conns
          PROVE  i = j
      <4>1. i + 1 = j + 1
        BY <1>b, <2>2, <3>1 DEF FreshInv
      <4>2. QED
        BY <4>1
    <3>2. QED
      BY <3>1
  <2>5. QED
    BY <1>b, <2>1, <2>2, <2>3, <2>4 DEF FreshInv, Fresh
<1>4. CASE SeeTermination
  BY <1>4, <1>d, <1>b DEF SeeTermination, mainVars, netVars, FreshInv, Fresh
<1>5. CASE Spawn
  <2>1. accConn \in Conns /\ accConn' = None
    BY <1>5, <1>b DEF Spawn, AcceptorInv, FreshInv
  <2>2. QED
    BY <1>5, <1>d, <2>1 DEF Spawn, mainVars, netVars
<1>6. CASE Reject
  BY <1>6, <1>d, <1>b DEF Reject, mainVars, netVars, FreshInv, Fresh
<1>7. CASE WakeAcceptor
  <2>1. /\ accConn' = accConn /\ acc' = acc /\ terminated' = terminated
        /\ pc' = pc /\ peer' = peer /\ sent' = sent
    BY <1>7 DEF WakeAcceptor, netVars
  <2>2. terminated
    BY <1>7 DEF WakeAcceptor, IInv, TerminatedInv
  <2>3. /\ Len(backlog') = Len(backlog) + 1 /\ Len(backlog) \in Nat
        /\ backlog'[Len(backlog) + 1] = Wake
        /\ \A i \in 1 .. Len(backlog) : backlog'[i] = backlog[i]
    BY <1>7 DEF WakeAcceptor
  <2>4. ASSUME NEW i \in 1 .. Len(backlog')
        PROVE  \/ i \in 1 .. Len(backlog) /\ backlog'[i] = backlog[i]
               \/ i = Len(backlog) + 1 /\ backlog'[i] = Wake
    BY <2>3
  <2>5. ASSUME NEW i \in 1 .. Len(backlog')
        PROVE  /\ backlog'[i] \in Conns => /\ pc[backlog'[i]] = "none"
                                          /\ sent[backlog'[i]] = <<>>
                                          /\ peer[backlog'[i]] # "absent"
               /\ backlog'[i] \in Conns => backlog'[i] # accConn
    BY <1>b, <2>4 DEF FreshInv, Fresh
  <2>6. \A i, j \in 1 .. Len(backlog') :
          backlog'[i] = backlog'[j] /\ backlog'[i] \in Conns => i = j
    BY <1>b, <2>4 DEF FreshInv
  <2>7. QED
    BY <1>b, <2>1, <2>2, <2>5, <2>6 DEF FreshInv, Fresh
<1>8. CASE ShutdownClient
  <2>1. tgt[Main] \in Conns \cup {None} => \A d \in Conns : d = tgt[Main] => sent[d] # <<>>
    BY DEF IInv, TargetInv, TargetsIn, WelcomedConns, Welcomed, Threads
  <2>2. \A d \in Conns : peer'[d] = "absent" <=> peer[d] = "absent"
    BY <1>8, <1>b, <2>1 DEF ShutdownClient, IInv, TypeOK, FreshInv, Threads
  <2>3. QED
    BY <1>8, <1>d, <2>2, <1>b DEF ShutdownClient, acceptorVars, FreshInv, Fresh
<1>9. ASSUME NEW c \in Conns,
              \/ ReadJoin(c) \/ JoinEof(c) \/ CheckName(c) \/ RefuseJoin(c)
              \/ SendWelcome(c) \/ Insert(c) \/ Receive(c) \/ Eof(c)
              \/ ReadError(c) \/ Lookup(c) \/ LockSender(c) \/ LockWriter(c)
              \/ FinishWrite(c) \/ WriteError(c) \/ Leave(c)
      PROVE  FreshInv'
  BY <1>9, <1>b, <1>d DEF ReadJoin, JoinEof, CheckName, RefuseJoin,
     SendWelcome, Insert, Receive, Eof, ReadError, Lookup, LockSender,
     LockWriter, FinishWrite, WriteError, Leave, acceptorVars, mainVars,
     netVars, JoiningPcs, LockedPcs, FreshInv, Fresh
<1>10. CASE \/ Full \/ BeginDrop \/ JoinAcceptor \/ JoinHandlers
  BY <1>10, <1>b, <1>d DEF Full, BeginDrop, JoinAcceptor, JoinHandlers,
     acceptorVars, mainVars, netVars, JoiningPcs, LockedPcs, FreshInv, Fresh
<1>11. CASE UNCHANGED vars
  BY <1>b, <1>d, <1>11 DEF vars, acceptorVars, mainVars, joinVars, loopVars, lockVars,
     netVars, FreshInv, Fresh
<1>12. QED
  BY <1>1, <1>2, <1>3, <1>4, <1>5, <1>6, <1>7, <1>8, <1>9, <1>10, <1>11 DEF
     Next, HandlerStep, ClientStep, AcceptorStep, DropStep, Idle

\* MutexInv is preserved.
LEMMA MutexStep == IInv /\ [Next]_vars => MutexInv'
<1> SUFFICES ASSUME IInv, [Next]_vars PROVE MutexInv'
  OBVIOUS
<1>a. /\ pc \in [Conns -> Pcs] /\ mutex \in [Conns -> Conns \cup {None}]
      /\ tgt \in [Threads -> Conns \cup {None}]
      /\ todo \in [Threads -> SUBSET Conns] /\ Conns \subseteq Threads
  BY DEF IInv, TypeOK, Threads
<1>b. SUFFICES ASSUME NEW d \in Conns PROVE MutexOK(d)'
  BY DEF MutexInv
<1>c. MutexOK(d)
  BY DEF IInv, MutexInv
<1>d. ASSUME pc'[d] = pc[d] \/ pc'[d] \notin LockedPcs,
             tgt'[d] = tgt[d], mutex' = mutex
      PROVE  MutexOK(d)'
  BY <1>c, <1>d DEF MutexOK, LockedPcs
<1> USE <1>a DEF Goto, LockedPcs, Lock
<1>1. ASSUME NEW c \in Conns, Lookup(c) PROVE MutexOK(d)'
  <2>1. Audience(c) \in SUBSET Conns /\ Aim(c, Audience(c))
    BY <1>1 DEF Lookup, Audience, Others, Own, IInv, TypeOK, HandlerInv, HandlerOK
  <2>2. CASE d # c
    <3>1. tgt'[d] = tgt[d]
      BY <2>1, <2>2, AimTarget
    <3>2. pc'[d] = pc[d] /\ mutex' = mutex
      BY <1>1, <2>2 DEF Lookup
    <3>3. QED
      BY <1>d, <3>1, <3>2
  <2>3. CASE d = c /\ Audience(c) = {}
    BY <1>1, <2>3 DEF Lookup, AfterRequest, MutexOK
  <2>4. CASE d = c /\ Audience(c) # {}
    BY <1>1, <2>1, <2>4, AimTarget DEF Lookup, MutexOK
  <2>5. QED
    BY <2>2, <2>3, <2>4
<1>2. ASSUME NEW c \in Conns, LockSender(c) PROVE MutexOK(d)'
  <2>1. mutex[tgt[c]] = None /\ tgt[c] \in Conns /\ None \notin Conns
    BY <1>2, ConnsAssumption DEF LockSender, IInv, MutexInv, MutexOK
  <2>2. CASE HasRecipient(c)
    <3>1. clients[req[c].to] \in Conns
      BY <1>2, <2>2, ClientsAssumption DEF LockSender, HasRecipient, IInv, TypeOK, HandlerInv, HandlerOK
    <3>2. QED
      BY <1>2, <1>c, <2>1, <2>2, <3>1 DEF LockSender, MutexOK
  <2>3. CASE ~HasRecipient(c)
    BY <1>2, <1>c, <2>1, <2>3 DEF LockSender, MutexOK
  <2>4. QED
    BY <2>2, <2>3
<1>3. ASSUME NEW c \in Conns, LockWriter(c) PROVE MutexOK(d)'
  <2>1. mutex[tgt[c]] = None /\ tgt[c] \in Conns /\ None \notin Conns
    BY <1>3, ConnsAssumption DEF LockWriter, IInv, MutexInv, MutexOK
  <2>2. QED
    BY <1>3, <1>c, <2>1 DEF LockWriter, MutexOK, loopVars
<1>4. ASSUME NEW c \in Conns, FinishWrite(c) PROVE MutexOK(d)'
  <2>1. todo[c] \in SUBSET Conns /\ UnlockAll(c) /\ Aim(c, todo[c])
    BY <1>4 DEF FinishWrite
  <2>2. CASE d # c
    <3>1. tgt'[d] = tgt[d]
      BY <2>1, <2>2, AimTarget
    <3>2. pc'[d] = pc[d]
      BY <1>4, <2>2 DEF FinishWrite
    <3>3. QED
      BY <1>c, <2>1, <2>2, <3>1, <3>2 DEF UnlockAll, MutexOK
  <2>3. CASE d = c /\ todo[c] = {}
    BY <1>4, <2>3 DEF FinishWrite, AfterRequest, MutexOK
  <2>4. CASE d = c /\ todo[c] # {}
    BY <1>4, <2>1, <2>4, AimTarget DEF FinishWrite, MutexOK
  <2>5. QED
    BY <2>2, <2>3, <2>4
<1>5. ASSUME NEW c \in Conns, WriteError(c) PROVE MutexOK(d)'
  <2>1. UnlockAll(c) /\ Aim(c, {})
    BY <1>5 DEF WriteError
  <2>2. CASE d # c
    <3>1. tgt'[d] = tgt[d]
      BY <2>1, <2>2, AimTarget
    <3>2. pc'[d] = pc[d]
      BY <1>5, <2>2 DEF WriteError
    <3>3. QED
      BY <1>c, <2>1, <2>2, <3>1, <3>2 DEF UnlockAll, MutexOK
  <2>3. CASE d = c
    BY <1>5, <2>3 DEF WriteError, MutexOK
  <2>4. QED
    BY <2>2, <2>3
<1>6. CASE JoinAcceptor
  <2>1. Registered \in SUBSET Conns /\ Aim(Main, Registered) /\ d # Main
    BY <1>6, ConnsAssumption DEF JoinAcceptor, Registered, IInv, TypeOK
  <2>2. tgt'[d] = tgt[d]
    BY <2>1, AimTarget
  <2>3. QED
    BY <1>6, <1>d, <2>2 DEF JoinAcceptor
<1>7. CASE ShutdownClient
  <2>1. todo[Main] \in SUBSET Conns /\ Aim(Main, todo[Main]) /\ d # Main
    BY <1>7, ConnsAssumption DEF ShutdownClient, Threads
  <2>2. tgt'[d] = tgt[d]
    BY <2>1, AimTarget
  <2>3. QED
    BY <1>7, <1>d, <2>2 DEF ShutdownClient, lockVars
<1>8. ASSUME NEW c \in Conns,
              \/ Connect(c) \/ PeerStep(c) \/ ReadJoin(c) \/ JoinEof(c)
              \/ CheckName(c) \/ RefuseJoin(c) \/ SendWelcome(c)
              \/ Insert(c) \/ Receive(c) \/ Eof(c) \/ ReadError(c)
              \/ Leave(c)
      PROVE  MutexOK(d)'
  BY <1>8, <1>d DEF Connect, PeerStep, ReadJoin, JoinEof, CheckName,
     RefuseJoin, SendWelcome, Insert, Receive, Eof, ReadError, Leave,
     loopVars, lockVars
<1>9. CASE \/ Accept \/ SeeTermination \/ Spawn \/ Full \/ Reject
            \/ BeginDrop \/ WakeAcceptor \/ JoinHandlers
  BY <1>9, <1>d DEF Accept, SeeTermination, Spawn, Full, Reject, BeginDrop,
     WakeAcceptor, JoinHandlers, loopVars, lockVars
<1>10. CASE UNCHANGED vars
  BY <1>d, <1>10 DEF vars, acceptorVars, mainVars, joinVars, loopVars, lockVars,
     netVars, MutexOK
<1>11. QED
  BY <1>1, <1>2, <1>3, <1>4, <1>5, <1>6, <1>7, <1>8, <1>9, <1>10 DEF Next,
     HandlerStep, ClientStep, AcceptorStep, DropStep, Idle

\* LiveInv is preserved.
LEMMA LiveStep == IInv /\ [Next]_vars => LiveInv'
<1> SUFFICES ASSUME IInv, [Next]_vars PROVE LiveInv'
  OBVIOUS
<1> USE DEF IInv, LiveInv, Live, Goto
<1>1. ASSUME NEW c \in Conns, Connect(c) PROVE LiveInv'
  BY <1>1 DEF Connect, TypeOK, acceptorVars
<1>2. ASSUME NEW c \in Conns, PeerStep(c) PROVE LiveInv'
  BY <1>2 DEF PeerStep, TypeOK, acceptorVars
<1>3. ASSUME NEW c \in Conns, ReadJoin(c) PROVE LiveInv'
  BY <1>3 DEF ReadJoin, TypeOK, acceptorVars
<1>4. ASSUME NEW c \in Conns, JoinEof(c) PROVE LiveInv'
  BY <1>4 DEF JoinEof, TypeOK, acceptorVars
<1>5. ASSUME NEW c \in Conns, CheckName(c) PROVE LiveInv'
  BY <1>5 DEF CheckName, TypeOK, acceptorVars
<1>6. ASSUME NEW c \in Conns, RefuseJoin(c) PROVE LiveInv'
  BY <1>6 DEF RefuseJoin, TypeOK, acceptorVars
<1>7. ASSUME NEW c \in Conns, SendWelcome(c) PROVE LiveInv'
  BY <1>7 DEF SendWelcome, TypeOK, acceptorVars
<1>8. ASSUME NEW c \in Conns, Insert(c) PROVE LiveInv'
  BY <1>8 DEF Insert, TypeOK, acceptorVars
<1>9. ASSUME NEW c \in Conns, Receive(c) PROVE LiveInv'
  BY <1>9 DEF Receive, TypeOK, acceptorVars
<1>10. ASSUME NEW c \in Conns, Eof(c) PROVE LiveInv'
  BY <1>10 DEF Eof, TypeOK, acceptorVars
<1>11. ASSUME NEW c \in Conns, ReadError(c) PROVE LiveInv'
  BY <1>11 DEF ReadError, TypeOK, acceptorVars
<1>12. ASSUME NEW c \in Conns, Lookup(c) PROVE LiveInv'
  BY <1>12 DEF Lookup, TypeOK, acceptorVars
<1>13. ASSUME NEW c \in Conns, LockSender(c) PROVE LiveInv'
  BY <1>13 DEF LockSender, TypeOK, acceptorVars
<1>14. ASSUME NEW c \in Conns, LockWriter(c) PROVE LiveInv'
  BY <1>14 DEF LockWriter, TypeOK, acceptorVars
<1>15. ASSUME NEW c \in Conns, FinishWrite(c) PROVE LiveInv'
  BY <1>15 DEF FinishWrite, TypeOK, acceptorVars
<1>16. ASSUME NEW c \in Conns, WriteError(c) PROVE LiveInv'
  BY <1>16 DEF WriteError, TypeOK, acceptorVars
<1>17. ASSUME NEW c \in Conns, Leave(c) PROVE LiveInv'
  BY <1>17 DEF Leave, TypeOK, acceptorVars
<1>18. CASE Accept
  BY <1>18 DEF Accept, TypeOK, acceptorVars
<1>19. CASE SeeTermination
  BY <1>19 DEF SeeTermination, TypeOK, acceptorVars
<1>20. CASE Spawn
  <2>1. {c \in Conns : Live(c)}' \subseteq {c \in Conns : Live(c)} \cup {accConn}
    BY <1>20 DEF Spawn, TypeOK
  <2>2. QED
    BY <1>20, <2>1 DEF Spawn, Unfinished
<1>21. CASE Full
  BY <1>21 DEF Full, Unfinished
<1>22. CASE Reject
  BY <1>22 DEF Reject, TypeOK, acceptorVars
<1>23. CASE BeginDrop
  BY <1>23 DEF BeginDrop, TypeOK, acceptorVars
<1>24. CASE WakeAcceptor
  BY <1>24 DEF WakeAcceptor, TypeOK, acceptorVars
<1>25. CASE JoinAcceptor
  BY <1>25 DEF JoinAcceptor, TypeOK, acceptorVars
<1>26. CASE ShutdownClient
  BY <1>26 DEF ShutdownClient, TypeOK, acceptorVars
<1>27. CASE JoinHandlers
  BY <1>27 DEF JoinHandlers, Unfinished
<1>28. CASE UNCHANGED vars
  BY <1>28 DEF vars, acceptorVars, mainVars, joinVars, loopVars, lockVars,
     netVars
<1>29. QED
  BY <1>1, <1>2, <1>3, <1>4, <1>5, <1>6, <1>7, <1>8, <1>9, <1>10, <1>11,
     <1>12, <1>13, <1>14, <1>15, <1>16, <1>17, <1>18, <1>19, <1>20, <1>21,
     <1>22, <1>23, <1>24, <1>25, <1>26, <1>27, <1>28 DEF Next, HandlerStep,
     ClientStep, AcceptorStep, DropStep, Idle

\* AcceptorInv is preserved.
LEMMA AcceptorInvStep == IInv /\ [Next]_vars => AcceptorInv'
<1> SUFFICES ASSUME IInv, [Next]_vars PROVE AcceptorInv'
  OBVIOUS
<1> USE DEF IInv, AcceptorInv, FreshInv, TypeOK
<1>1. CASE Accept
  <2>1. accConn' \in Conns \cup {Wake} /\ acc' = "check"
    BY <1>1 DEF Accept
  <2>2. QED
    BY <2>1
<1>2. CASE SeeTermination
  BY <1>2 DEF SeeTermination, acceptorVars
<1>3. CASE Spawn
  BY <1>3 DEF Spawn, acceptorVars
<1>4. CASE Full
  BY <1>4 DEF Full, acceptorVars
<1>5. CASE Reject
  BY <1>5 DEF Reject, acceptorVars
<1>6. ASSUME NEW c \in Conns,
              \/ Connect(c) \/ PeerStep(c) \/ ReadJoin(c) \/ JoinEof(c)
              \/ CheckName(c) \/ RefuseJoin(c) \/ SendWelcome(c)
              \/ Insert(c) \/ Receive(c) \/ Eof(c) \/ ReadError(c)
              \/ Lookup(c) \/ LockSender(c) \/ LockWriter(c)
              \/ FinishWrite(c) \/ WriteError(c) \/ Leave(c)
      PROVE  AcceptorInv'
  BY <1>6 DEF Connect, PeerStep, ReadJoin, JoinEof, CheckName, RefuseJoin,
     SendWelcome, Insert, Receive, Eof, ReadError, Lookup, LockSender,
     LockWriter, FinishWrite, WriteError, Leave, acceptorVars
<1>7. CASE \/ BeginDrop \/ WakeAcceptor \/ JoinAcceptor \/ ShutdownClient
            \/ JoinHandlers
  BY <1>7 DEF BeginDrop, WakeAcceptor, JoinAcceptor, ShutdownClient,
     JoinHandlers, acceptorVars
<1>8. CASE UNCHANGED vars
  BY <1>8 DEF vars, acceptorVars, mainVars, joinVars, loopVars, lockVars,
     netVars
<1>9. QED
  BY <1>1, <1>2, <1>3, <1>4, <1>5, <1>6, <1>7, <1>8 DEF Next, HandlerStep,
     ClientStep, AcceptorStep, DropStep, Idle

\* TerminatedInv is preserved.
LEMMA TerminatedStep == IInv /\ [Next]_vars => TerminatedInv'
<1> SUFFICES ASSUME IInv, [Next]_vars PROVE TerminatedInv'
  OBVIOUS
<1> USE DEF IInv, TerminatedInv, TypeOK
<1>1. CASE JoinAcceptor
  <2>1. main = "joinacceptor" /\ main' \in {"joinhandlers", "shutdown"} /\ terminated' = terminated
    BY <1>1 DEF JoinAcceptor
  <2>2. QED
    BY <2>1
<1>2. CASE ShutdownClient
  <2>1. main = "shutdown" /\ main' \in {"joinhandlers", "shutdown"} /\ terminated' = terminated
    BY <1>2 DEF ShutdownClient
  <2>2. QED
    BY <2>1
<1>3. ASSUME NEW c \in Conns,
              \/ Connect(c) \/ PeerStep(c) \/ ReadJoin(c) \/ JoinEof(c)
              \/ CheckName(c) \/ RefuseJoin(c) \/ SendWelcome(c)
              \/ Insert(c) \/ Receive(c) \/ Eof(c) \/ ReadError(c)
              \/ Lookup(c) \/ LockSender(c) \/ LockWriter(c)
              \/ FinishWrite(c) \/ WriteError(c) \/ Leave(c)
      PROVE  TerminatedInv'
  BY <1>3 DEF Connect, PeerStep, ReadJoin, JoinEof, CheckName, RefuseJoin,
     SendWelcome, Insert, Receive, Eof, ReadError, Lookup, LockSender,
     LockWriter, FinishWrite, WriteError, Leave, mainVars
<1>4. CASE \/ Accept \/ SeeTermination \/ Spawn \/ Full \/ Reject
            \/ BeginDrop \/ WakeAcceptor \/ JoinHandlers
  BY <1>4 DEF Accept, SeeTermination, Spawn, Full, Reject, BeginDrop,
     WakeAcceptor, JoinHandlers, mainVars
<1>5. CASE UNCHANGED vars
  BY <1>5 DEF vars, acceptorVars, mainVars, joinVars, loopVars, lockVars,
     netVars
<1>6. QED
  BY <1>1, <1>2, <1>3, <1>4, <1>5 DEF Next, HandlerStep, ClientStep,
     AcceptorStep, DropStep, Idle

\* The initial state satisfies the invariant.
LEMMA InitInv == Init => IInv
<1> USE ConnsAssumption, BoundsAssumption DEF Init
<1>1. Init => TypeOK
  <2> SUFFICES ASSUME Init PROVE TypeOK
    OBVIOUS
  <2>1. backlog \in Seq(Conns \cup {Wake})
    OBVIOUS
  <2>2. asked \in [Conns -> 0 .. MaxRequests]
    OBVIOUS
  <2>3. sent \in [Conns -> Seq(Frames)]
    OBVIOUS
  <2>4. QED
    BY <2>1, <2>2, <2>3 DEF TypeOK, Pcs
<1>2. Init => FreshInv /\ TerminatedInv /\ AcceptorInv
  BY DEF FreshInv, TerminatedInv, AcceptorInv, Fresh
<1>3. Init => HandlerInv /\ MutexInv
  BY DEF HandlerInv, HandlerOK, MutexInv, MutexOK, JoiningPcs, LockedPcs
<1>4. Init => TargetInv /\ LiveInv
  BY DEF TargetInv, TargetsIn, LiveInv, Live
<1>5. QED
  BY <1>1, <1>2, <1>3, <1>4 DEF IInv

\* Every step preserves the invariant.
LEMMA StepInv == IInv /\ [Next]_vars => IInv'
BY TypeStep, FreshStep, TerminatedStep, AcceptorInvStep, HandlerInvStep,
   TargetStep, MutexStep, LiveStep DEF IInv

\* The invariant that the theorems below are drawn from: join_client writes
\* only to sockets nobody shares, handle_joined only to welcomed clients.
THEOREM Invariance == Spec => []IInv
<1>1. QED
  BY InitInv, StepInv, PTL DEF Spec

\* Every variable keeps its type, whatever clients and the scheduler do.
THEOREM TypeCorrect == Spec => []TypeOK
<1>1. IInv => TypeOK
  BY DEF IInv
<1>2. QED
  BY Invariance, <1>1, PTL

\* No two threads are ever in the middle of a frame to the same client: the
\* writer Mutex covers the shared writers, and the unshared ones (the Welcome,
\* the errors of join_client, "Server is full") are out of everybody's reach.
THEOREM FramesNeverInterleave == Spec => []NoInterleaving
<1>1. IInv => NoInterleaving
  <2> SUFFICES ASSUME IInv, NEW c \in Conns, NEW s \in MidFrame(c), NEW t \in MidFrame(c)
               PROVE  s = t
    BY DEF NoInterleaving
  <2> DEFINE Joins(u) == u \in Conns /\ pc[u] \in {"taken", "unexpected", "welcome"} /\ u = c
             Writes(u) == u \in Conns /\ pc[u] = "write" /\ tgt[u] = c
             Rejects(u) == u = Main /\ acc = "reject" /\ accConn = c
  <2>1. \A u \in MidFrame(c) : Joins(u) \/ Writes(u) \/ Rejects(u)
    BY DEF MidFrame
  <2>2. ASSUME NEW u, Joins(u)
        PROVE  sent[c] = <<>> /\ pc[c] # "none"
    BY <2>2 DEF IInv, HandlerInv, HandlerOK, JoiningPcs
  <2>3. ASSUME NEW u, Writes(u)
        PROVE  sent[c] # <<>> /\ mutex[c] = u
    <3>1. c \in WelcomedConns
      BY <2>3, ConnsAssumption DEF IInv, TargetInv, TargetsIn, Threads
    <3>2. mutex[c] = u
      BY <2>3 DEF IInv, MutexInv, MutexOK
    <3>3. QED
      BY <3>1, <3>2 DEF WelcomedConns, Welcomed
  <2>4. ASSUME NEW u, Rejects(u)
        PROVE  sent[c] = <<>> /\ pc[c] = "none"
    BY <2>4 DEF IInv, FreshInv, Fresh
  <2>5. QED
    BY <2>1, <2>2, <2>3, <2>4
<1>2. QED
  BY Invariance, <1>1, PTL

\* However threads end while the acceptor reaps them, at most max_clients
\* handler threads are alive.
THEOREM NeverTooManyClients == Spec => []AtMostMaxClients
<1> DEFINE LiveConns == {c \in Conns : Live(c)}
<1>1. Init => AtMostMaxClients
  <2> SUFFICES ASSUME Init PROVE AtMostMaxClients
    OBVIOUS
  <2>1. LiveConns = {}
    BY DEF Init, Live
  <2>2. QED
    BY <2>1, FS_EmptySet, BoundsAssumption DEF AtMostMaxClients
<1>2. IInv /\ AtMostMaxClients /\ [Next]_vars => AtMostMaxClients'
  <2> SUFFICES ASSUME IInv, AtMostMaxClients, [Next]_vars
               PROVE  AtMostMaxClients'
    OBVIOUS
  <2>1. IsFiniteSet(LiveConns) /\ Cardinality(LiveConns) \in Nat
    BY FS_Subset, FS_CardinalityType, ConnsAssumption
  <2>2. CASE LiveConns' \subseteq LiveConns
    <3>1. Cardinality(LiveConns') <= Cardinality(LiveConns) /\ Cardinality(LiveConns') \in Nat
      BY <2>1, <2>2, FS_Subset, FS_CardinalityType
    <3>2. QED
      BY <2>1, <3>1, BoundsAssumption DEF AtMostMaxClients
  <2>3. CASE Spawn
    <3>1. LiveConns \subseteq Unfinished /\ IsFiniteSet(Unfinished)
      BY FS_Subset, ConnsAssumption DEF IInv, TypeOK, LiveInv, Live, Unfinished
    <3>2. Cardinality(LiveConns) < MaxClients
      BY <2>1, <2>3, <3>1, FS_Subset, FS_CardinalityType, BoundsAssumption DEF Spawn
    <3>3. LiveConns' \subseteq LiveConns \cup {accConn}
      BY <2>3 DEF Spawn, Goto, Live, IInv, TypeOK
    <3>4. /\ IsFiniteSet(LiveConns \cup {accConn})
          /\ Cardinality(LiveConns \cup {accConn}) \in Nat
          /\ Cardinality(LiveConns \cup {accConn}) <= Cardinality(LiveConns) + 1
      <4>1. /\ IsFiniteSet(LiveConns \cup {accConn})
            /\ \/ Cardinality(LiveConns \cup {accConn}) = Cardinality(LiveConns)
               \/ Cardinality(LiveConns \cup {accConn}) = Cardinality(LiveConns) + 1
        BY <2>1, FS_AddElement
      <4>2. QED
        BY <2>1, <4>1
    <3>5. Cardinality(LiveConns') <= Cardinality(LiveConns \cup {accConn})
          /\ Cardinality(LiveConns') \in Nat
      BY <3>3, <3>4, FS_Subset, FS_CardinalityType
    <3>6. QED
      BY <2>1, <3>2, <3>4, <3>5, BoundsAssumption DEF AtMostMaxClients
  <2>4. CASE ~Spawn
    <3>1. ASSUME NEW c \in Conns, HandlerStep(c) \/ ClientStep(c)
          PROVE  \/ pc' = pc
                 \/ Live(c) /\ \E l : pc' = [pc EXCEPT ![c] = l]
      BY <3>1 DEF HandlerStep, ClientStep, JoinEof, CheckName, RefuseJoin,
         SendWelcome, Insert, Eof, Lookup, LockSender, LockWriter, FinishWrite,
         WriteError, Leave, Connect, PeerStep, ReadJoin, Receive, ReadError,
         Goto, Live
    <3>2. ASSUME AcceptorStep \/ BeginDrop \/ DropStep \/ Idle \/ UNCHANGED vars
          PROVE  pc' = pc
      BY <2>4, <3>2 DEF AcceptorStep, DropStep, Accept, SeeTermination, Full,
         Reject, BeginDrop, WakeAcceptor, JoinAcceptor, ShutdownClient,
         JoinHandlers, Idle, vars
    <3>3. LiveConns' \subseteq LiveConns
      BY <3>1, <3>2 DEF Next, Live, IInv, TypeOK
    <3>4. QED
      BY <2>2, <3>3
  <2>5. QED
    BY <2>3, <2>4
<1>3. QED
  BY Invariance, <1>1, <1>2, PTL DEF Spec

\* The first frame a client gets is its Welcome, or it gets one Error and
\* nothing else: a client is in the map only after its Welcome was written.
THEOREM WelcomeComesFirst == Spec => []WelcomeFirst
<1>1. Init => WelcomeFirst
  BY DEF Init, WelcomeFirst
<1>2. IInv /\ WelcomeFirst /\ [Next]_vars => WelcomeFirst'
  BY FramesGrow DEF WelcomeFirst, SentStep, Welcomed
<1>3. QED
  BY Invariance, <1>1, <1>2, PTL DEF Spec

\* While Drop walks the map it holds the read guard, so what was in the map
\* when it started is all there is: shut down already or still to come.
DropInv ==
  main \in {"shutdown", "joinhandlers"} =>
    /\ Main \in readers
    /\ \A c \in Registered :
         \/ peer[c] = "shut"
         \/ main = "shutdown" /\ (c = tgt[Main] \/ c \in todo[Main])

\* DropInv is preserved.
LEMMA DropStepInv == IInv /\ DropInv /\ [Next]_vars => DropInv'
<1> SUFFICES ASSUME IInv, DropInv, [Next]_vars PROVE DropInv'
  OBVIOUS
<1>a. /\ main \in {"run", "wake", "joinacceptor", "shutdown", "joinhandlers", "dropped"}
      /\ Main \notin Conns /\ readers \subseteq Threads /\ DropInv
      /\ tgt \in [Threads -> Conns \cup {None}] /\ todo \in [Threads -> SUBSET Conns]
      /\ Registered \subseteq Conns /\ Main \in Threads /\ Conns \subseteq Threads
      /\ peer \in [Conns -> {"absent", "open", "stalled", "eof", "reset", "shut"}]
  BY ConnsAssumption DEF IInv, TypeOK, Registered, Threads
<1>b. ASSUME main' = main, clients' = clients, peer' = peer \/ main = "run",
             tgt'[Main] = tgt[Main], todo'[Main] = todo[Main], Main \in readers => Main \in readers'
      PROVE  DropInv'
  BY <1>a, <1>b DEF DropInv, Registered
<1> USE <1>a
<1>1. ASSUME NEW c \in Conns, Connect(c) PROVE DropInv'
  BY <1>1 DEF Connect, DropInv, Registered, mainVars, loopVars, lockVars
<1>2. ASSUME NEW c \in Conns, PeerStep(c) PROVE DropInv'
  BY <1>2 DEF PeerStep, DropInv, Registered, mainVars, loopVars, lockVars
<1>3. ASSUME NEW c \in Conns, Insert(c) PROVE DropInv'
  BY <1>3 DEF Insert, DropInv, mainVars
<1>4. ASSUME NEW c \in Conns, Lookup(c) PROVE DropInv'
  <2>1. tgt'[Main] = tgt[Main] /\ todo'[Main] = todo[Main]
    BY <1>4 DEF Lookup, Aim
  <2>2. QED
    BY <1>4, <1>b, <2>1 DEF Lookup, mainVars, netVars
<1>5. ASSUME NEW c \in Conns, LockSender(c) PROVE DropInv'
  BY <1>5, <1>b DEF LockSender, mainVars, netVars
<1>6. ASSUME NEW c \in Conns, FinishWrite(c) PROVE DropInv'
  <2>1. tgt'[Main] = tgt[Main] /\ todo'[Main] = todo[Main]
    BY <1>6 DEF FinishWrite, Aim
  <2>2. QED
    BY <1>6, <1>b, <2>1 DEF FinishWrite, mainVars
<1>7. ASSUME NEW c \in Conns, WriteError(c) PROVE DropInv'
  <2>1. tgt'[Main] = tgt[Main] /\ todo'[Main] = todo[Main]
    BY <1>7 DEF WriteError, Aim
  <2>2. QED
    BY <1>7, <1>b, <2>1 DEF WriteError, mainVars, netVars
<1>8. ASSUME NEW c \in Conns, Leave(c) PROVE DropInv'
  BY <1>8 DEF Leave, DropInv, mainVars
<1>9. CASE BeginDrop
  BY <1>9 DEF BeginDrop, DropInv
<1>10. CASE WakeAcceptor
  BY <1>10 DEF WakeAcceptor, DropInv
<1>11. CASE JoinAcceptor
  <2>1. CASE Registered = {}
    BY <1>11, <2>1 DEF JoinAcceptor, DropInv, Registered
  <2>2. CASE Registered # {}
    <3>1. \E x \in Registered : tgt'[Main] = x /\ todo'[Main] = Registered \ {x}
      BY <1>11, <2>2 DEF JoinAcceptor, Aim
    <3>2. QED
      BY <1>11, <2>2, <3>1 DEF JoinAcceptor, DropInv, Registered
  <2>3. QED
    BY <2>1, <2>2
<1>12. CASE ShutdownClient
  <2>1. /\ main = "shutdown" /\ peer' = [peer EXCEPT ![tgt[Main]] = "shut"]
        /\ UNCHANGED <<readers, clients>>
        /\ main' = IF todo[Main] = {} THEN "joinhandlers" ELSE "shutdown"
    BY <1>12 DEF ShutdownClient, lockVars
  <2>2. CASE todo[Main] = {}
    BY <2>1, <2>2 DEF DropInv, Registered
  <2>3. CASE todo[Main] # {}
    <3>1. \E x \in todo[Main] : tgt'[Main] = x /\ todo'[Main] = todo[Main] \ {x}
      BY <1>12, <2>3 DEF ShutdownClient, Aim
    <3>2. QED
      BY <2>1, <2>3, <3>1 DEF DropInv, Registered
  <2>4. QED
    BY <2>2, <2>3
<1>13. CASE JoinHandlers
  BY <1>13 DEF JoinHandlers, DropInv
<1>14. ASSUME NEW c \in Conns,
              \/ ReadJoin(c) \/ JoinEof(c) \/ CheckName(c) \/ RefuseJoin(c)
              \/ SendWelcome(c) \/ Receive(c) \/ Eof(c) \/ ReadError(c)
              \/ LockWriter(c)
      PROVE  DropInv'
  BY <1>14, <1>b DEF ReadJoin, JoinEof, CheckName, RefuseJoin, SendWelcome,
     Receive, Eof, ReadError, LockWriter, mainVars, loopVars, lockVars,
     netVars
<1>15. CASE \/ Accept \/ SeeTermination \/ Spawn \/ Full \/ Reject
  BY <1>15, <1>b DEF Accept, SeeTermination, Spawn, Full, Reject, mainVars,
     loopVars, lockVars, netVars
<1>16. CASE UNCHANGED vars
  BY <1>b, <1>16 DEF vars, acceptorVars, mainVars, joinVars, loopVars, lockVars,
     netVars
<1>17. QED
  BY <1>1, <1>2, <1>3, <1>4, <1>5, <1>6, <1>7, <1>8, <1>9, <1>10, <1>11,
     <1>12, <1>13, <1>14, <1>15, <1>16 DEF Next, HandlerStep, ClientStep,
     AcceptorStep, DropStep, Idle

\* When Drop waits for the handlers, every connection in the map has been
\* shut down: no handler can register one behind Drop's read guard.
THEOREM DropShutsEveryone == Spec => []RegisteredAreShut
<1>1. Init => DropInv
  BY DEF Init, DropInv
<1>2. DropInv => RegisteredAreShut
  BY DEF DropInv, RegisteredAreShut
<1>3. QED
  BY Invariance, DropStepInv, <1>1, <1>2, PTL DEF Spec
==============================================================================
