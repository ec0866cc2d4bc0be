----------------------- MODULE ChatThreadsPolite_proofs -----------------------
(***************************************************************************)
(* What ChatThreads keeps when its clients behave: no connection is reset  *)
(* and no frame unreadable; for the map and the replies, moreover, every   *)
(* client has names of its own and nobody drops the server; for the locks, *)
(* messages go one way only.                                               *)
(***************************************************************************)
EXTENDS ChatThreads_proofs, WellFoundedInduction

Polite ==
  /\ Faulty = {} /\ ~MayDrop
  /\ \A c, d \in Conns : \A n \in MayJoin[c] \cap MayJoin[d] : c = d

-----------------------------------------------------------------------------
(* Without faults the acceptor goes on *)

\* No connection is reset, and only Drop shuts one.
CalmInv ==
  /\ \A c \in Conns : peer[c] # "reset" /\ (peer[c] = "shut" => terminated)
  /\ AcceptsUntilDropped

\* CalmInv is preserved.
LEMMA CalmStep == Faulty = {} /\ IInv /\ CalmInv /\ [Next]_vars => CalmInv'
<1> SUFFICES ASSUME Faulty = {}, IInv, CalmInv, [Next]_vars PROVE CalmInv'
  OBVIOUS
<1>a. /\ main # "run" <=> terminated
      /\ peer \in [Conns -> {"absent", "open", "stalled", "eof", "reset", "shut"}]
      /\ acc = "reject" => accConn \in Conns
  BY DEF IInv, TerminatedInv, TypeOK, AcceptorInv
<1> USE DEF CalmInv, AcceptsUntilDropped
<1>1. ASSUME NEW c \in Conns, Connect(c) PROVE CalmInv'
  BY <1>1, <1>a DEF Connect, mainVars
<1>2. ASSUME NEW c \in Conns, PeerStep(c) PROVE CalmInv'
  BY <1>2, <1>a DEF PeerStep, acceptorVars, mainVars
<1>3. ASSUME UNCHANGED <<acceptorVars, mainVars, peer>> PROVE CalmInv'
  BY <1>3 DEF acceptorVars, mainVars
<1>4. ASSUME NEW c \in Conns,
             \/ ReadJoin(c) \/ JoinEof(c) \/ CheckName(c) \/ RefuseJoin(c)
             \/ SendWelcome(c) \/ Insert(c) \/ Receive(c) \/ Eof(c)
             \/ ReadError(c) \/ Lookup(c) \/ LockSender(c) \/ LockWriter(c)
             \/ FinishWrite(c) \/ WriteError(c) \/ Leave(c)
      PROVE  CalmInv'
  BY <1>3, <1>4 DEF ReadJoin, JoinEof, CheckName, RefuseJoin, SendWelcome,
     Insert, Receive, Eof, ReadError, Lookup, LockSender, LockWriter,
     FinishWrite, WriteError, Leave, netVars
<1>5. CASE Accept \/ SeeTermination \/ Spawn \/ Full
  BY <1>5 DEF Accept, SeeTermination, Spawn, Full, mainVars, netVars
<1>6. CASE Reject
  BY <1>6, <1>a DEF Reject, Refuses, mainVars
<1>7. CASE BeginDrop \/ WakeAcceptor \/ JoinAcceptor \/ JoinHandlers
  BY <1>7 DEF BeginDrop, WakeAcceptor, JoinAcceptor, JoinHandlers,
     acceptorVars, netVars
<1>8. CASE ShutdownClient
  BY <1>8, <1>a DEF ShutdownClient, acceptorVars
<1>9. CASE UNCHANGED vars
  BY <1>3, <1>9 DEF vars, netVars
<1> QED
  BY <1>1, <1>2, <1>4, <1>5, <1>6, <1>7, <1>8, <1>9 DEF Next, HandlerStep,
     ClientStep, AcceptorStep, DropStep, Idle

\* While no client resets its connection, the acceptor accepts until the
\* server is dropped: the write that refuses a client cannot fail.
THEOREM AcceptorGoesOn == Faulty = {} => (Spec => []AcceptsUntilDropped)
<1> SUFFICES ASSUME Faulty = {} PROVE Spec => []AcceptsUntilDropped
  OBVIOUS
<1>1. Init => CalmInv
  BY DEF Init, CalmInv, AcceptsUntilDropped
<1>2. IInv /\ CalmInv /\ [Next]_vars => CalmInv'
  BY CalmStep
<1>3. CalmInv => AcceptsUntilDropped
  BY DEF CalmInv
<1> QED
  BY Invariance, <1>1, <1>2, <1>3, PTL DEF Spec

-----------------------------------------------------------------------------
(* The map is the joined handlers *)

JoinedPcs == {"serve", "lookup", "leave"} \cup LockedPcs
NamedPcs == {"check", "taken", "welcome", "insert"} \cup JoinedPcs

\* Nobody drops the server, so no connection refuses what is written to it.
RunsInv == main = "run"

\* A handler's name is one of its client's own.
NamesInv == \A c \in Conns : pc[c] \in NamedPcs => name[c] \in MayJoin[c]

MirrorInv ==
  /\ \A c \in Conns : pc[c] \in JoinedPcs => clients[name[c]] = c
  /\ \A n \in Names : clients[n] # None =>
       pc[clients[n]] \in JoinedPcs /\ name[clients[n]] = n

PoliteInv == CalmInv /\ RunsInv /\ NamesInv /\ MirrorInv

\* What a handler's step does to the map and to where the handlers are.
HandlerMoves(c) ==
  /\ UNCHANGED <<main, name, clients>>
  /\ \E l \in Pcs : /\ pc' = [pc EXCEPT ![c] = l]
                    /\ pc[c] \in JoinedPcs <=> l \in JoinedPcs
                    /\ l \in NamedPcs => pc[c] \in NamedPcs

\* A handler that neither enters the map nor leaves it.
LEMMA MovesKeepMirror ==
  ASSUME IInv, PoliteInv, NEW c \in Conns, HandlerMoves(c)
  PROVE  RunsInv' /\ NamesInv' /\ MirrorInv'
<1>1. pc \in [Conns -> Pcs] /\ clients \in [Names -> Conns \cup {None}]
  BY DEF IInv, TypeOK
<1>2. \A d \in Conns : (pc'[d] \in JoinedPcs <=> pc[d] \in JoinedPcs)
                       /\ (pc'[d] \in NamedPcs => pc[d] \in NamedPcs)
  BY <1>1 DEF HandlerMoves
<1> QED
  BY <1>1, <1>2 DEF HandlerMoves, PoliteInv, RunsInv, NamesInv, MirrorInv

\* RunsInv, NamesInv and MirrorInv are preserved.
LEMMA MirrorStep ==
  ASSUME Polite, IInv, PoliteInv, [Next]_vars
  PROVE  RunsInv' /\ NamesInv' /\ MirrorInv'
<1> DEFINE Goal == RunsInv' /\ NamesInv' /\ MirrorInv'
<1>a. /\ pc \in [Conns -> Pcs] /\ name \in [Conns -> Names \cup {None}]
      /\ clients \in [Names -> Conns \cup {None}] /\ None \notin Conns \cup Names
      /\ \A c \in Conns : pc[c] \in NamedPcs => name[c] \in Names
      /\ MayJoin \in [Conns -> SUBSET Names]
  BY ConnsAssumption, ClientsAssumption
  DEF IInv, TypeOK, HandlerInv, HandlerOK, NamedPcs, JoinedPcs
<1>b. /\ main = "run" /\ Faulty = {} /\ ~MayDrop
      /\ \A c \in Conns : ~Refuses(c)
  BY DEF Polite, PoliteInv, RunsInv, CalmInv, Refuses, IInv, TerminatedInv
<1>c. ASSUME UNCHANGED <<main, name, clients, pc>> PROVE Goal
  BY <1>c DEF PoliteInv, RunsInv, NamesInv, MirrorInv
<1>1. ASSUME NEW c \in Conns, Connect(c) \/ PeerStep(c) PROVE Goal
  BY <1>1, <1>c DEF Connect, PeerStep, mainVars, joinVars, lockVars
<1>2. ASSUME NEW c \in Conns, ReadJoin(c) PROVE Goal
  <2>1. /\ pc[c] = "join" /\ UNCHANGED <<main, clients>>
        /\ \/ \E n \in MayJoin[c] : name' = [name EXCEPT ![c] = n]
                                    /\ pc' = [pc EXCEPT ![c] = "check"]
           \/ UNCHANGED name /\ pc' = [pc EXCEPT ![c] = "unexpected"]
    BY <1>2 DEF ReadJoin, Goto, mainVars, lockVars
  <2>2. \A d \in Conns : pc'[d] \in JoinedPcs <=> pc[d] \in JoinedPcs
    BY <1>a, <2>1 DEF JoinedPcs, LockedPcs
  <2>3. \A d \in Conns : pc[d] \in JoinedPcs => name'[d] = name[d]
    BY <1>a, <2>1 DEF JoinedPcs, LockedPcs
  <2>4. NamesInv'
    BY <1>a, <2>1 DEF PoliteInv, NamesInv, NamedPcs, JoinedPcs, LockedPcs
  <2>5. MirrorInv'
    BY <1>a, <2>1, <2>2, <2>3 DEF PoliteInv, MirrorInv
  <2> QED
    BY <2>1, <2>4, <2>5 DEF PoliteInv, RunsInv
<1>3. ASSUME NEW c \in Conns,
             JoinEof(c) \/ CheckName(c) \/ RefuseJoin(c) \/ SendWelcome(c)
      PROVE  Goal
  <2>1. HandlerMoves(c)
    BY <1>3, <1>a DEF JoinEof, CheckName, RefuseJoin, SendWelcome, Goto,
       HandlerMoves, NamedPcs, JoinedPcs, LockedPcs, JoiningPcs, Pcs,
       mainVars, joinVars, lockVars
  <2> QED
    BY <2>1, MovesKeepMirror
<1>4. ASSUME NEW c \in Conns, Insert(c) PROVE Goal
  <2>1. /\ pc[c] = "insert" /\ UNCHANGED <<main, name>>
        /\ pc' = [pc EXCEPT ![c] = "serve"]
        /\ clients' = [clients EXCEPT ![name[c]] = c]
        /\ name[c] \in Names /\ name[c] \in MayJoin[c]
    BY <1>4, <1>a DEF Insert, Goto, mainVars, joinVars, PoliteInv, NamesInv, NamedPcs
  <2>2. \A d \in Conns : d # c /\ pc[d] \in JoinedPcs => name[d] # name[c]
    BY <2>1 DEF Polite, PoliteInv, NamesInv, NamedPcs
  <2>3. NamesInv'
    BY <1>a, <2>1 DEF PoliteInv, NamesInv, NamedPcs
  <2>4. \A d \in Conns : pc'[d] \in JoinedPcs => clients'[name'[d]] = d
    BY <1>a, <2>1, <2>2 DEF PoliteInv, MirrorInv, NamedPcs
  <2>5. \A n \in Names : clients'[n] # None =>
          pc'[clients'[n]] \in JoinedPcs /\ name'[clients'[n]] = n
    BY <1>a, <2>1 DEF PoliteInv, MirrorInv, JoinedPcs
  <2> QED
    BY <2>1, <2>3, <2>4, <2>5 DEF PoliteInv, RunsInv, MirrorInv
<1>5. ASSUME NEW c \in Conns,
             \/ Receive(c) \/ Eof(c) \/ Lookup(c) \/ LockSender(c)
             \/ LockWriter(c) \/ FinishWrite(c)
      PROVE  Goal
  <2>1. HandlerMoves(c)
    BY <1>5, <1>a DEF Receive, Eof, Lookup, LockSender, LockWriter,
       FinishWrite, AfterRequest, Goto, HandlerMoves, NamedPcs, JoinedPcs,
       LockedPcs, Pcs, mainVars, joinVars, lockVars
  <2> QED
    BY <2>1, MovesKeepMirror
<1>6. ASSUME NEW c \in Conns, ReadError(c) PROVE Goal
  BY <1>6, <1>b DEF ReadError
<1>7. ASSUME NEW c \in Conns, WriteError(c) PROVE Goal
  <2>1. tgt[c] \in Conns
    BY <1>7 DEF WriteError, IInv, MutexInv, MutexOK, LockedPcs
  <2> QED
    BY <1>7, <1>b, <2>1 DEF WriteError
<1>8. ASSUME NEW c \in Conns, Leave(c) PROVE Goal
  <2>1. /\ pc[c] = "leave" /\ UNCHANGED <<main, name>>
        /\ pc' = [pc EXCEPT ![c] = "done"]
        /\ clients' = [clients EXCEPT ![name[c]] = None]
        /\ name[c] \in Names /\ name[c] \in MayJoin[c] /\ clients[name[c]] = c
    BY <1>8, <1>a DEF Leave, Goto, mainVars, joinVars, PoliteInv, NamesInv,
       MirrorInv, NamedPcs, JoinedPcs
  <2>2. \A d \in Conns : d # c /\ pc[d] \in JoinedPcs => name[d] # name[c]
    BY <2>1 DEF Polite, PoliteInv, NamesInv, NamedPcs
  <2>3. NamesInv'
    BY <1>a, <2>1 DEF PoliteInv, NamesInv, NamedPcs, JoinedPcs, LockedPcs
  <2>4. "done" \notin JoinedPcs
    BY DEF JoinedPcs, LockedPcs
  <2>5. \A d \in Conns : pc'[d] \in JoinedPcs => clients'[name'[d]] = d
    BY <1>a, <2>1, <2>2, <2>4 DEF PoliteInv, MirrorInv, NamedPcs
  <2>6. \A n \in Names : clients'[n] # None =>
          pc'[clients'[n]] \in JoinedPcs /\ name'[clients'[n]] = n
    BY <1>a, <2>1 DEF PoliteInv, MirrorInv
  <2> QED
    BY <2>1, <2>3, <2>5, <2>6 DEF PoliteInv, RunsInv, MirrorInv
<1>9. CASE Accept \/ SeeTermination \/ Full \/ Reject
  BY <1>9, <1>c DEF Accept, SeeTermination, Full, Reject, mainVars, joinVars, lockVars
<1>10. CASE Spawn
  <2>1. accConn \in Conns /\ pc[accConn] = "none"
    BY <1>10 DEF Spawn, IInv, AcceptorInv, FreshInv, Fresh
  <2>2. HandlerMoves(accConn)
    BY <1>10, <1>a, <2>1 DEF Spawn, Goto, HandlerMoves, NamedPcs, JoinedPcs,
       LockedPcs, JoiningPcs, Pcs, mainVars, joinVars, lockVars
  <2> QED
    BY <2>1, <2>2, MovesKeepMirror
<1>11. CASE BeginDrop \/ DropStep
  BY <1>11, <1>b DEF BeginDrop, DropStep, WakeAcceptor, JoinAcceptor,
     ShutdownClient, JoinHandlers
<1>12. CASE UNCHANGED vars
  BY <1>12, <1>c DEF vars, mainVars, joinVars, lockVars
<1> QED
  BY <1>1, <1>2, <1>3, <1>4, <1>5, <1>6, <1>7, <1>8, <1>9, <1>10, <1>11, <1>12
  DEF Next, HandlerStep, ClientStep, AcceptorStep, Idle

\* PoliteInv is an invariant.
LEMMA PoliteStep == Polite /\ IInv /\ PoliteInv /\ [Next]_vars => PoliteInv'
<1> SUFFICES ASSUME Polite, IInv, PoliteInv, [Next]_vars PROVE PoliteInv'
  OBVIOUS
<1>1. CalmInv'
  BY CalmStep DEF Polite, PoliteInv
<1> QED
  BY <1>1, MirrorStep DEF PoliteInv

\* Initially nobody has joined.
LEMMA PoliteInit == Init => PoliteInv
<1> SUFFICES ASSUME Init PROVE PoliteInv
  OBVIOUS
<1>1. CalmInv /\ RunsInv
  BY DEF Init, CalmInv, AcceptsUntilDropped, RunsInv
<1>2. \A c \in Conns : pc[c] \notin NamedPcs /\ pc[c] \notin JoinedPcs
  BY DEF Init, NamedPcs, JoinedPcs, LockedPcs
<1>3. NamesInv /\ MirrorInv
  BY <1>2 DEF Init, NamesInv, MirrorInv
<1> QED
  BY <1>1, <1>3 DEF PoliteInv

\* Among polite clients the map is exactly the joined handlers, each under its
\* own name, from its first request to its end.
THEOREM MapIsTheHandlers == Polite => (Spec => []MapMirrorsHandlers)
<1> SUFFICES ASSUME Polite PROVE Spec => []MapMirrorsHandlers
  OBVIOUS
<1>1. IInv /\ PoliteInv /\ [Next]_vars => PoliteInv'
  BY PoliteStep
<1>2. IInv /\ PoliteInv => MapMirrorsHandlers
  <2> SUFFICES ASSUME IInv, PoliteInv PROVE MapMirrorsHandlers
    OBVIOUS
  <2>1. \A c \in Conns : pc[c] \in JoinedPcs => Own(c) = c
    BY DEF PoliteInv, MirrorInv, Own
  <2>2. \A c \in Conns : pc[c] \in JoinedPcs => Live(c)
    BY DEF Live, JoinedPcs, LockedPcs
  <2>3. \A c \in Registered : c \in Conns /\ pc[c] \in JoinedPcs
    BY DEF PoliteInv, MirrorInv, Registered, IInv, TypeOK
  <2> QED
    BY <2>1, <2>2, <2>3 DEF MapMirrorsHandlers, JoinedPcs
<1> QED
  BY Invariance, PoliteInit, <1>1, <1>2, PTL DEF Spec

-----------------------------------------------------------------------------
(* Replies go to the requester *)

\* Whom a handler writes to: the sender of the request, unless it is a message.
AimOK(c) ==
  \/ tgt[c] = c
  \/ req[c].op = "Broadcast"
  \/ req[c].op = "SendDM" /\ pc[c] # "locksender" /\ HasRecipient(c)

\* While a handler answers it holds the read side of the map; only a broadcast
\* goes on to further recipients.
AskOK(c) ==
  /\ pc[c] \in JoiningPcs \cup {"none", "insert"} => req[c] = None
  /\ pc[c] \in LockedPcs =>
       /\ c \in readers /\ AimOK(c)
       /\ req[c].op # "Broadcast" => todo[c] = {}
AskInv == \A c \in Conns : AskOK(c)

\* The frames c was sent, and the answer it has got.
FramesOK(c) ==
  \A i \in 1 .. Len(sent[c]) : sent[c][i].kind # "Message" => sent[c][i].by \in {c, None}
AnswerOK(c) ==
  pc[c] = "serve" /\ req[c] # None /\ req[c].op \in {"Ping", "ListUsers"} =>
    \E i \in 1 .. Len(sent[c]) : sent[c][i] = [kind |-> FrameKind(c), by |-> c]
ReplyInv == \A c \in Conns : FramesOK(c) /\ AnswerOK(c)

\* A step of c leaves the other handlers alone, and the map as well while
\* somebody reads it.
OthersKeep(c) ==
  /\ \A d \in Conns \ {c} :
       /\ pc'[d] = pc[d] /\ req'[d] = req[d] /\ name'[d] = name[d]
       /\ tgt'[d] = tgt[d] /\ todo'[d] = todo[d]
       /\ d \in readers => d \in readers'
  /\ clients' = clients \/ readers = {}

\* Frames are only added.
SentGrows ==
  \A d \in Conns :
    /\ Len(sent[d]) \in Nat /\ Len(sent'[d]) \in Nat /\ Len(sent[d]) <= Len(sent'[d])
    /\ \A i \in 1 .. Len(sent[d]) : sent'[d][i] = sent[d][i]

\* The other handlers' AskOK stays.
LEMMA OthersAsk ==
  ASSUME NEW c, OthersKeep(c), NEW d \in Conns \ {c}, AskOK(d)
  PROVE  AskOK(d)'
<1>1. /\ pc'[d] = pc[d] /\ req'[d] = req[d] /\ name'[d] = name[d]
      /\ tgt'[d] = tgt[d] /\ todo'[d] = todo[d]
      /\ d \in readers => d \in readers' /\ clients' = clients
  BY DEF OthersKeep
<1>2. d \in readers => (AimOK(d)' <=> AimOK(d))
  BY <1>1 DEF AimOK, HasRecipient
<1> QED
  BY <1>1, <1>2 DEF AskOK

\* The other handlers' answers stay where they are.
LEMMA OthersAnswer ==
  ASSUME NEW c, OthersKeep(c), SentGrows, NEW d \in Conns \ {c}, AnswerOK(d)
  PROVE  AnswerOK(d)'
<1>1. pc'[d] = pc[d] /\ req'[d] = req[d]
  BY DEF OthersKeep
<1> SUFFICES ASSUME pc[d] = "serve", req[d] # None, req[d].op \in {"Ping", "ListUsers"}
             PROVE  \E i \in 1 .. Len(sent'[d]) :
                      sent'[d][i] = [kind |-> FrameKind(d)', by |-> d]
  BY <1>1 DEF AnswerOK
<1>2. PICK i \in 1 .. Len(sent[d]) : sent[d][i] = [kind |-> FrameKind(d), by |-> d]
  BY DEF AnswerOK
<1>3. i \in 1 .. Len(sent'[d]) /\ sent'[d][i] = sent[d][i]
  BY <1>2 DEF SentGrows
<1>4. FrameKind(d)' = FrameKind(d)
  BY <1>1 DEF FrameKind
<1> QED
  BY <1>2, <1>3, <1>4

\* A frame goes to the end of what its recipient was sent.
LEMMA PutReply ==
  ASSUME TypeOK, ReplyInv, NEW c \in Conns, NEW kind, NEW by, Put(c, kind, by),
         [kind |-> kind, by |-> by] \in Frames, kind = "Message" \/ by \in {c, None}
  PROVE  /\ SentGrows /\ \A d \in Conns : FramesOK(d)'
         /\ \E i \in 1 .. Len(sent'[c]) : sent'[c][i] = [kind |-> kind, by |-> by]
<1> DEFINE f == [kind |-> kind, by |-> by]
<1>1. sent \in [Conns -> Seq(Frames)] /\ sent' = [sent EXCEPT ![c] = Append(sent[c], f)]
  BY DEF TypeOK, Put
<1>2. /\ Len(sent[c]) \in Nat /\ Len(sent'[c]) = Len(sent[c]) + 1
      /\ sent'[c][Len(sent[c]) + 1] = f
      /\ \A i \in 1 .. Len(sent[c]) : sent'[c][i] = sent[c][i]
  BY <1>1
<1>3. \A d \in Conns : d # c => sent'[d] = sent[d] /\ Len(sent[d]) \in Nat
  BY <1>1
<1>4. SentGrows
  BY <1>2, <1>3 DEF SentGrows
<1>5. \A i \in 1 .. Len(sent'[c]) : i \in 1 .. Len(sent[c]) \/ sent'[c][i] = f
  BY <1>2
<1>6. FramesOK(c)'
  BY <1>2, <1>5 DEF FramesOK, ReplyInv
<1>7. \A d \in Conns : FramesOK(d)'
  BY <1>3, <1>6 DEF FramesOK, ReplyInv
<1>8. Len(sent[c]) + 1 \in 1 .. Len(sent'[c])
  BY <1>2
<1> QED
  BY <1>2, <1>4, <1>7, <1>8

\* Nothing is written.
LEMMA NoReply ==
  ASSUME TypeOK, ReplyInv, sent' = sent
  PROVE  SentGrows /\ \A d \in Conns : FramesOK(d)'
<1>1. \A d \in Conns : Len(sent[d]) \in Nat
  BY DEF TypeOK
<1> QED
  BY <1>1 DEF SentGrows, FramesOK, ReplyInv

\* A handler's step: what the others have stays, so its own part is left.
LEMMA OwnPart ==
  ASSUME AskInv, ReplyInv, NEW c, OthersKeep(c), SentGrows,
         \A d \in Conns : FramesOK(d)', c \in Conns => AskOK(c)' /\ AnswerOK(c)'
  PROVE  AskInv' /\ ReplyInv'
<1>1. AskInv'
  BY OthersAsk DEF AskInv
<1>2. \A d \in Conns : AnswerOK(d)'
  BY OthersAnswer DEF ReplyInv
<1> QED
  BY <1>1, <1>2 DEF ReplyInv

\* AskInv and ReplyInv are preserved.
LEMMA ReplyStep ==
  ASSUME Polite, IInv, PoliteInv, AskInv, ReplyInv, [Next]_vars
  PROVE  AskInv' /\ ReplyInv'
<1> DEFINE Goal == AskInv' /\ ReplyInv'
<1>a. /\ TypeOK /\ None \notin Conns /\ Main \notin Conns
      /\ pc \in [Conns -> Pcs] /\ req \in [Conns -> Requests \cup {None}]
      /\ name \in [Conns -> Names \cup {None}]
      /\ tgt \in [Threads -> Conns \cup {None}] /\ todo \in [Threads -> SUBSET Conns]
      /\ Conns \subseteq Threads
  BY ConnsAssumption DEF IInv, TypeOK, Threads
<1>b. /\ main = "run" /\ Faulty = {} /\ ~MayDrop
      /\ \A c \in Conns : ~Refuses(c)
  BY DEF Polite, PoliteInv, RunsInv, CalmInv, Refuses, IInv, TerminatedInv
<1>c. \A c \in Conns : AskOK(c) /\ FramesOK(c) /\ AnswerOK(c)
  BY DEF AskInv, ReplyInv
<1>d. ASSUME UNCHANGED <<pc, req, name, tgt, todo, readers, clients, sent>> PROVE Goal
  <2>1. SentGrows /\ \A d \in Conns : FramesOK(d)'
    BY <1>a, <1>d, NoReply
  <2>2. OthersKeep(Main)
    BY <1>d DEF OthersKeep
  <2> QED
    BY <1>a, <2>1, <2>2, OwnPart
<1> USE DEF Goto, mainVars, joinVars, loopVars, lockVars, netVars
<1>1. ASSUME NEW c \in Conns, Connect(c) \/ PeerStep(c) PROVE Goal
  BY <1>1, <1>d DEF Connect, PeerStep
<1>2. CASE Accept \/ SeeTermination \/ Full \/ UNCHANGED vars
  BY <1>2, <1>d DEF Accept, SeeTermination, Full, vars
<1>3. CASE BeginDrop \/ DropStep
  BY <1>3, <1>b DEF BeginDrop, DropStep, WakeAcceptor, JoinAcceptor,
     ShutdownClient, JoinHandlers
<1>4. ASSUME NEW c \in Conns, ReadError(c) \/ WriteError(c) PROVE Goal
  <2>1. pc[c] = "write" => tgt[c] \in Conns
    BY DEF IInv, MutexInv, MutexOK, LockedPcs
  <2> QED
    BY <1>4, <1>b, <2>1 DEF ReadError, WriteError
<1>5. ASSUME Spawn PROVE Goal
  <2>1. accConn \in Conns /\ pc[accConn] = "none"
    BY <1>5 DEF Spawn, IInv, AcceptorInv, FreshInv, Fresh
  <2>2. PICK c \in Conns : c = accConn
    BY <2>1
  <2>3. /\ pc[c] = "none" /\ pc' = [pc EXCEPT ![c] = "join"]
        /\ UNCHANGED <<req, name, tgt, todo, readers, clients, sent>>
    BY <1>5, <2>1, <2>2 DEF Spawn
  <2>4. AskOK(c)' /\ AnswerOK(c)'
    BY <1>a, <1>c, <2>3 DEF AskOK, AnswerOK, JoiningPcs, LockedPcs
  <2>5. OthersKeep(c)
    BY <1>a, <2>3 DEF OthersKeep
  <2>6. SentGrows /\ \A d \in Conns : FramesOK(d)'
    BY <1>a, <2>3, NoReply
  <2> QED
    BY <2>4, <2>5, <2>6, OwnPart
<1>6. ASSUME Reject PROVE Goal
  <2>1. accConn \in Conns /\ Put(accConn, "Error", None)
        /\ UNCHANGED <<pc, req, name, tgt, todo, readers, clients>>
    BY <1>6, <1>b DEF Reject, IInv, AcceptorInv
  <2>2. SentGrows /\ \A d \in Conns : FramesOK(d)'
    BY <1>a, <2>1, PutReply, FrameType
  <2>3. OthersKeep(Main)
    BY <2>1 DEF OthersKeep
  <2> QED
    BY <1>a, <2>2, <2>3, OwnPart
<1>7. ASSUME NEW c \in Conns,
             \/ ReadJoin(c) \/ JoinEof(c) \/ CheckName(c) \/ Insert(c)
             \/ Receive(c) \/ Eof(c) \/ Leave(c)
      PROVE  Goal
  <2>1. /\ \E l \in Pcs \ LockedPcs :
             /\ pc' = [pc EXCEPT ![c] = l]
             /\ l \in JoiningPcs \cup {"none", "insert", "serve"} =>
                  req' = req /\ pc[c] \in JoiningPcs \cup {"none", "insert"}
        /\ \A d \in Conns \ {c} : req'[d] = req[d] /\ name'[d] = name[d]
        /\ UNCHANGED <<tgt, todo, readers, sent>>
        /\ clients' = clients \/ readers = {}
    BY <1>7, <1>a DEF ReadJoin, JoinEof, CheckName, Insert, Receive, Eof, Leave,
       JoiningPcs, LockedPcs, Pcs
  <2>2. PICK l \in Pcs \ LockedPcs :
          /\ pc' = [pc EXCEPT ![c] = l]
          /\ l \in JoiningPcs \cup {"none", "insert", "serve"} =>
               req' = req /\ pc[c] \in JoiningPcs \cup {"none", "insert"}
    BY <2>1
  <2>3. pc'[c] = l /\ (l \in JoiningPcs \cup {"none", "insert", "serve"} => req'[c] = None)
    BY <1>a, <1>c, <2>2 DEF AskOK
  <2>4. AskOK(c)' /\ AnswerOK(c)'
    BY <2>2, <2>3 DEF AskOK, AnswerOK
  <2>5. OthersKeep(c)
    BY <1>a, <2>1, <2>2 DEF OthersKeep
  <2>6. SentGrows /\ \A d \in Conns : FramesOK(d)'
    BY <1>a, <2>1, NoReply
  <2> QED
    BY <2>4, <2>5, <2>6, OwnPart
<1>8. ASSUME NEW c \in Conns, RefuseJoin(c) \/ SendWelcome(c) PROVE Goal
  <2>1. /\ pc[c] \in JoiningPcs
        /\ \E k \in {"Error", "Welcome"} : Put(c, k, c)
        /\ \E l \in {"done", "insert"} : pc' = [pc EXCEPT ![c] = l]
        /\ UNCHANGED <<req, name, tgt, todo, readers, clients>>
    BY <1>8, <1>b DEF RefuseJoin, SendWelcome, JoiningPcs
  <2>2. SentGrows /\ \A d \in Conns : FramesOK(d)'
    BY <1>a, <2>1, PutReply, FrameType
  <2>3. AskOK(c)' /\ AnswerOK(c)'
    BY <1>a, <1>c, <2>1 DEF AskOK, AnswerOK, JoiningPcs, LockedPcs
  <2>4. OthersKeep(c)
    BY <1>a, <2>1 DEF OthersKeep
  <2> QED
    BY <2>2, <2>3, <2>4, OwnPart
<1>9. ASSUME NEW c \in Conns, Lookup(c) PROVE Goal
  <2>1. /\ pc[c] = "lookup" /\ Aim(c, Audience(c))
        /\ UNCHANGED <<req, name, clients, sent>>
        /\ \A d \in Conns \ {c} : pc'[d] = pc[d]
        /\ readers \subseteq readers'
    BY <1>9, <1>a DEF Lookup
  <2>2. \A d \in Conns \ {c} : tgt'[d] = tgt[d] /\ todo'[d] = todo[d]
    BY <1>a, <2>1 DEF Aim
  <2>3. AskOK(c)' /\ AnswerOK(c)'
    <3>1. CASE req[c].op = "Broadcast"
      <4>1. /\ pc'[c] = "serve" \/ (pc'[c] = "lock" /\ c \in readers')
            /\ req'[c].op = "Broadcast"
        BY <1>9, <1>a, <2>1, <3>1 DEF Lookup, AfterRequest
      <4> QED
        BY <4>1 DEF AskOK, AimOK, AnswerOK, JoiningPcs, LockedPcs
    <3>2. CASE req[c].op # "Broadcast"
      <4>1. Audience(c) = {c}
        BY <1>a, <2>1, <3>2 DEF Audience, Own, PoliteInv, MirrorInv, JoinedPcs
      <4>2. tgt'[c] = c /\ todo'[c] = {}
        BY <1>a, <2>1, <4>1 DEF Aim
      <4>3. pc'[c] \in {"locksender", "lock"} /\ c \in readers'
        BY <1>9, <1>a, <4>1 DEF Lookup
      <4> QED
        BY <4>2, <4>3 DEF AskOK, AimOK, AnswerOK, JoiningPcs
    <3> QED
      BY <3>1, <3>2
  <2>4. OthersKeep(c)
    BY <2>1, <2>2 DEF OthersKeep
  <2>5. SentGrows /\ \A d \in Conns : FramesOK(d)'
    BY <1>a, <2>1, NoReply
  <2> QED
    BY <2>3, <2>4, <2>5, OwnPart
<1>10. ASSUME NEW c \in Conns, LockSender(c) \/ LockWriter(c) PROVE Goal
  <2>1. /\ pc[c] \in LockedPcs /\ UNCHANGED <<req, name, todo, readers, clients, sent>>
        /\ \E l \in {"lock", "write"} : pc' = [pc EXCEPT ![c] = l]
        /\ \A d \in Conns \ {c} : tgt'[d] = tgt[d]
    BY <1>10, <1>a DEF LockSender, LockWriter, LockedPcs
  <2>2. pc'[c] \in {"lock", "write"}
    BY <1>a, <2>1
  <2>3. AimOK(c)'
    <3>1. HasRecipient(c)' <=> HasRecipient(c)
      BY <2>1 DEF HasRecipient
    <3>2. CASE LockSender(c) /\ HasRecipient(c)
      <4>1. req[c].op = "SendDM"
        BY <3>2 DEF LockSender, IInv, HandlerInv, HandlerOK
      <4> QED
        BY <2>1, <2>2, <3>1, <3>2, <4>1 DEF AimOK
    <3>3. CASE LockWriter(c) \/ ~HasRecipient(c)
      <4>1. tgt' = tgt
        BY <1>10, <3>3 DEF LockSender, LockWriter
      <4>2. AimOK(c)
        BY <1>c, <2>1 DEF AskOK
      <4>3. tgt'[c] = tgt[c] /\ req'[c] = req[c]
        BY <2>1, <4>1
      <4> QED
        BY <2>2, <3>1, <4>2, <4>3 DEF AimOK
    <3> QED
      BY <1>10, <3>2, <3>3
  <2>4. AskOK(c)' /\ AnswerOK(c)'
    BY <1>c, <2>1, <2>2, <2>3 DEF AskOK, AnswerOK, JoiningPcs
  <2>5. OthersKeep(c)
    BY <1>a, <2>1 DEF OthersKeep
  <2>6. SentGrows /\ \A d \in Conns : FramesOK(d)'
    BY <1>a, <2>1, NoReply
  <2> QED
    BY <2>4, <2>5, <2>6, OwnPart
<1>11. ASSUME NEW c \in Conns, FinishWrite(c) PROVE Goal
  <2>1. /\ pc[c] = "write" /\ Put(tgt[c], FrameKind(c), c) /\ Aim(c, todo[c])
        /\ UNCHANGED <<req, name, clients>>
        /\ \A d \in Conns \ {c} : pc'[d] = pc[d] /\ (d \in readers => d \in readers')
    BY <1>11, <1>a DEF FinishWrite
  <2>2. PICK d \in Conns : d = tgt[c]
    BY <2>1 DEF IInv, MutexInv, MutexOK, LockedPcs
  <2>3. c \in readers /\ AimOK(c) /\ (req[c].op # "Broadcast" => todo[c] = {})
    BY <1>c, <2>1 DEF AskOK, LockedPcs
  <2>4. FrameKind(c) = "Message" \/ tgt[c] = c
    BY <2>3 DEF AimOK, FrameKind
  <2>5. Put(d, FrameKind(c), c) /\ (FrameKind(c) = "Message" \/ c \in {d, None})
    BY <2>1, <2>2, <2>4
  <2>6. /\ SentGrows /\ \A e \in Conns : FramesOK(e)'
        /\ \E i \in 1 .. Len(sent'[d]) : sent'[d][i] = [kind |-> FrameKind(c), by |-> c]
    <3>1. [kind |-> FrameKind(c), by |-> c] \in Frames
      BY FrameType
    <3> QED
      BY <1>a, <2>5, <3>1, PutReply
  <2>7. \A e \in Conns \ {c} : tgt'[e] = tgt[e] /\ todo'[e] = todo[e]
    BY <1>a, <2>1 DEF Aim
  <2>8. OthersKeep(c)
    BY <2>1, <2>7 DEF OthersKeep
  <2>9. AskOK(c)' /\ AnswerOK(c)'
    <3>1. CASE todo[c] = {}
      <4>1. pc'[c] \in {"serve", "leave"}
        BY <1>11, <1>a, <3>1 DEF FinishWrite, AfterRequest
      <4>2. AskOK(c)'
        BY <4>1 DEF AskOK, JoiningPcs, LockedPcs
      <4>3. FrameKind(c)' = FrameKind(c)
        BY <2>1 DEF FrameKind, HasRecipient
      <4>4. req[c].op \in {"Ping", "ListUsers"} => d = c
        BY <2>2, <2>3 DEF AimOK
      <4>5. AnswerOK(c)'
        BY <2>1, <2>6, <4>3, <4>4 DEF AnswerOK
      <4> QED
        BY <4>2, <4>5
    <3>2. CASE todo[c] # {}
      <4>1. pc'[c] = "lock" /\ c \in readers' /\ req'[c].op = "Broadcast"
        BY <1>11, <1>a, <2>1, <2>3, <3>2 DEF FinishWrite
      <4> QED
        BY <4>1 DEF AskOK, AimOK, AnswerOK, JoiningPcs
    <3> QED
      BY <3>1, <3>2
  <2> QED
    BY <2>6, <2>8, <2>9, OwnPart
<1> QED
  BY <1>1, <1>2, <1>3, <1>4, <1>5, <1>6, <1>7, <1>8, <1>9, <1>10, <1>11
  DEF Next, HandlerStep, ClientStep, AcceptorStep, Idle

\* Among polite clients the reply to a request goes to the connection the
\* request came from, and is there before the next request is read.
THEOREM RepliesReachWhoAsked == Polite => (Spec => []RepliesReachRequester)
<1> SUFFICES ASSUME Polite PROVE Spec => []RepliesReachRequester
  OBVIOUS
<1>1. Init => AskInv /\ ReplyInv
  BY DEF Init, AskInv, AskOK, ReplyInv, FramesOK, AnswerOK, LockedPcs
<1>2. IInv /\ PoliteInv /\ AskInv /\ ReplyInv /\ [Next]_vars => PoliteInv' /\ AskInv' /\ ReplyInv'
  BY PoliteStep, ReplyStep
<1>3. ReplyInv => RepliesReachRequester
  BY DEF ReplyInv, FramesOK, AnswerOK, RepliesReachRequester
<1> QED
  BY Invariance, PoliteInit, <1>1, <1>2, <1>3, PTL DEF Spec

-----------------------------------------------------------------------------
(* Locks *)

\* A handler that sends a message keeps its own writer's Mutex while it waits
\* for the recipient's.
SendsTo(c, d) ==
  /\ pc[c] = "lock" /\ req[c].op = "SendDM" /\ HasRecipient(c)
  /\ d = clients[name[c]] /\ tgt[c] = clients[req[c].to]

\* Where a handler is says which locks it holds.
LockOK(c) ==
  /\ pc[c] \in NamedPcs => name[c] \in MayJoin[c]
  /\ pc[c] \in LockedPcs <=> c \in readers
  /\ pc[c] = "locksender" => tgt[c] = clients[name[c]]
  /\ \A d \in Conns : mutex[d] = c => pc[c] = "write" \/ SendsTo(c, d)

\* Drop reads the map to its end; an entry has its connection's name.
DropOK ==
  /\ Main \in readers <=> main \in {"shutdown", "joinhandlers"}
  /\ main = "shutdown" => tgt[Main] \in Conns
EntriesOK == \A n \in Names : clients[n] # None => name[clients[n]] = n
LockInv == (\A c \in Conns : LockOK(c)) /\ DropOK /\ EntriesOK

\* A step of t leaves the others and their locks alone.
OthersHold(t) ==
  /\ \A d \in Conns \ {t} :
       /\ pc'[d] = pc[d] /\ req'[d] = req[d] /\ name'[d] = name[d] /\ tgt'[d] = tgt[d]
       /\ d \in readers' <=> d \in readers
       /\ \A e \in Conns : mutex'[e] = d => mutex[e] = d
  /\ t # Main => (Main \in readers' <=> Main \in readers) /\ main' = main
  /\ clients' = clients \/ (readers = {} /\ t \in Conns)

LEMMA OthersLocks ==
  ASSUME LockInv, NEW t, OthersHold(t), NEW d \in Conns \ {t} PROVE LockOK(d)'
<1>1. /\ pc'[d] = pc[d] /\ req'[d] = req[d] /\ name'[d] = name[d] /\ tgt'[d] = tgt[d]
      /\ d \in readers' <=> d \in readers
      /\ \A e \in Conns : mutex'[e] = d => mutex[e] = d
      /\ clients' = clients \/ readers = {}
      /\ LockOK(d)
  BY DEF OthersHold, LockInv
<1>2. pc[d] \in LockedPcs => clients' = clients
  BY <1>1 DEF LockOK
<1>3. ASSUME pc[d] \in LockedPcs, NEW e, SendsTo(d, e) PROVE SendsTo(d, e)'
  BY <1>1, <1>2, <1>3 DEF SendsTo, HasRecipient
<1>4. \A e \in Conns : mutex'[e] = d => pc'[d] = "write" \/ SendsTo(d, e)'
  <2> SUFFICES ASSUME NEW e \in Conns, mutex'[e] = d PROVE pc'[d] = "write" \/ SendsTo(d, e)'
    OBVIOUS
  <2>1. pc[d] = "write" \/ SendsTo(d, e)
    BY <1>1 DEF LockOK
  <2> QED
    BY <1>1, <1>3, <2>1 DEF SendsTo, LockedPcs
<1>5. pc'[d] = "locksender" => tgt'[d] = clients'[name'[d]]
  BY <1>1, <1>2 DEF LockOK, LockedPcs
<1> QED
  BY <1>1, <1>4, <1>5 DEF LockOK

\* Steps that leave the locks, the map and who may hold what as they are.
LEMMA LocksSame ==
  ASSUME LockInv, UNCHANGED <<main, pc, req, name, tgt, clients, readers, mutex>>
  PROVE  LockInv'
BY DEF LockInv, LockOK, SendsTo, HasRecipient, DropOK, EntriesOK

\* Steps of a handler that holds no lock before or after.
LEMMA NoLocks ==
  ASSUME IInv, LockInv, NEW c \in Conns, NEW l \in Pcs \ LockedPcs,
         pc[c] \notin LockedPcs, pc' = [pc EXCEPT ![c] = l],
         \A d \in Conns \ {c} : req'[d] = req[d] /\ name'[d] = name[d],
         l \in NamedPcs => name'[c] \in MayJoin[c],
         UNCHANGED <<main, tgt, readers, mutex>>,
         clients' = clients \/ readers = {}, EntriesOK'
  PROVE  LockInv'
<1>a. pc \in [Conns -> Pcs] /\ Main \notin Conns
  BY ConnsAssumption DEF IInv, TypeOK
<1>1. OthersHold(c)
  BY <1>a DEF OthersHold
<1>2. \A d \in Conns : mutex[d] # c
  BY DEF LockInv, LockOK, SendsTo, LockedPcs
<1>3. LockOK(c)'
  BY <1>a, <1>2 DEF LockInv, LockOK, LockedPcs
<1>4. \A d \in Conns : LockOK(d)'
  BY <1>1, <1>3, OthersLocks
<1>5. DropOK'
  BY DEF LockInv, DropOK
<1> QED
  BY <1>4, <1>5 DEF LockInv

\* LockInv is preserved.
LEMMA LockStep == IInv /\ LockInv /\ [Next]_vars => LockInv'
<1> SUFFICES ASSUME IInv, LockInv, [Next]_vars PROVE LockInv'
  OBVIOUS
<1>a. /\ TypeOK /\ None \notin Conns /\ Main \notin Conns /\ Main # None
      /\ pc \in [Conns -> Pcs] /\ req \in [Conns -> Requests \cup {None}]
      /\ name \in [Conns -> Names \cup {None}] /\ clients \in [Names -> Conns \cup {None}]
      /\ tgt \in [Threads -> Conns \cup {None}] /\ todo \in [Threads -> SUBSET Conns]
      /\ mutex \in [Conns -> Conns \cup {None}] /\ readers \subseteq Threads
      /\ Threads = Conns \cup {Main} /\ None \notin Names
      /\ MayJoin \in [Conns -> SUBSET Names]
  BY ConnsAssumption, ClientsAssumption DEF IInv, TypeOK, Threads
<1>b. /\ \A c \in Conns : LockOK(c) /\ HandlerOK(c) /\ MutexOK(c)
      /\ DropOK /\ EntriesOK
  BY DEF LockInv, IInv, HandlerInv, MutexInv
<1>c. \A n \in Names : clients[n] # None => pc[clients[n]] # "join"
  BY DEF IInv, HandlerInv, HandlerOK, TargetInv, TargetsIn, WelcomedConns, Welcomed, JoiningPcs
<1> USE DEF Goto, mainVars, joinVars, loopVars, lockVars, netVars
<1>1. ASSUME NEW c \in Conns, Connect(c) \/ PeerStep(c) PROVE LockInv'
  BY <1>1, LocksSame DEF Connect, PeerStep
<1>2. CASE Accept \/ SeeTermination \/ Full \/ Reject \/ UNCHANGED vars
  BY <1>2, LocksSame DEF Accept, SeeTermination, Full, Reject, vars
<1>3. ASSUME Spawn PROVE LockInv'
  <2>1. accConn \in Conns /\ pc[accConn] = "none"
    BY <1>3 DEF Spawn, IInv, AcceptorInv, FreshInv, Fresh
  <2>2. PICK c \in Conns : c = accConn
    BY <2>1
  <2>3. /\ pc[c] = "none" /\ pc' = [pc EXCEPT ![c] = "join"]
        /\ UNCHANGED <<main, req, name, tgt, readers, clients, mutex>>
    BY <1>3, <2>1, <2>2 DEF Spawn
  <2>4. "join" \in Pcs \ LockedPcs /\ "join" \notin NamedPcs /\ pc[c] \notin LockedPcs
    BY <2>3 DEF Pcs, NamedPcs, JoinedPcs, LockedPcs, JoiningPcs
  <2>5. EntriesOK'
    BY <1>b, <2>3 DEF EntriesOK
  <2> QED
    BY <2>3, <2>4, <2>5, NoLocks
<1>4. ASSUME NEW c \in Conns, ReadJoin(c) PROVE LockInv'
  <2>1. /\ pc[c] = "join"
        /\ \/ \E n \in MayJoin[c] : name' = [name EXCEPT ![c] = n]
                                    /\ pc' = [pc EXCEPT ![c] = "check"]
           \/ UNCHANGED name /\ pc' = [pc EXCEPT ![c] = "unexpected"]
        /\ UNCHANGED <<main, req, tgt, readers, clients, mutex>>
    BY <1>4 DEF ReadJoin
  <2>2. \A d \in Conns \ {c} : name'[d] = name[d]
    BY <1>a, <2>1
  <2>3. EntriesOK'
    <3>1. \A n \in Names : clients[n] # None => clients[n] \in Conns \ {c}
      BY <1>a, <1>c, <2>1
    <3> QED
      BY <1>b, <2>1, <2>2, <3>1 DEF EntriesOK
  <2>4. /\ {"check", "unexpected"} \subseteq Pcs \ LockedPcs /\ pc[c] \notin LockedPcs
        /\ "unexpected" \notin NamedPcs
    BY <2>1 DEF Pcs, NamedPcs, JoinedPcs, LockedPcs, JoiningPcs
  <2>5. CASE \E n \in MayJoin[c] : name' = [name EXCEPT ![c] = n]
                                   /\ pc' = [pc EXCEPT ![c] = "check"]
    <3>1. name'[c] \in MayJoin[c] /\ pc' = [pc EXCEPT ![c] = "check"]
      BY <1>a, <2>5
    <3> QED
      BY <2>1, <2>2, <2>3, <2>4, <3>1, NoLocks
  <2>6. CASE UNCHANGED name /\ pc' = [pc EXCEPT ![c] = "unexpected"]
    BY <2>1, <2>2, <2>3, <2>4, <2>6, NoLocks
  <2> QED
    BY <2>1, <2>5, <2>6
<1>5. ASSUME NEW c \in Conns,
             \/ JoinEof(c) \/ CheckName(c) \/ RefuseJoin(c) \/ SendWelcome(c)
             \/ Receive(c) \/ Eof(c) \/ ReadError(c)
      PROVE  LockInv'
  <2>1. PICK l \in Pcs \ LockedPcs :
          /\ pc[c] \notin LockedPcs /\ pc' = [pc EXCEPT ![c] = l]
          /\ l \in NamedPcs => pc[c] \in NamedPcs
    BY <1>5 DEF JoinEof, CheckName, RefuseJoin, SendWelcome, Receive, Eof, ReadError,
       Pcs, NamedPcs, JoinedPcs, LockedPcs, JoiningPcs
  <2>2. /\ \A d \in Conns \ {c} : req'[d] = req[d]
        /\ UNCHANGED <<main, name, tgt, readers, clients, mutex>>
    BY <1>5, <1>a DEF JoinEof, CheckName, RefuseJoin, SendWelcome, Receive, Eof, ReadError
  <2>3. EntriesOK'
    BY <1>b, <2>2 DEF EntriesOK
  <2>4. l \in NamedPcs => name'[c] \in MayJoin[c]
    BY <1>b, <2>1, <2>2 DEF LockOK
  <2> QED
    BY <2>1, <2>2, <2>3, <2>4, NoLocks
<1>6. ASSUME NEW c \in Conns, Insert(c) \/ Leave(c) PROVE LockInv'
  <2>1. PICK l \in {"serve", "done"}, x \in {c, None} :
          /\ pc[c] \in {"insert", "leave"} /\ pc' = [pc EXCEPT ![c] = l]
          /\ clients' = [clients EXCEPT ![name[c]] = x]
    BY <1>6 DEF Insert, Leave
  <2>2. readers = {} /\ UNCHANGED <<main, name, req, tgt, readers, mutex>>
    BY <1>6 DEF Insert, Leave
  <2>3. l \in Pcs \ LockedPcs /\ pc[c] \notin LockedPcs /\ pc[c] \in NamedPcs
    BY <2>1 DEF Pcs, NamedPcs, JoinedPcs, LockedPcs, JoiningPcs
  <2>4. EntriesOK'
    <3>1. name[c] \in Names
      BY <1>b, <2>1 DEF HandlerOK
    <3> QED
      BY <1>a, <1>b, <2>1, <2>2, <3>1 DEF EntriesOK
  <2>5. name'[c] \in MayJoin[c]
    BY <1>b, <2>2, <2>3 DEF LockOK
  <2> QED
    BY <2>1, <2>2, <2>3, <2>4, <2>5, NoLocks
<1>7. ASSUME NEW c \in Conns, Lookup(c) PROVE LockInv'
  <2>1. /\ pc[c] = "lookup" /\ Aim(c, Audience(c))
        /\ UNCHANGED <<main, req, name, clients, mutex>>
    BY <1>7 DEF Lookup
  <2>2. \A d \in Conns \ {c} : pc'[d] = pc[d] /\ tgt'[d] = tgt[d] /\ (d \in readers' <=> d \in readers)
    BY <1>7, <1>a DEF Lookup, Aim
  <2>3. Main \in readers' <=> Main \in readers
    BY <1>7, <1>a DEF Lookup
  <2>4. OthersHold(c)
    BY <1>a, <2>1, <2>2, <2>3 DEF OthersHold
  <2>5. \A d \in Conns : mutex[d] # c
    BY <1>b, <2>1 DEF LockOK, SendsTo
  <2>6. LockOK(c)'
    <3>1. pc[c] \in NamedPcs /\ pc[c] \notin LockedPcs
      BY <2>1 DEF NamedPcs, JoinedPcs, LockedPcs
    <3>2. name'[c] \in MayJoin[c] /\ c \notin readers
      BY <1>b, <2>1, <3>1 DEF LockOK
    <3>3. CASE Audience(c) = {}
      <4>1. pc'[c] \in {"serve", "leave"} /\ readers' = readers
        BY <1>7, <1>a, <3>3 DEF Lookup, AfterRequest
      <4> QED
        BY <2>1, <2>5, <3>2, <4>1 DEF LockOK, LockedPcs
    <3>4. CASE Audience(c) # {}
      <4>1. /\ c \in readers' /\ pc'[c] \in {"locksender", "lock"}
            /\ pc'[c] = "locksender" => req[c].op = "SendDM"
        BY <1>7, <1>a, <3>4 DEF Lookup
      <4>2. tgt'[c] \in Audience(c)
        BY <1>a, <2>1, <3>4, AimTarget
      <4>3. pc'[c] = "locksender" => tgt'[c] = clients'[name'[c]]
        BY <2>1, <4>1, <4>2 DEF Audience, Own
      <4> QED
        BY <2>1, <2>5, <3>2, <4>1, <4>3 DEF LockOK, LockedPcs
    <3> QED
      BY <3>3, <3>4
  <2>7. DropOK' /\ EntriesOK'
    <3>1. tgt'[Main] = tgt[Main]
      BY <1>a, <2>1 DEF Aim
    <3> QED
      BY <1>b, <2>1, <2>3, <3>1 DEF DropOK, EntriesOK
  <2> QED
    BY <2>4, <2>6, <2>7, OthersLocks DEF LockInv
<1>8. ASSUME NEW c \in Conns, LockSender(c) \/ LockWriter(c) PROVE LockInv'
  <2>1. /\ pc[c] \in {"locksender", "lock"} /\ Lock(c, tgt[c])
        /\ \E l \in {"lock", "write"} : pc' = [pc EXCEPT ![c] = l]
        /\ UNCHANGED <<main, req, name, readers, clients>>
        /\ \A d \in Conns \ {c} : tgt'[d] = tgt[d]
    BY <1>8, <1>a DEF LockSender, LockWriter
  <2>2. tgt[c] \in Conns
    BY <1>b, <2>1 DEF MutexOK, LockedPcs
  <2>3. /\ \A d \in Conns \ {tgt[c]} : mutex'[d] = mutex[d]
        /\ mutex'[tgt[c]] = c
    BY <1>a, <2>1, <2>2 DEF Lock
  <2>4. OthersHold(c)
    BY <1>a, <2>1, <2>3 DEF OthersHold
  <2>5. pc'[c] \in {"lock", "write"}
    BY <1>a, <2>1
  <2>6. ASSUME NEW d \in Conns, mutex'[d] = c PROVE pc'[c] = "write" \/ SendsTo(c, d)'
    <3> SUFFICES ASSUME pc'[c] = "lock" PROVE SendsTo(c, d)'
      BY <2>5
    <3>1. LockSender(c) /\ HasRecipient(c)
      BY <1>8, <1>a DEF LockSender, LockWriter
    <3>2. tgt' = [tgt EXCEPT ![c] = clients[req[c].to]] /\ pc[c] = "locksender"
      BY <3>1 DEF LockSender
    <3>3. tgt'[c] = clients[req[c].to] /\ req[c].op = "SendDM" /\ tgt[c] = clients[name[c]]
      BY <1>a, <1>b, <3>2 DEF HandlerOK, LockOK
    <3>4. d = tgt[c]
      BY <1>b, <2>3, <2>6, <3>2 DEF LockOK, SendsTo
    <3>5. HasRecipient(c)'
      BY <2>1, <3>1 DEF HasRecipient
    <3> QED
      BY <2>1, <3>3, <3>4, <3>5 DEF SendsTo
  <2>7. LockOK(c)'
    <3>1. pc[c] \in NamedPcs /\ pc[c] \in LockedPcs /\ pc'[c] \in LockedPcs /\ pc'[c] # "locksender"
      BY <2>1, <2>5 DEF NamedPcs, JoinedPcs, LockedPcs
    <3>2. name'[c] \in MayJoin[c] /\ c \in readers'
      BY <1>b, <2>1, <3>1 DEF LockOK
    <3> QED
      BY <2>6, <3>1, <3>2 DEF LockOK
  <2>8. DropOK' /\ EntriesOK'
    <3>1. tgt'[Main] = tgt[Main]
      BY <1>8, <1>a DEF LockSender, LockWriter
    <3> QED
      BY <1>b, <2>1, <3>1 DEF DropOK, EntriesOK
  <2> QED
    BY <2>4, <2>7, <2>8, OthersLocks DEF LockInv
<1>9. ASSUME NEW c \in Conns, FinishWrite(c) \/ WriteError(c) PROVE LockInv'
  <2>1. /\ pc[c] = "write" /\ UnlockAll(c) /\ \E S : Aim(c, S)
        /\ UNCHANGED <<main, req, name, clients>>
        /\ \E l \in {"lock", "serve", "leave", "done"} :
             /\ pc' = [pc EXCEPT ![c] = l]
             /\ IF l = "lock" THEN readers' = readers ELSE readers' = readers \ {c}
    BY <1>9 DEF FinishWrite, WriteError, AfterRequest
  <2>2. \A d \in Conns : mutex'[d] # c /\ (mutex'[d] = mutex[d] \/ mutex'[d] = None)
    BY <1>a, <2>1 DEF UnlockAll
  <2>3. \A d \in Conns \ {c} : tgt'[d] = tgt[d] /\ pc'[d] = pc[d] /\ (d \in readers' <=> d \in readers)
    BY <1>a, <2>1 DEF Aim
  <2>4. OthersHold(c)
    BY <1>a, <2>1, <2>2, <2>3 DEF OthersHold
  <2>5. LockOK(c)'
    <3>1. name[c] \in MayJoin[c] /\ c \in readers
      BY <1>b, <2>1 DEF LockOK, NamedPcs, JoinedPcs, LockedPcs
    <3>2. pc'[c] \in {"lock", "serve", "leave", "done"} /\ (pc'[c] = "lock" <=> c \in readers')
      BY <1>a, <2>1, <3>1
    <3> QED
      BY <2>1, <2>2, <3>1, <3>2 DEF LockOK, LockedPcs
  <2>6. DropOK' /\ EntriesOK'
    <3>1. tgt'[Main] = tgt[Main]
      BY <1>a, <2>1 DEF Aim
    <3> QED
      BY <1>a, <1>b, <2>1, <3>1 DEF DropOK, EntriesOK
  <2> QED
    BY <2>4, <2>5, <2>6, OthersLocks DEF LockInv
<1>10. CASE BeginDrop \/ WakeAcceptor
  <2>1. UNCHANGED <<pc, req, name, tgt, clients, readers, mutex>>
    BY <1>10 DEF BeginDrop, WakeAcceptor
  <2>2. main \notin {"shutdown", "joinhandlers"} /\ main' \notin {"shutdown", "joinhandlers"}
    BY <1>10 DEF BeginDrop, WakeAcceptor
  <2> QED
    BY <1>b, <2>1, <2>2 DEF LockInv, LockOK, SendsTo, HasRecipient, DropOK, EntriesOK
<1>11. CASE JoinAcceptor \/ ShutdownClient \/ JoinHandlers
  <2>1. /\ UNCHANGED <<pc, req, name, clients, mutex>>
        /\ \A d \in Conns : tgt'[d] = tgt[d] /\ (d \in readers' <=> d \in readers)
    BY <1>11, <1>a DEF JoinAcceptor, ShutdownClient, JoinHandlers, Aim
  <2>2. DropOK'
    <3>1. JoinHandlers => DropOK'
      BY <1>a, <1>b DEF JoinHandlers, DropOK
    <3>2. Registered \subseteq Conns /\ todo[Main] \subseteq Conns /\ Main \in Threads
      BY <1>a DEF Registered
    <3>3. \A S \in SUBSET Conns : Aim(Main, S) /\ S # {} => tgt'[Main] \in Conns
      BY <1>a, <3>2 DEF Aim
    <3>4. JoinAcceptor \/ ShutdownClient => (main' = "shutdown" => tgt'[Main] \in Conns)
      BY <3>2, <3>3 DEF JoinAcceptor, ShutdownClient
    <3>5. JoinAcceptor \/ ShutdownClient =>
            (Main \in readers' <=> main' \in {"shutdown", "joinhandlers"})
      BY <1>b DEF JoinAcceptor, ShutdownClient, DropOK
    <3> QED
      BY <1>11, <3>1, <3>4, <3>5 DEF DropOK
  <2>3. OthersHold(Main)
    BY <1>a, <2>1 DEF OthersHold
  <2>4. EntriesOK'
    BY <1>b, <2>1 DEF EntriesOK
  <2> QED
    BY <1>a, <2>2, <2>3, <2>4, OthersLocks DEF LockInv
<1> QED
  BY <1>1, <1>2, <1>3, <1>4, <1>5, <1>6, <1>7, <1>8, <1>9, <1>10, <1>11
  DEF Next, HandlerStep, ClientStep, AcceptorStep, DropStep, Idle

\* Initially there are no locks.
LEMMA LockInit == Init => LockInv
<1> SUFFICES ASSUME Init PROVE LockInv
  OBVIOUS
<1>1. \A c \in Conns : LockOK(c)
  BY ConnsAssumption DEF Init, LockOK, NamedPcs, JoinedPcs, LockedPcs
<1> QED
  BY <1>1 DEF Init, LockInv, DropOK, EntriesOK

\* What a thread waits for in a lock() or write() of the code.
WaitsForLock(t) ==
  IF t = Main
    THEN main = "shutdown" /\ mutex[tgt[Main]] # None
    ELSE \/ pc[t] \in {"insert", "leave"} /\ readers # {}
         \/ pc[t] \in {"locksender", "lock"} /\ mutex[tgt[t]] # None
HoldsLock(t) == t \in readers \/ \E d \in Conns : mutex[d] = t

\* Threads that wait for locks wait for one that does not.  (Drop, once it waits
\* for the handlers, holds a lock and waits for those who wait for it.)
NoLockDeadlock ==
  main # "joinhandlers" /\ (\E t \in Threads : WaitsForLock(t)) =>
    \E t \in Threads : HoldsLock(t) /\ ~WaitsForLock(t)

\* Who is called p[2] may send messages to p[1]; along such pairs there is no
\* way on for ever, for finitely many names no cycle.
MayWriteTo ==
  {p \in Names \X Names : p[1] # p[2] /\ \E c \in Conns :
     p[2] \in MayJoin[c] /\ \E r \in MayAsk[c] : r.op = "SendDM" /\ r.to = p[1]}
OneWay == IsWellFoundedOn(MayWriteTo, Names)

\* A Mutex that somebody waits for is held by a thread that runs, or by a sender
\* who waits for its recipient.
LEMMA HeldBySender ==
  ASSUME IInv, LockInv, \A t \in Threads : HoldsLock(t) => WaitsForLock(t),
         NEW d \in Conns, mutex[d] # None
  PROVE  \E c \in Conns : SendsTo(c, d) /\ mutex[tgt[c]] # None /\ mutex[d] = c
<1>1. mutex[d] \in Conns
  BY DEF IInv, TypeOK
<1>2. PICK c \in Conns : c = mutex[d]
  BY <1>1
<1>3. HoldsLock(c) /\ c \in Threads /\ c # Main
  BY <1>2, ConnsAssumption DEF HoldsLock, Threads
<1>4. WaitsForLock(c)
  BY <1>3
<1>5. pc[c] # "write"
  BY <1>3, <1>4 DEF WaitsForLock
<1>6. SendsTo(c, d)
  BY <1>2, <1>5 DEF LockInv, LockOK
<1>7. mutex[tgt[c]] # None
  BY <1>3, <1>4, <1>6 DEF WaitsForLock, SendsTo
<1> QED
  BY <1>2, <1>6, <1>7

LEMMA LocksMove == ASSUME OneWay, IInv, LockInv PROVE NoLockDeadlock
<1> SUFFICES ASSUME main # "joinhandlers", NEW t0 \in Threads, WaitsForLock(t0),
                    \A t \in Threads : HoldsLock(t) => WaitsForLock(t)
             PROVE  FALSE
  BY DEF NoLockDeadlock
<1>a. /\ None \notin Conns /\ Main \notin Conns /\ Threads = Conns \cup {Main} /\ None \notin Names
      /\ clients \in [Names -> Conns \cup {None}] /\ tgt \in [Threads -> Conns \cup {None}]
      /\ MayJoin \in [Conns -> SUBSET Names]
      /\ \A c \in Conns : \A r \in MayAsk[c] : r.op = "SendDM" => r.to \in Names
  BY ConnsAssumption, ClientsAssumption DEF IInv, TypeOK, Threads
<1>b. \A c \in Conns : LockOK(c) /\ HandlerOK(c) /\ MutexOK(c)
  BY DEF LockInv, IInv, HandlerInv, MutexInv
\* Some Mutex is held.
<1>1. \E d \in Conns : mutex[d] # None
  <2>1. ASSUME NEW c \in Conns, pc[c] \in LockedPcs PROVE \E d \in Conns : mutex[d] # None
    <3>1. c \in readers /\ c # Main /\ c \in Threads
      BY <1>a, <1>b, <2>1 DEF LockOK
    <3>2. WaitsForLock(c)
      BY <3>1 DEF HoldsLock
    <3>3. mutex[tgt[c]] # None /\ tgt[c] \in Conns
      BY <1>b, <2>1, <3>1, <3>2 DEF WaitsForLock, LockedPcs, MutexOK
    <3> QED
      BY <3>3
  <2>2. ASSUME main = "shutdown" PROVE \E d \in Conns : mutex[d] # None
    <3>1. WaitsForLock(Main)
      BY <1>a, <2>2 DEF HoldsLock, LockInv, DropOK
    <3>2. mutex[tgt[Main]] # None /\ tgt[Main] \in Conns
      BY <2>2, <3>1 DEF WaitsForLock, LockInv, DropOK
    <3> QED
      BY <3>2
  <2>3. CASE t0 = Main
    BY <2>2, <2>3 DEF WaitsForLock
  <2>4. CASE t0 \in Conns /\ pc[t0] \in LockedPcs
    BY <2>1, <2>4
  <2>5. CASE t0 \in Conns /\ pc[t0] \notin LockedPcs
    <3>1. readers # {}
      BY <1>a, <2>5 DEF WaitsForLock, LockedPcs
    <3>2. PICK t \in readers : t \in Threads
      BY <3>1 DEF IInv, TypeOK
    <3>3. CASE t = Main
      BY <2>2, <3>2, <3>3 DEF LockInv, DropOK
    <3>4. CASE t \in Conns
      BY <1>b, <2>1, <3>2, <3>4 DEF LockOK
    <3> QED
      BY <1>a, <3>2, <3>3, <3>4
  <2> QED
    BY <1>a, <2>3, <2>4, <2>5
\* Those who hold one each wait for the next.
<1> DEFINE T == {n \in Names : clients[n] \in Conns /\ mutex[clients[n]] # None}
<1>2. ASSUME NEW c \in Conns, NEW d \in Conns, SendsTo(c, d), mutex[tgt[c]] # None
      PROVE  name[c] \in Names /\ req[c].to \in T /\ <<req[c].to, name[c]>> \in MayWriteTo
  <2>1. pc[c] = "lock" /\ req[c].op = "SendDM" /\ HasRecipient(c) /\ tgt[c] = clients[req[c].to]
    BY <1>2 DEF SendsTo
  <2>2. req[c] \in MayAsk[c] /\ name[c] \in MayJoin[c] /\ name[c] \in Names
    BY <1>b, <2>1 DEF HandlerOK, LockOK, LockedPcs, NamedPcs, JoinedPcs
  <2>3. req[c].to \in Names /\ req[c].to # name[c] /\ clients[req[c].to] \in Conns
    BY <1>a, <2>1, <2>2 DEF HasRecipient
  <2>4. <<req[c].to, name[c]>> \in Names \X Names
    BY <2>2, <2>3
  <2> QED
    BY <1>2, <2>1, <2>2, <2>3, <2>4 DEF MayWriteTo
<1>3. T # {}
  BY <1>1, <1>2, HeldBySender
<1>4. PICK n \in T : \A m \in T : <<m, n>> \notin MayWriteTo
  <2>1. T \subseteq Names
    OBVIOUS
  <2> HIDE DEF T
  <2> QED
    BY <1>3, <2>1, WFMin, Zenon DEF OneWay
<1>5. PICK c \in Conns : SendsTo(c, clients[n]) /\ mutex[tgt[c]] # None
  BY <1>4, HeldBySender
<1>6. name[c] = n
  <2>1. clients[n] = clients[name[c]] /\ clients[n] \in Conns /\ name[c] \in Names
    BY <1>2, <1>4, <1>5 DEF SendsTo
  <2> QED
    BY <1>a, <1>4, <2>1 DEF LockInv, EntriesOK
<1> QED
  BY <1>2, <1>4, <1>5, <1>6

\* While messages go one way only, the locks of the server never deadlock: of
\* the threads that hold the RwLock's read side or a writer's Mutex one goes on,
\* whatever other requests, name clashes, faults and reconnections there are and
\* until Drop waits for the handlers.  (server.rs locks the sender's writer and
\* then the recipient's, so two clients that message each other do deadlock.)
THEOREM OneWayMessagesNeverDeadlock == OneWay => (Spec => []NoLockDeadlock)
<1> SUFFICES ASSUME OneWay PROVE Spec => []NoLockDeadlock
  OBVIOUS
<1>1. IInv /\ LockInv => NoLockDeadlock
  BY LocksMove
<1> QED
  BY Invariance, LockInit, LockStep, <1>1, PTL DEF Spec
=============================================================================
