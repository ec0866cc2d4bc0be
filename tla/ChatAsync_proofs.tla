--------------------------- MODULE ChatAsync_proofs ---------------------------
(***************************************************************************)
(* What the server of lesson 10 keeps, for every set of clients and names, *)
(* every test, and every limit.                                            *)
(***************************************************************************)
EXTENDS ChatAsync, ChatHarness_proofs, FiniteSetTheorems

-----------------------------------------------------------------------------
(* The inductive invariant *)

States == {"none", "joining", "greeting", "serving", "finished", "joined"}

TaskType ==
  /\ server \in {"running", "ok", "failed"} /\ stop \in BOOLEAN
  /\ task \in [Conn -> States] /\ name \in [Conn -> Names \cup {None}]
  /\ DOMAIN clients \subseteq Names /\ \A n \in DOMAIN clients : clients[n] \in Conn
  /\ chan \in [Conn -> Seq(Reply)]

\* One more than max_clients, which Accept makes room for.
LimitInv == Cardinality(Tasks) <= Limit + 1

\* A client has no task before the listener has accepted it, and then one.
StartInv == \A c \in Conn : conn[c] = "absent" \/ Queued(c) => task[c] = "none"

NameInv == \A c \in Conn : task[c] \in {"greeting", "serving"} => name[c] \in Names

\* Only the tasks that could not write to their clients have left an entry.
EntryInv ==
  \A n \in DOMAIN clients :
    /\ name[clients[n]] = n
    /\ \/ task[clients[n]] = "serving"
       \/ task[clients[n]] \in {"finished", "joined"} /\ conn[clients[n]] = "dropped"

IInv ==
  /\ NetType /\ BacklogInv /\ TaskType
  /\ LimitInv /\ StartInv /\ NameInv /\ EntryInv

-----------------------------------------------------------------------------
(* Parts that most steps leave alone *)

\* While no task begins, there are no more of them.
LEMMA NoTaskBegins ==
  ASSUME NetType, TaskType, LimitInv, StartInv,
         UNCHANGED test, task' \in [Conn -> States],
         \A d \in Conn : Queued(d)' \/ conn'[d] = "absent" => Queued(d) \/ conn[d] = "absent",
         \A d \in Conn : task'[d] = task[d] \/ task[d] \notin {"none", "joined"}
  PROVE  LimitInv' /\ StartInv'
<1>1. IsFiniteSet(Tasks) /\ Tasks' \subseteq Tasks
  <2>1. IsFiniteSet(Tasks)
    BY HarnessAssumption, FS_Subset DEF Tasks
  <2> QED  BY <2>1 DEF Tasks
<1>2. /\ Cardinality(Tasks') <= Cardinality(Tasks)
      /\ Cardinality(Tasks) \in Nat /\ Cardinality(Tasks') \in Nat
  BY <1>1, FS_Subset, FS_CardinalityType
<1>3. Limit \in Nat /\ Limit' = Limit
  BY HarnessAssumption DEF Limit, NetType
<1>4. LimitInv'
  BY <1>2, <1>3 DEF LimitInv
<1>5. StartInv'
  BY DEF StartInv
<1> QED  BY <1>4, <1>5

\* A step of the task of c.
LEMMA TaskMoves ==
  ASSUME IInv, NEW c \in Conn, NEW s \in States,
         UNCHANGED <<test, conn, backlog, seen, serverVars>>,
         inbox' \in [Conn -> Seq(Request)], got' \in [Conn -> Seq(Reply)],
         closed' \subseteq Conn,
         task[c] \notin {"none", "joined"}, task' = [task EXCEPT ![c] = s],
         name' \in [Conn -> Names \cup {None}],
         DOMAIN clients' \subseteq Names, \A n \in DOMAIN clients' : clients'[n] \in Conn,
         chan' \in [Conn -> Seq(Reply)], NameInv', EntryInv'
  PROVE  IInv'
<1>1. \A d : Queued(d)' = Queued(d)
  BY DEF Queued
<1>2. NetType' /\ BacklogInv'
  BY <1>1 DEF IInv, NetType, BacklogInv
<1>3. task' \in [Conn -> States] /\ \A d \in Conn : d # c => task'[d] = task[d]
  BY DEF IInv, TaskType
<1>4. TaskType'
  BY <1>3 DEF IInv, TaskType, serverVars
<1>5. LimitInv' /\ StartInv'
  BY <1>1, <1>3, NoTaskBegins DEF IInv
<1> QED  BY <1>2, <1>4, <1>5 DEF IInv

\* A message that is read is off the socket.
LEMMA ReadOne ==
  ASSUME NetType, NEW c \in Conn, inbox[c] # <<>>,
         inbox' = [inbox EXCEPT ![c] = Tail(@)]
  PROVE  Head(inbox[c]) \in Request /\ inbox' \in [Conn -> Seq(Request)]
<1>1. inbox[c] \in Seq(Request)
  BY DEF NetType
<1>2. Head(inbox[c]) \in Request /\ Tail(inbox[c]) \in Seq(Request)
  BY <1>1, HeadTailProperties
<1> QED  BY <1>2 DEF NetType

LEMMA Written ==
  ASSUME NetType, NEW c \in Conn, NEW reply \in Reply, Writes(c, reply)
  PROVE  got' \in [Conn -> Seq(Reply)]
<1>1. got[c] \in Seq(Reply)
  BY DEF NetType
<1>2. Append(got[c], reply) \in Seq(Reply)
  BY <1>1, AppendProperties
<1> QED  BY <1>1, <1>2 DEF NetType, Writes

LEMMA Replies ==
  /\ \A why \in Reason : Error(why) \in Reply
  /\ [kind |-> "welcome"] \in Reply /\ [kind |-> "pong"] \in Reply
  /\ \A us \in SUBSET Names : [kind |-> "list", users |-> us] \in Reply
  /\ \A n \in Names : [kind |-> "msg", from |-> n] \in Reply
BY DEF Reply, Error

LEMMA Emptied ==
  ASSUME TaskType, NEW c \in Conn, chan' = [chan EXCEPT ![c] = <<>>]
  PROVE  chan' \in [Conn -> Seq(Reply)]
BY EmptySeq DEF TaskType

\* The channels that a message is put into.
LEMMA ForwardedType ==
  ASSUME TaskType, NEW c \in Conn, name[c] \in Names, NEW S
  PROVE  Forwarded(c, S) \in [Conn -> Seq(Reply)]
<1> DEFINE m == [kind |-> "msg", from |-> name[c]]
<1>1. m \in Reply
  BY Replies
<1>2. \A d \in Conn : chan[d] \in Seq(Reply) /\ Append(chan[d], m) \in Seq(Reply)
  BY <1>1, AppendProperties DEF TaskType
<1> QED  BY <1>2 DEF Forwarded

-----------------------------------------------------------------------------
(* The Join *)

\* A task whose client has not joined ends without a trace in the map.
LEMMA EndsUnjoined ==
  ASSUME IInv, NEW c \in Conn, task[c] \in {"joining", "greeting"},
         UNCHANGED <<test, conn, backlog, seen, serverVars, name, clients>>,
         inbox' \in [Conn -> Seq(Request)], got' \in [Conn -> Seq(Reply)],
         Finish(c)
  PROVE  IInv'
<1>1. /\ task' = [task EXCEPT ![c] = "finished"] /\ closed' = closed \cup {c}
      /\ chan' = [chan EXCEPT ![c] = <<>>]
  BY DEF Finish, End
<1>2. chan' \in [Conn -> Seq(Reply)]
  BY <1>1, Emptied DEF IInv
<1>3. closed' \subseteq Conn
  BY <1>1 DEF IInv, NetType
<1>4. task'[c] = "finished" /\ \A d \in Conn : d # c => task'[d] = task[d]
  BY <1>1 DEF IInv, TaskType
<1>5. NameInv'
  BY <1>4 DEF IInv, NameInv
<1>6. \A n \in DOMAIN clients : clients[n] \in Conn /\ clients[n] # c
  BY DEF IInv, TaskType, EntryInv
<1>7. EntryInv'
  BY <1>4, <1>6 DEF IInv, EntryInv
<1>8. /\ name' \in [Conn -> Names \cup {None}] /\ DOMAIN clients' \subseteq Names
      /\ \A n \in DOMAIN clients' : clients'[n] \in Conn
  BY DEF IInv, TaskType
<1> QED  BY <1>1, <1>2, <1>3, <1>5, <1>7, <1>8, TaskMoves DEF States

LEMMA DismissKeeps ==
  ASSUME IInv, NEW c \in Conn, task[c] = "joining", NEW why \in Reason, Dismiss(c, why),
         UNCHANGED <<test, conn, backlog, seen, serverVars>>,
         inbox' \in [Conn -> Seq(Request)]
  PROVE  IInv'
<1>1. got' \in [Conn -> Seq(Reply)]
  BY Replies, Written DEF Dismiss, IInv
<1> QED  BY <1>1, EndsUnjoined DEF Dismiss

LEMMA ReadJoinKeeps ==
  ASSUME IInv, NEW c \in Conn, ReadJoin(c)
  PROVE  IInv'
<1>1. /\ task[c] = "joining" /\ inbox[c] # <<>> /\ inbox' = [inbox EXCEPT ![c] = Tail(@)]
      /\ UNCHANGED <<test, conn, backlog, seen, serverVars>>
  BY DEF ReadJoin, scriptVars
<1> DEFINE r == Head(inbox[c])
<1>2. r \in Request /\ inbox' \in [Conn -> Seq(Request)]
  BY <1>1, ReadOne DEF IInv
<1>3. CASE r.kind = "bad" /\ Finish(c) /\ UNCHANGED <<got, name, clients>>
  <2>1. got' \in [Conn -> Seq(Reply)]
    BY <1>3 DEF IInv, NetType
  <2> QED  BY <1>1, <1>2, <1>3, <2>1, EndsUnjoined
<1>4. CASE Dismiss(c, "unexpected") \/ Dismiss(c, "taken")
  BY <1>1, <1>2, <1>4, DismissKeeps DEF Reason
<1>5. CASE /\ r.kind = "join" /\ r.name \notin DOMAIN clients
           /\ task' = [task EXCEPT ![c] = "greeting"]
           /\ name' = [name EXCEPT ![c] = r.name]
           /\ UNCHANGED <<got, closed, clients, chan>>
  <2>1. r.name \in Names
    BY <1>2, <1>5 DEF Request
  <2>2. /\ task'[c] = "greeting" /\ name'[c] \in Names /\ name' \in [Conn -> Names \cup {None}]
        /\ \A d \in Conn : d # c => task'[d] = task[d] /\ name'[d] = name[d]
    BY <1>5, <2>1 DEF IInv, TaskType
  <2>3. NameInv'
    BY <2>2 DEF IInv, NameInv
  <2>4. \A n \in DOMAIN clients : clients[n] \in Conn /\ clients[n] # c
    BY <1>1 DEF IInv, TaskType, EntryInv
  <2>5. EntryInv'
    BY <1>1, <1>5, <2>2, <2>4 DEF IInv, EntryInv
  <2>6. /\ got' \in [Conn -> Seq(Reply)] /\ closed' \subseteq Conn
        /\ DOMAIN clients' \subseteq Names /\ \A n \in DOMAIN clients' : clients'[n] \in Conn
        /\ chan' \in [Conn -> Seq(Reply)]
    BY <1>5 DEF IInv, NetType, TaskType
  <2> QED  BY <1>1, <1>2, <1>5, <2>2, <2>3, <2>5, <2>6, TaskMoves DEF States
<1> QED  BY <1>3, <1>4, <1>5 DEF ReadJoin

LEMMA GreetKeeps ==
  ASSUME IInv, NEW c \in Conn, Greet(c)
  PROVE  IInv'
<1>1. /\ task[c] = "greeting" /\ name' = name
      /\ UNCHANGED <<test, conn, backlog, seen, serverVars, inbox>>
  BY DEF Greet, scriptVars
<1>2. inbox' \in [Conn -> Seq(Request)] /\ name[c] \in Names
  BY <1>1 DEF IInv, NetType, NameInv
<1>3. CASE /\ Writes(c, [kind |-> "welcome"])
           /\ task' = [task EXCEPT ![c] = "serving"]
           /\ clients' = [n \in DOMAIN clients \cup {name[c]} |->
                            IF n = name[c] THEN c ELSE clients[n]]
           /\ UNCHANGED <<closed, chan>>
  <2>1. got' \in [Conn -> Seq(Reply)]
    BY <1>3, Replies, Written DEF IInv
  <2>2. task'[c] = "serving" /\ \A d \in Conn : d # c => task'[d] = task[d]
    BY <1>3 DEF IInv, TaskType
  <2>3. NameInv'
    BY <1>1, <1>2, <2>2 DEF IInv, NameInv
  <2>4. \A n \in DOMAIN clients : clients[n] \in Conn /\ clients[n] # c
    BY <1>1 DEF IInv, TaskType, EntryInv
  <2>5. EntryInv'
    BY <1>1, <1>3, <2>2, <2>4 DEF IInv, EntryInv
  <2>6. /\ closed' \subseteq Conn /\ name' \in [Conn -> Names \cup {None}]
        /\ DOMAIN clients' \subseteq Names /\ \A n \in DOMAIN clients' : clients'[n] \in Conn
        /\ chan' \in [Conn -> Seq(Reply)]
    BY <1>1, <1>2, <1>3 DEF IInv, NetType, TaskType
  <2> QED  BY <1>1, <1>2, <1>3, <2>1, <2>3, <2>5, <2>6, TaskMoves DEF States
<1>4. CASE WriteFails(c) /\ Finish(c) /\ UNCHANGED clients
  <2>1. got' \in [Conn -> Seq(Reply)]
    BY <1>4 DEF WriteFails, IInv, NetType
  <2> QED  BY <1>1, <1>2, <1>4, <2>1, EndsUnjoined
<1> QED  BY <1>3, <1>4 DEF Greet

-----------------------------------------------------------------------------
(* The loop *)

\* What a task that serves c may do to everybody.
Effect(c) ==
  /\ got' \in [Conn -> Seq(Reply)] /\ chan' \in [Conn -> Seq(Reply)]
  /\ name' = name
  /\ \/ UNCHANGED <<task, clients, closed>>
     \/ End(c) /\ Unregister(c)

LEMMA LeaveEffect ==
  ASSUME IInv, NEW c \in Conn, got' \in [Conn -> Seq(Reply)], Leave(c)
  PROVE  Effect(c)
<1>1. chan' \in [Conn -> Seq(Reply)]
  BY Emptied DEF IInv, Leave, Finish
<1> QED  BY <1>1 DEF Leave, Finish, Unregister, Effect

LEMMA AnswerEffect ==
  ASSUME IInv, NEW c \in Conn, NEW reply \in Reply, Answer(c, reply)
  PROVE  Effect(c)
<1>1. CASE Writes(c, reply) /\ UNCHANGED <<task, closed, chan, name, clients>>
  <2>1. got' \in [Conn -> Seq(Reply)]
    BY <1>1, Written DEF IInv
  <2> QED  BY <1>1, <2>1 DEF Effect, IInv, TaskType
<1>2. CASE WriteFails(c) /\ Leave(c)
  <2>1. got' \in [Conn -> Seq(Reply)]
    BY <1>2 DEF WriteFails, IInv, NetType
  <2> QED  BY <1>2, <2>1, LeaveEffect
<1> QED  BY <1>1, <1>2 DEF Answer

LEMMA DirectMessageEffect ==
  ASSUME IInv, NEW c \in Conn, task[c] = "serving", NEW n, DirectMessage(c, n)
  PROVE  Effect(c)
<1>1. CASE Answer(c, Error("self")) \/ Nobody(c)
  <2>1. Error("self") \in Reply /\ Error("nobody") \in Reply
    BY Replies DEF Reason
  <2> QED  BY <1>1, <2>1, AnswerEffect DEF Nobody
<1>2. CASE /\ UNCHANGED got
           /\ IF Receives(clients[n])
                THEN /\ chan' = Forwarded(c, {clients[n]})
                     /\ UNCHANGED <<task, closed, name, clients>>
                ELSE Leave(c)
  <2>1. got' \in [Conn -> Seq(Reply)] /\ name[c] \in Names
    BY <1>2 DEF IInv, NetType, NameInv
  <2>2. CASE Receives(clients[n])
    <3>1. chan' \in [Conn -> Seq(Reply)]
      BY <1>2, <2>1, <2>2, ForwardedType DEF IInv
    <3> QED  BY <1>2, <2>1, <2>2, <3>1 DEF Effect
  <2>3. CASE ~Receives(clients[n])
    BY <1>2, <2>1, <2>3, LeaveEffect
  <2> QED  BY <2>2, <2>3
<1> QED  BY <1>1, <1>2 DEF DirectMessage

LEMMA BroadcastEffect ==
  ASSUME IInv, NEW c \in Conn, task[c] = "serving", Broadcast(c)
  PROVE  Effect(c)
<1>1. got' \in [Conn -> Seq(Reply)] /\ name[c] \in Names
  BY DEF Broadcast, IInv, NetType, NameInv
<1>2. \/ \E S : chan' = Forwarded(c, S) /\ UNCHANGED <<task, closed, name, clients>>
      \/ /\ End(c) /\ Unregister(c)
         /\ \E S : chan' = [Forwarded(c, S) EXCEPT ![c] = <<>>]
  BY DEF Broadcast
<1>3. \A S : Forwarded(c, S) \in [Conn -> Seq(Reply)]
  BY <1>1, ForwardedType DEF IInv
<1>4. <<>> \in Seq(Reply)
  BY EmptySeq
<1>5. chan' \in [Conn -> Seq(Reply)]
  BY <1>2, <1>3, <1>4
<1> QED  BY <1>1, <1>2, <1>5 DEF Effect, Unregister

LEMMA ReactEffect ==
  ASSUME IInv, NEW c \in Conn, task[c] = "serving", NEW r, React(c, r)
  PROVE  Effect(c)
<1>1. CASE Pong(c) \/ Answer(c, [kind |-> "list", users |-> DOMAIN clients])
  <2>1. [kind |-> "pong"] \in Reply /\ [kind |-> "list", users |-> DOMAIN clients] \in Reply
    BY Replies DEF IInv, TaskType
  <2> QED  BY <1>1, <2>1, AnswerEffect DEF Pong
<1>2. CASE Broadcast(c)
  BY <1>2, BroadcastEffect
<1>3. CASE DirectMessage(c, r.name)
  BY <1>3, DirectMessageEffect
<1>4. CASE Writes(c, Error("unexpected")) /\ Leave(c)
  <2>1. Error("unexpected") \in Reply
    BY Replies DEF Reason
  <2>2. got' \in [Conn -> Seq(Reply)]
    BY <1>4, <2>1, Written DEF IInv
  <2> QED  BY <1>4, <2>2, LeaveEffect
<1>5. CASE UNCHANGED got /\ Leave(c)
  <2>1. got' \in [Conn -> Seq(Reply)]
    BY <1>5 DEF IInv, NetType
  <2> QED  BY <1>5, <2>1, LeaveEffect
<1> QED  BY <1>1, <1>2, <1>3, <1>4, <1>5 DEF React

\* The entry of a task that leaves goes with it.
LEMMA EffectKeeps ==
  ASSUME IInv, NEW c \in Conn, task[c] = "serving", Effect(c),
         UNCHANGED <<test, conn, backlog, seen, serverVars>>,
         inbox' \in [Conn -> Seq(Request)]
  PROVE  IInv'
<1>1. CASE UNCHANGED <<task, clients, closed>>
  <2>1. NameInv' /\ EntryInv'
    BY <1>1 DEF Effect, IInv, NameInv, EntryInv
  <2>2. /\ task \in [Conn -> States] /\ task' = [task EXCEPT ![c] = "serving"]
        /\ closed' \subseteq Conn /\ name' \in [Conn -> Names \cup {None}]
        /\ DOMAIN clients' \subseteq Names /\ \A n \in DOMAIN clients' : clients'[n] \in Conn
    BY <1>1 DEF Effect, IInv, NetType, TaskType
  <2>3. got' \in [Conn -> Seq(Reply)] /\ chan' \in [Conn -> Seq(Reply)]
    BY DEF Effect
  <2> QED  BY <2>1, <2>2, <2>3, TaskMoves DEF States
<1>2. CASE End(c) /\ Unregister(c)
  <2>1. /\ task' = [task EXCEPT ![c] = "finished"] /\ closed' = closed \cup {c}
        /\ clients' = Restrict(clients, DOMAIN clients \ {name[c]}) /\ name' = name
    BY <1>2 DEF End, Unregister
  <2>2. task'[c] = "finished" /\ \A d \in Conn : d # c => task'[d] = task[d]
    BY <2>1 DEF IInv, TaskType
  <2>3. /\ DOMAIN clients' = DOMAIN clients \ {name[c]}
        /\ \A n \in DOMAIN clients' : clients'[n] = clients[n]
    BY <2>1 DEF Restrict
  <2>4. \A n \in DOMAIN clients' : clients[n] \in Conn /\ clients[n] # c
    BY <2>3 DEF IInv, TaskType, EntryInv
  <2>5. NameInv'
    BY <2>1, <2>2 DEF IInv, NameInv
  <2>6. EntryInv'
    <3> SUFFICES ASSUME NEW n \in DOMAIN clients'
                 PROVE  /\ name'[clients'[n]] = n
                        /\ \/ task'[clients'[n]] = "serving"
                           \/ /\ task'[clients'[n]] \in {"finished", "joined"}
                              /\ conn'[clients'[n]] = "dropped"
      BY DEF EntryInv
    <3>1. n \in DOMAIN clients /\ clients'[n] = clients[n]
      BY <2>3
    <3>2. clients[n] \in Conn /\ clients[n] # c
      BY <2>4
    <3>3. task'[clients[n]] = task[clients[n]]
      BY <2>2, <3>2
    <3> QED  BY <2>1, <3>1, <3>3 DEF IInv, EntryInv
  <2>7. closed' \subseteq Conn /\ name' \in [Conn -> Names \cup {None}]
    BY <2>1 DEF IInv, NetType, TaskType
  <2>8. DOMAIN clients' \subseteq Names /\ \A n \in DOMAIN clients' : clients'[n] \in Conn
    BY <2>3, <2>4 DEF IInv, TaskType
  <2>9. got' \in [Conn -> Seq(Reply)] /\ chan' \in [Conn -> Seq(Reply)]
    BY DEF Effect
  <2> QED  BY <2>1, <2>5, <2>6, <2>7, <2>8, <2>9, TaskMoves DEF States
<1> QED  BY <1>1, <1>2 DEF Effect

LEMMA ReadRequestKeeps ==
  ASSUME IInv, NEW c \in Conn, ReadRequest(c)
  PROVE  IInv'
<1>1. /\ task[c] = "serving" /\ inbox[c] # <<>> /\ inbox' = [inbox EXCEPT ![c] = Tail(@)]
      /\ React(c, Head(inbox[c]))
      /\ UNCHANGED <<test, conn, backlog, seen, serverVars>>
  BY DEF ReadRequest, scriptVars
<1>2. inbox' \in [Conn -> Seq(Request)]
  BY <1>1, ReadOne DEF IInv
<1> QED  BY <1>1, <1>2, ReactEffect, EffectKeeps

LEMMA AbandonKeeps ==
  ASSUME IInv, NEW c \in Conn, Abandon(c)
  PROVE  IInv'
<1>1. /\ task[c] = "serving" /\ Leave(c)
      /\ UNCHANGED <<test, conn, backlog, seen, serverVars, inbox, got>>
  BY DEF Abandon, scriptVars
<1>2. inbox' \in [Conn -> Seq(Request)] /\ got' \in [Conn -> Seq(Reply)]
  BY <1>1 DEF IInv, NetType
<1> QED  BY <1>1, <1>2, LeaveEffect, EffectKeeps

\* A failed write leaves the entry behind, but its client is gone.
LEMMA ForwardKeeps ==
  ASSUME IInv, NEW c \in Conn, Forward(c)
  PROVE  IInv'
<1>1. /\ task[c] = "serving" /\ chan[c] # <<>>
      /\ UNCHANGED <<test, conn, backlog, seen, serverVars, inbox, name, clients>>
  BY DEF Forward, scriptVars
<1>2. /\ inbox' \in [Conn -> Seq(Request)]
      /\ name' \in [Conn -> Names \cup {None}]
      /\ DOMAIN clients' \subseteq Names /\ \A n \in DOMAIN clients' : clients'[n] \in Conn
  BY <1>1 DEF IInv, NetType, TaskType
<1>3. CASE /\ Writes(c, Head(chan[c])) /\ chan' = [chan EXCEPT ![c] = Tail(@)]
           /\ UNCHANGED <<task, closed>>
  <2>1. Head(chan[c]) \in Reply /\ Tail(chan[c]) \in Seq(Reply)
    BY <1>1, HeadTailProperties DEF IInv, TaskType
  <2>2. got' \in [Conn -> Seq(Reply)]
    BY <1>3, <2>1, Written DEF IInv
  <2>3. chan' \in [Conn -> Seq(Reply)]
    BY <1>3, <2>1 DEF IInv, TaskType
  <2>4. Effect(c)
    BY <1>1, <1>3, <2>2, <2>3 DEF Effect
  <2> QED  BY <1>1, <1>2, <2>4, EffectKeeps
<1>4. CASE WriteFails(c) /\ Finish(c)
  <2>1. /\ conn[c] = "dropped" /\ got' = got
        /\ task' = [task EXCEPT ![c] = "finished"] /\ closed' = closed \cup {c}
        /\ chan' = [chan EXCEPT ![c] = <<>>]
    BY <1>4 DEF WriteFails, Finish, End
  <2>2. task'[c] = "finished" /\ \A d \in Conn : d # c => task'[d] = task[d]
    BY <2>1 DEF IInv, TaskType
  <2>3. NameInv'
    BY <1>1, <2>2 DEF IInv, NameInv
  <2>4. EntryInv'
    BY <1>1, <2>1, <2>2 DEF IInv, TaskType, EntryInv
  <2>5. got' \in [Conn -> Seq(Reply)] /\ closed' \subseteq Conn
    BY <2>1 DEF IInv, NetType
  <2>6. chan' \in [Conn -> Seq(Reply)]
    BY <2>1, Emptied DEF IInv
  <2> QED  BY <1>1, <1>2, <2>1, <2>3, <2>4, <2>5, <2>6, TaskMoves DEF States
<1> QED  BY <1>3, <1>4 DEF Forward

LEMMA TaskStepKeeps ==
  ASSUME IInv, NEW c \in Conn, TaskStep(c)
  PROVE  IInv'
<1>1. CASE ReadJoin(c) \/ Greet(c)
  BY <1>1, ReadJoinKeeps, GreetKeeps
<1>2. CASE JoinEnded(c) \/ JoinTimeout(c)
  <2>1. /\ task[c] = "joining"
        /\ UNCHANGED <<test, conn, backlog, seen, serverVars, inbox>>
    BY <1>2 DEF JoinEnded, JoinTimeout, scriptVars
  <2>2. Dismiss(c, "closed") \/ Dismiss(c, "timeout")
    BY <1>2 DEF JoinEnded, JoinTimeout
  <2>3. inbox' \in [Conn -> Seq(Request)]
    BY <2>1 DEF IInv, NetType
  <2> QED  BY <2>1, <2>2, <2>3, DismissKeeps DEF Reason
<1>3. CASE ReadRequest(c) \/ Forward(c) \/ Abandon(c)
  BY <1>3, ReadRequestKeeps, ForwardKeeps, AbandonKeeps
<1> QED  BY <1>1, <1>2, <1>3 DEF TaskStep

-----------------------------------------------------------------------------
(* run_server and the test *)

\* When run_server returns, all tasks end and the map is dropped.
LEMMA ReturnKeeps ==
  ASSUME IInv, NEW how \in {"ok", "failed"}, Return(how),
         UNCHANGED <<test, conn, seen, inbox, got, stop, name>>
  PROVE  IInv'
<1>1. <<>> \in Seq(Conn) /\ <<>> \in Seq(Reply) /\ Len(<<>>) = 0
  BY EmptySeq
<1>2. /\ server' = how /\ backlog' = <<>> /\ closed' \subseteq Conn
      /\ task' = [c \in Conn |-> IF c \in Tasks THEN "joined" ELSE task[c]]
      /\ clients' = [n \in {} |-> None] /\ chan' = [c \in Conn |-> <<>>]
  BY DEF Return
<1>3. \A d : ~Queued(d)'
  BY <1>1, <1>2 DEF Queued
<1>4. NetType' /\ BacklogInv'
  BY <1>1, <1>2, <1>3 DEF IInv, NetType, BacklogInv
<1>5. /\ task' \in [Conn -> States]
      /\ \A d \in Conn : task'[d] = task[d] \/ task[d] \notin {"none", "joined"}
      /\ \A d \in Conn : task'[d] \notin {"greeting", "serving"}
  BY <1>2 DEF IInv, TaskType, States, Tasks
<1>6. DOMAIN clients' = {}
  BY <1>2
<1>7. chan' \in [Conn -> Seq(Reply)]
  BY <1>1, <1>2
<1>8. TaskType'
  BY <1>2, <1>5, <1>6, <1>7 DEF IInv, TaskType
<1>9. LimitInv' /\ StartInv'
  BY <1>3, <1>5, NoTaskBegins DEF IInv
<1>10. NameInv' /\ EntryInv'
  BY <1>5, <1>6 DEF NameInv, EntryInv
<1> QED  BY <1>4, <1>8, <1>9, <1>10 DEF IInv

\* The new task is one more than there were when the limit was looked at.
LEMMA AcceptKeeps ==
  ASSUME IInv, Accept
  PROVE  IInv'
<1> DEFINE c == Head(backlog)
<1>1. backlog # <<>> /\ UNCHANGED <<test, conn, inbox, seen, stop, name>>
  BY DEF Accept, scriptVars
<1>2. CASE WriteFails(c) /\ Return("failed")
  BY <1>1, <1>2, ReturnKeeps DEF WriteFails
<1>3. ASSUME backlog' = Tail(backlog), UNCHANGED <<server, chan, clients>>,
             closed' \subseteq Conn, got' \in [Conn -> Seq(Reply)],
             \/ UNCHANGED task
             \/ ~IsFull /\ task' = [task EXCEPT ![c] = "joining"]
      PROVE  IInv'
  <2>1. /\ c \in Conn /\ Queued(c) /\ backlog' \in Seq(Conn)
        /\ \A i, j \in 1 .. Len(backlog') : backlog'[i] = backlog'[j] => i = j
        /\ \A d : Queued(d)' => Queued(d) /\ d # c
    BY <1>1, <1>3, Dequeued DEF IInv
  <2>2. task[c] = "none" /\ conn[c] # "absent"
    BY <2>1 DEF IInv, StartInv, BacklogInv
  <2> HIDE DEF c
  <2>3. NetType' /\ BacklogInv'
    BY <1>1, <1>3, <2>1 DEF IInv, NetType, BacklogInv
  <2>4. /\ task' \in [Conn -> States]
        /\ \A d \in Conn : d # c => task'[d] = task[d]
        /\ task'[c] \in {"none", "joining"}
    BY <1>3, <2>1, <2>2 DEF IInv, TaskType, States
  <2>5. TaskType'
    BY <1>1, <1>3, <2>4 DEF IInv, TaskType
  <2>6. StartInv'
    BY <1>1, <2>1, <2>2, <2>4 DEF IInv, StartInv
  <2>7. LimitInv'
    <3>1. Limit \in Nat /\ Limit' = Limit
      BY <1>1, HarnessAssumption DEF Limit, IInv, NetType
    <3>2. CASE UNCHANGED task
      BY <3>1, <3>2 DEF IInv, LimitInv, Tasks
    <3>3. CASE ~IsFull /\ task' = [task EXCEPT ![c] = "joining"]
      <4>1. IsFiniteSet(Tasks) /\ c \notin Tasks
        BY <2>2, HarnessAssumption, FS_Subset DEF Tasks
      <4>2. Tasks' = Tasks \cup {c}
        BY <2>1, <3>3 DEF IInv, TaskType, Tasks
      <4>3. Cardinality(Tasks') = Cardinality(Tasks) + 1 /\ Cardinality(Tasks) \in Nat
        BY <4>1, <4>2, FS_AddElement, FS_CardinalityType
      <4>4. Cardinality(Tasks) <= Limit
        BY <3>1, <3>3, <4>3 DEF IsFull
      <4> QED  BY <3>1, <4>3, <4>4 DEF LimitInv
    <3> QED  BY <1>3, <3>2, <3>3
  <2>8. NameInv'
    BY <1>1, <2>4 DEF IInv, NameInv
  <2>9. \A n \in DOMAIN clients : clients[n] \in Conn /\ clients[n] # c
    BY <2>2 DEF IInv, TaskType, EntryInv
  <2>10. EntryInv'
    BY <1>1, <1>3, <2>4, <2>9 DEF IInv, EntryInv
  <2> QED  BY <2>3, <2>5, <2>6, <2>7, <2>8, <2>10 DEF IInv
<1>4. c \in Conn
  BY <1>1, HeadTailProperties DEF IInv, NetType
<1>5. CASE /\ Writes(c, Error("full"))
           /\ closed' = closed \cup {c} /\ backlog' = Tail(backlog)
           /\ UNCHANGED <<server, task, clients, chan>>
  <2>1. Error("full") \in Reply
    BY Replies DEF Reason
  <2>2. got' \in [Conn -> Seq(Reply)]
    BY <1>4, <1>5, <2>1, Written DEF IInv
  <2>3. closed' \subseteq Conn
    BY <1>4, <1>5 DEF IInv, NetType
  <2> QED  BY <1>3, <1>5, <2>2, <2>3
<1>6. CASE /\ ~IsFull /\ task' = [task EXCEPT ![c] = "joining"]
           /\ backlog' = Tail(backlog)
           /\ UNCHANGED <<got, closed, server, clients, chan>>
  <2>1. got' \in [Conn -> Seq(Reply)] /\ closed' \subseteq Conn
    BY <1>6 DEF IInv, NetType
  <2> QED  BY <1>3, <1>6, <2>1
<1> QED  BY <1>2, <1>5, <1>6 DEF Accept

LEMMA JoinNextKeeps ==
  ASSUME IInv, JoinNext
  PROVE  IInv'
<1>1. PICK c \in Conn : task[c] = "finished" /\ task' = [task EXCEPT ![c] = "joined"]
  BY DEF JoinNext
<1>2. /\ UNCHANGED <<test, conn, backlog, inbox, got, seen, closed, serverVars>>
      /\ UNCHANGED <<name, clients, chan>>
  BY DEF JoinNext, scriptVars, netVars
<1>3. task'[c] = "joined" /\ \A d \in Conn : d # c => task'[d] = task[d]
  BY <1>1 DEF IInv, TaskType
<1>4. NameInv' /\ EntryInv'
  BY <1>1, <1>2, <1>3 DEF IInv, TaskType, NameInv, EntryInv
<1>5. /\ inbox' \in [Conn -> Seq(Request)] /\ got' \in [Conn -> Seq(Reply)]
      /\ closed' \subseteq Conn /\ name' \in [Conn -> Names \cup {None}]
      /\ DOMAIN clients' \subseteq Names /\ \A n \in DOMAIN clients' : clients'[n] \in Conn
      /\ chan' \in [Conn -> Seq(Reply)]
  BY <1>2 DEF IInv, NetType, TaskType
<1> QED  BY <1>1, <1>2, <1>4, <1>5, TaskMoves DEF States

\* The clients come and go in one direction, and touch no task.
LEMMA ClientsKeep ==
  ASSUME IInv, NetType', BacklogInv', Onward, UNCHANGED <<test, server, taskVars>>,
         stop' \in BOOLEAN
  PROVE  IInv'
<1>1. UNCHANGED <<test, server, task, name, clients, chan>>
  BY DEF taskVars
<1>2. TaskType' /\ NameInv'
  BY <1>1 DEF IInv, TaskType, NameInv
<1>3. EntryInv'
  BY <1>1 DEF IInv, TaskType, EntryInv, Onward
<1>4. LimitInv' /\ StartInv'
  <2>1. \A d \in Conn : Queued(d)' \/ conn'[d] = "absent" => Queued(d) \/ conn[d] = "absent"
    BY DEF Onward
  <2>2. \A d \in Conn : task'[d] = task[d]
    BY <1>1
  <2> QED  BY <1>1, <1>2, <2>1, <2>2, NoTaskBegins DEF IInv, TaskType
<1> QED  BY <1>2, <1>3, <1>4 DEF IInv

LEMMA HarnessKeeps ==
  ASSUME IInv, Harness
  PROVE  IInv'
<1>0. NetType /\ BacklogInv /\ stop \in BOOLEAN
  BY DEF IInv, TaskType
<1>1. CASE ScriptStep(Quiet, Overdue) /\ UNCHANGED <<serverVars, taskVars>>
  <2>1. NetType' /\ BacklogInv' /\ Onward
    BY <1>0, <1>1, ScriptKeeps
  <2>2. test' = test
    BY <1>1 DEF ScriptStep, EndBlock, DoConnect, DoSend, DoChoose, DoReceive, DoClose,
                DoCheckClosed, DoSleep, DoAssert, Pass, Fail
  <2> QED  BY <1>0, <1>1, <2>1, <2>2, ClientsKeep DEF serverVars
<1>2. CASE Conclude
  <2>1. DropClients /\ UNCHANGED <<test, server, taskVars>> /\ stop' = TRUE
    BY <1>2 DEF Conclude, scriptVars
  <2>2. NetType' /\ BacklogInv' /\ Onward
    BY <1>0, <2>1, DropClientsKeeps
  <2> QED  BY <2>1, <2>2, ClientsKeep
<1>3. CASE Judge \/ ToldToStop
  <2>1. /\ UNCHANGED <<test, netVars, server, taskVars>>
        /\ stop' = stop \/ stop' = TRUE
    BY <1>3 DEF Judge, ToldToStop, scriptVars, serverVars
  <2>2. NetType' /\ BacklogInv' /\ Onward
    <3>1. /\ conn' = conn /\ backlog' = backlog /\ inbox' = inbox /\ got' = got
          /\ seen' = seen /\ closed' = closed /\ test' = test
      BY <2>1 DEF netVars
    <3> QED  BY <1>0, <3>1 DEF NetType, BacklogInv, Onward, Queued
  <2> QED  BY <1>0, <2>1, <2>2, ClientsKeep
<1> QED  BY <1>1, <1>2, <1>3 DEF Harness

-----------------------------------------------------------------------------
(* The theorems *)

LEMMA InitInv ==
  ASSUME Init
  PROVE  IInv
<1>1. NetType /\ BacklogInv
  BY HarnessStarts DEF Init
<1>2. <<>> \in Seq(Reply)
  BY EmptySeq
<1>3. TaskType
  BY <1>2 DEF Init, TaskType, States
<1>4. Tasks = {}
  BY DEF Init, Tasks
<1>5. LimitInv
  BY <1>1, <1>4, FS_EmptySet, HarnessAssumption DEF LimitInv, Limit, NetType
<1>6. StartInv /\ NameInv /\ EntryInv
  BY DEF Init, StartInv, NameInv, EntryInv
<1> QED  BY <1>1, <1>3, <1>5, <1>6 DEF IInv

LEMMA NextInv ==
  ASSUME IInv, [Next]_vars
  PROVE  IInv'
<1>1. CASE Accept \/ JoinNext \/ Harness
  BY <1>1, AcceptKeeps, JoinNextKeeps, HarnessKeeps
<1>2. CASE ShutDown
  BY <1>2, ReturnKeeps DEF ShutDown, scriptVars
<1>3. ASSUME NEW c \in Conn, TaskStep(c)
      PROVE  IInv'
  BY <1>3, TaskStepKeeps
<1>4. CASE UNCHANGED vars
  <2>1. /\ conn' = conn /\ backlog' = backlog /\ inbox' = inbox /\ got' = got
        /\ seen' = seen /\ closed' = closed /\ test' = test
        /\ UNCHANGED <<server, stop, taskVars>>
    BY <1>4 DEF vars, scriptVars, netVars, serverVars
  <2>2. NetType' /\ BacklogInv' /\ Onward
    BY <2>1 DEF IInv, NetType, BacklogInv, Onward, Queued
  <2> QED  BY <2>1, <2>2, ClientsKeep DEF IInv, TaskType
<1> QED  BY <1>1, <1>2, <1>3, <1>4 DEF Next

\* The inductive invariant holds throughout.
THEOREM Invariance == Spec => []IInv
<1> QED  BY InitInv, NextInv, PTL DEF Spec

\* run_server takes one client more than it should (server.rs:46), and no more
\* than one: the tasks that have not been joined are within max_clients + 1.
THEOREM OneTooMany == Spec => []LimitInv
<1>1. IInv => LimitInv
  BY DEF IInv
<1> QED  BY <1>1, Invariance, PTL

-----------------------------------------------------------------------------
(* The channels *)

\* A channel that nobody reads holds nothing.
ChanKept == \A c \in Conn : task[c] # "serving" => chan[c] = <<>>

\* What a task does to the channels.
Fills(c) ==
  \/ Finish(c)
  \/ /\ UNCHANGED chan
     /\ \/ task' = task \/ task' = [task EXCEPT ![c] = "serving"]
        \/ task[c] = "joining" /\ task' = [task EXCEPT ![c] = "greeting"]
  \/ /\ task[c] = "serving" /\ task' = task
     /\ \/ chan' = [chan EXCEPT ![c] = Tail(@)]
        \/ \E S \in SUBSET {d \in Conn : Receives(d)} : chan' = Forwarded(c, S)
  \/ /\ task[c] = "serving" /\ End(c)
     /\ \E S \in SUBSET {d \in Conn : Receives(d)} : chan' = [Forwarded(c, S) EXCEPT ![c] = <<>>]

LEMMA TaskFills ==
  ASSUME IInv, NEW c \in Conn, TaskStep(c)
  PROVE  Fills(c)
<1>1. CASE ReadJoin(c) \/ JoinEnded(c) \/ JoinTimeout(c)
  BY <1>1 DEF ReadJoin, JoinEnded, JoinTimeout, Dismiss, Fills
<1>2. CASE Greet(c) \/ Abandon(c)
  BY <1>2 DEF Greet, Abandon, Leave, Fills
<1>3. CASE Forward(c)
  BY <1>3 DEF Forward, Fills
<1>4. CASE ReadRequest(c)
  <2>1. task[c] = "serving" /\ React(c, Head(inbox[c]))
    BY <1>4 DEF ReadRequest
  <2>2. ASSUME NEW r, Answer(c, r) PROVE Fills(c)
    BY <2>2 DEF Answer, Leave, Fills
  <2>3. CASE Pong(c) \/ Answer(c, [kind |-> "list", users |-> DOMAIN clients]) \/ Leave(c)
    BY <2>2, <2>3 DEF Pong, Leave, Fills
  <2>4. ASSUME NEW n, DirectMessage(c, n) PROVE Fills(c)
    <3>1. CASE \E r : Answer(c, r)
      BY <2>2, <3>1
    <3>2. CASE n \in DOMAIN clients /\ Receives(clients[n])
               /\ chan' = Forwarded(c, {clients[n]}) /\ UNCHANGED task
      <4>1. {clients[n]} \in SUBSET {d \in Conn : Receives(d)}
        BY <3>2 DEF IInv, TaskType
      <4> QED  BY <2>1, <3>2, <4>1 DEF Fills
    <3>3. CASE Leave(c)
      BY <3>3 DEF Leave, Fills
    <3> QED  BY <2>4, <3>1, <3>2, <3>3 DEF DirectMessage, Nobody
  <2>5. CASE Broadcast(c)
    <3> DEFINE to == {clients[n] : n \in DOMAIN clients \ {name[c]}}
               able == {d \in to : Receives(d)}
    <3>1. able \in SUBSET {d \in Conn : Receives(d)}
      BY DEF IInv, TaskType
    <3>2. \/ able = to /\ chan' = Forwarded(c, to) /\ UNCHANGED task
          \/ End(c) /\ \E S \in SUBSET able : chan' = [Forwarded(c, S) EXCEPT ![c] = <<>>]
      BY <2>5 DEF Broadcast
    <3> HIDE DEF to, able
    <3> QED  BY <2>1, <3>1, <3>2 DEF Fills
  <2> QED  BY <2>1, <2>3, <2>4, <2>5 DEF React
<1> QED  BY <1>1, <1>2, <1>3, <1>4 DEF TaskStep

LEMMA NextChannels ==
  ASSUME IInv, ChanKept, [Next]_vars
  PROVE  ChanKept'
<1>1. ASSUME NEW c \in Conn, TaskStep(c) PROVE ChanKept'
  <2>1. Fills(c) /\ task \in [Conn -> States] /\ chan \in [Conn -> Seq(Reply)]
    BY <1>1, TaskFills DEF IInv, TaskType
  <2> SUFFICES ASSUME NEW d \in Conn, task'[d] # "serving" PROVE chan'[d] = <<>>
    BY DEF ChanKept
  <2>2. CASE Finish(c)
    BY <2>1, <2>2 DEF ChanKept, Finish, End
  <2>3. CASE UNCHANGED chan
    BY <2>1, <2>3 DEF ChanKept, Fills, Finish, End
  <2>4. CASE task[c] = "serving" /\ task' = task /\ chan' = [chan EXCEPT ![c] = Tail(@)]
    BY <2>1, <2>4 DEF ChanKept
  <2>5. ASSUME NEW S \in SUBSET {e \in Conn : Receives(e)}, task[c] = "serving",
               \/ task' = task /\ chan' = Forwarded(c, S)
               \/ End(c) /\ chan' = [Forwarded(c, S) EXCEPT ![c] = <<>>]
        PROVE  chan'[d] = <<>>
    <3>1. task[d] # "serving" \/ (d = c /\ End(c))
      BY <2>1, <2>5 DEF End
    <3>2. task[d] # "serving" => Forwarded(c, S)[d] = <<>>
      BY <2>5 DEF ChanKept, Forwarded, Receives
    <3>3. d = c /\ End(c) => task' # task
      BY <2>1, <2>5 DEF End
    <3> QED  BY <2>5, <3>1, <3>2, <3>3 DEF Forwarded
  <2> QED  BY <2>1, <2>2, <2>3, <2>4, <2>5 DEF Fills
<1>2. ASSUME NEW how, Return(how) PROVE ChanKept'
  BY <1>2 DEF Return, ChanKept
<1>3. ASSUME UNCHANGED chan, \A d \in Conn : task[d] = "serving" => task'[d] = "serving"
      PROVE  ChanKept'
  BY <1>3 DEF ChanKept
<1>4. CASE Accept
  <2>1. CASE UNCHANGED <<task, chan>> \/ \E how : Return(how)
    BY <1>2, <1>3, <2>1
  <2>2. CASE task' = [task EXCEPT ![Head(backlog)] = "joining"] /\ UNCHANGED chan
    <3>1. Head(backlog) \in Conn /\ Queued(Head(backlog))
      <4>1. backlog # <<>> /\ backlog \in Seq(Conn)
        BY <1>4 DEF Accept, IInv, NetType
      <4> QED  BY <4>1, HeadTailProperties, LenProperties, EmptySeq DEF Queued
    <3>2. task[Head(backlog)] = "none"
      BY <3>1 DEF IInv, StartInv
    <3> QED  BY <1>3, <2>2, <3>2 DEF IInv, TaskType
  <2> QED  BY <1>4, <2>1, <2>2 DEF Accept
<1>5. CASE JoinNext
  BY <1>3, <1>5 DEF JoinNext, IInv, TaskType
<1>6. CASE ShutDown
  BY <1>2, <1>6 DEF ShutDown
<1>7. CASE Harness \/ UNCHANGED vars
  <2>1. UNCHANGED <<task, chan>>
    BY <1>7 DEF Harness, Conclude, Judge, ToldToStop, taskVars, vars
  <2> QED  BY <1>3, <2>1
<1> QED  BY <1>1, <1>4, <1>5, <1>6, <1>7 DEF Next

\* For every set of clients, every test and every limit the variables stay in
\* their types; nothing is put into a channel whose receiver is gone.
THEOREM TypeCorrect == Spec => []TypeOK
<1>1. Init => ChanKept
  BY DEF Init, ChanKept
<1>2. IInv /\ ChanKept => TypeOK
  BY DEF IInv, NetType, TaskType, NameInv, ChanKept, TypeOK, States
<1> QED  BY <1>1, <1>2, NextChannels, Invariance, PTL DEF Spec

-----------------------------------------------------------------------------
(* Entries of the map, and the end of a task *)

\* Whoever takes a name over and whoever leaves first, an entry of the map is
\* that of a client served under that name, or of one that is gone.
THEOREM EntriesCorrect == Spec => []EntriesBelong
<1>1. IInv => EntriesBelong
  BY DEF IInv, EntryInv, EntriesBelong
<1> QED  BY <1>1, Invariance, PTL

\* Why a task that serves its client may end.
Excuse(c) ==
  \/ conn[c] = "dropped" \/ Ended(c)
  \/ inbox[c] # <<>> /\ Head(inbox[c]).kind \in {"join", "bad"}
  \/ c \notin Range(clients)
  \/ \E n \in DOMAIN clients : task[clients[n]] # "serving"

\* A request ends the loop only for such a reason.
LEMMA ReactServes ==
  ASSUME IInv, NEW c \in Conn, inbox[c] # <<>>, React(c, Head(inbox[c]))
  PROVE  UNCHANGED task \/ Excuse(c)
<1> DEFINE r == Head(inbox[c])
<1>1. \A reply : Answer(c, reply) => UNCHANGED task \/ conn[c] = "dropped"
  BY DEF Answer, WriteFails
<1>2. CASE DirectMessage(c, r.name)
  <2>1. CASE \E reply : Answer(c, reply)
    BY <1>1, <2>1 DEF Excuse
  <2>2. CASE /\ r.name \in DOMAIN clients
             /\ IF Receives(clients[r.name]) THEN UNCHANGED task ELSE TRUE
    BY <2>2 DEF Receives, Excuse
  <2> QED  BY <1>2, <2>1, <2>2 DEF DirectMessage, Nobody
<1>3. CASE Broadcast(c)
  <2> DEFINE to == {clients[n] : n \in DOMAIN clients \ {name[c]}}
             able == {d \in to : Receives(d)}
  <2>1. able = to => UNCHANGED task
    BY <1>3 DEF Broadcast
  <2>2. able # to => \E n \in DOMAIN clients : task[clients[n]] # "serving"
    BY DEF Receives
  <2> QED  BY <2>1, <2>2 DEF Excuse
<1>4. CASE r.kind \in {"join", "bad"}
  BY <1>4 DEF Excuse
<1>5. CASE \E reply : Answer(c, reply)
  BY <1>1, <1>5 DEF Excuse
<1> QED  BY <1>2, <1>3, <1>4, <1>5 DEF React, Pong

LEMMA TaskStepServes ==
  ASSUME IInv, NEW d \in Conn, TaskStep(d), NEW c \in Conn,
         task[c] = "serving", task'[c] = "finished"
  PROVE  Excuse(c)
<1>1. CASE ReadRequest(d)
  <2>1. inbox[d] # <<>> /\ React(d, Head(inbox[d])) /\ task[d] = "serving"
    BY <1>1 DEF ReadRequest
  <2>2. UNCHANGED task \/ task' = [task EXCEPT ![d] = "finished"]
    BY <2>1, ReactEffect DEF Effect, End
  <2>3. c = d
    BY <2>2 DEF IInv, TaskType
  <2> QED  BY <2>1, <2>3, ReactServes
<1>2. CASE Forward(d)
  <2>1. UNCHANGED task \/ (conn[d] = "dropped" /\ task' = [task EXCEPT ![d] = "finished"])
    BY <1>2 DEF Forward, WriteFails, Finish, End
  <2> QED  BY <2>1 DEF IInv, TaskType, Excuse
<1>3. CASE Abandon(d)
  <2>1. (Ended(d) \/ d \notin Range(clients)) /\ task' = [task EXCEPT ![d] = "finished"]
    BY <1>3 DEF Abandon, IsOver, Unheld, Leave, Finish, End
  <2> QED  BY <2>1 DEF IInv, TaskType, Excuse
<1>4. CASE ReadJoin(d) \/ JoinEnded(d) \/ JoinTimeout(d) \/ Greet(d)
  <2>1. /\ task[d] \in {"joining", "greeting"}
        /\ \E s : task' = [task EXCEPT ![d] = s]
    BY <1>4 DEF ReadJoin, JoinEnded, JoinTimeout, Greet, Dismiss, Finish, End
  <2> QED  BY <2>1 DEF IInv, TaskType
<1> QED  BY <1>1, <1>2, <1>3, <1>4 DEF TaskStep

LEMMA StepServes ==
  IInv /\ [Next]_vars =>
    \A c \in Conn : task[c] = "serving" /\ task'[c] = "finished" =>
      \/ conn[c] = "dropped" \/ Ended(c)
      \/ inbox[c] # <<>> /\ Head(inbox[c]).kind \in {"join", "bad"}
      \/ c \notin Range(clients)
      \/ \E n \in DOMAIN clients : task[clients[n]] # "serving"
<1> SUFFICES ASSUME IInv, [Next]_vars, NEW c \in Conn,
                    task[c] = "serving", task'[c] = "finished"
             PROVE  Excuse(c)
  BY DEF Excuse
<1>1. CASE \E d \in Conn : TaskStep(d)
  BY <1>1, TaskStepServes
<1>2. CASE Accept
  <2> DEFINE d == Head(backlog)
  <2>1. \/ UNCHANGED task
        \/ task' = [task EXCEPT ![d] = "joining"]
        \/ task' = [e \in Conn |-> IF e \in Tasks THEN "joined" ELSE task[e]]
    BY <1>2 DEF Accept, Return
  <2> QED  BY <2>1 DEF IInv, TaskType
<1>3. CASE ShutDown
  <2>1. task' = [e \in Conn |-> IF e \in Tasks THEN "joined" ELSE task[e]]
    BY <1>3 DEF ShutDown, Return
  <2> QED  BY <2>1 DEF IInv, TaskType
<1>4. CASE JoinNext
  <2>1. PICK d \in Conn : task[d] = "finished" /\ task' = [task EXCEPT ![d] = "joined"]
    BY <1>4 DEF JoinNext
  <2> QED  BY <2>1 DEF IInv, TaskType
<1>5. CASE Harness \/ UNCHANGED vars
  <2>1. task' = task
    BY <1>5 DEF Harness, Conclude, Judge, ToldToStop, taskVars, vars
  <2> QED  BY <2>1
<1> QED  BY <1>1, <1>2, <1>3, <1>4, <1>5 DEF Next

\* handle_client leaves its loop for nothing but what its client does, a name
\* taken over, or an entry that a client that is gone has left.
THEOREM ServingCorrect == Spec => ServedUntilItLeaves
BY Invariance, StepServes, PTL DEF Spec, ServedUntilItLeaves

-----------------------------------------------------------------------------
(* What a client hears *)

\* What is forwarded is never a Welcome.
ChanInv == \A c \in Conn : \A i \in 1 .. Len(chan[c]) : chan[c][i].kind # "welcome"

\* A client hears nothing before its task answers the Join, and is greeted
\* before it is served, unless it is gone by then.
FramesOK(c) ==
  /\ got[c] = <<>> \/ Greeted(c) \/ RefusedOnly(c)
  /\ task[c] \in {"joining", "greeting"} \/ Queued(c) \/ conn[c] = "absent" => got[c] = <<>>
  /\ task[c] = "serving" => Greeted(c) \/ (got[c] = <<>> /\ conn[c] = "dropped")
FramesInv == \A c \in Conn : FramesOK(c)

\* Who hears nothing is none the worse for it.
LEMMA Unheard ==
  ASSUME NEW c \in Conn, FramesOK(c), got'[c] = got[c],
         c \in closed /\ conn[c] # "absent" => c \in closed',
         task'[c] = task[c] \/ task'[c] \in {"finished", "joined"},
         Queued(c)' \/ conn'[c] = "absent" => Queued(c) \/ conn[c] = "absent",
         conn[c] = "dropped" => conn'[c] = "dropped"
  PROVE  FramesOK(c)'
BY DEF FramesOK, Greeted, RefusedOnly

\* What a task may do about its client.
Speaks(c) ==
  \/ task[c] = "joining" /\ got' = got /\ task' = [task EXCEPT ![c] = "greeting"]
  \/ got' = got /\ task' = [task EXCEPT ![c] = "finished"]
  \/ /\ task[c] = "joining" /\ task' = [task EXCEPT ![c] = "finished"] /\ c \in closed'
     /\ \E why \in Reason : Writes(c, Error(why))
  \/ task[c] = "greeting" /\ Writes(c, [kind |-> "welcome"]) /\ task' = [task EXCEPT ![c] = "serving"]
  \/ /\ task[c] = "serving"
     /\ got' = got \/ \E r \in Reply : r.kind # "welcome" /\ Writes(c, r)
     /\ task' = [task EXCEPT ![c] = "serving"] \/ task' = [task EXCEPT ![c] = "finished"]

LEMMA AnswerSpeaks ==
  ASSUME IInv, NEW c \in Conn, task[c] = "serving", NEW r \in Reply, r.kind # "welcome",
         Answer(c, r) \/ (Writes(c, r) /\ Leave(c))
  PROVE  Speaks(c) /\ closed \subseteq closed'
<1>1. task = [task EXCEPT ![c] = "serving"]
  BY DEF IInv, TaskType
<1> QED  BY <1>1 DEF Speaks, Answer, Leave, Finish, End, WriteFails

LEMMA TaskSpeaks ==
  ASSUME IInv, ChanInv, NEW c \in Conn, TaskStep(c)
  PROVE  Speaks(c) /\ closed \subseteq closed' /\ UNCHANGED <<conn, backlog>>
<1>a. UNCHANGED <<conn, backlog>>
  BY DEF TaskStep, ReadJoin, Greet, JoinEnded, JoinTimeout, ReadRequest, Forward, Abandon
<1>b. task = [task EXCEPT ![c] = task[c]]
  BY DEF IInv, TaskType
<1>1. CASE ReadJoin(c) \/ JoinEnded(c) \/ JoinTimeout(c)
  BY <1>1, <1>a DEF ReadJoin, JoinEnded, JoinTimeout, Dismiss, Finish, End, Reason, Speaks
<1>2. CASE Greet(c)
  BY <1>2, <1>a DEF Greet, WriteFails, Finish, End, Speaks
<1>3. CASE Abandon(c)
  BY <1>3, <1>a DEF Abandon, Leave, Finish, End, Speaks
<1>4. CASE Forward(c)
  <2>1. task[c] = "serving" /\ chan[c] # <<>> /\ chan[c] \in Seq(Reply)
    BY <1>4 DEF Forward, IInv, TaskType
  <2>2. Head(chan[c]) = chan[c][1] /\ 1 \in 1 .. Len(chan[c]) /\ Head(chan[c]) \in Reply
    BY <2>1, HeadTailProperties, LenProperties, EmptySeq
  <2>3. Head(chan[c]).kind # "welcome"
    BY <2>2 DEF ChanInv
  <2> QED  BY <1>4, <1>a, <1>b, <2>1, <2>2, <2>3 DEF Forward, WriteFails, Finish, End, Speaks
<1>5. CASE ReadRequest(c)
  <2>1. task[c] = "serving" /\ React(c, Head(inbox[c])) /\ name[c] \in Names
    BY <1>5 DEF ReadRequest, IInv, NameInv
  <2> DEFINE r == Head(inbox[c])
  <2>2. /\ [kind |-> "pong"] \in Reply /\ [kind |-> "list", users |-> DOMAIN clients] \in Reply
        /\ Error("self") \in Reply /\ Error("nobody") \in Reply /\ Error("unexpected") \in Reply
    BY Replies DEF Reason, IInv, TaskType
  <2>3. \A why : Error(why).kind # "welcome"
    BY DEF Error
  <2>4. CASE Pong(c) \/ Answer(c, [kind |-> "list", users |-> DOMAIN clients])
    BY <1>a, <2>1, <2>2, <2>4, AnswerSpeaks DEF Pong
  <2>5. CASE DirectMessage(c, r.name)
    <3>1. CASE Answer(c, Error("self")) \/ Nobody(c)
      BY <1>a, <2>1, <2>2, <2>3, <3>1, AnswerSpeaks DEF Nobody
    <3>2. CASE UNCHANGED <<got, task, closed>> \/ (UNCHANGED got /\ Leave(c))
      BY <1>a, <1>b, <2>1, <3>2 DEF Leave, Finish, End, Speaks
    <3> QED  BY <2>5, <3>1, <3>2 DEF DirectMessage
  <2>6. CASE Broadcast(c) \/ (UNCHANGED got /\ Leave(c))
    BY <1>a, <1>b, <2>1, <2>6 DEF Broadcast, Leave, Finish, End, Speaks
  <2>7. CASE Writes(c, Error("unexpected")) /\ Leave(c)
    BY <1>a, <2>1, <2>2, <2>3, <2>7, AnswerSpeaks
  <2> QED  BY <2>1, <2>4, <2>5, <2>6, <2>7 DEF React
<1> QED  BY <1>1, <1>2, <1>3, <1>4, <1>5 DEF TaskStep

LEMMA TaskFrames ==
  ASSUME IInv, FramesInv, ChanInv, NEW c \in Conn, TaskStep(c)
  PROVE  FramesInv'
<1>1. Speaks(c) /\ closed \subseteq closed' /\ UNCHANGED <<conn, backlog>>
  BY TaskSpeaks
<1>a. /\ NetType /\ FramesOK(c) /\ task \in [Conn -> States]
      /\ task[c] \notin {"none", "joined"} /\ ~Queued(c) /\ conn[c] # "absent"
  BY <1>1 DEF IInv, FramesInv, StartInv, TaskType, TaskStep, ReadJoin, Greet, JoinEnded, JoinTimeout,
              ReadRequest, Forward, Abandon
<1>b. \A d : Queued(d)' = Queued(d)
  BY <1>1 DEF Queued
<1>c. \A r \in Reply : Writes(c, r) => 
        /\ \A d \in Conn \ {c} : got'[d] = got[d]
        /\ conn[c] = "dropped" => got'[c] = got[c]
        /\ Greeted(c) /\ r.kind # "welcome" => Greeted(c)'
        /\ got[c] = <<>> /\ r.kind = "welcome" =>
             Greeted(c)' \/ (got'[c] = <<>> /\ conn[c] = "dropped")
        /\ got[c] = <<>> /\ r.kind = "error" =>
             got'[c] = <<>> \/ (Len(got'[c]) = 1 /\ got'[c][1].kind = "error")
  BY <1>a, Hears DEF Writes
<1>d. /\ [kind |-> "welcome"] \in Reply
      /\ \A why \in Reason : Error(why) \in Reply /\ Error(why).kind = "error"
  BY Replies DEF Error
<1>2. ASSUME NEW d \in Conn \ {c} PROVE FramesOK(d)'
  <2>1. got'[d] = got[d] /\ task'[d] = task[d]
    BY <1>1, <1>a, <1>c, <1>d DEF Speaks
  <2> QED  BY <1>1, <1>b, <2>1, Unheard DEF FramesInv
<1>3. FramesOK(c)'
  <2>1. CASE got' = got /\ task' = [task EXCEPT ![c] = "finished"]
    <3>1. task'[c] = "finished"
      BY <1>a, <2>1
    <3> QED  BY <1>1, <1>a, <1>b, <2>1, <3>1, Unheard
  <2>2. CASE task[c] = "joining" /\ got' = got /\ task' = [task EXCEPT ![c] = "greeting"]
    BY <1>1, <1>a, <1>b, <2>2 DEF FramesOK, Greeted, RefusedOnly
  <2>3. ASSUME task[c] = "joining", task' = [task EXCEPT ![c] = "finished"], c \in closed',
               NEW why \in Reason, Writes(c, Error(why))
        PROVE  FramesOK(c)'
    <3>1. got[c] = <<>> /\ task'[c] = "finished"
      BY <1>a, <2>3 DEF FramesOK
    <3>2. got'[c] = <<>> \/ (Len(got'[c]) = 1 /\ got'[c][1].kind = "error")
      BY <1>c, <1>d, <2>3, <3>1
    <3> QED  BY <1>1, <1>a, <1>b, <2>3, <3>1, <3>2 DEF FramesOK, RefusedOnly
  <2>4. CASE task[c] = "greeting" /\ Writes(c, [kind |-> "welcome"])
             /\ task' = [task EXCEPT ![c] = "serving"]
    <3>1. got[c] = <<>> /\ task'[c] = "serving"
      BY <1>a, <2>4 DEF FramesOK
    <3>2. Greeted(c)' \/ (got'[c] = <<>> /\ conn[c] = "dropped")
      BY <1>c, <1>d, <2>4, <3>1
    <3> QED  BY <1>1, <1>a, <1>b, <3>1, <3>2 DEF FramesOK
  <2>5. ASSUME task[c] = "serving",
               got' = got \/ \E r \in Reply : r.kind # "welcome" /\ Writes(c, r),
               task'[c] \in {"serving", "finished"}
        PROVE  FramesOK(c)'
    <3>1. Greeted(c)' \/ (got'[c] = <<>> /\ conn[c] = "dropped")
      BY <1>a, <1>c, <2>5 DEF FramesOK, Greeted
    <3> QED  BY <1>1, <1>a, <1>b, <2>5, <3>1 DEF FramesOK
  <2> QED  BY <1>1, <1>a, <2>1, <2>2, <2>3, <2>4, <2>5 DEF Speaks
<1> QED  BY <1>2, <1>3 DEF FramesInv

LEMMA TaskChans ==
  ASSUME IInv, ChanInv, NEW c \in Conn, TaskStep(c)
  PROVE  ChanInv'
<1> DEFINE m == [kind |-> "msg", from |-> name[c]]
<1>1. ASSUME NEW d \in Conn
      PROVE  \/ chan'[d] \in {chan[d], <<>>, Append(chan[d], m)}
             \/ chan[d] # <<>> /\ chan'[d] = Tail(chan[d])
  <2>a. chan \in [Conn -> Seq(Reply)]
    BY DEF IInv, TaskType
  <2> DEFINE OK(ch) == ch[d] \in {chan[d], <<>>, Append(chan[d], m)}
  <2>b. \A S : OK(Forwarded(c, S)) /\ OK([Forwarded(c, S) EXCEPT ![c] = <<>>])
    BY DEF Forwarded
  <2>c. OK(chan) /\ OK([chan EXCEPT ![c] = <<>>])
    BY <2>a
  <2>1. CASE chan' = chan \/ Finish(c)
    BY <2>c, <2>1 DEF Finish
  <2>2. CASE Forward(c)
    <3>1. CASE chan' = [chan EXCEPT ![c] = Tail(@)]
      BY <2>2, <2>a, <3>1 DEF Forward
    <3> QED  BY <2>1, <2>2, <3>1 DEF Forward
  <2>3. CASE \E S : chan' = Forwarded(c, S) \/ chan' = [Forwarded(c, S) EXCEPT ![c] = <<>>]
    BY <2>b, <2>3
  <2>4. CASE ReadRequest(c)
    <3>1. React(c, Head(inbox[c]))
      BY <2>4 DEF ReadRequest
    <3>2. ASSUME NEW r, Answer(c, r) PROVE chan' = chan \/ Finish(c)
      BY <3>2 DEF Answer, Leave
    <3>3. ASSUME NEW n, DirectMessage(c, n)
          PROVE  chan' = chan \/ Finish(c) \/ \E S : chan' = Forwarded(c, S)
      BY <3>2, <3>3 DEF DirectMessage, Nobody, Leave
    <3>4. Broadcast(c) => \E S : chan' = Forwarded(c, S) \/ chan' = [Forwarded(c, S) EXCEPT ![c] = <<>>]
      BY DEF Broadcast
    <3> QED  BY <2>1, <2>3, <3>1, <3>2, <3>3, <3>4 DEF React, Pong, Leave
  <2>5. CASE ReadJoin(c) \/ Greet(c) \/ JoinEnded(c) \/ JoinTimeout(c) \/ Abandon(c)
    BY <2>1, <2>5 DEF ReadJoin, Greet, JoinEnded, JoinTimeout, Abandon, Dismiss, Leave
  <2> QED  BY <2>2, <2>4, <2>5 DEF TaskStep
<1>2. ASSUME NEW s \in Seq(Reply), \A i \in 1 .. Len(s) : s[i].kind # "welcome"
      PROVE  /\ \A i \in 1 .. Len(Append(s, m)) : Append(s, m)[i].kind # "welcome"
             /\ s # <<>> => \A i \in 1 .. Len(Tail(s)) : Tail(s)[i].kind # "welcome"
             /\ \A i \in 1 .. Len(<<>>) : <<>>[i].kind # "welcome"
  <2>1. m.kind # "welcome"
    OBVIOUS
  <2> HIDE DEF m
  <2>2. /\ Len(Append(s, m)) = Len(s) + 1 /\ Len(s) \in Nat /\ Append(s, m)[Len(s) + 1] = m
        /\ \A i \in 1 .. Len(s) : Append(s, m)[i] = s[i]
    OBVIOUS
  <2>3. s # <<>> => /\ Len(Tail(s)) = Len(s) - 1
                    /\ \A i \in 1 .. Len(Tail(s)) : Tail(s)[i] = s[i + 1]
    OBVIOUS
  <2>4. \A i \in 1 .. Len(Append(s, m)) : i \in 1 .. Len(s) \/ i = Len(s) + 1
    BY <2>2
  <2>5. s # <<>> => \A i \in 1 .. Len(Tail(s)) : i + 1 \in 1 .. Len(s)
    BY <2>2, <2>3
  <2>6. 1 .. Len(<<>>) = {}
    OBVIOUS
  <2> QED  BY <1>2, <2>1, <2>2, <2>3, <2>4, <2>5, <2>6
<1> HIDE DEF m
<1> QED  BY <1>1, <1>2 DEF ChanInv, IInv, TaskType

\* run_server refuses a client before it has heard anything, and takes all
\* tasks with it when it returns; the test speaks to nobody.
LEMMA NextFrames ==
  ASSUME IInv, FramesInv, ChanInv, [Next]_vars
  PROVE  FramesInv' /\ ChanInv'
<1>1. ASSUME NEW c \in Conn, TaskStep(c) PROVE FramesInv' /\ ChanInv'
  BY <1>1, TaskFrames, TaskChans
<1>2. ASSUME NEW how \in {"ok", "failed"}, Return(how), UNCHANGED <<conn, got>>
      PROVE  FramesInv' /\ ChanInv'
  <2>1. /\ backlog' = <<>> /\ closed' = {c \in Conn : conn[c] # "absent"}
        /\ \A c \in Conn : task'[c] = task[c] \/ task'[c] = "joined"
        /\ chan' = [c \in Conn |-> <<>>]
    BY <1>2 DEF Return
  <2>2. /\ \A c : ~Queued(c)'
        /\ 1 .. Len(<<>>) = {}
    BY <2>1 DEF Queued
  <2>3. ASSUME NEW c \in Conn PROVE FramesOK(c)'
    BY <1>2, <2>1, <2>2, Unheard DEF FramesInv
  <2> QED  BY <2>1, <2>2, <2>3 DEF FramesInv, ChanInv
<1>3. ASSUME UNCHANGED <<got, closed, chan>>, Onward,
             \A c \in Conn : task'[c] = task[c] \/ task'[c] = "joined"
      PROVE  FramesInv' /\ ChanInv'
  <2>1. ASSUME NEW c \in Conn PROVE FramesOK(c)'
    BY <1>3, Unheard DEF FramesInv, Onward
  <2> QED  BY <1>3, <2>1 DEF FramesInv, ChanInv
<1>4. CASE Accept
  <2>1. backlog # <<>> /\ UNCHANGED conn
    BY <1>4 DEF Accept
  <2>2. Head(backlog) \in Conn
    BY <2>1 DEF IInv, NetType
  <2> PICK c \in Conn : c = Head(backlog)
    BY <2>2
  <2>3. CASE WriteFails(c) /\ Return("failed")
    BY <1>2, <2>1, <2>3 DEF WriteFails
  <2>4. CASE ~(WriteFails(c) /\ Return("failed"))
    <3>1. /\ backlog' = Tail(backlog) /\ UNCHANGED chan
          /\ \/ Writes(c, Error("full")) /\ closed' = closed \cup {c} /\ UNCHANGED task
             \/ UNCHANGED <<got, closed>> /\ task' = [task EXCEPT ![c] = "joining"]
      BY <1>4, <2>4 DEF Accept
    <3>2. c \in Conn /\ Queued(c) /\ \A d : Queued(d)' => Queued(d) /\ d # c
      BY <2>1, <3>1, Dequeued DEF IInv
    <3>3. got[c] = <<>> /\ conn[c] # "absent" /\ task[c] = "none" /\ task \in [Conn -> States]
      BY <3>2 DEF FramesInv, FramesOK, IInv, StartInv, BacklogInv, TaskType
    <3>4. NetType /\ Error("full") \in Reply /\ Error("full").kind = "error"
      BY Replies DEF IInv, Reason, Error
    <3>5. CASE Writes(c, Error("full")) /\ closed' = closed \cup {c} /\ UNCHANGED task
      <4>1. /\ \A d \in Conn \ {c} : got'[d] = got[d]
            /\ got'[c] = <<>> \/ (Len(got'[c]) = 1 /\ got'[c][1].kind = "error")
        BY <3>2, <3>3, <3>4, <3>5, Hears DEF Writes
      <4>2. FramesOK(c)'
        BY <2>1, <3>2, <3>3, <3>5, <4>1 DEF FramesOK, RefusedOnly
      <4>3. ASSUME NEW d \in Conn \ {c} PROVE FramesOK(d)'
        BY <2>1, <3>2, <3>5, <4>1, Unheard DEF FramesInv
      <4> QED  BY <3>1, <4>2, <4>3 DEF FramesInv, ChanInv
    <3>6. CASE UNCHANGED <<got, closed>> /\ task' = [task EXCEPT ![c] = "joining"]
      <4>1. task'[c] = "joining" /\ \A d \in Conn \ {c} : task'[d] = task[d]
        BY <3>2, <3>3, <3>6
      <4>2. FramesOK(c)'
        BY <2>1, <3>3, <3>6, <4>1 DEF FramesOK
      <4>3. ASSUME NEW d \in Conn \ {c} PROVE FramesOK(d)'
        BY <2>1, <3>2, <3>6, <4>1, Unheard DEF FramesInv
      <4> QED  BY <3>1, <4>2, <4>3 DEF FramesInv, ChanInv
    <3> QED  BY <3>1, <3>5, <3>6
  <2> QED  BY <2>3, <2>4
<1>5. CASE JoinNext
  <2>1. Onward
    BY <1>5 DEF JoinNext, netVars, Onward, Queued
  <2>2. \A c \in Conn : task'[c] = task[c] \/ task'[c] = "joined"
    BY <1>5 DEF JoinNext, IInv, TaskType
  <2> QED  BY <1>3, <1>5, <2>1, <2>2 DEF JoinNext, netVars
<1>6. CASE ShutDown
  BY <1>2, <1>6 DEF ShutDown
<1>7. CASE Harness
  <2>1. UNCHANGED taskVars /\ Onward /\ closed' = closed /\ got' = got
    <3>1. NetType /\ BacklogInv
      BY DEF IInv
    <3>2. CASE ScriptStep(Quiet, Overdue) /\ UNCHANGED <<serverVars, taskVars>>
      BY <3>1, <3>2, ScriptKeeps
    <3>3. CASE Conclude
      BY <3>1, <3>3, DropClientsKeeps DEF Conclude, scriptVars
    <3>4. CASE Judge \/ ToldToStop
      BY <3>4 DEF Judge, ToldToStop, netVars, Onward, Queued
    <3> QED  BY <1>7, <3>2, <3>3, <3>4 DEF Harness
  <2> QED  BY <1>3, <2>1 DEF taskVars
<1>8. CASE UNCHANGED vars
  <2>1. UNCHANGED <<taskVars, netVars>>
    BY <1>8 DEF vars
  <2>2. Onward
    BY <2>1 DEF netVars, Onward, Queued
  <2> QED  BY <1>3, <2>1, <2>2 DEF taskVars, netVars
<1> QED  BY <1>1, <1>4, <1>5, <1>6, <1>7, <1>8 DEF Next

\* join_client and client_loop: whatever the others send meanwhile, a client
\* hears its Welcome first and once, or one Error with which it is cut off.
THEOREM WelcomeComesFirst == Spec => []WelcomeFirst
<1>1. Init => FramesInv /\ ChanInv
  <2> SUFFICES ASSUME Init PROVE FramesInv /\ ChanInv
    OBVIOUS
  <2>1. 1 .. Len(<<>>) = {}
    OBVIOUS
  <2> QED  BY <2>1 DEF Init, HarnessInit, FramesInv, FramesOK, ChanInv
<1>2. FramesInv => WelcomeFirst
  BY DEF FramesInv, FramesOK, WelcomeFirst
<1>3. IInv /\ FramesInv /\ ChanInv /\ [Next]_vars => FramesInv' /\ ChanInv'
  BY NextFrames
<1> QED  BY Invariance, <1>1, <1>2, <1>3, PTL DEF Spec
=============================================================================
