-------------------------- MODULE ChatParallel_proofs --------------------------
(***************************************************************************)
(* What the server of lesson 10_parallel keeps, for every set of clients   *)
(* and names, every test, every limit, and any number of threads.          *)
(***************************************************************************)
EXTENDS ChatParallel, ChatHarness_proofs, FiniteSetTheorems

-----------------------------------------------------------------------------
(* The inductive invariant *)

Named == {"checking", "greeting", "welcomed", "inserting"} \cup Registered
States == {"none", "joining", "finished", "joined"} \cup Named

TaskType ==
  /\ server \in {"running", "ok", "failed"} /\ stop \in BOOLEAN
  /\ task \in [Conn -> States]
  /\ name \in [Conn -> Names \cup {None}] /\ req \in [Conn -> Request \cup {None}]
  /\ todo \in [Conn -> Seq(Conn)]

MapType ==
  /\ DOMAIN clients \subseteq Names /\ \A n \in DOMAIN clients : clients[n] \in Conn
  /\ lockq \in Seq(Conn) /\ readers \subseteq Conn

LimitInv == Cardinality(Tasks) <= Limit

\* A client has no task before the listener has accepted it, and then one.
StartInv == \A c \in Conn : conn[c] = "absent" \/ Queued(c) => task[c] = "none"

\* What a task has read by the time it needs it.
ReadInv ==
  \A c \in Conn :
    /\ task[c] \in Named => name[c] \in Names
    /\ task[c] \in {"asking", "writing"} => req[c] \in Request

\* What is written while somebody reads the map goes to clients that are still
\* in it: no writer is dropped in the middle of a frame.
WritesReachTheMap ==
  \A c \in readers : \A i \in DOMAIN todo[c] : todo[c][i] \in WritersOf(Names)

\* A task leaves the registered states only by removing its name.
IInv ==
  /\ NetType /\ BacklogInv /\ TaskType /\ MapType
  /\ LimitInv /\ StartInv /\ ReadInv /\ EntriesBelong /\ WritesReachTheMap

-----------------------------------------------------------------------------
(* Parts that most steps leave alone *)

\* While no task begins, there are no more of them.
LEMMA NoTaskBegins ==
  ASSUME NetType, TaskType, LimitInv, StartInv,
         UNCHANGED test, task' \in [Conn -> States],
         \A d \in Conn : Queued(d)' \/ conn'[d] = "absent" => Queued(d) \/ conn[d] = "absent",
         \A d \in Conn : task'[d] = task[d] \/ task[d] \notin {"none", "joined"}
  PROVE  LimitInv' /\ StartInv'
<1>1. IsFiniteSet(Tasks) /\ Tasks' \subseteq Tasks
  <2>1. IsFiniteSet(Tasks)
    BY HarnessAssumption, FS_Subset DEF Tasks
  <2> QED  BY <2>1 DEF Tasks
<1>2. /\ Cardinality(Tasks') <= Cardinality(Tasks)
      /\ Cardinality(Tasks) \in Nat /\ Cardinality(Tasks') \in Nat
  BY <1>1, FS_Subset, FS_CardinalityType
<1>3. Limit \in Nat /\ Limit' = Limit
  BY HarnessAssumption DEF Limit, NetType
<1>4. LimitInv'
  BY <1>2, <1>3 DEF LimitInv
<1>5. StartInv'
  BY DEF StartInv
<1> QED  BY <1>4, <1>5

\* A step of the task of c.
LEMMA TaskMoves ==
  ASSUME IInv, NEW c \in Conn, NEW s \in States,
         UNCHANGED <<test, conn, backlog, seen, serverVars>>,
         inbox' \in [Conn -> Seq(Request)], got' \in [Conn -> Seq(Reply)],
         closed' \subseteq Conn,
         task[c] \notin {"none", "joined"}, task' = [task EXCEPT ![c] = s],
         name' \in [Conn -> Names \cup {None}], req' \in [Conn -> Request \cup {None}],
         todo' \in [Conn -> Seq(Conn)], MapType',
         ReadInv', EntriesBelong', WritesReachTheMap'
  PROVE  IInv'
<1>1. \A d : Queued(d)' = Queued(d)
  BY DEF Queued
<1>2. NetType' /\ BacklogInv'
  BY <1>1 DEF IInv, NetType, BacklogInv
<1>3. task' \in [Conn -> States] /\ \A d \in Conn : d # c => task'[d] = task[d]
  BY DEF IInv, TaskType
<1>4. TaskType'
  BY <1>3 DEF IInv, TaskType, serverVars
<1>5. LimitInv' /\ StartInv'
  BY <1>1, <1>3, NoTaskBegins DEF IInv
<1> QED  BY <1>2, <1>4, <1>5 DEF IInv

\* A step that changes neither the map nor what is to be written.
LEMMA MapKept ==
  ASSUME IInv, NEW c \in Conn, NEW s \in States, task' = [task EXCEPT ![c] = s],
         s \in Registered \/ task[c] \notin Registered,
         s \in Named => name[c] \in Names,
         s \in {"asking", "writing"} => req[c] \in Request,
         UNCHANGED <<name, req, clients>>
  PROVE  ReadInv' /\ EntriesBelong'
<1>1. task'[c] = s /\ \A d \in Conn : d # c => task'[d] = task[d]
  BY DEF IInv, TaskType
<1>2. ReadInv'
  BY <1>1 DEF IInv, ReadInv
<1>3. EntriesBelong'
  BY <1>1 DEF IInv, MapType, EntriesBelong
<1> QED  BY <1>2, <1>3

\* A message that is read is off the socket.
LEMMA ReadOne ==
  ASSUME NetType, NEW c \in Conn, inbox[c] # <<>>,
         inbox' = [inbox EXCEPT ![c] = Tail(@)]
  PROVE  Head(inbox[c]) \in Request /\ inbox' \in [Conn -> Seq(Request)]
<1>1. inbox[c] \in Seq(Request)
  BY DEF NetType
<1>2. Head(inbox[c]) \in Request /\ Tail(inbox[c]) \in Seq(Request)
  BY <1>1, HeadTailProperties
<1> QED  BY <1>2 DEF NetType

LEMMA Written ==
  ASSUME NetType, NEW c \in Conn, NEW reply \in Reply, Writes(c, reply)
  PROVE  got' \in [Conn -> Seq(Reply)]
<1>1. got[c] \in Seq(Reply)
  BY DEF NetType
<1>2. Append(got[c], reply) \in Seq(Reply)
  BY <1>1, AppendProperties
<1> QED  BY <1>1, <1>2 DEF NetType, Writes

LEMMA Replies ==
  /\ \A why \in Reason : Error(why) \in Reply
  /\ [kind |-> "welcome"] \in Reply /\ [kind |-> "pong"] \in Reply
  /\ \A us \in SUBSET Names : [kind |-> "list", users |-> us] \in Reply
  /\ \A n \in Names : [kind |-> "msg", from |-> n] \in Reply
BY DEF Reply, Error

LEMMA AskType ==
  ASSUME MapType, NEW c \in Conn
  PROVE  /\ Append(lockq, c) \in Seq(Conn)
         /\ \A d : IsFirst(d) => Tail(lockq) \in Seq(Conn)
<1>1. Append(lockq, c) \in Seq(Conn)
  BY AppendProperties DEF MapType
<1>2. lockq # <<>> => Tail(lockq) \in Seq(Conn)
  BY HeadTailProperties DEF MapType
<1> QED  BY <1>1, <1>2 DEF IsFirst

\* The types of what an action leaves alone.
LEMMA Typed ==
  ASSUME IInv
  PROVE  /\ UNCHANGED inbox => inbox' \in [Conn -> Seq(Request)]
         /\ UNCHANGED got => got' \in [Conn -> Seq(Reply)]
         /\ UNCHANGED closed => closed' \subseteq Conn
         /\ UNCHANGED name => name' \in [Conn -> Names \cup {None}]
         /\ UNCHANGED req => req' \in [Conn -> Request \cup {None}]
         /\ UNCHANGED todo => todo' \in [Conn -> Seq(Conn)]
         /\ UNCHANGED <<clients, readers>> /\ lockq' \in Seq(Conn) => MapType'
         /\ UNCHANGED lockq => lockq' \in Seq(Conn)
         /\ UNCHANGED <<clients, readers, todo>> => WritesReachTheMap'
<1>1. UNCHANGED <<clients, readers, todo>> => WritesReachTheMap'
  BY DEF IInv, WritesReachTheMap, WritersOf
<1> QED  BY <1>1 DEF IInv, NetType, TaskType, MapType

-----------------------------------------------------------------------------
(* The Join *)

\* A task whose client is not registered ends without a trace in the map.
LEMMA EndsUnjoined ==
  ASSUME IInv, NEW c \in Conn, task[c] \in {"joining", "checking", "greeting"},
         UNCHANGED <<test, conn, backlog, seen, serverVars, name, req, todo, clients, readers>>,
         inbox' \in [Conn -> Seq(Request)], got' \in [Conn -> Seq(Reply)],
         lockq' \in Seq(Conn), Finish(c)
  PROVE  IInv'
<1>1. task' = [task EXCEPT ![c] = "finished"] /\ closed' = closed \cup {c}
  BY DEF Finish, GoTo
<1>2. closed' \subseteq Conn
  BY <1>1 DEF IInv, NetType
<1>3. ReadInv' /\ EntriesBelong'
  BY <1>1, MapKept DEF States, Named, Registered
<1>4. /\ name' \in [Conn -> Names \cup {None}] /\ req' \in [Conn -> Request \cup {None}]
      /\ todo' \in [Conn -> Seq(Conn)] /\ MapType' /\ WritesReachTheMap'
  BY Typed
<1>5. "finished" \in States /\ task[c] \notin {"none", "joined"}
  BY DEF States
<1> QED  BY <1>1, <1>2, <1>3, <1>4, <1>5, TaskMoves

LEMMA DismissKeeps ==
  ASSUME IInv, NEW c \in Conn, task[c] \in {"joining", "checking"},
         NEW why \in Reason, Dismiss(c, why),
         UNCHANGED <<test, conn, backlog, seen, serverVars, name, req, todo, clients, readers>>,
         inbox' \in [Conn -> Seq(Request)], lockq' \in Seq(Conn)
  PROVE  IInv'
<1>1. got' \in [Conn -> Seq(Reply)]
  BY Replies, Written DEF Dismiss, IInv
<1> QED  BY <1>1, EndsUnjoined DEF Dismiss

\* A task that goes on without touching the map.
LEMMA GoesOn ==
  ASSUME IInv, NEW c \in Conn, NEW s \in States, task[c] \notin {"none", "joined"},
         GoTo(c, s), s \in Registered \/ task[c] \notin Registered,
         s \in Named => name[c] \in Names,
         s \in {"asking", "writing"} => req[c] \in Request,
         UNCHANGED <<test, conn, backlog, seen, closed, serverVars, name, req, todo,
                     clients, readers>>,
         inbox' \in [Conn -> Seq(Request)], got' \in [Conn -> Seq(Reply)],
         lockq' \in Seq(Conn)
  PROVE  IInv'
<1>1. task' = [task EXCEPT ![c] = s]
  BY DEF GoTo
<1>2. ReadInv' /\ EntriesBelong'
  BY <1>1, MapKept
<1>3. /\ name' \in [Conn -> Names \cup {None}] /\ req' \in [Conn -> Request \cup {None}]
      /\ todo' \in [Conn -> Seq(Conn)] /\ MapType' /\ WritesReachTheMap' /\ closed' \subseteq Conn
  BY Typed
<1> QED  BY <1>1, <1>2, <1>3, TaskMoves

LEMMA ReadJoinKeeps ==
  ASSUME IInv, NEW c \in Conn, ReadJoin(c)
  PROVE  IInv'
<1>1. /\ task[c] = "joining" /\ inbox[c] # <<>> /\ inbox' = [inbox EXCEPT ![c] = Tail(@)]
      /\ UNCHANGED <<test, conn, backlog, seen, serverVars, req, todo, clients, readers>>
  BY DEF ReadJoin, scriptVars
<1> DEFINE r == Head(inbox[c])
<1>2. r \in Request /\ inbox' \in [Conn -> Seq(Request)]
  BY <1>1, ReadOne DEF IInv
<1>3. CASE r.kind = "bad" /\ Finish(c) /\ UNCHANGED <<got, name, lockq>>
  <2>1. got' \in [Conn -> Seq(Reply)] /\ lockq' \in Seq(Conn)
    BY <1>3, Typed
  <2> QED  BY <1>1, <1>2, <1>3, <2>1, EndsUnjoined
<1>4. CASE Dismiss(c, "unexpected") /\ UNCHANGED <<name, lockq>>
  <2>1. lockq' \in Seq(Conn)
    BY <1>4, Typed
  <2> QED  BY <1>1, <1>2, <1>4, <2>1, DismissKeeps DEF Reason
<1>5. CASE /\ r.kind = "join" /\ Ask(c, "checking")
           /\ name' = [name EXCEPT ![c] = r.name] /\ UNCHANGED <<got, closed>>
  <2>1. r.name \in Names
    BY <1>2, <1>5 DEF Request
  <2>2. task' = [task EXCEPT ![c] = "checking"] /\ lockq' = Append(lockq, c)
    BY <1>5 DEF Ask, GoTo
  <2>3. /\ task'[c] = "checking" /\ name'[c] \in Names /\ name' \in [Conn -> Names \cup {None}]
        /\ \A d \in Conn : d # c => task'[d] = task[d] /\ name'[d] = name[d]
    BY <1>5, <2>1, <2>2 DEF IInv, TaskType
  <2>4. ReadInv'
    BY <1>1, <2>3 DEF IInv, ReadInv
  <2>5. \A n \in DOMAIN clients : clients[n] \in Conn /\ clients[n] # c
    BY <1>1 DEF IInv, MapType, EntriesBelong, Registered
  <2>6. EntriesBelong'
    BY <1>1, <2>3, <2>5 DEF IInv, EntriesBelong
  <2>7. lockq' \in Seq(Conn)
    BY <2>2, AskType DEF IInv
  <2>8. /\ got' \in [Conn -> Seq(Reply)] /\ closed' \subseteq Conn
        /\ req' \in [Conn -> Request \cup {None}] /\ todo' \in [Conn -> Seq(Conn)]
        /\ MapType' /\ WritesReachTheMap'
    BY <1>1, <1>5, <2>7, Typed
  <2>9. "checking" \in States
    BY DEF States, Named
  <2> QED  BY <1>1, <1>2, <2>2, <2>3, <2>4, <2>6, <2>8, <2>9, TaskMoves
<1> QED  BY <1>3, <1>4, <1>5 DEF ReadJoin

LEMMA CheckNameKeeps ==
  ASSUME IInv, NEW c \in Conn, CheckName(c)
  PROVE  IInv'
<1>1. /\ task[c] = "checking" /\ IsFirst(c) /\ lockq' = Tail(lockq)
      /\ UNCHANGED <<test, conn, backlog, inbox, seen, serverVars, name, req, todo,
                     clients, readers>>
      /\ Dismiss(c, "taken") \/ (GoTo(c, "greeting") /\ UNCHANGED <<got, closed>>)
  BY DEF CheckName, scriptVars
<1>2. inbox' \in [Conn -> Seq(Request)] /\ lockq' \in Seq(Conn)
  BY <1>1, Typed, AskType DEF IInv
<1>3. CASE Dismiss(c, "taken")
  BY <1>1, <1>2, <1>3, DismissKeeps DEF Reason
<1>4. CASE GoTo(c, "greeting") /\ UNCHANGED <<got, closed>>
  <2>1. got' \in [Conn -> Seq(Reply)] /\ name[c] \in Names
    BY <1>1, <1>4, Typed DEF IInv, ReadInv, Named
  <2>2. "greeting" \in States /\ task[c] \notin Registered
    BY <1>1 DEF States, Named, Registered
  <2> QED  BY <1>1, <1>2, <1>4, <2>1, <2>2, GoesOn
<1> QED  BY <1>1, <1>3, <1>4

LEMMA GreetKeeps ==
  ASSUME IInv, NEW c \in Conn, Greet(c)
  PROVE  IInv'
<1>1. /\ task[c] = "greeting"
      /\ UNCHANGED <<test, conn, backlog, inbox, seen, serverVars, name, req, todo,
                     clients, lockq, readers>>
  BY DEF Greet, scriptVars, lockVars
<1>2. inbox' \in [Conn -> Seq(Request)] /\ lockq' \in Seq(Conn)
  BY <1>1, Typed
<1>3. CASE WriteFails(c) /\ Finish(c)
  <2>1. got' \in [Conn -> Seq(Reply)]
    BY <1>3, Typed DEF WriteFails
  <2> QED  BY <1>1, <1>2, <1>3, <2>1, EndsUnjoined
<1>4. CASE Writes(c, [kind |-> "welcome"]) /\ GoTo(c, "welcomed") /\ UNCHANGED closed
  <2>1. got' \in [Conn -> Seq(Reply)]
    BY <1>4, Replies, Written DEF IInv
  <2>2. name[c] \in Names
    BY <1>1 DEF IInv, ReadInv, Named
  <2>3. "welcomed" \in States /\ task[c] \notin Registered
    BY <1>1 DEF States, Named, Registered
  <2> QED  BY <1>1, <1>2, <1>4, <2>1, <2>2, <2>3, GoesOn
<1> QED  BY <1>3, <1>4 DEF Greet

LEMMA AskToInsertKeeps ==
  ASSUME IInv, NEW c \in Conn, AskToInsert(c)
  PROVE  IInv'
<1>1. /\ task[c] = "welcomed" /\ GoTo(c, "inserting") /\ lockq' = Append(lockq, c)
      /\ UNCHANGED <<test, conn, backlog, inbox, got, seen, closed, serverVars, name, req,
                     todo, clients, readers>>
  BY DEF AskToInsert, Ask, scriptVars, netVars
<1>2. /\ inbox' \in [Conn -> Seq(Request)] /\ got' \in [Conn -> Seq(Reply)]
      /\ lockq' \in Seq(Conn)
  BY <1>1, Typed, AskType DEF IInv
<1>3. "inserting" \in States /\ task[c] \notin Registered /\ name[c] \in Names
  BY <1>1 DEF States, Named, Registered, IInv, ReadInv
<1> QED  BY <1>1, <1>2, <1>3, GoesOn

\* Whoever had the name is not in the map any more.
LEMMA InsertKeeps ==
  ASSUME IInv, NEW c \in Conn, Insert(c)
  PROVE  IInv'
<1>1. /\ task[c] = "inserting" /\ IsFirst(c) /\ readers = {} /\ lockq' = Tail(lockq)
      /\ clients' = [n \in DOMAIN clients \cup {name[c]} |->
                       IF n = name[c] THEN c ELSE clients[n]]
      /\ closed' = closed \cup WritersOf({name[c]})
      /\ task' = [task EXCEPT ![c] = "serving"]
      /\ UNCHANGED <<test, conn, backlog, inbox, got, seen, serverVars, name, req, todo,
                     readers>>
  BY DEF Insert, GoTo, scriptVars
<1>2. name[c] \in Names
  BY <1>1 DEF IInv, ReadInv, Named
<1>3. /\ DOMAIN clients \subseteq Names
      /\ \A n \in DOMAIN clients : clients[n] \in Conn /\ clients[n] # c
  BY <1>1 DEF IInv, MapType, EntriesBelong, Registered
<1>4. task'[c] = "serving" /\ \A d \in Conn : d # c => task'[d] = task[d]
  BY <1>1 DEF IInv, TaskType
<1>5. ReadInv'
  BY <1>1, <1>2, <1>4 DEF IInv, ReadInv
<1>6. EntriesBelong'
  BY <1>1, <1>3, <1>4 DEF IInv, EntriesBelong, Registered
<1>7. lockq' \in Seq(Conn)
  BY <1>1, AskType DEF IInv
<1>8. MapType'
  BY <1>1, <1>2, <1>3, <1>7 DEF MapType
<1>9. WritesReachTheMap'
  BY <1>1 DEF WritesReachTheMap
<1>10. closed' \subseteq Conn
  BY <1>1, <1>3 DEF IInv, NetType, WritersOf
<1>11. /\ inbox' \in [Conn -> Seq(Request)] /\ got' \in [Conn -> Seq(Reply)]
       /\ name' \in [Conn -> Names \cup {None}] /\ req' \in [Conn -> Request \cup {None}]
       /\ todo' \in [Conn -> Seq(Conn)]
  BY <1>1, Typed
<1>12. "serving" \in States
  BY DEF States, Named, Registered
<1> QED  BY <1>1, <1>5, <1>6, <1>8, <1>9, <1>10, <1>11, <1>12, TaskMoves

-----------------------------------------------------------------------------
(* The loop *)

LEMMA ReadRequestKeeps ==
  ASSUME IInv, NEW c \in Conn, ReadRequest(c)
  PROVE  IInv'
<1> DEFINE s == IF Head(inbox[c]).kind = "bad" THEN "leaving" ELSE "asking"
<1>1. /\ task[c] = "serving" /\ inbox[c] # <<>> /\ inbox' = [inbox EXCEPT ![c] = Tail(@)]
      /\ req' = [req EXCEPT ![c] = Head(inbox[c])]
      /\ task' = [task EXCEPT ![c] = s] /\ lockq' = Append(lockq, c)
      /\ UNCHANGED <<test, conn, backlog, got, seen, closed, serverVars, name, todo,
                     clients, readers>>
  BY DEF ReadRequest, Ask, GoTo, scriptVars
<1>2. Head(inbox[c]) \in Request /\ inbox' \in [Conn -> Seq(Request)]
  BY <1>1, ReadOne DEF IInv
<1>3. s \in Registered /\ s \in States /\ task[c] \in Named
  BY <1>1 DEF Registered, States, Named
<1> HIDE DEF s
<1>4. /\ task'[c] = s /\ req'[c] \in Request /\ req' \in [Conn -> Request \cup {None}]
      /\ \A d \in Conn : d # c => task'[d] = task[d] /\ req'[d] = req[d]
  BY <1>1, <1>2 DEF IInv, TaskType
<1>5. ReadInv'
  BY <1>1, <1>3, <1>4 DEF IInv, ReadInv
<1>6. EntriesBelong'
  BY <1>1, <1>3, <1>4 DEF IInv, MapType, EntriesBelong
<1>7. lockq' \in Seq(Conn)
  BY <1>1, AskType DEF IInv
<1>8. /\ got' \in [Conn -> Seq(Reply)] /\ closed' \subseteq Conn
      /\ name' \in [Conn -> Names \cup {None}] /\ todo' \in [Conn -> Seq(Conn)]
      /\ MapType' /\ WritesReachTheMap'
  BY <1>1, <1>7, Typed
<1> QED  BY <1>1, <1>2, <1>3, <1>4, <1>5, <1>6, <1>8, TaskMoves

LEMMA AbandonKeeps ==
  ASSUME IInv, NEW c \in Conn, Abandon(c)
  PROVE  IInv'
<1>1. /\ task[c] = "serving" /\ GoTo(c, "leaving") /\ lockq' = Append(lockq, c)
      /\ UNCHANGED <<test, conn, backlog, inbox, got, seen, closed, serverVars, name, req,
                     todo, clients, readers>>
  BY DEF Abandon, Ask, scriptVars, netVars
<1>2. /\ inbox' \in [Conn -> Seq(Request)] /\ got' \in [Conn -> Seq(Reply)]
      /\ lockq' \in Seq(Conn)
  BY <1>1, Typed, AskType DEF IInv
<1>3. "leaving" \in States /\ "leaving" \in Registered /\ name[c] \in Names
  BY <1>1 DEF States, Named, Registered, IInv, ReadInv
<1> QED  BY <1>1, <1>2, <1>3, GoesOn

LEMMA AudienceInMap ==
  ASSUME NEW c
  PROVE  Audience(c) \subseteq WritersOf(Names) \/ ~(DOMAIN clients \subseteq Names)
BY DEF Audience, WritersOf

LEMMA WritersKnown ==
  ASSUME MapType, NEW names
  PROVE  WritersOf(names) \subseteq Conn
BY DEF MapType, WritersOf

\* The HashMap is walked in some order, which visits each writer.
LEMMA Walked ==
  ASSUME NEW S \in SUBSET Conn, NEW order \in SetToSeqs(S)
  PROVE  /\ order \in Seq(Conn) /\ \A i \in DOMAIN order : order[i] \in S
         /\ order = <<>> => S = {}
<1>1. IsFiniteSet(S)
  BY HarnessAssumption, FS_Subset
<1>2. Cardinality(S) \in Nat /\ (Cardinality(S) = 0 => S = {})
  BY <1>1, FS_CardinalityType, FS_EmptySet
<1>3. order \in [1 .. Cardinality(S) -> S]
  BY DEF SetToSeqs
<1>4. order \in Seq(S) /\ Len(order) = Cardinality(S) /\ DOMAIN order = 1 .. Cardinality(S)
  BY <1>2, <1>3
<1>5. order \in Seq(Conn)
  BY <1>2, <1>3
<1> QED  BY <1>2, <1>3, <1>4, <1>5

\* What is left of a walk.
LEMMA Onwards ==
  ASSUME NEW q \in Seq(Conn), q # <<>>
  PROVE  /\ Head(q) = q[1] /\ 1 \in DOMAIN q /\ Head(q) \in Conn /\ Tail(q) \in Seq(Conn)
         /\ \A i \in DOMAIN Tail(q) : i + 1 \in DOMAIN q /\ Tail(q)[i] = q[i + 1]
OBVIOUS

LEMMA EnterKeeps ==
  ASSUME IInv, NEW c \in Conn, Enter(c)
  PROVE  IInv'
<1>1. /\ task[c] = "asking" /\ IsFirst(c) /\ lockq' = Tail(lockq)
      /\ UNCHANGED <<test, conn, backlog, inbox, got, seen, closed, serverVars, name, req,
                     clients>>
  BY DEF Enter, scriptVars, netVars
<1>2. /\ inbox' \in [Conn -> Seq(Request)] /\ got' \in [Conn -> Seq(Reply)]
      /\ lockq' \in Seq(Conn) /\ closed' \subseteq Conn
      /\ name' \in [Conn -> Names \cup {None}] /\ req' \in [Conn -> Request \cup {None}]
  BY <1>1, Typed, AskType DEF IInv
<1>3. name[c] \in Names /\ req[c] \in Request /\ DOMAIN clients \subseteq Names
  BY <1>1 DEF IInv, ReadInv, MapType, Named, Registered
<1>4. {"serving", "writing"} \subseteq States \cap Registered
  BY DEF States, Named, Registered
<1>5. CASE GoTo(c, "serving") /\ UNCHANGED <<readers, todo>>
  BY <1>1, <1>2, <1>3, <1>4, <1>5, GoesOn
<1>6. CASE /\ GoTo(c, "writing") /\ readers' = readers \cup {c}
           /\ \E order \in SetToSeqs(Audience(c)) : todo' = [todo EXCEPT ![c] = order]
  <2>0. Audience(c) \subseteq WritersOf(Names) /\ Audience(c) \subseteq Conn
    BY <1>3, AudienceInMap, WritersKnown DEF IInv
  <2> PICK order \in SetToSeqs(Audience(c)) : todo' = [todo EXCEPT ![c] = order]
    BY <1>6
  <2>1. order \in Seq(Conn) /\ \A i \in DOMAIN order : order[i] \in WritersOf(Names)
    BY <2>0, Walked
  <2>2. todo' \in [Conn -> Seq(Conn)] /\ todo'[c] = order
        /\ \A d \in Conn : d # c => todo'[d] = todo[d]
    BY <2>1 DEF IInv, TaskType
  <2>3. WritesReachTheMap'
    <3>1. WritersOf(Names)' = WritersOf(Names)
      BY <1>1 DEF WritersOf
    <3>2. \A d \in readers' : d = c \/ (d \in readers /\ d \in Conn)
      BY <1>6 DEF IInv, MapType
    <3> QED  BY <2>1, <2>2, <3>1, <3>2 DEF IInv, WritesReachTheMap
  <2>4. MapType'
    BY <1>1, <1>2, <1>6 DEF IInv, MapType
  <2>5. task' = [task EXCEPT ![c] = "writing"]
    BY <1>6 DEF GoTo
  <2>6. ReadInv' /\ EntriesBelong'
    BY <1>1, <1>3, <1>4, <2>5, MapKept
  <2> QED  BY <1>1, <1>2, <1>4, <2>2, <2>3, <2>4, <2>5, <2>6, TaskMoves
<1> QED  BY <1>5, <1>6 DEF Enter

LEMMA AnswerType ==
  ASSUME IInv, NEW c \in Conn, task[c] = "writing"
  PROVE  Answer(c) \in Reply
<1>1. name[c] \in Names /\ DOMAIN clients \subseteq Names
  BY DEF IInv, ReadInv, MapType, Named, Registered
<1>2. /\ [kind |-> "pong"] \in Reply /\ [kind |-> "list", users |-> DOMAIN clients] \in Reply
      /\ [kind |-> "msg", from |-> name[c]] \in Reply
      /\ Error("unexpected") \in Reply /\ Error("self") \in Reply /\ Error("nobody") \in Reply
  BY <1>1, Replies DEF Reason
<1> QED  BY <1>2 DEF Answer

LEMMA WriteKeeps ==
  ASSUME IInv, NEW c \in Conn, Write(c)
  PROVE  IInv'
<1> DEFINE d == Head(todo[c])
<1>1. /\ task[c] = "writing" /\ todo[c] # <<>>
      /\ UNCHANGED <<test, conn, backlog, inbox, seen, closed, serverVars, name, req, clients>>
  BY DEF Write, scriptVars
<1>2. \/ /\ Writes(d, Answer(c))
         /\ todo' = [todo EXCEPT ![c] = Tail(@)]
         /\ IF Tail(todo[c]) # <<>> THEN UNCHANGED <<task, lockq, readers>>
            ELSE /\ readers' = readers \ {c}
                 /\ IF req[c].kind = "join" THEN Ask(c, "leaving")
                                            ELSE GoTo(c, "serving") /\ UNCHANGED lockq
      \/ /\ WriteFails(d)
         /\ todo' = [todo EXCEPT ![c] = <<>>] /\ readers' = readers \ {c}
         /\ Ask(c, "leaving")
  BY DEF Write, ReleaseGuard
<1>3. /\ todo[c] \in Seq(Conn) /\ d \in Conn /\ Tail(todo[c]) \in Seq(Conn)
      /\ \A i \in DOMAIN Tail(todo[c]) :
           i + 1 \in DOMAIN todo[c] /\ Tail(todo[c])[i] = todo[c][i + 1]
  <2>1. todo[c] \in Seq(Conn)
    BY DEF IInv, TaskType
  <2> QED  BY <1>1, <2>1, Onwards
<1> HIDE DEF d
<1>4. got' \in [Conn -> Seq(Reply)]
  <2>1. CASE Writes(d, Answer(c))
    BY <1>1, <1>3, <2>1, AnswerType, Written DEF IInv
  <2>2. CASE WriteFails(d)
    BY <2>2, Typed DEF WriteFails
  <2> QED  BY <1>2, <2>1, <2>2
<1>5. /\ todo' \in [Conn -> Seq(Conn)] /\ todo'[c] \in {Tail(todo[c]), <<>>}
      /\ \A e \in Conn : e # c => todo'[e] = todo[e]
  <2>1. PICK q \in {Tail(todo[c]), <<>>} : todo' = [todo EXCEPT ![c] = q]
    BY <1>2
  <2>2. q \in Seq(Conn) /\ todo \in [Conn -> Seq(Conn)]
    BY <1>3, EmptySeq DEF IInv, TaskType
  <2> QED  BY <2>1, <2>2
<1>6. PICK s \in {"serving", "writing", "leaving"} :
        task' = [task EXCEPT ![c] = s] /\ (lockq' = lockq \/ lockq' = Append(lockq, c))
  <2>1. UNCHANGED task => task' = [task EXCEPT ![c] = "writing"]
    BY <1>1 DEF IInv, TaskType
  <2> QED  BY <1>2, <2>1 DEF Ask, GoTo
<1>7. readers' \subseteq readers
  BY <1>2
<1>8. s \in States /\ s \in Registered /\ name[c] \in Names /\ req[c] \in Request
  BY <1>1, <1>6 DEF States, Named, Registered, IInv, ReadInv
<1>9. ReadInv' /\ EntriesBelong'
  BY <1>1, <1>6, <1>8, MapKept
<1>10. WritesReachTheMap'
  <2>1. WritersOf(Names)' = WritersOf(Names)
    BY <1>1 DEF WritersOf
  <2>2. \A e \in readers' : e \in readers /\ e \in Conn
    BY <1>7 DEF IInv, MapType
  <2>3. \A e \in readers' : \A i \in DOMAIN todo'[e] :
          \E k \in DOMAIN todo[e] : todo'[e][i] = todo[e][k]
    <3>1. CASE todo'[c] = Tail(todo[c])
      BY <1>3, <1>5, <2>2, <3>1
    <3>2. CASE todo'[c] = <<>>
      <4>1. DOMAIN <<>> = {}
        OBVIOUS
      <4> QED  BY <1>5, <2>2, <3>2, <4>1
    <3> QED  BY <1>5, <3>1, <3>2
  <2> QED  BY <2>1, <2>2, <2>3 DEF IInv, WritesReachTheMap
<1>11. MapType'
  <2>1. lockq' \in Seq(Conn)
    BY <1>6, AskType DEF IInv, MapType
  <2> QED  BY <1>1, <1>7, <2>1 DEF IInv, MapType
<1>12. /\ inbox' \in [Conn -> Seq(Request)] /\ closed' \subseteq Conn
       /\ name' \in [Conn -> Names \cup {None}] /\ req' \in [Conn -> Request \cup {None}]
  BY <1>1, Typed
<1> QED  BY <1>1, <1>4, <1>5, <1>6, <1>8, <1>9, <1>10, <1>11, <1>12, TaskMoves

\* The entry of a task that leaves goes with it.
LEMMA RemoveNameKeeps ==
  ASSUME IInv, NEW c \in Conn, RemoveName(c)
  PROVE  IInv'
<1>1. /\ task[c] = "leaving" /\ IsFirst(c) /\ readers = {} /\ lockq' = Tail(lockq)
      /\ clients' = Restrict(clients, DOMAIN clients \ {name[c]})
      /\ task' = [task EXCEPT ![c] = "finished"]
      /\ closed' = closed \cup {c} \cup WritersOf({name[c]})
      /\ UNCHANGED <<test, conn, backlog, inbox, got, seen, serverVars, name, req, todo,
                     readers>>
  BY DEF RemoveName, Removed, GoTo, scriptVars
<1>2. /\ DOMAIN clients' = DOMAIN clients \ {name[c]}
      /\ \A n \in DOMAIN clients' : clients'[n] = clients[n]
  BY <1>1 DEF Restrict
<1>3. task'[c] = "finished" /\ \A d \in Conn : d # c => task'[d] = task[d]
  BY <1>1 DEF IInv, TaskType
<1>4. \A n \in DOMAIN clients' : clients[n] \in Conn /\ clients[n] # c
  BY <1>2 DEF IInv, MapType, EntriesBelong
<1>5. ReadInv'
  BY <1>1, <1>3 DEF IInv, ReadInv, Named, Registered
<1>6. EntriesBelong'
  <2> SUFFICES ASSUME NEW n \in DOMAIN clients'
               PROVE  task'[clients'[n]] \in Registered /\ name'[clients'[n]] = n
    BY DEF EntriesBelong
  <2>1. n \in DOMAIN clients /\ clients'[n] = clients[n]
    BY <1>2
  <2>2. task'[clients[n]] = task[clients[n]]
    BY <1>3, <1>4
  <2> QED  BY <1>1, <2>1, <2>2 DEF IInv, EntriesBelong
<1>7. lockq' \in Seq(Conn)
  BY <1>1, AskType DEF IInv
<1>8. MapType'
  <2>1. DOMAIN clients' \subseteq Names /\ \A n \in DOMAIN clients' : clients'[n] \in Conn
    BY <1>2, <1>4 DEF IInv, MapType
  <2> QED  BY <1>1, <1>7, <2>1 DEF IInv, MapType
<1>9. WritesReachTheMap'
  BY <1>1 DEF WritesReachTheMap
<1>10. closed' \subseteq Conn
  BY <1>1, WritersKnown DEF IInv, NetType
<1>11. /\ inbox' \in [Conn -> Seq(Request)] /\ got' \in [Conn -> Seq(Reply)]
       /\ name' \in [Conn -> Names \cup {None}] /\ req' \in [Conn -> Request \cup {None}]
       /\ todo' \in [Conn -> Seq(Conn)]
  BY <1>1, Typed
<1>12. "finished" \in States
  BY DEF States
<1> QED  BY <1>1, <1>5, <1>6, <1>8, <1>9, <1>10, <1>11, <1>12, TaskMoves

LEMMA TaskStepKeeps ==
  ASSUME IInv, NEW c \in Conn, TaskStep(c)
  PROVE  IInv'
<1>1. CASE JoinEnded(c) \/ JoinTimeout(c)
  <2>1. /\ task[c] = "joining"
        /\ UNCHANGED <<test, conn, backlog, inbox, seen, serverVars, name, req, todo,
                       clients, lockq, readers>>
    BY <1>1 DEF JoinEnded, JoinTimeout, scriptVars, lockVars
  <2>2. Dismiss(c, "closed") \/ Dismiss(c, "timeout")
    BY <1>1 DEF JoinEnded, JoinTimeout
  <2>3. inbox' \in [Conn -> Seq(Request)] /\ lockq' \in Seq(Conn)
    BY <2>1, Typed
  <2> QED  BY <2>1, <2>2, <2>3, DismissKeeps DEF Reason
<1>2. CASE ReadJoin(c) \/ CheckName(c) \/ Greet(c) \/ AskToInsert(c) \/ Insert(c)
  BY <1>2, ReadJoinKeeps, CheckNameKeeps, GreetKeeps, AskToInsertKeeps, InsertKeeps
<1>3. CASE ReadRequest(c) \/ Abandon(c) \/ Enter(c) \/ Write(c) \/ RemoveName(c)
  BY <1>3, ReadRequestKeeps, AbandonKeeps, EnterKeeps, WriteKeeps, RemoveNameKeeps
<1> QED  BY <1>1, <1>2, <1>3 DEF TaskStep

-----------------------------------------------------------------------------
(* run_server and the test *)

\* When run_server returns, all tasks end and the map is dropped.
LEMMA ReturnKeeps ==
  ASSUME IInv, NEW how \in {"ok", "failed"}, Return(how),
         UNCHANGED <<test, conn, seen, inbox, got, stop, name, req>>
  PROVE  IInv'
<1>1. <<>> \in Seq(Conn) /\ Len(<<>>) = 0
  BY EmptySeq
<1>2. /\ server' = how /\ backlog' = <<>> /\ closed' \subseteq Conn
      /\ task' = [c \in Conn |-> IF c \in Tasks THEN "joined" ELSE task[c]]
      /\ todo' = [c \in Conn |-> <<>>]
      /\ clients' = [n \in {} |-> None] /\ lockq' = <<>> /\ readers' = {}
  BY DEF Return
<1>3. \A d : ~Queued(d)'
  BY <1>1, <1>2 DEF Queued
<1>4. NetType' /\ BacklogInv'
  BY <1>1, <1>2, <1>3 DEF IInv, NetType, BacklogInv
<1>5. /\ task' \in [Conn -> States]
      /\ \A d \in Conn : task'[d] = task[d] \/ task[d] \notin {"none", "joined"}
      /\ \A d \in Conn : task'[d] \in {"none", "joined"}
  BY <1>2 DEF IInv, TaskType, States, Tasks
<1>6. DOMAIN clients' = {}
  BY <1>2
<1>7. TaskType' /\ MapType'
  BY <1>1, <1>2, <1>5, <1>6 DEF IInv, TaskType, MapType
<1>8. LimitInv' /\ StartInv'
  BY <1>3, <1>5, NoTaskBegins DEF IInv
<1>9. ReadInv'
  BY <1>5 DEF ReadInv, Named, Registered
<1>10. EntriesBelong' /\ WritesReachTheMap'
  BY <1>2, <1>6 DEF EntriesBelong, WritesReachTheMap
<1> QED  BY <1>4, <1>7, <1>8, <1>9, <1>10 DEF IInv

\* The new task takes one of the places that were free.
LEMMA AcceptKeeps ==
  ASSUME IInv, Accept
  PROVE  IInv'
<1> DEFINE c == Head(backlog)
<1>1. backlog # <<>> /\ UNCHANGED <<test, conn, inbox, seen, stop, name, req>>
  BY DEF Accept, scriptVars
<1>2. CASE WriteFails(c) /\ Return("failed")
  BY <1>1, <1>2, ReturnKeeps DEF WriteFails
<1>3. ASSUME backlog' = Tail(backlog), UNCHANGED <<server, todo, clients, lockq, readers>>,
             closed' \subseteq Conn, got' \in [Conn -> Seq(Reply)],
             \/ UNCHANGED task
             \/ ~IsFull /\ task' = [task EXCEPT ![c] = "joining"]
      PROVE  IInv'
  <2>1. /\ c \in Conn /\ Queued(c) /\ backlog' \in Seq(Conn)
        /\ \A i, j \in 1 .. Len(backlog') : backlog'[i] = backlog'[j] => i = j
        /\ \A d : Queued(d)' => Queued(d) /\ d # c
    BY <1>1, <1>3, Dequeued DEF IInv
  <2>2. task[c] = "none" /\ conn[c] # "absent"
    BY <2>1 DEF IInv, StartInv, BacklogInv
  <2> HIDE DEF c
  <2>3. NetType' /\ BacklogInv'
    BY <1>1, <1>3, <2>1 DEF IInv, NetType, BacklogInv
  <2>4. /\ task' \in [Conn -> States]
        /\ \A d \in Conn : d # c => task'[d] = task[d]
        /\ task'[c] \in {"none", "joining"}
    BY <1>3, <2>1, <2>2 DEF IInv, TaskType, States
  <2>5. TaskType' /\ MapType'
    BY <1>1, <1>3, <2>4 DEF IInv, TaskType, MapType
  <2>6. StartInv'
    BY <1>1, <2>1, <2>2, <2>4 DEF IInv, StartInv
  <2>7. LimitInv'
    <3>1. Limit \in Nat /\ Limit' = Limit
      BY <1>1, HarnessAssumption DEF Limit, IInv, NetType
    <3>2. CASE UNCHANGED task
      BY <3>1, <3>2 DEF IInv, LimitInv, Tasks
    <3>3. CASE ~IsFull /\ task' = [task EXCEPT ![c] = "joining"]
      <4>1. IsFiniteSet(Tasks) /\ c \notin Tasks
        BY <2>2, HarnessAssumption, FS_Subset DEF Tasks
      <4>2. Tasks' = Tasks \cup {c}
        BY <2>1, <3>3 DEF IInv, TaskType, Tasks
      <4>3. Cardinality(Tasks') = Cardinality(Tasks) + 1 /\ Cardinality(Tasks) \in Nat
        BY <4>1, <4>2, FS_AddElement, FS_CardinalityType
      <4>4. Cardinality(Tasks) < Limit
        BY <3>1, <3>3, <4>3 DEF IsFull
      <4> QED  BY <3>1, <4>3, <4>4 DEF LimitInv
    <3> QED  BY <1>3, <3>2, <3>3
  <2>8. ReadInv'
    BY <1>1, <2>4 DEF IInv, ReadInv, Named, Registered
  <2>9. \A n \in DOMAIN clients : clients[n] \in Conn /\ clients[n] # c
    BY <2>2 DEF IInv, MapType, EntriesBelong, Registered
  <2>10. EntriesBelong' /\ WritesReachTheMap'
    <3>1. EntriesBelong'
      BY <1>1, <1>3, <2>4, <2>9 DEF IInv, EntriesBelong
    <3> QED  BY <1>3, <3>1, Typed
  <2> QED  BY <2>3, <2>5, <2>6, <2>7, <2>8, <2>10 DEF IInv
<1>4. c \in Conn
  BY <1>1, HeadTailProperties DEF IInv, NetType
<1>5. CASE /\ Writes(c, Error("full"))
           /\ closed' = closed \cup {c} /\ backlog' = Tail(backlog)
           /\ UNCHANGED <<server, task, todo, lockVars>>
  <2>1. Error("full") \in Reply
    BY Replies DEF Reason
  <2>2. got' \in [Conn -> Seq(Reply)]
    BY <1>4, <1>5, <2>1, Written DEF IInv
  <2>3. closed' \subseteq Conn
    BY <1>4, <1>5 DEF IInv, NetType
  <2> QED  BY <1>3, <1>5, <2>2, <2>3 DEF lockVars
<1>6. CASE /\ ~IsFull /\ GoTo(c, "joining") /\ backlog' = Tail(backlog)
           /\ UNCHANGED <<got, closed, server, todo, lockVars>>
  <2>1. got' \in [Conn -> Seq(Reply)] /\ closed' \subseteq Conn
    BY <1>6, Typed
  <2> QED  BY <1>3, <1>6, <2>1 DEF GoTo, lockVars
<1> QED  BY <1>2, <1>5, <1>6 DEF Accept

LEMMA JoinNextKeeps ==
  ASSUME IInv, JoinNext
  PROVE  IInv'
<1>1. PICK c \in Conn : task[c] = "finished" /\ GoTo(c, "joined")
  BY DEF JoinNext
<1>2. UNCHANGED <<test, conn, backlog, inbox, got, seen, closed, serverVars, name, req, todo,
                  clients, lockq, readers>>
  BY DEF JoinNext, scriptVars, netVars, lockVars
<1>3. /\ inbox' \in [Conn -> Seq(Request)] /\ got' \in [Conn -> Seq(Reply)]
      /\ lockq' \in Seq(Conn)
  BY <1>2, Typed
<1>4. "joined" \in States \ Named /\ task[c] \notin Registered
  BY <1>1 DEF States, Named, Registered
<1> QED  BY <1>1, <1>2, <1>3, <1>4, GoesOn

\* The clients come and go in one direction, and touch no task.
LEMMA ClientsKeep ==
  ASSUME IInv, NetType', BacklogInv', Onward, UNCHANGED <<test, server, taskVars, lockVars>>,
         stop' \in BOOLEAN
  PROVE  IInv'
<1>1. UNCHANGED <<test, server, task, name, req, todo, clients, lockq, readers>>
  BY DEF taskVars, lockVars
<1>2. TaskType' /\ MapType' /\ ReadInv'
  BY <1>1 DEF IInv, TaskType, MapType, ReadInv
<1>3. EntriesBelong' /\ WritesReachTheMap'
  BY <1>1, Typed DEF IInv, EntriesBelong
<1>4. LimitInv' /\ StartInv'
  <2>1. \A d \in Conn : Queued(d)' \/ conn'[d] = "absent" => Queued(d) \/ conn[d] = "absent"
    BY DEF Onward
  <2>2. \A d \in Conn : task'[d] = task[d]
    BY <1>1
  <2> QED  BY <1>1, <1>2, <2>1, <2>2, NoTaskBegins DEF IInv, TaskType
<1> QED  BY <1>2, <1>3, <1>4 DEF IInv

LEMMA HarnessKeeps ==
  ASSUME IInv, Harness
  PROVE  IInv' /\ UNCHANGED <<closed, task>>
<1>0. NetType /\ BacklogInv /\ stop \in BOOLEAN
  BY DEF IInv, TaskType
<1>1. CASE ScriptStep(Quiet, Overdue) /\ UNCHANGED <<serverVars, taskVars, lockVars>>
  <2>1. NetType' /\ BacklogInv' /\ Onward /\ closed' = closed
    BY <1>0, <1>1, ScriptKeeps
  <2>2. test' = test
    BY <1>1 DEF ScriptStep, EndBlock, DoConnect, DoSend, DoChoose, DoReceive, DoClose,
                DoCheckClosed, DoSleep, DoAssert, Pass, Fail
  <2> QED  BY <1>0, <1>1, <2>1, <2>2, ClientsKeep DEF serverVars, taskVars
<1>2. CASE Conclude
  <2>1. DropClients /\ UNCHANGED <<test, server, taskVars, lockVars>> /\ stop' = TRUE
    BY <1>2 DEF Conclude, scriptVars
  <2>2. NetType' /\ BacklogInv' /\ Onward /\ closed' = closed
    BY <1>0, <2>1, DropClientsKeeps
  <2> QED  BY <2>1, <2>2, ClientsKeep DEF taskVars
<1>3. CASE Judge \/ ToldToStop
  <2>1. /\ UNCHANGED <<test, netVars, server, taskVars, lockVars>>
        /\ stop' = stop \/ stop' = TRUE
    BY <1>3 DEF Judge, ToldToStop, scriptVars, serverVars
  <2>2. /\ conn' = conn /\ backlog' = backlog /\ inbox' = inbox /\ got' = got
        /\ seen' = seen /\ closed' = closed /\ test' = test
    BY <2>1 DEF netVars
  <2>3. NetType' /\ BacklogInv' /\ Onward
    BY <1>0, <2>2 DEF NetType, BacklogInv, Onward, Queued
  <2> QED  BY <1>0, <2>1, <2>2, <2>3, ClientsKeep DEF taskVars
<1> QED  BY <1>1, <1>2, <1>3 DEF Harness

-----------------------------------------------------------------------------
(* The theorems *)

LEMMA InitInv ==
  ASSUME Init
  PROVE  IInv
<1>1. NetType /\ BacklogInv
  BY HarnessStarts DEF Init
<1>2. <<>> \in Seq(Conn)
  BY EmptySeq
<1>3. TaskType /\ MapType
  BY <1>2 DEF Init, TaskType, MapType, States
<1>4. Tasks = {}
  BY DEF Init, Tasks
<1>5. LimitInv
  BY <1>1, <1>4, FS_EmptySet, HarnessAssumption DEF LimitInv, Limit, NetType
<1>6. StartInv /\ ReadInv /\ EntriesBelong /\ WritesReachTheMap
  BY DEF Init, StartInv, ReadInv, EntriesBelong, WritesReachTheMap, Named, Registered
<1> QED  BY <1>1, <1>3, <1>5, <1>6 DEF IInv

LEMMA NextInv ==
  ASSUME IInv, [Next]_vars
  PROVE  IInv'
<1>1. CASE Accept \/ JoinNext \/ Harness
  BY <1>1, AcceptKeeps, JoinNextKeeps, HarnessKeeps
<1>2. CASE ShutDown
  BY <1>2, ReturnKeeps DEF ShutDown, scriptVars
<1>3. ASSUME NEW c \in Conn, TaskStep(c)
      PROVE  IInv'
  BY <1>3, TaskStepKeeps
<1>4. CASE UNCHANGED vars
  <2>1. /\ conn' = conn /\ backlog' = backlog /\ inbox' = inbox /\ got' = got
        /\ seen' = seen /\ closed' = closed /\ test' = test
        /\ UNCHANGED <<server, stop, taskVars, lockVars>>
    BY <1>4 DEF vars, scriptVars, netVars, serverVars
  <2>2. NetType' /\ BacklogInv' /\ Onward
    BY <2>1 DEF IInv, NetType, BacklogInv, Onward, Queued
  <2> QED  BY <2>1, <2>2, ClientsKeep DEF IInv, TaskType
<1> QED  BY <1>1, <1>2, <1>3, <1>4 DEF Next

\* The inductive invariant holds throughout.
THEOREM Invariance == Spec => []IInv
<1> QED  BY InitInv, NextInv, PTL DEF Spec

\* For every set of clients, every test and every limit the variables stay in
\* their types, and at most max_clients tasks exist (server.rs:44).
THEOREM TypeCorrect == Spec => []TypeOK
<1>1. IInv => TypeOK
  BY DEF IInv, NetType, TaskType, MapType, LimitInv, TypeOK, States, Named
<1> QED  BY <1>1, Invariance, PTL

\* handle_client: whoever takes a name over and whoever leaves first, an entry
\* of the map is that of a client that is served under that name.
THEOREM EntriesCorrect == Spec => []EntriesBelong
<1>1. IInv => EntriesBelong
  BY DEF IInv
<1> QED  BY <1>1, Invariance, PTL

\* react_client_msg holds its guard until it has written to everybody: a
\* writer it still has to use is in the map.
THEOREM WritesCorrect == Spec => []WritesReachTheMap
<1>1. IInv => WritesReachTheMap
  BY DEF IInv
<1> QED  BY <1>1, Invariance, PTL

\* A step closes the connection of a client that is served only for a reason.
LEMMA TaskStepCuts ==
  ASSUME IInv, NEW d \in Conn, TaskStep(d), NEW c \in Conn,
         c \in closed' \ closed, task[c] \in Registered
  PROVE  \/ task[c] = "leaving"
         \/ \E e \in Conn \ {c} : name[e] = name[c] /\ task[e] \in {"inserting", "leaving"}
<1>1. CASE Insert(d)
  <2>1. task[d] = "inserting" /\ closed' = closed \cup WritersOf({name[d]})
    BY <1>1 DEF Insert
  <2>2. name[c] = name[d] /\ c # d
    BY <2>1 DEF WritersOf, IInv, EntriesBelong, Registered
  <2> QED  BY <2>1, <2>2
<1>2. CASE RemoveName(d)
  <2>1. task[d] = "leaving" /\ closed' = closed \cup {d} \cup WritersOf({name[d]})
    BY <1>2 DEF RemoveName, Removed
  <2>2. c = d \/ name[c] = name[d]
    BY <2>1 DEF WritersOf, IInv, EntriesBelong
  <2> QED  BY <2>1, <2>2
<1>3. CASE UNCHANGED closed \/ (task[d] \in {"joining", "checking", "greeting"}
                                /\ closed' = closed \cup {d})
  BY <1>3 DEF Registered
<1>4. \/ UNCHANGED closed \/ Insert(d) \/ RemoveName(d)
      \/ (task[d] \in {"joining", "checking", "greeting"} /\ closed' = closed \cup {d})
  BY DEF TaskStep, ReadJoin, CheckName, Greet, AskToInsert, JoinEnded, JoinTimeout,
         ReadRequest, Abandon, Enter, Write, Dismiss, Finish, netVars
<1> QED  BY <1>1, <1>2, <1>3, <1>4

LEMMA StepCuts ==
  IInv /\ [Next]_vars =>
    \A c \in closed' \ closed : task[c] \in Registered =>
      \/ task[c] = "leaving" \/ server' # "running"
      \/ \E d \in Conn \ {c} : name[d] = name[c] /\ task[d] \in {"inserting", "leaving"}
<1> SUFFICES ASSUME IInv, [Next]_vars, NEW c \in closed' \ closed, task[c] \in Registered
             PROVE  \/ task[c] = "leaving" \/ server' # "running"
                    \/ \E d \in Conn \ {c} : /\ name[d] = name[c]
                                             /\ task[d] \in {"inserting", "leaving"}
  OBVIOUS
<1>1. c \in Conn
  BY NextInv DEF IInv, NetType
<1>2. CASE \E d \in Conn : TaskStep(d)
  BY <1>1, <1>2, TaskStepCuts
<1>3. CASE Accept
  <2>1. backlog # <<>>
    BY <1>3 DEF Accept
  <2>2. \/ closed' = closed \cup {Head(backlog)} \/ UNCHANGED closed \/ server' = "failed"
    BY <1>3 DEF Accept, Return
  <2>3. task[Head(backlog)] = "none"
    <3>1. backlog \in Seq(Conn) /\ Len(backlog) \in Nat /\ Len(backlog) # 0
          /\ Head(backlog) \in Conn /\ Head(backlog) = backlog[1]
      BY <2>1, HeadTailProperties, LenProperties, EmptySeq DEF IInv, NetType
    <3>2. Queued(Head(backlog))
      BY <3>1 DEF Queued
    <3> QED  BY <3>1, <3>2 DEF IInv, StartInv
  <2> QED  BY <2>2, <2>3 DEF Registered
<1>4. CASE ShutDown
  BY <1>4 DEF ShutDown, Return
<1>5. CASE JoinNext \/ UNCHANGED vars
  BY <1>5 DEF JoinNext, netVars, vars
<1>6. CASE Harness
  BY <1>6, HarnessKeeps
<1> QED  BY <1>2, <1>3, <1>4, <1>5, <1>6 DEF Next

\* A client that is served is cut off by nobody but one that joined under its
\* name while its own entry was not in the map yet (server.rs:121-124, 130).
THEOREM CuttingCorrect == Spec => CutOffByNamesakes
BY Invariance, StepCuts, PTL DEF Spec, CutOffByNamesakes

-----------------------------------------------------------------------------
(* The lock *)

Waits == {"checking", "inserting", "asking", "leaving"}
Resting == {"none", "joining", "serving", "finished", "joined"}

InLine(c, q) == \E i \in DOMAIN q : q[i] = c
Distinct(q) == \A i, k \in DOMAIN q : q[i] = q[k] => i = k

\* Who writes holds the guard and has somebody to write to.  On one thread at
\* most one task is in the middle of something.
HoldsOK(c) ==
  /\ InLine(c, lockq) <=> task[c] \in Waits
  /\ c \in readers <=> task[c] = "writing"
  /\ c \in readers <=> todo[c] # <<>>
LockInv ==
  /\ Distinct(lockq) /\ \A c \in Conn : HoldsOK(c)
  /\ test \in Threaded \/ \A c, d \in Conn : c = d \/ task[c] \in Resting \/ task[d] \in Resting

\* Task c, which can go on, gets the lock or writes its next frame.
Passes(c) ==
  /\ Yielded(Conn \ {c})
  /\ \/ c \in readers /\ ~Full(Head(todo[c]))
     \/ IsFirst(c) /\ (task[c] \in {"checking", "asking"} \/ readers = {})

\* Somebody gets on with the lock, unless whoever holds it has come to a client
\* that does not read, and the first that waits for it, if any, needs it alone.
LockMoves ==
  lockq # <<>> \/ readers # {} =>
    \/ /\ readers # {} /\ \A c \in readers : Full(Head(todo[c]))
       /\ \A c \in Conn : IsFirst(c) => task[c] \in {"inserting", "leaving"}
    \/ \E c \in Conn : Passes(c)

\* Nobody asks for the lock while it holds it (the RwLock is fair: behind a task
\* that waits to write, its holder would wait for itself), or asks twice.
AsksOnce ==
  /\ Distinct(lockq)
  /\ \A c \in readers : ~InLine(c, lockq)

LEMMA LineGrows ==
  ASSUME NEW S, NEW q \in Seq(S), NEW c \in S, Distinct(q), ~InLine(c, q)
  PROVE  /\ Distinct(Append(q, c))
         /\ \A d : InLine(d, Append(q, c)) <=> InLine(d, q) \/ d = c
<1> DEFINE p == Append(q, c)
<1>1. /\ DOMAIN q = 1 .. Len(q) /\ Len(q) \in Nat /\ DOMAIN p = 1 .. Len(q) + 1
      /\ p[Len(q) + 1] = c /\ \A i \in DOMAIN q : p[i] = q[i]
  OBVIOUS
<1> HIDE DEF p
<1>2. /\ \A i \in DOMAIN p : i \in DOMAIN q \/ i = Len(q) + 1
      /\ DOMAIN q \subseteq DOMAIN p /\ Len(q) + 1 \in DOMAIN p
  BY <1>1
<1>3. Distinct(p)
  BY <1>1, <1>2 DEF Distinct, InLine
<1>4. \A d : InLine(d, p) <=> InLine(d, q) \/ d = c
  BY <1>1, <1>2 DEF InLine
<1> QED  BY <1>3, <1>4 DEF p

LEMMA LineMoves ==
  ASSUME NEW S, NEW q \in Seq(S), Distinct(q), q # <<>>
  PROVE  /\ Distinct(Tail(q)) /\ InLine(Head(q), q)
         /\ \A d : InLine(d, Tail(q)) <=> InLine(d, q) /\ d # Head(q)
<1> DEFINE p == Tail(q)
<1>1. /\ DOMAIN q = 1 .. Len(q) /\ Len(q) \in Nat \ {0} /\ DOMAIN p = 1 .. Len(q) - 1
      /\ Head(q) = q[1] /\ \A i \in DOMAIN p : p[i] = q[i + 1]
  OBVIOUS
<1> HIDE DEF p
<1>2. 1 \in DOMAIN q /\ \A i \in DOMAIN p : i + 1 \in DOMAIN q /\ i + 1 # 1
  BY <1>1
<1>3. ASSUME NEW i \in DOMAIN q, i # 1 PROVE i - 1 \in DOMAIN p /\ p[i - 1] = q[i]
  BY <1>1, <1>3
<1>4. Distinct(p)
  <2> SUFFICES ASSUME NEW i \in DOMAIN p, NEW k \in DOMAIN p, p[i] = p[k] PROVE i = k
    BY DEF Distinct
  <2>1. i + 1 = k + 1
    BY <1>1, <1>2 DEF Distinct
  <2> QED  BY <1>1, <2>1
<1>5. ASSUME NEW d PROVE InLine(d, p) <=> InLine(d, q) /\ d # q[1]
  <2>1. ASSUME NEW i \in DOMAIN p, p[i] = d PROVE InLine(d, q) /\ d # q[1]
    <3>1. q[i + 1] = d /\ i + 1 \in DOMAIN q /\ i + 1 # 1
      BY <1>1, <1>2, <2>1
    <3> QED  BY <1>2, <3>1 DEF InLine, Distinct
  <2>2. ASSUME NEW i \in DOMAIN q, q[i] = d, d # q[1] PROVE InLine(d, p)
    BY <1>3, <2>2 DEF InLine
  <2> QED  BY <2>1, <2>2 DEF InLine
<1> QED  BY <1>1, <1>2, <1>4, <1>5 DEF p, InLine

\* A step of c: it stays where it is, joins the line, or is admitted.
LEMMA LockStep ==
  ASSUME IInv, LockInv, NEW c \in Conn, NEW s \in States,
         task' = [task EXCEPT ![c] = s], test' = test, Yielded(Conn \ {c}),
         \/ lockq' = lockq /\ (task[c] \in Waits <=> s \in Waits)
         \/ lockq' = Append(lockq, c) /\ task[c] \notin Waits /\ s \in Waits
         \/ lockq' = Tail(lockq) /\ IsFirst(c) /\ s \notin Waits,
         \A d \in Conn \ {c} : (d \in readers' <=> d \in readers) /\ todo'[d] = todo[d],
         c \in readers' <=> s = "writing", c \in readers' <=> todo'[c] # <<>>
  PROVE  LockInv'
<1>1. task'[c] = s /\ \A d \in Conn \ {c} : task'[d] = task[d]
  BY DEF IInv, TaskType
<1>2. lockq \in Seq(Conn) /\ Distinct(lockq) /\ \A d \in Conn : HoldsOK(d)
  BY DEF IInv, MapType, LockInv
<1>3. /\ Distinct(lockq')
      /\ InLine(c, lockq') <=> s \in Waits
      /\ \A d \in Conn \ {c} : InLine(d, lockq') <=> InLine(d, lockq)
  <2>1. CASE lockq' = lockq /\ (task[c] \in Waits <=> s \in Waits)
    BY <1>2, <2>1 DEF HoldsOK
  <2>2. CASE lockq' = Append(lockq, c) /\ task[c] \notin Waits /\ s \in Waits
    BY <1>2, <2>2, LineGrows DEF HoldsOK
  <2>3. CASE lockq' = Tail(lockq) /\ IsFirst(c) /\ s \notin Waits
    BY <1>2, <2>3, LineMoves DEF IsFirst
  <2> QED  BY <2>1, <2>2, <2>3
<1>4. \A d \in Conn : HoldsOK(d)'
  BY <1>1, <1>2, <1>3 DEF HoldsOK
<1>5. test \in Threaded \/ \A d \in Conn \ {c} : task'[d] \in Resting
  BY <1>1 DEF Yielded, Resting
<1>6. Distinct(lockq)'
  BY <1>3 DEF Distinct
<1> QED  BY <1>4, <1>5, <1>6 DEF LockInv

\* A step of c that does not touch the guard.
LEMMA LineStep ==
  ASSUME IInv, LockInv, NEW c \in Conn, NEW s \in States \ {"writing"}, task[c] # "writing",
         GoTo(c, s), test' = test, Yielded(Conn \ {c}), UNCHANGED <<readers, todo>>,
         \/ lockq' = lockq /\ (task[c] \in Waits <=> s \in Waits)
         \/ lockq' = Append(lockq, c) /\ task[c] \notin Waits /\ s \in Waits
         \/ lockq' = Tail(lockq) /\ IsFirst(c) /\ s \notin Waits
  PROVE  LockInv'
<1>1. c \notin readers /\ todo[c] = <<>>
  BY DEF LockInv, HoldsOK
<1>2. task' = [task EXCEPT ![c] = s]
  BY DEF GoTo
<1> QED  BY <1>1, <1>2, LockStep

\* Every step of a task keeps LockInv.
LEMMA TaskStepLock ==
  ASSUME IInv, LockInv, NEW c \in Conn, TaskStep(c)
  PROVE  LockInv'
<1>a. /\ Yielded(Conn \ {c}) /\ task[c] \in States
      /\ todo \in [Conn -> Seq(Conn)] /\ lockq \in Seq(Conn) /\ readers \subseteq Conn
  BY DEF TaskStep, IInv, TaskType, MapType
<1>b. \A s \in {"joining", "finished", "joined"} \cup Named : s \in States
  BY DEF States
<1> USE DEF Named, Registered, Waits
<1>1. CASE ReadJoin(c) \/ JoinEnded(c) \/ JoinTimeout(c)
  <2>1. task[c] = "joining" /\ UNCHANGED <<test, readers, todo>>
    BY <1>1 DEF ReadJoin, JoinEnded, JoinTimeout, scriptVars, lockVars
  <2>2. \/ lockq' = lockq /\ GoTo(c, "finished")
        \/ lockq' = Append(lockq, c) /\ GoTo(c, "checking")
    BY <1>1 DEF ReadJoin, JoinEnded, JoinTimeout, Dismiss, Finish, Ask, lockVars
  <2> QED  BY <1>a, <1>b, <2>1, <2>2, LineStep
<1>2. CASE CheckName(c)
  <2>1. /\ task[c] = "checking" /\ UNCHANGED <<test, readers, todo>>
        /\ lockq' = Tail(lockq) /\ IsFirst(c)
        /\ GoTo(c, "finished") \/ GoTo(c, "greeting")
    BY <1>2 DEF CheckName, scriptVars, Dismiss, Finish
  <2> QED  BY <1>a, <1>b, <2>1, LineStep
<1>3. CASE Greet(c) \/ AskToInsert(c)
  <2>1. task[c] \in {"greeting", "welcomed"} /\ UNCHANGED <<test, readers, todo>>
    BY <1>3 DEF Greet, AskToInsert, scriptVars, lockVars
  <2>2. \/ lockq' = lockq /\ (GoTo(c, "finished") \/ GoTo(c, "welcomed"))
        \/ lockq' = Append(lockq, c) /\ GoTo(c, "inserting")
    BY <1>3 DEF Greet, AskToInsert, Finish, Ask, lockVars
  <2> QED  BY <1>a, <1>b, <2>1, <2>2, LineStep
<1>4. CASE Insert(c) \/ RemoveName(c)
  <2>1. /\ task[c] \in {"inserting", "leaving"} /\ UNCHANGED <<test, readers, todo>>
        /\ lockq' = Tail(lockq) /\ IsFirst(c)
        /\ GoTo(c, "serving") \/ GoTo(c, "finished")
    BY <1>4 DEF Insert, RemoveName, scriptVars
  <2> QED  BY <1>a, <1>b, <2>1, LineStep
<1>5. CASE ReadRequest(c) \/ Abandon(c)
  <2>1. /\ task[c] = "serving" /\ UNCHANGED <<test, readers, todo>>
        /\ lockq' = Append(lockq, c)
        /\ GoTo(c, "leaving") \/ GoTo(c, "asking")
    BY <1>5 DEF ReadRequest, Abandon, scriptVars, Ask
  <2> QED  BY <1>a, <1>b, <2>1, LineStep
<1>6. CASE Enter(c)
  <2>1. /\ task[c] = "asking" /\ test' = test /\ lockq' = Tail(lockq) /\ IsFirst(c)
    BY <1>6 DEF Enter, scriptVars
  <2>2. CASE Audience(c) = {}
    <3>1. GoTo(c, "serving") /\ UNCHANGED <<readers, todo>>
      BY <1>6, <2>2 DEF Enter
    <3> QED  BY <1>a, <1>b, <2>1, <3>1, LineStep
  <2>3. CASE Audience(c) # {}
    <3>1. /\ task' = [task EXCEPT ![c] = "writing"] /\ readers' = readers \cup {c}
          /\ \E order \in SetToSeqs(Audience(c)) : todo' = [todo EXCEPT ![c] = order]
      BY <1>6, <2>3 DEF Enter, GoTo
    <3>2. todo'[c] # <<>> /\ \A d \in Conn \ {c} : todo'[d] = todo[d]
      <4> PICK order \in SetToSeqs(Audience(c)) : todo' = [todo EXCEPT ![c] = order]
        BY <3>1
      <4>1. Audience(c) \subseteq Conn
        BY WritersKnown DEF Audience, IInv
      <4> QED  BY <1>a, <2>3, <4>1, Walked
    <3> QED  BY <1>a, <1>b, <2>1, <3>1, <3>2, LockStep
  <2> QED  BY <2>2, <2>3
<1>7. CASE Write(c)
  <2>1. task[c] = "writing" /\ test' = test /\ c \in readers
    BY <1>7 DEF Write, scriptVars, LockInv, HoldsOK
  <2>2. \/ /\ todo' = [todo EXCEPT ![c] = Tail(@)]
           /\ IF Tail(todo[c]) # <<>> THEN UNCHANGED <<task, lockq, readers>>
              ELSE /\ readers' = readers \ {c}
                   /\ \/ Ask(c, "leaving")
                      \/ GoTo(c, "serving") /\ UNCHANGED lockq
        \/ todo' = [todo EXCEPT ![c] = <<>>] /\ readers' = readers \ {c} /\ Ask(c, "leaving")
    BY <1>7 DEF Write, ReleaseGuard
  <2>3. CASE /\ todo' = [todo EXCEPT ![c] = Tail(@)] /\ Tail(todo[c]) # <<>>
             /\ UNCHANGED <<task, lockq, readers>>
    <3>1. todo'[c] # <<>> /\ \A e \in Conn \ {c} : todo'[e] = todo[e]
      BY <1>a, <2>3
    <3>2. task' = [task EXCEPT ![c] = "writing"]
      BY <2>1, <2>3 DEF IInv, TaskType
    <3> QED  BY <1>a, <1>b, <2>1, <2>3, <3>1, <3>2, LockStep
  <2>4. CASE /\ todo' = [todo EXCEPT ![c] = <<>>]
             /\ readers' = readers \ {c}
             /\ Ask(c, "leaving") \/ (GoTo(c, "serving") /\ UNCHANGED lockq)
    <3>1. todo'[c] = <<>> /\ \A e \in Conn \ {c} : todo'[e] = todo[e]
      BY <1>a, <2>4
    <3>2. CASE Ask(c, "leaving")
      BY <1>a, <1>b, <2>1, <2>4, <3>1, <3>2, LockStep DEF Ask, GoTo
    <3>3. CASE GoTo(c, "serving") /\ UNCHANGED lockq
      BY <1>a, <1>b, <2>1, <2>4, <3>1, <3>3, LockStep DEF GoTo
    <3> QED  BY <2>4, <3>2, <3>3
  <2>5. CASE todo' = [todo EXCEPT ![c] = Tail(@)] /\ Tail(todo[c]) = <<>>
    <3>1. todo' = [todo EXCEPT ![c] = <<>>]
      BY <2>5
    <3> QED  BY <2>2, <2>4, <2>5, <3>1
  <2> QED  BY <2>2, <2>3, <2>4, <2>5
<1> QED  BY <1>1, <1>2, <1>3, <1>4, <1>5, <1>6, <1>7 DEF TaskStep

\* The listener and the test take no lock; run_server drops it.
LEMMA NextLock ==
  ASSUME IInv, LockInv, [Next]_vars
  PROVE  LockInv'
<1> USE DEF Named, Registered, Waits
<1>1. ASSUME NEW how \in {"ok", "failed"}, Return(how), UNCHANGED test PROVE LockInv'
  <2>1. /\ lockq' = <<>> /\ readers' = {} /\ todo' = [c \in Conn |-> <<>>]
        /\ \A c \in Conn : task'[c] \in {"none", "joined"}
    BY <1>1 DEF Return, Tasks
  <2>2. \A c \in Conn : ~InLine(c, lockq)' /\ Distinct(lockq)'
    BY <2>1 DEF InLine, Distinct
  <2>3. Distinct(lockq)'
    BY <2>1 DEF Distinct
  <2> QED  BY <2>1, <2>2, <2>3 DEF LockInv, HoldsOK, Resting
<1>2. ASSUME UNCHANGED <<test, task, todo, lockq, readers>> PROVE LockInv'
  BY <1>2 DEF LockInv, HoldsOK, InLine, Distinct
<1>3. ASSUME NEW c \in Conn, NEW s \in {"joining", "joined"}, task[c] \in {"none", "finished"},
             Yielded(Conn), GoTo(c, s), UNCHANGED <<test, todo, lockq, readers>>
      PROVE  LockInv'
  <2>1. Yielded(Conn \ {c}) /\ s \in States
    BY <1>3 DEF Yielded, States
  <2> QED  BY <1>3, <2>1, LineStep
<1>4. CASE Accept
  <2> DEFINE c == Head(backlog)
  <2>1. Yielded(Conn) /\ test' = test /\ backlog # <<>>
    BY <1>4 DEF Accept, scriptVars
  <2>2. c \in Conn /\ task[c] = "none"
    <3>1. backlog \in Seq(Conn) /\ Len(backlog) \in Nat /\ Len(backlog) # 0
          /\ Head(backlog) \in Conn /\ Head(backlog) = backlog[1]
      BY <2>1, HeadTailProperties, LenProperties, EmptySeq DEF IInv, NetType
    <3>2. Queued(Head(backlog))
      BY <3>1 DEF Queued
    <3> QED  BY <3>1, <3>2 DEF IInv, StartInv
  <2>3. \/ UNCHANGED <<task, todo, lockVars>> \/ Return("failed")
        \/ GoTo(c, "joining") /\ UNCHANGED <<todo, lockVars>>
    BY <1>4 DEF Accept
  <2> HIDE DEF c
  <2> QED  BY <1>1, <1>2, <1>3, <2>1, <2>2, <2>3 DEF lockVars
<1>5. CASE JoinNext
  BY <1>3, <1>5 DEF JoinNext, scriptVars, lockVars
<1>6. CASE ShutDown
  BY <1>1, <1>6 DEF ShutDown, scriptVars
<1>7. CASE Harness
  <2>1. UNCHANGED <<taskVars, lockVars>>
    BY <1>7 DEF Harness, Conclude, Judge, ToldToStop
  <2>2. test' = test
    BY <1>7 DEF Harness, Conclude, Judge, ToldToStop, scriptVars, ScriptStep, EndBlock, DoConnect,
                DoSend, DoChoose, DoReceive, DoClose, DoCheckClosed, DoSleep, DoAssert, Pass, Fail
  <2> QED  BY <1>2, <2>1, <2>2 DEF taskVars, lockVars
<1>8. ASSUME NEW c \in Conn, TaskStep(c) PROVE LockInv'
  BY <1>8, TaskStepLock
<1>9. CASE UNCHANGED vars
  BY <1>2, <1>9 DEF vars, scriptVars, taskVars, lockVars
<1> QED  BY <1>4, <1>5, <1>6, <1>7, <1>8, <1>9 DEF Next

LEMMA LockInvariance == Spec => []LockInv
<1>1. Init => LockInv
  BY DEF Init, LockInv, HoldsOK, InLine, Distinct, Resting, Waits
<1> QED  BY <1>1, NextLock, Invariance, PTL DEF Spec

\* In handle_client and react_client_msg every guard is dropped before the next
\* call to read() or write(): no task waits for itself, or twice.
THEOREM GuardsAreDropped == Spec => []AsksOnce
<1>1. IInv /\ LockInv => AsksOnce
  BY DEF IInv, MapType, LockInv, HoldsOK, AsksOnce, Waits
<1> QED  BY <1>1, LockInvariance, Invariance, PTL

\* The safety half of NothingHangs: whatever waits for the map, in any order of
\* readers and writers and on any number of threads, one task gets on, unless
\* every task that answers a request is held up by the client it has come to in
\* the order of the map, although others would read, and behind it one wants to
\* write to the map (react_client_msg, server.rs:160-165, 178-188).
THEOREM LockIsPassedOn == Spec => []LockMoves
<1>1. IInv /\ LockInv => LockMoves
  <2> SUFFICES ASSUME IInv, LockInv, lockq # <<>> \/ readers # {},
                      \/ readers = {} \/ \E c \in readers : ~Full(Head(todo[c]))
                      \/ \E c \in Conn : IsFirst(c) /\ task[c] \notin {"inserting", "leaving"}
               PROVE  \E c \in Conn : Passes(c)
    BY DEF LockMoves
  <2>1. ASSUME NEW c \in Conn, task[c] \notin Resting PROVE Yielded(Conn \ {c})
    BY <2>1 DEF LockInv, Yielded, Resting
  <2>2. CASE \E c \in readers : ~Full(Head(todo[c]))
    <3>1. PICK c \in readers : c \in Conn /\ ~Full(Head(todo[c]))
      BY <2>2 DEF IInv, MapType
    <3>2. task[c] = "writing"
      BY <3>1 DEF LockInv, HoldsOK
    <3> QED  BY <2>1, <3>1, <3>2 DEF Passes, Resting
  <2>3. ASSUME NEW c \in Conn, IsFirst(c)
        PROVE  task[c] \in Waits /\ Yielded(Conn \ {c})
    <3>1. lockq # <<>> /\ c = Head(lockq)
      BY <2>3 DEF IsFirst
    <3>2. InLine(c, lockq)
      BY <3>1, LineMoves DEF IInv, MapType, LockInv
    <3>3. task[c] \in Waits
      BY <3>2 DEF LockInv, HoldsOK
    <3> QED  BY <2>1, <3>3 DEF Resting, Waits
  <2>4. CASE \E c \in Conn : IsFirst(c) /\ task[c] \notin {"inserting", "leaving"}
    BY <2>3, <2>4 DEF Passes, Waits
  <2>5. CASE readers = {} /\ lockq # <<>>
    <3>1. PICK c \in Conn : IsFirst(c)
      BY <2>5, HeadTailProperties DEF IInv, MapType, IsFirst
    <3> QED  BY <2>3, <2>5, <3>1 DEF Passes, Waits
  <2> QED  BY <2>2, <2>4, <2>5
<1> QED  BY <1>1, LockInvariance, Invariance, PTL

-----------------------------------------------------------------------------
(* What a client hears *)

Fresh == {"joining", "checking", "greeting"}
Joined == {"welcomed", "inserting"} \cup Registered

\* A client hears nothing before its task answers the Join, and is greeted
\* before its writer is in the map, unless it is gone by then.
FramesOK(c) ==
  /\ got[c] = <<>> \/ Greeted(c) \/ RefusedOnly(c)
  /\ task[c] \in Fresh \/ Queued(c) \/ conn[c] = "absent" => got[c] = <<>>
  /\ task[c] \in Joined => Greeted(c) \/ (got[c] = <<>> /\ conn[c] = "dropped")
FramesInv == \A c \in Conn : FramesOK(c)

\* A task that goes on, or ends, without a word to its client.
GoesQuietly(c) ==
  \/ task'[c] = task[c] \/ task'[c] \in {"finished", "joined"}
  \/ task[c] \in Fresh /\ task'[c] \in Fresh
  \/ task[c] \in Joined /\ task'[c] \in Joined

LEMMA Unheard ==
  ASSUME NEW c \in Conn, FramesOK(c), got'[c] = got[c], GoesQuietly(c),
         c \in closed /\ conn[c] # "absent" => c \in closed',
         Queued(c)' \/ conn'[c] = "absent" => Queued(c) \/ conn[c] = "absent",
         conn[c] = "dropped" => conn'[c] = "dropped"
  PROVE  FramesOK(c)'
<1>1. /\ Fresh \cap {"finished", "joined"} = {} /\ Joined \cap {"finished", "joined"} = {}
      /\ Fresh \cap Joined = {}
  BY DEF Fresh, Joined, Registered
<1>2. /\ task'[c] \in Fresh => task[c] \in Fresh \/ task'[c] = task[c]
      /\ task'[c] \in Joined => task[c] \in Joined \/ task'[c] = task[c]
  BY <1>1 DEF GoesQuietly
<1>3. Greeted(c) => Greeted(c)'
  BY DEF Greeted
<1>4. RefusedOnly(c) => RefusedOnly(c)' \/ got'[c] = <<>>
  BY DEF FramesOK, RefusedOnly
<1>5. /\ got'[c] = <<>> \/ Greeted(c)' \/ RefusedOnly(c)'
      /\ task'[c] \in Fresh \/ Queued(c)' \/ conn'[c] = "absent" => got'[c] = <<>>
      /\ task'[c] \in Joined => Greeted(c)' \/ (got'[c] = <<>> /\ conn'[c] = "dropped")
  BY <1>2, <1>3, <1>4 DEF FramesOK
<1> QED  BY <1>5 DEF FramesOK

LEMMA QuietFrames ==
  ASSUME FramesInv, UNCHANGED got, closed \subseteq closed',
         UNCHANGED <<conn, backlog>> \/ Onward,
         \A c \in Conn : GoesQuietly(c)
  PROVE  FramesInv'
<1>1. ASSUME NEW c \in Conn PROVE FramesOK(c)'
  <2>1. /\ Queued(c)' \/ conn'[c] = "absent" => Queued(c) \/ conn[c] = "absent"
        /\ conn[c] = "dropped" => conn'[c] = "dropped"
    BY DEF Onward, Queued
  <2> QED  BY <2>1, Unheard DEF FramesInv
<1> QED  BY <1>1 DEF FramesInv

\* A reply to client c, which its task or another sends.
LEMMA ReplyFrames ==
  ASSUME IInv, FramesInv, NEW c \in Conn, NEW r \in Reply, Writes(c, r),
         closed \subseteq closed', UNCHANGED <<conn, backlog>>,
         \A d \in Conn \ {c} : GoesQuietly(d),
         \/ /\ task[c] \in Fresh /\ r.kind = "error"
            /\ c \in closed' /\ task'[c] = "finished"
         \/ task[c] = "greeting" /\ r.kind = "welcome" /\ task'[c] = "welcomed"
         \/ task[c] \in Registered /\ r.kind # "welcome" /\ task'[c] \in Registered
  PROVE  FramesInv'
<1>a. NetType /\ FramesOK(c) /\ ~Queued(c) /\ conn[c] # "absent"
  <2>1. task[c] # "none"
    BY DEF Fresh, Registered
  <2> QED  BY <2>1 DEF IInv, FramesInv, StartInv
<1>b. \A d : Queued(d)' = Queued(d)
  BY DEF Queued
<1>1. /\ \A d \in Conn \ {c} : got'[d] = got[d]
      /\ conn[c] = "dropped" => got'[c] = got[c]
      /\ Greeted(c) /\ r.kind # "welcome" => Greeted(c)'
      /\ got[c] = <<>> /\ r.kind = "welcome" =>
           Greeted(c)' \/ (got'[c] = <<>> /\ conn[c] = "dropped")
      /\ got[c] = <<>> /\ r.kind = "error" =>
           got'[c] = <<>> \/ (Len(got'[c]) = 1 /\ got'[c][1].kind = "error")
  BY <1>a, Hears DEF Writes
<1>2. ASSUME NEW d \in Conn \ {c} PROVE FramesOK(d)'
  BY <1>b, <1>1, <1>2, Unheard DEF FramesInv
<1>3. CASE task[c] \in Fresh /\ r.kind = "error" /\ c \in closed' /\ task'[c] = "finished"
  <2>1. got'[c] = <<>> \/ (Len(got'[c]) = 1 /\ got'[c][1].kind = "error")
    BY <1>a, <1>1, <1>3 DEF FramesOK
  <2>2. task'[c] \notin Fresh /\ task'[c] \notin Joined
    BY <1>3 DEF Fresh, Joined, Registered
  <2>3. FramesOK(c)'
    BY <1>a, <1>b, <1>3, <2>1, <2>2 DEF FramesOK, RefusedOnly
  <2> QED  BY <1>2, <2>3 DEF FramesInv
<1>4. CASE task[c] = "greeting" /\ r.kind = "welcome" /\ task'[c] = "welcomed"
  <2>1. Greeted(c)' \/ (got'[c] = <<>> /\ conn[c] = "dropped")
    BY <1>a, <1>1, <1>4 DEF FramesOK, Fresh
  <2>2. task'[c] \notin Fresh
    BY <1>4 DEF Fresh
  <2>3. FramesOK(c)'
    BY <1>a, <1>b, <2>1, <2>2 DEF FramesOK
  <2> QED  BY <1>2, <2>3 DEF FramesInv
<1>5. CASE task[c] \in Registered /\ r.kind # "welcome" /\ task'[c] \in Registered
  <2>1. Greeted(c)' \/ (got'[c] = <<>> /\ conn[c] = "dropped")
    BY <1>a, <1>1, <1>5 DEF FramesOK, Joined
  <2>2. task'[c] \notin Fresh
    BY <1>5 DEF Fresh, Registered
  <2>3. FramesOK(c)'
    BY <1>a, <1>b, <2>1, <2>2 DEF FramesOK
  <2> QED  BY <1>2, <2>3 DEF FramesInv
<1> QED  BY <1>3, <1>4, <1>5

\* An answer goes to clients in the map, and those have been greeted.
LEMMA WriteFrames ==
  ASSUME IInv, LockInv, FramesInv, NEW c \in Conn, Write(c)
  PROVE  FramesInv'
<1>1. /\ task[c] = "writing" /\ todo[c] # <<>> /\ c \in readers
      /\ UNCHANGED <<conn, backlog, closed>> /\ Answer(c) \in Reply /\ Answer(c).kind # "welcome"
  <2>1. task[c] = "writing" /\ todo[c] # <<>> /\ UNCHANGED <<conn, backlog, closed>>
    BY DEF Write
  <2> QED  BY <2>1, AnswerType DEF LockInv, HoldsOK, Answer, Error
<1> PICK d : d = Head(todo[c])
  OBVIOUS
<1>2. /\ Writes(d, Answer(c)) \/ UNCHANGED got
      /\ UNCHANGED task \/ GoTo(c, "leaving") \/ GoTo(c, "serving")
  BY DEF Write, WriteFails, Ask
<1>3. d \in Conn /\ task[d] \in Registered
  <2>1. todo[c] \in Seq(Conn)
    BY DEF IInv, TaskType
  <2>2. d = todo[c][1] /\ 1 \in DOMAIN todo[c]
    BY <1>1, <2>1, Onwards
  <2> QED  BY <1>1, <2>2 DEF IInv, WritesReachTheMap, WritersOf, EntriesBelong, MapType
<1>4. \A e \in Conn : task'[e] = task[e] \/ (task[e] \in Registered /\ task'[e] \in Registered)
  BY <1>1, <1>2 DEF GoTo, IInv, TaskType, Registered
<1>5. \A e \in Conn : GoesQuietly(e)
  BY <1>4 DEF GoesQuietly, Joined
<1>6. CASE UNCHANGED got
  BY <1>1, <1>5, <1>6, QuietFrames
<1>7. CASE Writes(d, Answer(c))
  BY <1>1, <1>3, <1>4, <1>5, <1>7, ReplyFrames
<1> QED  BY <1>2, <1>6, <1>7

LEMMA TaskFrames ==
  ASSUME IInv, LockInv, FramesInv, NEW c \in Conn, TaskStep(c)
  PROVE  FramesInv'
<1>a. task \in [Conn -> States]
  BY DEF IInv, TaskType
<1>b. \A why \in Reason : Error(why) \in Reply /\ Error(why).kind = "error"
  BY Replies DEF Error
<1>c. ASSUME NEW s, task' = [task EXCEPT ![c] = s]
      PROVE  task'[c] = s /\ \A d \in Conn \ {c} : task'[d] = task[d] /\ GoesQuietly(d)
  BY <1>a, <1>c DEF GoesQuietly
<1>1. ASSUME NEW why \in Reason, Dismiss(c, why), task[c] \in Fresh, UNCHANGED <<conn, backlog>>
      PROVE  FramesInv'
  <2>1. /\ Writes(c, Error(why)) /\ c \in closed' /\ closed \subseteq closed'
        /\ task' = [task EXCEPT ![c] = "finished"]
    BY <1>1 DEF Dismiss, Finish, GoTo
  <2> QED  BY <1>b, <1>c, <1>1, <2>1, ReplyFrames
<1>2. ASSUME NEW s, GoTo(c, s), UNCHANGED <<conn, backlog, got>>, closed \subseteq closed',
             \/ s = "finished"
             \/ task[c] \in Fresh /\ s \in Fresh
             \/ task[c] \in Joined /\ s \in Joined
      PROVE  FramesInv'
  <2>1. task' = [task EXCEPT ![c] = s]
    BY <1>2 DEF GoTo
  <2> QED  BY <1>c, <1>2, <2>1, QuietFrames DEF GoesQuietly
<1>3. CASE ReadJoin(c) \/ JoinEnded(c) \/ JoinTimeout(c) \/ CheckName(c)
  <2>1. task[c] \in Fresh /\ UNCHANGED <<conn, backlog>>
    BY <1>3 DEF ReadJoin, JoinEnded, JoinTimeout, CheckName, Fresh
  <2>2. \/ \E why \in Reason : Dismiss(c, why)
        \/ UNCHANGED got /\ Finish(c)
        \/ UNCHANGED <<got, closed>> /\ (GoTo(c, "checking") \/ GoTo(c, "greeting"))
    BY <1>3 DEF ReadJoin, JoinEnded, JoinTimeout, CheckName, Ask, Reason
  <2>3. CASE UNCHANGED got /\ Finish(c)
    <3>1. GoTo(c, "finished") /\ closed \subseteq closed'
      BY <2>3 DEF Finish
    <3> QED  BY <1>2, <2>1, <2>3, <3>1
  <2>4. CASE UNCHANGED <<got, closed>> /\ (GoTo(c, "checking") \/ GoTo(c, "greeting"))
    BY <1>2, <2>1, <2>4 DEF Fresh
  <2> QED  BY <1>1, <2>1, <2>2, <2>3, <2>4
<1>4. CASE Greet(c)
  <2>1. CASE WriteFails(c) /\ Finish(c)
    <3>1. GoTo(c, "finished") /\ closed \subseteq closed' /\ UNCHANGED <<conn, backlog, got>>
      BY <1>4, <2>1 DEF Greet, WriteFails, Finish
    <3> QED  BY <1>2, <3>1
  <2>2. CASE Writes(c, [kind |-> "welcome"]) /\ GoTo(c, "welcomed") /\ UNCHANGED closed
    <3>1. task' = [task EXCEPT ![c] = "welcomed"] /\ task[c] = "greeting" /\ UNCHANGED <<conn, backlog>>
      BY <1>4, <2>2 DEF Greet, GoTo
    <3>2. [kind |-> "welcome"] \in Reply
      BY Replies
    <3> QED  BY <1>c, <2>2, <3>1, <3>2, ReplyFrames
  <2> QED  BY <1>4, <2>1, <2>2 DEF Greet
<1>5. CASE AskToInsert(c) \/ Insert(c) \/ ReadRequest(c) \/ Abandon(c) \/ Enter(c) \/ RemoveName(c)
  <2>1. task[c] \in Joined /\ UNCHANGED <<conn, backlog, got>> /\ closed \subseteq closed'
    BY <1>5 DEF AskToInsert, Insert, ReadRequest, Abandon, Enter, RemoveName, netVars, Joined, Registered
  <2>2. PICK s \in Joined \cup {"finished"} : GoTo(c, s)
    BY <1>5 DEF AskToInsert, Insert, ReadRequest, Abandon, Enter, RemoveName, Ask, Joined, Registered
  <2> QED  BY <1>2, <2>1, <2>2
<1>6. CASE Write(c)
  BY <1>6, WriteFrames
<1> QED  BY <1>3, <1>4, <1>5, <1>6 DEF TaskStep

\* run_server refuses a client before it has heard anything, and takes all
\* tasks with it when it returns; the test speaks to nobody.
LEMMA NextFrames ==
  ASSUME IInv, LockInv, FramesInv, [Next]_vars
  PROVE  FramesInv'
<1>1. ASSUME NEW c \in Conn, TaskStep(c) PROVE FramesInv'
  BY <1>1, TaskFrames
<1>2. ASSUME NEW how \in {"ok", "failed"}, Return(how), UNCHANGED <<conn, got>>
      PROVE  FramesInv'
  <2>1. /\ backlog' = <<>> /\ closed' = {c \in Conn : conn[c] # "absent"}
        /\ \A c \in Conn : GoesQuietly(c)
    BY <1>2 DEF Return, GoesQuietly
  <2>2. \A c : ~Queued(c)'
    BY <2>1 DEF Queued
  <2>3. ASSUME NEW c \in Conn PROVE FramesOK(c)'
    BY <1>2, <2>1, <2>2, Unheard DEF FramesInv
  <2> QED  BY <2>3 DEF FramesInv
<1>3. CASE Accept
  <2>1. backlog # <<>> /\ UNCHANGED conn
    BY <1>3 DEF Accept
  <2>2. Head(backlog) \in Conn
    BY <2>1 DEF IInv, NetType
  <2> PICK c \in Conn : c = Head(backlog)
    BY <2>2
  <2>3. CASE WriteFails(c) /\ Return("failed")
    BY <1>2, <2>1, <2>3 DEF WriteFails
  <2>4. CASE ~(WriteFails(c) /\ Return("failed"))
    <3>1. /\ backlog' = Tail(backlog)
          /\ \/ Writes(c, Error("full")) /\ closed' = closed \cup {c} /\ UNCHANGED task
             \/ UNCHANGED <<got, closed>> /\ task' = [task EXCEPT ![c] = "joining"]
      BY <1>3, <2>4 DEF Accept, GoTo
    <3>2. Queued(c) /\ \A d : Queued(d)' => Queued(d) /\ d # c
      BY <2>1, <3>1, Dequeued DEF IInv
    <3>3. got[c] = <<>> /\ conn[c] # "absent" /\ task[c] = "none" /\ task \in [Conn -> States]
      BY <3>2 DEF FramesInv, FramesOK, IInv, StartInv, BacklogInv, TaskType
    <3>4. NetType /\ Error("full") \in Reply /\ Error("full").kind = "error"
      BY Replies DEF IInv, Reason, Error
    <3>5. CASE Writes(c, Error("full")) /\ closed' = closed \cup {c} /\ UNCHANGED task
      <4>1. /\ \A d \in Conn \ {c} : got'[d] = got[d]
            /\ got'[c] = <<>> \/ (Len(got'[c]) = 1 /\ got'[c][1].kind = "error")
        BY <3>3, <3>4, <3>5, Hears DEF Writes
      <4>2. FramesOK(c)'
        BY <2>1, <3>2, <3>3, <3>5, <4>1 DEF FramesOK, RefusedOnly, Fresh, Joined, Registered
      <4>3. ASSUME NEW d \in Conn \ {c} PROVE FramesOK(d)'
        BY <2>1, <3>2, <3>5, <4>1, <4>3, Unheard DEF FramesInv, GoesQuietly
      <4> QED  BY <4>2, <4>3 DEF FramesInv
    <3>6. CASE UNCHANGED <<got, closed>> /\ task' = [task EXCEPT ![c] = "joining"]
      <4>1. task'[c] = "joining" /\ \A d \in Conn \ {c} : task'[d] = task[d]
        BY <3>3, <3>6
      <4>2. FramesOK(c)'
        BY <2>1, <3>2, <3>3, <3>6, <4>1 DEF FramesOK, Joined, Registered
      <4>3. ASSUME NEW d \in Conn \ {c} PROVE FramesOK(d)'
        BY <2>1, <3>2, <3>6, <4>1, <4>3, Unheard DEF FramesInv, GoesQuietly
      <4> QED  BY <4>2, <4>3 DEF FramesInv
    <3> QED  BY <3>1, <3>5, <3>6
  <2> QED  BY <2>3, <2>4
<1>4. CASE JoinNext
  <2>1. \A c \in Conn : GoesQuietly(c)
    BY <1>4 DEF JoinNext, GoTo, IInv, TaskType, GoesQuietly
  <2> QED  BY <1>4, <2>1, QuietFrames DEF JoinNext, netVars
<1>5. CASE ShutDown
  BY <1>2, <1>5 DEF ShutDown
<1>6. CASE Harness
  <2>1. UNCHANGED taskVars /\ Onward /\ closed' = closed /\ got' = got
    <3>1. NetType /\ BacklogInv
      BY DEF IInv
    <3>2. CASE ScriptStep(Quiet, Overdue) /\ UNCHANGED <<serverVars, taskVars, lockVars>>
      BY <3>1, <3>2, ScriptKeeps
    <3>3. CASE Conclude
      BY <3>1, <3>3, DropClientsKeeps DEF Conclude, scriptVars
    <3>4. CASE Judge \/ ToldToStop
      BY <3>4 DEF Judge, ToldToStop, netVars, Onward, Queued
    <3> QED  BY <1>6, <3>2, <3>3, <3>4 DEF Harness
  <2> QED  BY <2>1, QuietFrames DEF taskVars, GoesQuietly
<1>7. CASE UNCHANGED vars
  BY <1>7, QuietFrames DEF vars, taskVars, netVars, GoesQuietly
<1> QED  BY <1>1, <1>3, <1>4, <1>5, <1>6, <1>7 DEF Next

\* join_client and react_client_msg: whatever the others send meanwhile, on
\* however many threads, a client hears its Welcome first and once, or one Error
\* with which it is cut off; no answer reaches it through the map before that.
THEOREM WelcomeComesFirst == Spec => []WelcomeFirst
<1>1. Init => FramesInv
  BY DEF Init, HarnessInit, FramesInv, FramesOK, Joined, Registered
<1>2. FramesInv => WelcomeFirst
  BY DEF FramesInv, FramesOK, WelcomeFirst
<1>3. IInv /\ LockInv /\ FramesInv /\ [Next]_vars => FramesInv'
  BY NextFrames
<1> QED  BY Invariance, LockInvariance, <1>1, <1>2, <1>3, PTL DEF Spec
=============================================================================
