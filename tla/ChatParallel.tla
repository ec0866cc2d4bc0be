------------------------------ MODULE ChatParallel ------------------------------
(***************************************************************************)
(* The chat server of lessons/10_parallel: server.rs.  The tasks of the    *)
(* clients run in parallel.  They share a map of writers behind an RwLock, *)
(* which admits tasks in the order in which they ask; a guard to read is   *)
(* held while a request is answered.  Every answer goes through the map,   *)
(* to whoever has the name of the client.                                  *)
(***************************************************************************)
EXTENDS ChatHarness, Functions, SequencesExt

CONSTANTS
  None,
  Threaded,  \* tests that run on several threads
  Mute,   \* clients of free tests that read nothing
  Room    \* bound: replies that fit into the socket of such a client

ASSUME NoneAssumption == None \notin Names \cup Request
ASSUME RoomAssumption == Room \in Nat \ {0} /\ Mute \subseteq Conn

VARIABLES
  server,    \* run_server: "running", "ok" or "failed" once it has returned
  stop,      \* a message is in the oneshot channel
  task,      \* task[c]: control state of handle_client(c)
  name,      \* name[c]: its name, once it has read the Join
  req,       \* req[c]: the request its task works on
  todo,      \* todo[c]: clients its task has yet to write to, in order
  clients,   \* ClientMap: a name's writer, by its client
  lockq,     \* tasks that wait for the RwLock, in order
  readers    \* tasks that hold it to read; to write, it is held within a step

serverVars == <<server, stop>>
lockVars == <<clients, lockq, readers>>
taskVars == <<task, name, req, todo>>
vars == <<scriptVars, netVars, serverVars, taskVars, lockVars>>

Init ==
  /\ HarnessInit
  /\ server = "running" /\ stop = FALSE
  /\ task = [c \in Conn |-> "none"] /\ name = [c \in Conn |-> None]
  /\ req = [c \in Conn |-> None] /\ todo = [c \in Conn |-> <<>>]
  /\ clients = [n \in {} |-> None] /\ lockq = <<>> /\ readers = {}

-----------------------------------------------------------------------------
(* Writing to a client, and the lock *)

\* A write waits for room in the client's socket.
Full(c) == Free /\ c \in Mute /\ conn[c] # "dropped" /\ Len(got[c]) >= Room

\* What is written to a client that has closed its socket is lost.
Writes(c, reply) ==
  got' = [got EXCEPT ![c] = IF conn[c] = "dropped" THEN @ ELSE Append(@, reply)]
\* Such a write fails once the client's side has answered with a reset.
WriteFails(c) == conn[c] = "dropped" /\ UNCHANGED got

Error(why) == [kind |-> "error", why |-> why]

GoTo(c, state) == task' = [task EXCEPT ![c] = state]
\* Task c asks for the lock, and gets it when it is the first that waits.
Ask(c, state) == GoTo(c, state) /\ lockq' = Append(lockq, c)
IsFirst(c) == lockq # <<>> /\ Head(lockq) = c
WritersOf(names) == {clients[n] : n \in DOMAIN clients \cap names}

\* On one thread others run only when a task has to wait; in the tests that
\* run on one, no task waits for the lock or for room in a socket.
Yielded(others) ==
  test \in Threaded
    \/ \A d \in others : task[d] \in {"none", "joining", "serving", "finished", "joined"}

-----------------------------------------------------------------------------
(* run_server *)

Tasks == {c \in Conn : task[c] \notin {"none", "joined"}}

\* run_server returns and drops the listener, the tasks and the map.
Return(how) ==
  /\ server' = how /\ backlog' = <<>>
  /\ closed' = {c \in Conn : conn[c] # "absent"}
  /\ task' = [c \in Conn |-> IF c \in Tasks THEN "joined" ELSE task[c]]
  /\ todo' = [c \in Conn |-> <<>>]
  /\ clients' = [n \in {} |-> None] /\ lockq' = <<>> /\ readers' = {}

\* Mutant: the limit is off by one.
IsFullLater == Cardinality(Tasks) > Limit
IsFull == Cardinality(Tasks) >= Limit

Accept ==
  /\ server = "running" /\ backlog # <<>> /\ Yielded(Conn)
  /\ LET c == Head(backlog) IN
       IF IsFull
         THEN \/ /\ Writes(c, Error("full"))
                 /\ closed' = closed \cup {c} /\ backlog' = Tail(backlog)
                 /\ UNCHANGED <<server, task, todo, lockVars>>
              \/ WriteFails(c) /\ Return("failed")
         ELSE /\ GoTo(c, "joining") /\ backlog' = Tail(backlog)
              /\ UNCHANGED <<got, closed, server, todo, lockVars>>
  /\ UNCHANGED <<scriptVars, conn, inbox, seen, stop, name, req>>

\* join_next takes a task that has ended.
JoinNext ==
  /\ server = "running" /\ Yielded(Conn)
  /\ \E c \in Conn : task[c] = "finished" /\ GoTo(c, "joined")
  /\ UNCHANGED <<scriptVars, netVars, serverVars, name, req, todo, lockVars>>

ShutDown ==
  /\ server = "running" /\ stop /\ Yielded(Conn)
  /\ Return("ok")
  /\ UNCHANGED <<scriptVars, conn, inbox, got, seen, stop, name, req>>

-----------------------------------------------------------------------------
(* handle_client: the Join *)

Finish(c) == GoTo(c, "finished") /\ closed' = closed \cup {c}

\* join_client returns an error, and with the task its writer is dropped.
Dismiss(c, why) == Writes(c, Error(why)) /\ Finish(c)

ReadJoin(c) ==
  /\ task[c] = "joining" /\ inbox[c] # <<>>
  /\ inbox' = [inbox EXCEPT ![c] = Tail(@)]
  /\ LET r == Head(inbox[c]) IN
       \/ r.kind = "bad" /\ Finish(c) /\ UNCHANGED <<got, name, lockq>>
       \/ r.kind \notin {"join", "bad"} /\ Dismiss(c, "unexpected") /\ UNCHANGED <<name, lockq>>
       \/ /\ r.kind = "join" /\ Ask(c, "checking")
          /\ name' = [name EXCEPT ![c] = r.name]
          /\ UNCHANGED <<got, closed>>
  /\ UNCHANGED <<scriptVars, conn, backlog, seen, serverVars, req, todo, clients, readers>>

\* The guard is given back as soon as it is known whether the name is taken.
CheckName(c) ==
  /\ task[c] = "checking" /\ IsFirst(c)
  /\ lockq' = Tail(lockq)
  /\ IF name[c] \in DOMAIN clients
       THEN Dismiss(c, "taken")
       ELSE GoTo(c, "greeting") /\ UNCHANGED <<got, closed>>
  /\ UNCHANGED <<scriptVars, conn, backlog, inbox, seen, serverVars,
                 name, req, todo, clients, readers>>

Greet(c) ==
  /\ task[c] = "greeting"
  /\ \/ Writes(c, [kind |-> "welcome"]) /\ GoTo(c, "welcomed") /\ UNCHANGED closed
     \/ WriteFails(c) /\ Finish(c)
  /\ UNCHANGED <<scriptVars, conn, backlog, inbox, seen, serverVars,
                 name, req, todo, lockVars>>

AskToInsert(c) ==
  /\ task[c] = "welcomed" /\ Ask(c, "inserting")
  /\ UNCHANGED <<scriptVars, netVars, serverVars, name, req, todo, clients, readers>>

\* The entry of another client of that name is replaced, its writer dropped.
Insert(c) ==
  /\ task[c] = "inserting" /\ IsFirst(c) /\ readers = {}
  /\ lockq' = Tail(lockq)
  /\ clients' = [n \in DOMAIN clients \cup {name[c]} |->
                   IF n = name[c] THEN c ELSE clients[n]]
  /\ closed' = closed \cup WritersOf({name[c]})
  /\ GoTo(c, "serving")
  /\ UNCHANGED <<scriptVars, conn, backlog, inbox, got, seen, serverVars,
                 name, req, todo, readers>>

Ended(c) == inbox[c] = <<>> /\ conn[c] \in Leaving

JoinEnded(c) ==
  /\ task[c] = "joining" /\ Ended(c)
  /\ Dismiss(c, "closed")
  /\ UNCHANGED <<scriptVars, conn, backlog, inbox, seen, serverVars, name, req, todo, lockVars>>

-----------------------------------------------------------------------------
(* handle_client: the loop, and react_client_msg *)

ReadRequest(c) ==
  /\ task[c] = "serving" /\ inbox[c] # <<>>
  /\ inbox' = [inbox EXCEPT ![c] = Tail(@)]
  /\ req' = [req EXCEPT ![c] = Head(inbox[c])]
  /\ Ask(c, IF Head(inbox[c]).kind = "bad" THEN "leaving" ELSE "asking")
  /\ UNCHANGED <<scriptVars, conn, backlog, got, seen, closed, serverVars,
                 name, todo, clients, readers>>

\* Mutant: the task returns without removing the name.
AbandonKeepingName(c) ==
  /\ task[c] = "serving" /\ Ended(c)
  /\ Finish(c)
  /\ UNCHANGED <<scriptVars, conn, backlog, inbox, got, seen, serverVars,
                 name, req, todo, lockVars>>
Abandon(c) ==
  /\ task[c] = "serving" /\ Ended(c)
  /\ Ask(c, "leaving")
  /\ UNCHANGED <<scriptVars, netVars, serverVars, name, req, todo, clients, readers>>

\* Mutant: a message to oneself is not told from others.
ToAnyone(c) == req[c].kind = "dm" /\ req[c].name \in DOMAIN clients

ToOther(c) == req[c].kind = "dm" /\ req[c].name # name[c] /\ req[c].name \in DOMAIN clients
Audience(c) ==
  IF req[c].kind = "broadcast" THEN WritersOf(Names \ {name[c]})
  ELSE IF ToOther(c) THEN WritersOf({req[c].name})
  ELSE WritersOf({name[c]})

Answer(c) ==
  CASE req[c].kind = "ping" -> [kind |-> "pong"]
    [] req[c].kind = "list" -> [kind |-> "list", users |-> DOMAIN clients]
    [] req[c].kind = "broadcast" \/ ToOther(c) -> [kind |-> "msg", from |-> name[c]]
    [] req[c].kind = "join" -> Error("unexpected")
    [] OTHER -> Error(IF req[c].name = name[c] THEN "self" ELSE "nobody")

\* The guard is held until everybody has been written to, in the order in which
\* the HashMap is walked, which is any.
Enter(c) ==
  /\ task[c] = "asking" /\ IsFirst(c)
  /\ lockq' = Tail(lockq)
  /\ IF Audience(c) = {}
       THEN GoTo(c, "serving") /\ UNCHANGED <<readers, todo>>
       ELSE /\ GoTo(c, "writing") /\ readers' = readers \cup {c}
            /\ \E order \in SetToSeqs(Audience(c)) : todo' = [todo EXCEPT ![c] = order]
  /\ UNCHANGED <<scriptVars, netVars, serverVars, name, req, clients>>

\* Mutant: the guard is kept when the request has been answered.
KeepGuard(c) == UNCHANGED readers
ReleaseGuard(c) == readers' = readers \ {c}

\* One frame, written under the Mutex of its writer, which the task waits for
\* even if others would read.  An error ends the loop, as does the answer to a
\* second Join.
Write(c) ==
  /\ task[c] = "writing" /\ todo[c] # <<>>
  /\ \/ /\ ~Full(Head(todo[c])) /\ Writes(Head(todo[c]), Answer(c))
        /\ todo' = [todo EXCEPT ![c] = Tail(@)]
        /\ IF Tail(todo[c]) # <<>> THEN UNCHANGED <<task, lockq, readers>>
           ELSE /\ ReleaseGuard(c)
                /\ IF req[c].kind = "join" THEN Ask(c, "leaving")
                                           ELSE GoTo(c, "serving") /\ UNCHANGED lockq
     \/ /\ WriteFails(Head(todo[c]))
        /\ todo' = [todo EXCEPT ![c] = <<>>] /\ ReleaseGuard(c)
        /\ Ask(c, "leaving")
  /\ UNCHANGED <<scriptVars, conn, backlog, inbox, seen, closed, serverVars, name, req, clients>>

\* Mutant: the one that could not be written to is removed as well.
BothNames(c) ==
  {name[c]} \cup {n \in Names : req[c] = [kind |-> "dm", name |-> n]}
Removed(c) == {name[c]}

\* The name is removed, whoever has it now, and the writer with it.
RemoveName(c) ==
  /\ task[c] = "leaving" /\ IsFirst(c) /\ readers = {}
  /\ lockq' = Tail(lockq)
  /\ clients' = Restrict(clients, DOMAIN clients \ Removed(c))
  /\ GoTo(c, "finished")
  /\ closed' = closed \cup {c} \cup WritersOf(Removed(c))
  /\ UNCHANGED <<scriptVars, conn, backlog, inbox, got, seen, serverVars,
                 name, req, todo, readers>>

-----------------------------------------------------------------------------
(* The test and its timers *)

\* The server has nothing to do before a timer fires.
Idle(c) ==
  \/ task[c] \in {"none", "joined"}
  \/ task[c] \in {"joining", "serving"} /\ inbox[c] = <<>> /\ conn[c] = "open"
Quiet ==
  \/ server # "running"
  \/ ~stop /\ backlog = <<>> /\ \A c \in Conn : Idle(c)
Overdue == \E c \in Conn : task[c] = "joining"

\* Two seconds without a Join.  In a test they pass when all others wait.
JoinTimeout(c) ==
  /\ task[c] = "joining"
  /\ Free \/ (Quiet /\ Waiting)
  /\ Dismiss(c, "timeout")
  /\ UNCHANGED <<scriptVars, conn, backlog, inbox, seen, serverVars, name, req, todo, lockVars>>

\* run_test: the server is told to shut down, and must return without error.
Conclude ==
  /\ DropClients /\ ~stop
  /\ stop' = TRUE
  /\ UNCHANGED <<scriptVars, server, taskVars, lockVars>>
Judge ==
  /\ ~Free /\ verdict = "running" /\ stop /\ server # "running"
  /\ verdict' = IF server = "ok" THEN "passed" ELSE "failed"
  /\ UNCHANGED <<test, block, pc, netVars, serverVars, taskVars, lockVars>>
ToldToStop ==
  /\ Free /\ ~stop /\ stop' = TRUE
  /\ UNCHANGED <<scriptVars, netVars, server, taskVars, lockVars>>

Harness ==
  /\ Yielded(Conn)
  /\ \/ /\ Free => server = "running"
        /\ ScriptStep(Quiet, Overdue) /\ UNCHANGED <<serverVars, taskVars, lockVars>>
     \/ Conclude \/ Judge \/ ToldToStop

TaskStep(c) ==
  /\ Yielded(Conn \ {c})
  /\ \/ ReadJoin(c) \/ CheckName(c) \/ Greet(c) \/ AskToInsert(c)
     \/ Insert(c) \/ JoinEnded(c) \/ JoinTimeout(c)
     \/ ReadRequest(c) \/ Abandon(c) \/ Enter(c) \/ Write(c) \/ RemoveName(c)

Next == Accept \/ JoinNext \/ ShutDown \/ Harness \/ \E c \in Conn : TaskStep(c)

Spec == Init /\ [][Next]_vars
\* The runtime polls every task that is ready, select! every branch that is
\* ready, and a test goes on while it can; free clients do what they like.
FairSpec ==
  /\ Spec
  /\ WF_vars(Accept) /\ WF_vars(JoinNext) /\ WF_vars(ShutDown)
  /\ \A c \in Conn : WF_vars(TaskStep(c))
  /\ WF_vars(~Free /\ Harness)

-----------------------------------------------------------------------------
(* Properties *)

Registered == {"serving", "asking", "writing", "leaving"}

\* The variables stay in their types, and no more than max_clients tasks
\* exist.
TypeOK ==
  /\ conn \in [Conn -> {"absent", "open", "half", "dropped"}]
  /\ backlog \in Seq(Conn) /\ closed \subseteq Conn
  /\ inbox \in [Conn -> Seq(Request)] /\ got \in [Conn -> Seq(Reply)]
  /\ seen \in [Conn -> Nat]
  /\ server \in {"running", "ok", "failed"} /\ stop \in BOOLEAN
  /\ task \in [Conn -> {"none", "joining", "checking", "greeting", "welcomed", "inserting",
                        "finished", "joined"} \cup Registered]
  /\ name \in [Conn -> Names \cup {None}] /\ req \in [Conn -> Request \cup {None}]
  /\ todo \in [Conn -> Seq(Conn)]
  /\ DOMAIN clients \subseteq Names /\ \A n \in DOMAIN clients : clients[n] \in Conn
  /\ lockq \in Seq(Conn) /\ readers \subseteq Conn
  /\ Cardinality(Tasks) <= Limit

\* An entry of the map belongs to a client that is served under that name:
\* none outlives its client, whoever took the name over and left first.
EntriesBelong ==
  \A n \in DOMAIN clients :
    task[clients[n]] \in Registered /\ name[clients[n]] = n

\* A client that is served is cut off by nobody but a client of its own name.
CutOffByNamesakes ==
  [][\A c \in closed' \ closed : task[c] \in Registered =>
        \/ task[c] = "leaving" \/ server' # "running"
        \/ \E d \in Conn \ {c} : name[d] = name[c] /\ task[d] \in {"inserting", "leaving"}]_vars

\* The lock is free again and again, unless somebody who holds it writes for
\* ever to a client that does not read.
NothingHangs ==
  \/ <>[](\E c \in readers : todo[c] # <<>> /\ Full(Head(todo[c])))
  \/ []<>(lockq = <<>> /\ readers = {})

\* Every test of the repository that is run passes: it comes to its end, no
\* assertion of it fails, and run_server returns without an error.
TestsPass == <>(Free \/ verdict = "passed")
=============================================================================
