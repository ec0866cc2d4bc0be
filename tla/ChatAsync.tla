------------------------------- MODULE ChatAsync -------------------------------
(***************************************************************************)
(* The chat server of lessons/10: server.rs.  run_server and one task per  *)
(* client share one thread; a task gives way to others where it awaits.    *)
(* A registered client has a channel: the map holds the sender, its task   *)
(* the receiver.  The end of run_server drops all tasks.                   *)
(***************************************************************************)
EXTENDS ChatHarness, Functions

CONSTANT None
ASSUME NoneAssumption == None \notin Names

VARIABLES
  server,    \* run_server: "running", "ok" or "failed" once it has returned
  stop,      \* a message is in the oneshot channel
  task,      \* task[c]: control state of handle_client(c)
  name,      \* name[c]: its name, once it has read the Join
  clients,   \* ClientMap: a name's channel, by the client whose task reads it
  chan       \* chan[c]: messages in the channel of c

serverVars == <<server, stop>>
taskVars == <<task, name, clients, chan>>
vars == <<scriptVars, netVars, serverVars, taskVars>>

Init ==
  /\ HarnessInit
  /\ server = "running" /\ stop = FALSE
  /\ task = [c \in Conn |-> "none"] /\ name = [c \in Conn |-> None]
  /\ clients = [n \in {} |-> None] /\ chan = [c \in Conn |-> <<>>]

-----------------------------------------------------------------------------
(* Writing to a client *)

\* What is written to a client that has closed its socket is lost.
Writes(c, reply) ==
  got' = [got EXCEPT ![c] = IF conn[c] = "dropped" THEN @ ELSE Append(@, reply)]
\* Such a write fails once the client's side has answered with a reset.
WriteFails(c) == conn[c] = "dropped" /\ UNCHANGED got

Error(why) == [kind |-> "error", why |-> why]

-----------------------------------------------------------------------------
(* run_server *)

Tasks == {c \in Conn : task[c] \notin {"none", "joined"}}

\* run_server returns and drops the listener, the tasks and the map.
Return(how) ==
  /\ server' = how /\ backlog' = <<>>
  /\ closed' = {c \in Conn : conn[c] # "absent"}
  /\ task' = [c \in Conn |-> IF c \in Tasks THEN "joined" ELSE task[c]]
  /\ clients' = [n \in {} |-> None] /\ chan' = [c \in Conn |-> <<>>]

\* The limit is compared with the number of tasks before the new one.
IsFull == Cardinality(Tasks) > Limit

Accept ==
  /\ server = "running" /\ backlog # <<>>
  /\ LET c == Head(backlog) IN
       IF IsFull
         THEN \/ /\ Writes(c, Error("full"))
                 /\ closed' = closed \cup {c} /\ backlog' = Tail(backlog)
                 /\ UNCHANGED <<server, task, clients, chan>>
              \/ WriteFails(c) /\ Return("failed")
         ELSE /\ task' = [task EXCEPT ![c] = "joining"]
              /\ backlog' = Tail(backlog)
              /\ UNCHANGED <<got, closed, server, clients, chan>>
  /\ UNCHANGED <<scriptVars, conn, inbox, seen, stop, name>>

\* join_next takes a task that has ended.
JoinNext ==
  /\ server = "running"
  /\ \E c \in Conn : task[c] = "finished" /\ task' = [task EXCEPT ![c] = "joined"]
  /\ UNCHANGED <<scriptVars, netVars, serverVars, name, clients, chan>>

ShutDown ==
  /\ server = "running" /\ stop
  /\ Return("ok")
  /\ UNCHANGED <<scriptVars, conn, inbox, got, seen, stop, name>>

-----------------------------------------------------------------------------
(* handle_client: the Join *)

\* The task ends, and its socket and its receiver with it.
End(c) == task' = [task EXCEPT ![c] = "finished"] /\ closed' = closed \cup {c}
\* Mutant: the receiver outlives the task.
FinishWithoutReceiver(c) == End(c) /\ UNCHANGED chan
Finish(c) == End(c) /\ chan' = [chan EXCEPT ![c] = <<>>]

\* join_client returns an error; whether the client could be told makes no
\* difference.
Dismiss(c, why) == Writes(c, Error(why)) /\ Finish(c) /\ UNCHANGED <<name, clients>>

ReadJoin(c) ==
  /\ task[c] = "joining" /\ inbox[c] # <<>>
  /\ inbox' = [inbox EXCEPT ![c] = Tail(@)]
  /\ LET r == Head(inbox[c]) IN
       \/ r.kind = "bad" /\ Finish(c) /\ UNCHANGED <<got, name, clients>>
       \/ r.kind \notin {"join", "bad"} /\ Dismiss(c, "unexpected")
       \/ r.kind = "join" /\ r.name \in DOMAIN clients /\ Dismiss(c, "taken")
       \/ /\ r.kind = "join" /\ r.name \notin DOMAIN clients
          /\ task' = [task EXCEPT ![c] = "greeting"]
          /\ name' = [name EXCEPT ![c] = r.name]
          /\ UNCHANGED <<got, closed, clients, chan>>
  /\ UNCHANGED <<scriptVars, conn, backlog, seen, serverVars>>

\* The Welcome is written, which the task may have had to wait for; then it
\* registers, without looking again whether the name is taken.
Greet(c) ==
  /\ task[c] = "greeting"
  /\ \/ /\ Writes(c, [kind |-> "welcome"])
        /\ task' = [task EXCEPT ![c] = "serving"]
        /\ clients' = [n \in DOMAIN clients \cup {name[c]} |->
                         IF n = name[c] THEN c ELSE clients[n]]
        /\ UNCHANGED <<closed, chan>>
     \/ WriteFails(c) /\ Finish(c) /\ UNCHANGED clients
  /\ UNCHANGED <<scriptVars, conn, backlog, inbox, seen, serverVars, name>>

Ended(c) == inbox[c] = <<>> /\ conn[c] \in Leaving

JoinEnded(c) ==
  /\ task[c] = "joining" /\ Ended(c)
  /\ Dismiss(c, "closed")
  /\ UNCHANGED <<scriptVars, conn, backlog, inbox, seen, serverVars>>

-----------------------------------------------------------------------------
(* handle_client: the loop *)

\* Mutant: the name stays in the map.
KeepName(c) == UNCHANGED <<name, clients>>
\* The loop is left: the name is removed, whoever has it now.
Unregister(c) ==
  clients' = Restrict(clients, DOMAIN clients \ {name[c]}) /\ UNCHANGED name
Leave(c) == Finish(c) /\ Unregister(c)

Answer(c, reply) ==
  \/ Writes(c, reply) /\ UNCHANGED <<task, closed, chan, name, clients>>
  \/ WriteFails(c) /\ Leave(c)

\* A channel can be sent to while its receiver, the task, exists.
Receives(d) == task[d] = "serving"
Forwarded(c, S) ==
  [d \in Conn |-> IF d \in S THEN Append(chan[d], [kind |-> "msg", from |-> name[c]])
                             ELSE chan[d]]

\* Mutant: the error ends the loop.
NobodyThenLeave(c) == Writes(c, Error("nobody")) /\ Leave(c)
Nobody(c) == Answer(c, Error("nobody"))

DirectMessage(c, n) ==
  \/ n = name[c] /\ Answer(c, Error("self"))
  \/ n # name[c] /\ n \notin DOMAIN clients /\ Nobody(c)
  \/ /\ n # name[c] /\ n \in DOMAIN clients /\ UNCHANGED got
     /\ IF Receives(clients[n])
          THEN /\ chan' = Forwarded(c, {clients[n]})
               /\ UNCHANGED <<task, closed, name, clients>>
          ELSE Leave(c)

\* The first channel without a receiver ends the broadcast, in the order of a
\* HashMap, and the sender is the one who is disconnected.
Broadcast(c) ==
  LET to == {clients[n] : n \in DOMAIN clients \ {name[c]}}
      able == {d \in to : Receives(d)}
  IN  /\ UNCHANGED got
      /\ IF able = to
           THEN chan' = Forwarded(c, to) /\ UNCHANGED <<task, closed, name, clients>>
           ELSE /\ End(c) /\ Unregister(c)
                /\ \E S \in SUBSET able : chan' = [Forwarded(c, S) EXCEPT ![c] = <<>>]

\* Mutant: a Ping is not answered.
NoPong(c) == UNCHANGED <<got, task, closed, chan, name, clients>>
Pong(c) == Answer(c, [kind |-> "pong"])

React(c, r) ==
  \/ r.kind = "ping" /\ Pong(c)
  \/ r.kind = "list" /\ Answer(c, [kind |-> "list", users |-> DOMAIN clients])
  \/ r.kind = "broadcast" /\ Broadcast(c)
  \/ r.kind = "dm" /\ DirectMessage(c, r.name)
  \/ r.kind = "join" /\ Writes(c, Error("unexpected")) /\ Leave(c)
  \/ r.kind = "bad" /\ UNCHANGED got /\ Leave(c)

ReadRequest(c) ==
  /\ task[c] = "serving" /\ inbox[c] # <<>>
  /\ inbox' = [inbox EXCEPT ![c] = Tail(@)]
  /\ React(c, Head(inbox[c]))
  /\ UNCHANGED <<scriptVars, conn, backlog, seen, serverVars>>

\* A failed write returns at once, and leaves the name in the map.
Forward(c) ==
  /\ task[c] = "serving" /\ chan[c] # <<>>
  /\ \/ /\ Writes(c, Head(chan[c]))
        /\ chan' = [chan EXCEPT ![c] = Tail(@)]
        /\ UNCHANGED <<task, closed>>
     \/ WriteFails(c) /\ Finish(c)
  /\ UNCHANGED <<scriptVars, conn, backlog, inbox, seen, serverVars, name, clients>>

\* Mutant: the end of the stream is not seen.
Unheld(c) == chan[c] = <<>> /\ c \notin Range(clients)
\* The client has closed its end, or nobody holds the sender of the channel.
IsOver(c) == Ended(c) \/ Unheld(c)

Abandon(c) ==
  /\ task[c] = "serving" /\ IsOver(c)
  /\ Leave(c)
  /\ UNCHANGED <<scriptVars, conn, backlog, inbox, got, seen, serverVars>>

-----------------------------------------------------------------------------
(* The test and its timers *)

\* The server has nothing to do before a timer fires.
Idle(c) ==
  \/ task[c] \in {"none", "joined"}
  \/ task[c] = "joining" /\ inbox[c] = <<>> /\ conn[c] = "open"
  \/ task[c] = "serving" /\ inbox[c] = <<>> /\ chan[c] = <<>> /\ conn[c] = "open"
                            /\ c \in Range(clients)
Quiet ==
  \/ server # "running"
  \/ ~stop /\ backlog = <<>> /\ \A c \in Conn : Idle(c)
Overdue == \E c \in Conn : task[c] = "joining"

\* Mutant: no limit on the time for the Join.
NoJoinTimeout(c) == FALSE

\* Two seconds without a Join.  In a test they pass when all others wait.
JoinTimeout(c) ==
  /\ task[c] = "joining"
  /\ Free \/ (Quiet /\ Waiting)
  /\ Dismiss(c, "timeout")
  /\ UNCHANGED <<scriptVars, conn, backlog, inbox, seen, serverVars>>

\* run_test: the server is told to shut down, and must return without error.
Conclude ==
  /\ DropClients /\ ~stop
  /\ stop' = TRUE
  /\ UNCHANGED <<scriptVars, server, taskVars>>
Judge ==
  /\ ~Free /\ verdict = "running" /\ stop /\ server # "running"
  /\ verdict' = IF server = "ok" THEN "passed" ELSE "failed"
  /\ UNCHANGED <<test, block, pc, netVars, serverVars, taskVars>>
ToldToStop ==
  /\ Free /\ ~stop /\ stop' = TRUE
  /\ UNCHANGED <<scriptVars, netVars, server, taskVars>>

Harness ==
  \/ /\ Free => server = "running"
     /\ ScriptStep(Quiet, Overdue) /\ UNCHANGED <<serverVars, taskVars>>
  \/ Conclude \/ Judge \/ ToldToStop

TaskStep(c) ==
  \/ ReadJoin(c) \/ Greet(c) \/ JoinEnded(c) \/ JoinTimeout(c)
  \/ ReadRequest(c) \/ Forward(c) \/ Abandon(c)

Next == Accept \/ JoinNext \/ ShutDown \/ Harness \/ \E c \in Conn : TaskStep(c)

Spec == Init /\ [][Next]_vars
\* The executor polls every task that is ready, select! every branch that is
\* ready, and a test goes on while it can; free clients do what they like.
FairSpec ==
  /\ Spec
  /\ WF_vars(Accept) /\ WF_vars(JoinNext) /\ WF_vars(ShutDown)
  /\ \A c \in Conn : WF_vars(TaskStep(c))
  /\ WF_vars(~Free /\ Harness)

-----------------------------------------------------------------------------
(* Properties *)

\* The variables stay in their types; who is greeted or served has a name, and
\* a channel that is not read holds nothing.
TypeOK ==
  /\ conn \in [Conn -> {"absent", "open", "half", "dropped"}]
  /\ backlog \in Seq(Conn) /\ closed \subseteq Conn
  /\ inbox \in [Conn -> Seq(Request)] /\ got \in [Conn -> Seq(Reply)]
  /\ seen \in [Conn -> Nat]
  /\ server \in {"running", "ok", "failed"} /\ stop \in BOOLEAN
  /\ task \in [Conn -> {"none", "joining", "greeting", "serving", "finished", "joined"}]
  /\ name \in [Conn -> Names \cup {None}]
  /\ DOMAIN clients \subseteq Names /\ \A n \in DOMAIN clients : clients[n] \in Conn
  /\ chan \in [Conn -> Seq(Reply)]
  /\ \A c \in Conn : /\ task[c] \in {"greeting", "serving"} => name[c] \in Names
                    /\ task[c] # "serving" => chan[c] = <<>>

\* "When a client connects and there are already opts.max_clients other clients
\* connected, the server should respond with an error" (lib.rs:71-72): no more
\* than that are asked for their Join, greeted or served at once.
Connected == {c \in Conn : task[c] \in {"joining", "greeting", "serving"}}
AtMostMaxClients == Cardinality(Connected) <= Limit

\* An entry of the map belongs to the task that serves a client under that
\* very name; one that has lost its task is that of a client that is gone.
EntriesBelong ==
  \A n \in DOMAIN clients :
    /\ name[clients[n]] = n
    /\ task[clients[n]] = "serving" \/ conn[clients[n]] = "dropped"

\* A client that has done nothing wrong is served until it leaves, unless
\* another took its name while it was being greeted, or a client that is gone
\* still has its name in the map.
ServedUntilItLeaves ==
  [][\A c \in Conn : task[c] = "serving" /\ task'[c] = "finished" =>
        \/ conn[c] = "dropped" \/ Ended(c)
        \/ inbox[c] # <<>> /\ Head(inbox[c]).kind \in {"join", "bad"}
        \/ c \notin Range(clients)
        \/ \E n \in DOMAIN clients : task[clients[n]] # "serving"]_vars

\* There is always a time to come when every connected client has heard from
\* the server, or has been disconnected.
AnsweredInTheEnd ==
  []<>(\A c \in Conn : conn[c] = "open" => got[c] # <<>> \/ c \in closed)

\* The same for the places of clients that have left: they are free again.
TheGoneMakeRoom == []<>(\A c \in Tasks : conn[c] = "open")

\* Every test of the repository that is run passes: it comes to its end, no
\* assertion of it fails, and run_server returns without an error.
TestsPass == <>(Free \/ verdict = "passed")
=============================================================================
