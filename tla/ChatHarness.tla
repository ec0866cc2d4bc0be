------------------------------ MODULE ChatHarness ------------------------------
(***************************************************************************)
(* The clients of the chat servers of lessons 09, 10 and 10_parallel,      *)
(* driven by scripts: the test harness of lib.rs (run_test, Client,        *)
(* ClientSpawner).  Which test runs is chosen in the initial state.  A     *)
(* free test is none of the repository's: its clients choose what they     *)
(* send, read nothing and may stop anywhere, timers may fire at any time,  *)
(* and the server may be told to shut down at any time.                    *)
(***************************************************************************)
EXTENDS Naturals, Sequences, FiniteSets

CONSTANTS
  Conn,    \* clients, each of which connects at most once
  Names,
  Tests    \* Tests[i]: a record with fields limit, free and blocks

Request ==
  [kind : {"join", "dm"}, name : Names] \cup [kind : {"ping", "list", "broadcast", "bad"}]

Reason == {"full", "taken", "unexpected", "timeout", "closed", "self", "nobody"}
Reply ==
  [kind : {"welcome", "pong"}] \cup [kind : {"list"}, users : SUBSET Names]
    \cup [kind : {"msg"}, from : Names] \cup [kind : {"error"}, why : Reason]

\* How a client may leave: it closes its sending side, or the whole socket.
Leaving == {"half", "dropped"}

Step ==
  [op : {"connect", "close", "closed", "recv"}, who : Conn]
    \cup [op : {"send", "try", "last"}, who : Conn, req : Request]
    \cup [op : {"expect"}, who : Conn, replies : SUBSET Reply]
    \cup [op : {"choose"}, who : Conn, reqs : SUBSET Request]
    \cup [op : {"leave"}, who : Conn, how : SUBSET Leaving]
    \cup [op : {"sleep"}, ms : Nat] \cup [op : {"welcomed"}, count : Nat]

ASSUME HarnessAssumption ==
  /\ IsFiniteSet(Conn)
  /\ \A i \in DOMAIN Tests :
       /\ Tests[i].limit \in Nat
       /\ \A b \in DOMAIN Tests[i].blocks : \A t \in DOMAIN Tests[i].blocks[b] :
            \A k \in DOMAIN Tests[i].blocks[b][t] : Tests[i].blocks[b][t][k] \in Step

JoinTime == 2000   \* the time a client has for its Join, in ms

VARIABLES
  test,      \* the test that runs
  block, pc, \* its block, and the next step of each script of the block
  verdict,   \* "running", "passed" or "failed"
  conn,      \* the client's end: "absent", "open", "half" closed, "dropped"
  backlog,   \* connections the listener has not accepted
  inbox,     \* inbox[c]: requests the server has not read
  got,       \* got[c]: replies that reached c
  seen,      \* seen[c]: how many of them c has read
  closed     \* connections the server has closed

scriptVars == <<test, block, pc, verdict>>
netVars == <<conn, backlog, inbox, got, seen, closed>>

Limit == Tests[test].limit
Free == Tests[test].free
Blocks == Tests[test].blocks
Threads == IF block \in DOMAIN Blocks THEN DOMAIN Blocks[block] ELSE {}
Active(t) == t \in Threads /\ pc[t] \in DOMAIN Blocks[block][t]
Now(t) == Blocks[block][t][pc[t]]

HarnessInit ==
  /\ test \in DOMAIN Tests /\ block = 1 /\ verdict = "running"
  /\ pc = [t \in Threads |-> 1]
  /\ conn = [c \in Conn |-> "absent"] /\ backlog = <<>>
  /\ inbox = [c \in Conn |-> <<>>] /\ got = [c \in Conn |-> <<>>]
  /\ seen = [c \in Conn |-> 0] /\ closed = {}

-----------------------------------------------------------------------------
(* Steps of a script *)

Pass(t) == pc' = [pc EXCEPT ![t] = @ + 1] /\ UNCHANGED <<test, block, verdict>>
Fail == verdict' = "failed" /\ UNCHANGED <<test, block, pc>>

DoConnect(t) ==
  /\ Now(t).op = "connect" /\ Pass(t)
  /\ LET c == Now(t).who IN
       /\ conn[c] = "absent"
       /\ conn' = [conn EXCEPT ![c] = "open"]
       /\ backlog' = Append(backlog, c)
  /\ UNCHANGED <<inbox, got, seen, closed>>

\* A connection that the server has closed may refuse what is sent on it.
DoSend(t) ==
  /\ Now(t).op \in {"send", "try", "last"}
  /\ LET c == Now(t).who IN
       IF c \notin closed
         THEN inbox' = [inbox EXCEPT ![c] = Append(@, Now(t).req)] /\ Pass(t)
         ELSE /\ UNCHANGED inbox
              /\ \/ Pass(t)
                 \/ Now(t).op = "send" /\ Fail
                 \/ /\ Now(t).op = "last"
                    /\ pc' = [pc EXCEPT ![t] = Len(Blocks[block][t]) + 1]
                    /\ UNCHANGED <<test, block, verdict>>
  /\ UNCHANGED <<conn, backlog, got, seen, closed>>

DoChoose(t) ==
  /\ Now(t).op = "choose" /\ Pass(t)
  /\ \E r \in Now(t).reqs : inbox' = [inbox EXCEPT ![Now(t).who] = Append(@, r)]
  /\ UNCHANGED <<conn, backlog, got, seen, closed>>

HasReply(c) == seen[c] < Len(got[c])

DoReceive(t) ==
  /\ Now(t).op \in {"expect", "recv"}
  /\ LET c == Now(t).who IN
       \/ /\ HasReply(c)
          /\ seen' = [seen EXCEPT ![c] = @ + 1]
          /\ IF Now(t).op = "recv" THEN Pass(t)
             ELSE IF got[c][seen[c] + 1] \in Now(t).replies THEN Pass(t) ELSE Fail
       \/ ~HasReply(c) /\ c \in closed /\ Fail /\ UNCHANGED seen
  /\ UNCHANGED <<conn, backlog, inbox, got, closed>>

\* close() takes the client: it is open until then.
DoClose(t) ==
  /\ Now(t).op \in {"close", "leave"} /\ conn[Now(t).who] = "open"
  /\ \E how \in IF Now(t).op = "leave" THEN Now(t).how ELSE {"dropped"} :
       conn' = [conn EXCEPT ![Now(t).who] = how]
  /\ Pass(t)
  /\ UNCHANGED <<backlog, inbox, got, seen, closed>>

DoCheckClosed(t) ==
  /\ Now(t).op = "closed"
  /\ LET c == Now(t).who IN
       \/ HasReply(c) /\ Fail
       \/ ~HasReply(c) /\ c \in closed /\ Pass(t)
  /\ UNCHANGED netVars

\* The server does what it has to do while the test sleeps, in two seconds
\* also what it does at the end of the time for the Join.
DoSleep(t, quiet, overdue) ==
  /\ Now(t).op = "sleep" /\ quiet /\ (Now(t).ms >= JoinTime => ~overdue) /\ Pass(t)
  /\ UNCHANGED netVars

Welcomed == {c \in Conn : got[c] # <<>> /\ Head(got[c]).kind = "welcome"}
DoAssert(t) ==
  /\ Now(t).op = "welcomed"
  /\ IF Cardinality(Welcomed) = Now(t).count THEN Pass(t) ELSE Fail
  /\ UNCHANGED netVars

\* All scripts of the block are done: the next block.
EndBlock ==
  /\ Threads # {} /\ \A t \in Threads : ~Active(t)
  /\ block' = block + 1
  /\ pc' = [t \in (IF block + 1 \in DOMAIN Blocks THEN DOMAIN Blocks[block + 1] ELSE {}) |-> 1]
  /\ UNCHANGED <<test, verdict, netVars>>

ScriptStep(quiet, overdue) ==
  /\ verdict = "running"
  /\ \/ EndBlock
     \/ \E t \in Threads :
          /\ Active(t)
          /\ \/ DoConnect(t) \/ DoSend(t) \/ DoChoose(t) \/ DoReceive(t)
             \/ DoClose(t) \/ DoCheckClosed(t) \/ DoSleep(t, quiet, overdue) \/ DoAssert(t)

\* Two seconds may pass: every script sleeps as long, or waits for what does
\* not come.
Waiting ==
  \A t \in Threads : Active(t) =>
    \/ Now(t).op = "sleep" /\ Now(t).ms >= JoinTime
    \/ /\ Now(t).op \in {"expect", "recv", "closed"}
       /\ ~HasReply(Now(t).who) /\ Now(t).who \notin closed

\* The test is over: its clients are dropped.
DropClients ==
  /\ verdict = "running" /\ Threads = {} /\ ~Free
  /\ conn' = [c \in Conn |-> IF conn[c] = "absent" THEN "absent" ELSE "dropped"]
  /\ UNCHANGED <<backlog, inbox, got, seen, closed>>
=============================================================================
