---------------------------- MODULE ChatEpollTests ----------------------------
(***************************************************************************)
(* The server of lesson 09 under its own tests, lib.rs.  The clients are   *)
(* those of ChatHarness, which take the place of ClientStep; what they     *)
(* read is spelled out in `replies`, where ChatEpoll has the kinds only.   *)
(***************************************************************************)
EXTENDS ChatEpoll

CONSTANT Tests

VARIABLES
  test, block, pc, verdict,  \* of the harness
  conn,      \* the client's end: "absent", "open" or "dropped"
  replies,   \* replies[c]: got[c] with the contents of the frames
  seen,      \* seen[c]: how many of them c has read
  closed     \* connections that neither the listener nor a map has any more

H == INSTANCE ChatHarness WITH got <- replies

harnessVars == <<test, block, pc, verdict, conn, seen>>
testVars == <<vars, harnessVars, replies, closed>>

TestInit == Init /\ H!HarnessInit

-----------------------------------------------------------------------------
(* What the server writes *)

Error(why) == [kind |-> "error", why |-> why]

List(c) == [kind |-> "list", users |-> DOMAIN writers]

\* The frame of the given kind that the server writes when it handles r.
Text(c, r, kind) ==
  CASE kind = "welcome" -> [kind |-> "welcome"]
    [] kind = "msg" -> [kind |-> "msg", from |-> name[c]]
    [] kind = "full" -> Error("full")
    [] kind = "reply" -> IF r.kind = "ping" THEN [kind |-> "pong"] ELSE List(c)
    [] name[c] = None -> Error(IF r.kind = "join" THEN "taken" ELSE "unexpected")
    [] r.kind = "join" -> Error("unexpected")
    [] OTHER -> Error(IF r.name = name[c] THEN "self" ELSE "nobody")

\* What the step adds to got, with its contents.
Told(c, r) ==
  replies' = [d \in Conn |-> replies[d] \o
    [i \in 1 .. Len(got'[d]) - Len(got[d]) |-> Text(c, r, got'[d][Len(got[d]) + i])]]

ServerStep ==
  /\ \/ (Wait \/ Accept \/ NextRound) /\ UNCHANGED replies
     \/ \E c \in Conn :
          \/ ReadEnd(c) /\ UNCHANGED replies
          \/ Receive(c) /\ Told(c, Head(buffer[c] \o inbox[c]))
          \/ Refuse(c) /\ Told(c, None)
  /\ closed' = {c \in Conn : /\ conn[c] # "absent"
                             /\ c \notin clients' \cup rejected' \cup Range(backlog')}
  /\ UNCHANGED harnessVars

-----------------------------------------------------------------------------
(* The clients and run_test *)

Unread(c) == seen[c] < Len(replies[c])

\* To close a socket with unread replies resets the connection.  (So would a
\* reply to a closed socket; no test that is run has one.)
PeerFollows ==
  peer' = [c \in Conn |->
    CASE conn'[c] = conn[c] -> peer[c]
      [] conn'[c] = "open" -> "open"
      [] OTHER -> IF Unread(c) THEN "reset" ELSE "half"]

\* The poller has nothing to do but to go round.
Quiet == Stopped \/ (events = {} /\ gone = {} /\ Ready = {})

ScriptStep ==
  /\ UNCHANGED <<sent, got, buffer, mapVars, threadVars>>
  /\ H!ScriptStep(Quiet, FALSE) /\ PeerFollows

\* The body of the test returns.
DropClients ==
  /\ UNCHANGED <<test, block, pc, verdict, sent, got, buffer, mapVars, threadVars>>
  /\ H!DropClients /\ PeerFollows /\ conn' # conn

\* The clients are gone: the server is dropped.
DropServer ==
  /\ verdict = "running" /\ H!Threads = {}
  /\ \A c \in Conn : conn[c] \in {"absent", "dropped"}
  /\ Drop
  /\ UNCHANGED <<harnessVars, replies, closed>>

\* drop joins the poller thread, and panics if that has.
Judge ==
  /\ verdict = "running" /\ terminated /\ Stopped
  /\ verdict' = IF poller = "ended" THEN "passed" ELSE "failed"
  /\ UNCHANGED <<vars, test, block, pc, conn, seen, replies, closed>>

Harness == ScriptStep \/ DropClients \/ DropServer \/ Judge

TestNext == ServerStep \/ Harness

\* The poller thread is scheduled, and a test goes on while it can.
TestSpec ==
  /\ TestInit /\ [][TestNext]_testVars
  /\ WF_testVars(ServerStep) /\ WF_testVars(Harness)

\* Every test of the repository that is run passes: it comes to its end, no
\* assertion of it fails, and the poller thread has not panicked.
TestsPass == <>(verdict = "passed")
=============================================================================
