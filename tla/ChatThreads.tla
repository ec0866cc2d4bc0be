------------------------------ MODULE ChatThreads ------------------------------
(***************************************************************************)
(* The thread-per-client chat server of lessons/08: the acceptor thread,   *)
(* one handler thread per connection, and the thread that drops the        *)
(* RunningServer.  They share the client map behind a RwLock and, inside   *)
(* it, one MessageWriter per client behind a Mutex.                        *)
(*                                                                         *)
(* A handler's pc names the statement it is about to finish.  Taking the   *)
(* write side of the RwLock, changing the map and releasing it is one      *)
(* step, so only the holders of the read side are recorded.  Writing a     *)
(* frame takes time: the thread is mid-frame for as long as its pc is      *)
(* "write" (or one of the pcs of a write to its own, unshared socket).     *)
(***************************************************************************)
EXTENDS Naturals, Sequences, FiniteSets

CONSTANTS
  Conns,        \* TCP connections clients may open, each at most once
  Names,        \* user names
  MaxClients,   \* ServerOpts::max_clients
  MaxRequests,  \* bound: requests a connection sends after its Join
  MayJoin,      \* MayJoin[c]: the names connection c may try to join with
  MayAsk,       \* MayAsk[c]: the requests connection c may send
  Faulty,       \* connections that may be reset or send an unreadable frame
  Slow,         \* connections whose client may stop reading its socket
  MayDrop,      \* whether the RunningServer is ever dropped
  Main,         \* the thread that owns the RunningServer
  Wake,         \* the connection Drop opens to wake the acceptor
  None

Threads == Conns \cup {Main}
Requests == [op : {"Join", "Ping", "ListUsers", "SendDM", "Broadcast"},
             to : Names \cup {None}]
Frames == [kind : {"Welcome", "Pong", "UserList", "Message", "Error"},
           by : Conns \cup {None}]

ASSUME ConnsAssumption ==
  /\ IsFiniteSet(Conns)
  /\ None \notin Conns \cup Names \cup {Main, Wake}
  /\ Main \notin Conns
  /\ Wake \notin Conns
ASSUME BoundsAssumption == MaxClients \in Nat /\ MaxRequests \in Nat
ASSUME ClientsAssumption ==
  /\ MayJoin \in [Conns -> SUBSET Names]
  /\ MayAsk \in [Conns -> SUBSET Requests]
  /\ \A c \in Conns : \A r \in MayAsk[c] : r.op = "SendDM" => r.to \in Names
  /\ Faulty \subseteq Conns
  /\ Slow \subseteq Conns
  /\ MayDrop \in BOOLEAN

VARIABLES
  backlog,      \* connections the listener has queued
  acc,          \* control state of the acceptor thread
  accConn,      \* the connection it has accepted and not yet disposed of
  handles,      \* client_handles: connections whose JoinHandle is kept
  main,         \* control state of the owning thread
  terminated,   \* the AtomicBool
  pc,           \* pc[c]: control state of the handler thread of c
  name,         \* name[c]: the name c asked for
  req,          \* req[c]: the request c's handler works on, or did last
  asked,        \* asked[c]: requests read from c
  tgt,          \* tgt[t]: connection whose writer thread t locks or holds
  todo,         \* todo[t]: connections t has yet to visit in its loop
  clients,      \* the map: name -> connection whose writer is stored
  readers,      \* threads that hold the read side of the RwLock
  mutex,        \* mutex[c]: thread that holds the Mutex of c's writer
  peer,         \* peer[c]: what c's socket is like
  sent          \* sent[c]: frames written to c, in order

acceptorVars == <<backlog, acc, accConn, handles>>
mainVars == <<main, terminated>>
joinVars == <<name, req, asked>>
loopVars == <<tgt, todo>>
lockVars == <<clients, readers, mutex>>
netVars == <<peer, sent>>
vars == <<acceptorVars, mainVars, pc, joinVars, loopVars, lockVars, netVars>>

JoiningPcs == {"join", "check", "taken", "unexpected", "welcome"}
LockedPcs == {"locksender", "lock", "write"}
Pcs == {"none", "insert", "serve", "lookup", "leave", "done"}
         \cup JoiningPcs \cup LockedPcs

Init ==
  /\ backlog = <<>> /\ acc = "accept" /\ accConn = None /\ handles = {}
  /\ main = "run" /\ terminated = FALSE
  /\ pc = [c \in Conns |-> "none"]
  /\ name = [c \in Conns |-> None]
  /\ req = [c \in Conns |-> None]
  /\ asked = [c \in Conns |-> 0]
  /\ tgt = [t \in Threads |-> None]
  /\ todo = [t \in Threads |-> {}]
  /\ clients = [n \in Names |-> None]
  /\ readers = {}
  /\ mutex = [c \in Conns |-> None]
  /\ peer = [c \in Conns |-> "absent"]
  /\ sent = [c \in Conns |-> <<>>]

-----------------------------------------------------------------------------
(* Helpers *)

Goto(c, label) == pc' = [pc EXCEPT ![c] = label]
Live(c) == pc[c] \notin {"none", "done"}
Registered == {clients[n] : n \in Names} \ {None}

\* The socket is at its end for the server's read, refuses its writes, or
\* takes them (after a reset a write may still land in the kernel's buffer).
ReadEnds(c) == peer[c] \in {"eof", "reset", "shut"}
Refuses(c) == peer[c] \in {"reset", "shut"}
Takes(c) == peer[c] \notin {"stalled", "shut"}

\* Write one frame to c's socket.
Put(c, kind, by) ==
  sent' = [sent EXCEPT ![c] = Append(@, [kind |-> kind, by |-> by])]

\* Thread t goes on to some element of S, or has nothing left to visit.
Aim(t, S) ==
  \/ /\ S = {}
     /\ tgt' = [tgt EXCEPT ![t] = None]
     /\ todo' = [todo EXCEPT ![t] = {}]
  \/ \E d \in S : /\ tgt' = [tgt EXCEPT ![t] = d]
                  /\ todo' = [todo EXCEPT ![t] = S \ {d}]

Lock(t, d) == mutex[d] = None /\ mutex' = [mutex EXCEPT ![d] = t]
UnlockAll(t) == mutex' = [d \in Conns |-> IF mutex[d] = t THEN None ELSE mutex[d]]

-----------------------------------------------------------------------------
(* The clients and the network *)

Connect(c) ==
  /\ peer[c] = "absent"
  /\ peer' = [peer EXCEPT ![c] = "open"]
  /\ backlog' = Append(backlog, c)
  /\ UNCHANGED <<acc, accConn, handles, mainVars, pc, joinVars, loopVars,
                 lockVars, sent>>

\* A client closes its sending side, loses the connection, stops reading, or
\* reads again.
PeerStep(c) ==
  /\ \/ peer[c] \in {"open", "stalled"} /\ peer' = [peer EXCEPT ![c] = "eof"]
     \/ /\ c \in Faulty /\ peer[c] \in {"open", "stalled", "eof"}
        /\ peer' = [peer EXCEPT ![c] = "reset"]
     \/ c \in Slow /\ peer[c] = "open" /\ peer' = [peer EXCEPT ![c] = "stalled"]
     \/ peer[c] = "stalled" /\ peer' = [peer EXCEPT ![c] = "open"]
  /\ UNCHANGED <<acceptorVars, mainVars, pc, joinVars, loopVars, lockVars, sent>>

-----------------------------------------------------------------------------
(* The acceptor thread *)

Accept ==
  /\ acc = "accept" /\ backlog # <<>>
  /\ accConn' = Head(backlog)
  /\ backlog' = Tail(backlog)
  /\ acc' = "check"
  /\ UNCHANGED <<handles, mainVars, pc, joinVars, loopVars, lockVars, netVars>>

SeeTermination ==
  /\ acc = "check" /\ terminated
  /\ acc' = "stopped" /\ accConn' = None
  /\ UNCHANGED <<backlog, handles, mainVars, pc, joinVars, loopVars, lockVars,
                 netVars>>

Unfinished == {c \in handles : pc[c] # "done"}

\* Mutants of Spawn: the flag is not tested; one connection too many.
SpawnUntested ==
  /\ acc = "check"
  /\ Cardinality(Unfinished) < MaxClients
  /\ handles' = Unfinished \cup {accConn}
  /\ Goto(accConn, "join")
  /\ acc' = "accept" /\ accConn' = None
  /\ UNCHANGED <<backlog, mainVars, joinVars, loopVars, lockVars, netVars>>
SpawnOneMore ==
  /\ acc = "check" /\ ~terminated
  /\ Cardinality(Unfinished) <= MaxClients
  /\ handles' = Unfinished \cup {accConn}
  /\ Goto(accConn, "join")
  /\ acc' = "accept" /\ accConn' = None
  /\ UNCHANGED <<backlog, mainVars, joinVars, loopVars, lockVars, netVars>>

\* Finished handles are reaped, then the connection is refused or served.
Spawn ==
  /\ acc = "check" /\ ~terminated
  /\ Cardinality(Unfinished) < MaxClients
  /\ handles' = Unfinished \cup {accConn}
  /\ Goto(accConn, "join")
  /\ acc' = "accept" /\ accConn' = None
  /\ UNCHANGED <<backlog, mainVars, joinVars, loopVars, lockVars, netVars>>

Full ==
  /\ acc = "check" /\ ~terminated
  /\ Cardinality(Unfinished) >= MaxClients
  /\ handles' = Unfinished
  /\ acc' = "reject"
  /\ UNCHANGED <<backlog, accConn, mainVars, pc, joinVars, loopVars, lockVars,
                 netVars>>

\* Mutant of Reject: `return` in the place of `continue`.
RejectAndReturn ==
  /\ acc = "reject"
  /\ Put(accConn, "Error", None) /\ acc' = "stopped" /\ accConn' = None
  /\ UNCHANGED <<backlog, handles, mainVars, pc, joinVars, loopVars, lockVars,
                 peer>>

\* The `?` on this write ends the acceptor thread when the write fails.
Reject ==
  /\ acc = "reject"
  /\ \/ Put(accConn, "Error", None) /\ acc' = "accept"
     \/ Refuses(accConn) /\ acc' = "stopped" /\ UNCHANGED sent
  /\ accConn' = None
  /\ UNCHANGED <<backlog, handles, mainVars, pc, joinVars, loopVars, lockVars,
                 peer>>

-----------------------------------------------------------------------------
(* A handler thread: join_client *)

ReadJoin(c) ==
  /\ pc[c] = "join"
  /\ \/ \E n \in MayJoin[c] : /\ name' = [name EXCEPT ![c] = n]
                              /\ Goto(c, "check")
     \/ /\ \E r \in MayAsk[c] : r.op # "Join"
        /\ Goto(c, "unexpected")
        /\ UNCHANGED name
  /\ UNCHANGED <<acceptorVars, mainVars, req, asked, loopVars, lockVars, netVars>>

\* No first message: `expect` panics.  The socket closes with the thread.
JoinEof(c) ==
  /\ pc[c] = "join" /\ ReadEnds(c)
  /\ Goto(c, "done")
  /\ UNCHANGED <<acceptorVars, mainVars, joinVars, loopVars, lockVars, netVars>>

\* Mutant of CheckName: the name is tested and inserted under one write lock.
CheckAndInsert(c) ==
  /\ pc[c] = "check" /\ readers = {}
  /\ IF clients[name[c]] = None
       THEN clients' = [clients EXCEPT ![name[c]] = c] /\ Goto(c, "welcome")
       ELSE UNCHANGED clients /\ Goto(c, "taken")
  /\ UNCHANGED <<acceptorVars, mainVars, joinVars, loopVars, readers, mutex,
                 netVars>>

CheckName(c) ==
  /\ pc[c] = "check"
  /\ Goto(c, IF clients[name[c]] = None THEN "welcome" ELSE "taken")
  /\ UNCHANGED <<acceptorVars, mainVars, joinVars, loopVars, lockVars, netVars>>

\* "Username already taken" or "Unexpected message received".
RefuseJoin(c) ==
  /\ pc[c] \in {"taken", "unexpected"}
  /\ \/ Put(c, "Error", c)
     \/ Refuses(c) /\ UNCHANGED sent
  /\ Goto(c, "done")
  /\ UNCHANGED <<acceptorVars, mainVars, joinVars, loopVars, lockVars, peer>>

SendWelcome(c) ==
  /\ pc[c] = "welcome"
  /\ \/ Put(c, "Welcome", c) /\ Goto(c, "insert")
     \/ Refuses(c) /\ Goto(c, "done") /\ UNCHANGED sent
  /\ UNCHANGED <<acceptorVars, mainVars, joinVars, loopVars, lockVars, peer>>

\* An entry of the same name is overwritten: its writer is dropped.
Insert(c) ==
  /\ pc[c] = "insert" /\ readers = {}
  /\ clients' = [clients EXCEPT ![name[c]] = c]
  /\ Goto(c, "serve")
  /\ UNCHANGED <<acceptorVars, mainVars, joinVars, loopVars, readers, mutex,
                 netVars>>

-----------------------------------------------------------------------------
(* A handler thread: handle_joined *)

Receive(c) ==
  /\ pc[c] = "serve" /\ asked[c] < MaxRequests
  /\ \E r \in MayAsk[c] : req' = [req EXCEPT ![c] = r]
  /\ asked' = [asked EXCEPT ![c] = @ + 1]
  /\ Goto(c, "lookup")
  /\ UNCHANGED <<acceptorVars, mainVars, name, loopVars, lockVars, netVars>>

Eof(c) ==
  /\ pc[c] = "serve" /\ ReadEnds(c)
  /\ Goto(c, "leave")
  /\ UNCHANGED <<acceptorVars, mainVars, joinVars, loopVars, lockVars, netVars>>

\* `msg?`: a reset, an oversized, truncated or malformed frame.  The thread
\* returns; a name already in the map stays there.
ReadError(c) ==
  /\ pc[c] \in {"join", "serve"} /\ c \in Faulty
  /\ Goto(c, "done")
  /\ UNCHANGED <<acceptorVars, mainVars, joinVars, loopVars, lockVars, netVars>>

Own(c) == clients[name[c]]
Others(c) == {clients[n] : n \in Names \ {name[c]}} \ {None}
\* Mutant of Audience: the user list goes to everybody.
WideAudience(c) == IF req[c].op = "Ping" THEN {Own(c)} \ {None} ELSE Registered
Audience(c) == IF req[c].op = "Broadcast" THEN Others(c) ELSE {Own(c)} \ {None}
\* Mutant of AfterRequest: a second Join returns without the clean-up.
AfterRequestReturning(c) == IF req[c].op = "Join" THEN "done" ELSE "serve"
AfterRequest(c) == IF req[c].op = "Join" THEN "leave" ELSE "serve"
\* Mutant of HasRecipient: a message to oneself is not singled out.
HasAnyRecipient(c) == clients[req[c].to] # None
HasRecipient(c) == req[c].to # name[c] /\ clients[req[c].to] # None

\* Take the read side of the map and look up whom to write to.
Lookup(c) ==
  /\ pc[c] = "lookup"
  /\ Aim(c, Audience(c))
  /\ IF Audience(c) = {}
       THEN Goto(c, AfterRequest(c)) /\ UNCHANGED readers
       ELSE /\ readers' = readers \cup {c}
            /\ Goto(c, IF req[c].op = "SendDM" THEN "locksender" ELSE "lock")
  /\ UNCHANGED <<acceptorVars, mainVars, joinVars, clients, mutex, netVars>>

\* SendDM locks the sender's writer and keeps it while it locks the other.
LockSender(c) ==
  /\ pc[c] = "locksender"
  /\ Lock(c, tgt[c])
  /\ IF HasRecipient(c)
       THEN tgt' = [tgt EXCEPT ![c] = clients[req[c].to]] /\ Goto(c, "lock")
       ELSE UNCHANGED tgt /\ Goto(c, "write")
  /\ UNCHANGED <<acceptorVars, mainVars, joinVars, todo, clients, readers, netVars>>

\* Mutant of LockWriter: the writer is used without its Mutex.
UseWriterUnlocked(c) ==
  /\ pc[c] = "lock"
  /\ Goto(c, "write")
  /\ UNCHANGED <<acceptorVars, mainVars, joinVars, loopVars, lockVars, netVars>>

LockWriter(c) ==
  /\ pc[c] = "lock"
  /\ Lock(c, tgt[c])
  /\ Goto(c, "write")
  /\ UNCHANGED <<acceptorVars, mainVars, joinVars, loopVars, clients, readers,
                 netVars>>

FrameKind(c) ==
  CASE req[c].op = "Ping" -> "Pong"
    [] req[c].op = "ListUsers" -> "UserList"
    [] req[c].op = "Broadcast" -> "Message"
    [] req[c].op = "SendDM" /\ HasRecipient(c) -> "Message"
    [] OTHER -> "Error"

\* Mutant of FinishWrite: the read guard outlives the request.
FinishWriteKeepingGuard(c) ==
  /\ pc[c] = "write" /\ Takes(tgt[c])
  /\ Put(tgt[c], FrameKind(c), c)
  /\ UnlockAll(c)
  /\ Aim(c, todo[c])
  /\ Goto(c, IF todo[c] = {} THEN AfterRequest(c) ELSE "lock")
  /\ UNCHANGED <<acceptorVars, mainVars, joinVars, clients, readers, peer>>

FinishWrite(c) ==
  /\ pc[c] = "write" /\ Takes(tgt[c])
  /\ Put(tgt[c], FrameKind(c), c)
  /\ UnlockAll(c)
  /\ Aim(c, todo[c])
  /\ IF todo[c] = {}
       THEN readers' = readers \ {c} /\ Goto(c, AfterRequest(c))
       ELSE UNCHANGED readers /\ Goto(c, "lock")
  /\ UNCHANGED <<acceptorVars, mainVars, joinVars, clients, peer>>

\* `?` on a write: the guards are dropped, the thread returns at once and
\* does not remove its name.
WriteError(c) ==
  /\ pc[c] = "write" /\ Refuses(tgt[c])
  /\ UnlockAll(c)
  /\ Aim(c, {})
  /\ readers' = readers \ {c}
  /\ Goto(c, "done")
  /\ UNCHANGED <<acceptorVars, mainVars, joinVars, clients, netVars>>

\* remove(&name) removes whatever is stored under the name by now.
Leave(c) ==
  /\ pc[c] = "leave" /\ readers = {}
  /\ clients' = [clients EXCEPT ![name[c]] = None]
  /\ Goto(c, "done")
  /\ UNCHANGED <<acceptorVars, mainVars, joinVars, loopVars, readers, mutex,
                 netVars>>

-----------------------------------------------------------------------------
(* Dropping the RunningServer *)

BeginDrop ==
  /\ main = "run" /\ MayDrop
  /\ terminated' = TRUE /\ main' = "wake"
  /\ UNCHANGED <<acceptorVars, pc, joinVars, loopVars, lockVars, netVars>>

WakeAcceptor ==
  /\ main = "wake"
  /\ backlog' = Append(backlog, Wake)
  /\ main' = "joinacceptor"
  /\ UNCHANGED <<acc, accConn, handles, terminated, pc, joinVars, loopVars,
                 lockVars, netVars>>

\* Mutant of JoinAcceptor: the read guard is gone after the walk.
JoinAcceptorUnguarded ==
  /\ main = "joinacceptor" /\ acc = "stopped"
  /\ Aim(Main, Registered)
  /\ main' = IF Registered = {} THEN "joinhandlers" ELSE "shutdown"
  /\ UNCHANGED <<acceptorVars, terminated, pc, joinVars, lockVars, netVars>>

\* The read guard taken here lives until drop returns.
JoinAcceptor ==
  /\ main = "joinacceptor" /\ acc = "stopped"
  /\ readers' = readers \cup {Main}
  /\ Aim(Main, Registered)
  /\ main' = IF Registered = {} THEN "joinhandlers" ELSE "shutdown"
  /\ UNCHANGED <<acceptorVars, terminated, pc, joinVars, clients, mutex, netVars>>

\* The Mutex guard is a temporary: locked, shut down and unlocked in a step.
ShutdownClient ==
  /\ main = "shutdown" /\ mutex[tgt[Main]] = None
  /\ peer' = [peer EXCEPT ![tgt[Main]] = "shut"]
  /\ Aim(Main, todo[Main])
  /\ main' = IF todo[Main] = {} THEN "joinhandlers" ELSE "shutdown"
  /\ UNCHANGED <<acceptorVars, terminated, pc, joinVars, lockVars, sent>>

JoinHandlers ==
  /\ main = "joinhandlers" /\ Unfinished = {}
  /\ handles' = {} /\ readers' = readers \ {Main} /\ main' = "dropped"
  /\ UNCHANGED <<backlog, acc, accConn, terminated, pc, joinVars, loopVars,
                 clients, mutex, netVars>>

-----------------------------------------------------------------------------
HandlerStep(c) ==
  \/ JoinEof(c) \/ CheckName(c) \/ RefuseJoin(c) \/ SendWelcome(c) \/ Insert(c)
  \/ Eof(c) \/ Lookup(c) \/ LockSender(c) \/ LockWriter(c) \/ FinishWrite(c)
  \/ WriteError(c) \/ Leave(c)
ClientStep(c) ==
  Connect(c) \/ PeerStep(c) \/ ReadJoin(c) \/ Receive(c) \/ ReadError(c)
AcceptorStep == Accept \/ SeeTermination \/ Spawn \/ Full \/ Reject
DropStep == WakeAcceptor \/ JoinAcceptor \/ ShutdownClient \/ JoinHandlers

\* Nothing to do: no handler runs and no connection waits for the acceptor.
Idle ==
  /\ \A c \in Conns : ~Live(c)
  /\ acc = "stopped" \/ (acc = "accept" /\ backlog = <<>>)
  /\ main \in {"run", "dropped"}
  /\ UNCHANGED vars

Next ==
  \/ \E c \in Conns : HandlerStep(c) \/ ClientStep(c)
  \/ AcceptorStep \/ BeginDrop \/ DropStep \/ Idle

Spec == Init /\ [][Next]_vars

\* Threads that can run are scheduled; clients owe the server nothing.
FairSpec ==
  /\ Spec
  /\ WF_vars(AcceptorStep)
  /\ WF_vars(DropStep)
  /\ \A c \in Conns : WF_vars(HandlerStep(c))

-----------------------------------------------------------------------------
(* Properties *)

\* The variables stay in their types.
TypeOK ==
  /\ backlog \in Seq(Conns \cup {Wake})
  /\ acc \in {"accept", "check", "reject", "stopped"}
  /\ accConn \in Conns \cup {Wake, None}
  /\ handles \subseteq Conns
  /\ main \in {"run", "wake", "joinacceptor", "shutdown", "joinhandlers", "dropped"}
  /\ terminated \in BOOLEAN
  /\ pc \in [Conns -> Pcs]
  /\ name \in [Conns -> Names \cup {None}]
  /\ req \in [Conns -> Requests \cup {None}]
  /\ asked \in [Conns -> 0 .. MaxRequests]
  /\ tgt \in [Threads -> Conns \cup {None}]
  /\ todo \in [Threads -> SUBSET Conns]
  /\ clients \in [Names -> Conns \cup {None}]
  /\ readers \subseteq Threads
  /\ mutex \in [Conns -> Conns \cup {None}]
  /\ peer \in [Conns -> {"absent", "open", "stalled", "eof", "reset", "shut"}]
  /\ sent \in [Conns -> Seq(Frames)]

\* The threads in the middle of a frame to c: its own handler before the
\* writer is shared, a handler that holds the writer, or the acceptor.
MidFrame(c) ==
  {t \in Conns : \/ pc[t] \in {"taken", "unexpected", "welcome"} /\ t = c
                 \/ pc[t] = "write" /\ tgt[t] = c}
    \cup {t \in {Main} : acc = "reject" /\ accConn = c}

\* "Avoid interleaving unrelated messages": whatever faults and name clashes
\* occur, no two threads are in the middle of a frame to the same client.
NoInterleaving == \A c \in Conns : \A s, t \in MidFrame(c) : s = t

\* The server never serves more than max_clients connections at once, however
\* the acceptor's reaping of finished threads interleaves with their ends.
AtMostMaxClients == Cardinality({c \in Conns : Live(c)}) <= MaxClients

\* A client's first frame is its Welcome, or it gets a single Error: no
\* broadcast or direct message overtakes the Welcome.
WelcomeFirst ==
  \A c \in Conns :
    \/ sent[c] = <<>>
    \/ sent[c][1].kind = "Welcome"
    \/ Len(sent[c]) = 1 /\ sent[c][1].kind = "Error"

\* Once Drop waits for the handlers, every connection in the map has been shut
\* down: nobody registered behind its back while it walked the map.
RegisteredAreShut ==
  main = "joinhandlers" => \A c \in Registered : peer[c] = "shut"

\* Pre: distinct names, no faults.  A joined client is in the map under its
\* name from its first request to its end, and no other entry is in the map.
MapMirrorsHandlers ==
  /\ \A c \in Conns : pc[c] \in {"serve", "lookup", "leave"} \cup LockedPcs
                        => Own(c) = c
  /\ \A c \in Registered : Live(c)

\* Pre: distinct names.  Only Message frames come from somebody else: the reply
\* to a request goes to the connection the request came from, and an answered
\* Ping or ListUsers has left a frame of its kind there.
RepliesReachRequester ==
  \A c \in Conns :
    /\ \A i \in 1 .. Len(sent[c]) :
         sent[c][i].kind # "Message" => sent[c][i].by \in {c, None}
    /\ pc[c] = "serve" /\ req[c] # None /\ req[c].op \in {"Ping", "ListUsers"} =>
         \E i \in 1 .. Len(sent[c]) : sent[c][i] = [kind |-> FrameKind(c), by |-> c]

\* The server accepts connections until it is dropped.
AcceptsUntilDropped == acc = "stopped" => terminated

\* A request that has been read is completed (or its client is gone).
RequestCompletes ==
  \A c \in Conns : pc[c] = "lookup" ~> pc[c] \in {"serve", "done"}

\* A client that closes its connection is removed and its thread ends.
HandlerEnds == \A c \in Conns : Live(c) /\ ReadEnds(c) ~> pc[c] = "done"

=============================================================================
