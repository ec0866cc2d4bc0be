------------------------------- MODULE ChatEpoll -------------------------------
(***************************************************************************)
(* The chat server of lessons/09: server.rs, reader.rs and writer.rs.  One *)
(* thread polls the sockets (level-triggered epoll), handles one message   *)
(* per readable socket, and then cleans up.  A connection is known by its  *)
(* client c: its descriptor is reused only when no map knows it any more.  *)
(***************************************************************************)
EXTENDS Naturals, Sequences, FiniteSets, Functions

CONSTANTS
  Conn,          \* clients, each of which connects at most once
  Names,
  Listener, None,
  Faulty,        \* clients whose connection may be reset
  MaxClients,    \* max_clients
  BufferFrames,  \* bound: frames that fit into a reader's buffer
  Script         \* Script[c][k]: what the k-th frame of c may be

Request ==
  [kind : {"join", "dm"}, name : Names] \cup [kind : {"ping", "list", "broadcast", "bad"}]

Frame == {"welcome", "reply", "msg", "error", "full"}

ASSUME ClientsAssumption ==
  /\ IsFiniteSet(Conn) /\ Faulty \subseteq Conn
  /\ Listener \notin Conn /\ None \notin Conn \cup Names
ASSUME ScriptAssumption ==
  /\ DOMAIN Script = Conn
  /\ \A c \in Conn : Len(Script[c]) \in Nat
                    /\ \A k \in 1 .. Len(Script[c]) : Script[c][k] \subseteq Request
ASSUME BoundsAssumption == MaxClients \in Nat /\ BufferFrames \in Nat \ {0}

VARIABLES
  peer,        \* the client's end: "absent", "open", "half" closed or "reset"
  backlog,     \* connections the listener has not accepted
  inbox,       \* inbox[c]: frames in the socket
  sent,        \* sent[c]: number of frames c has sent
  got,         \* got[c]: the frames c has been sent, by their kind
  buffer,      \* buffer[c]: frames in the reader's buffer
  clients,
  name,        \* name[c]: Client::name
  gone,        \* clients that are not connected any more
  rejected,    \* rejected_clients
  writers,     \* client_writers: a name's writer, by its connection
  poller,      \* control state of the poller thread
  events,      \* sockets that were ready and are not handled yet
  terminated

peerVars == <<peer, inbox, sent>>
mapVars == <<clients, name, gone, rejected, writers>>
threadVars == <<poller, events, terminated>>
vars == <<peerVars, backlog, got, buffer, mapVars, threadVars>>

Init ==
  /\ peer = [c \in Conn |-> "absent"] /\ backlog = <<>>
  /\ inbox = [c \in Conn |-> <<>>] /\ sent = [c \in Conn |-> 0]
  /\ got = [c \in Conn |-> <<>>] /\ buffer = [c \in Conn |-> <<>>]
  /\ clients = {} /\ name = [c \in Conn |-> None] /\ gone = {} /\ rejected = {}
  /\ writers = [n \in {} |-> None]
  /\ poller = "handle" /\ events = {} /\ terminated = FALSE

-----------------------------------------------------------------------------
(* The clients and the thread that owns the server *)

Connect(c) ==
  /\ peer[c] = "absent" /\ poller \notin {"ended", "dead"}
  /\ peer' = [peer EXCEPT ![c] = "open"]
  /\ backlog' = Append(backlog, c)
  /\ UNCHANGED <<inbox, sent, got, buffer, mapVars, threadVars>>

Submit(c) ==
  /\ peer[c] = "open" /\ sent[c] < Len(Script[c])
  /\ \E r \in Script[c][sent[c] + 1] : inbox' = [inbox EXCEPT ![c] = Append(@, r)]
  /\ sent' = [sent EXCEPT ![c] = @ + 1]
  /\ UNCHANGED <<peer, backlog, got, buffer, mapVars, threadVars>>

\* The client has nothing more to say and reads until it is disconnected.
CloseWrite(c) ==
  /\ peer[c] = "open"
  /\ peer' = [peer EXCEPT ![c] = "half"]
  /\ UNCHANGED <<inbox, sent, backlog, got, buffer, mapVars, threadVars>>

\* The client dies, or closes its socket without reading what it was sent.
Reset(c) ==
  /\ c \in Faulty /\ peer[c] \in {"open", "half"}
  /\ peer' = [peer EXCEPT ![c] = "reset"]
  /\ UNCHANGED <<inbox, sent, backlog, got, buffer, mapVars, threadVars>>

\* drop sets the flag and joins the poller thread.
Drop ==
  /\ ~terminated /\ terminated' = TRUE
  /\ UNCHANGED <<peerVars, backlog, got, buffer, mapVars, poller, events>>

-----------------------------------------------------------------------------
(* The poller thread *)

\* A registered socket is ready while it has unread data or an end of file.
\* Frames that the reader has in its buffer do not make it ready.
Readable(c) == inbox[c] # <<>> \/ peer[c] \in {"half", "reset"}
Ready ==
  {c \in clients \cup rejected : Readable(c)}
    \cup (IF backlog # <<>> THEN {Listener} ELSE {})

\* The thread ends and drops the server, which closes every socket.
Stop(how) ==
  /\ poller' = how /\ events' = {}
  /\ clients' = {} /\ gone' = {} /\ rejected' = {} /\ writers' = [n \in {} |-> None]
  /\ backlog' = <<>>
  /\ UNCHANGED name

\* Mutant of Wait: no timeout.
WaitForEvents ==
  /\ poller = "wait" /\ Ready # {}
  /\ events' = Ready
  /\ poller' = "handle"
  /\ UNCHANGED <<peerVars, backlog, got, buffer, mapVars, terminated>>

\* epoll::wait returns after at most 100 ms, with or without events.
Wait ==
  /\ poller = "wait"
  /\ events' = Ready
  /\ poller' = "handle"
  /\ UNCHANGED <<peerVars, backlog, got, buffer, mapVars, terminated>>

\* Mutant of Accept: one client too many.
AcceptOneMore ==
  /\ poller = "handle" /\ Listener \in events
  /\ LET c == Head(backlog) IN
       IF Cardinality(clients) > MaxClients
         THEN rejected' = rejected \cup {c} /\ UNCHANGED clients
         ELSE clients' = clients \cup {c} /\ UNCHANGED rejected
  /\ backlog' = Tail(backlog)
  /\ events' = events \ {Listener}
  /\ UNCHANGED <<peerVars, got, buffer, name, gone, writers, poller, terminated>>

\* One connection per event.  Clients that have left count until the cleanup.
Accept ==
  /\ poller = "handle" /\ Listener \in events
  /\ LET c == Head(backlog) IN
       IF Cardinality(clients) >= MaxClients
         THEN rejected' = rejected \cup {c} /\ UNCHANGED clients
         ELSE clients' = clients \cup {c} /\ UNCHANGED rejected
  /\ backlog' = Tail(backlog)
  /\ events' = events \ {Listener}
  /\ UNCHANGED <<peerVars, got, buffer, name, gone, writers, poller, terminated>>

-----------------------------------------------------------------------------
(* What a message does.  Writes do not block; they fail after a reset. *)

Takes(c) == peer[c] # "reset"
Deliver(S, kind) ==
  got' = [c \in Conn |-> IF c \in S THEN Append(got[c], kind) ELSE got[c]]

Keep == UNCHANGED <<name, writers>>
Disconnect(c) == gone' = gone \cup {c}

\* A reply of the given kind; if it cannot be written, c is disconnected.
Reply(c, kind) ==
  /\ Keep
  /\ IF Takes(c) THEN Deliver({c}, kind) /\ UNCHANGED gone
                 ELSE UNCHANGED got /\ Disconnect(c)

\* An error after which c is disconnected in any case.
Unexpected(c) ==
  /\ Keep /\ Disconnect(c)
  /\ IF Takes(c) THEN Deliver({c}, "error") ELSE UNCHANGED got

\* A name that is taken gets an error, and is taken over all the same.
Register(c, n) ==
  IF n \in DOMAIN writers /\ ~Takes(c)
    THEN Disconnect(c) /\ UNCHANGED <<got, name, writers>>
    ELSE /\ name' = [name EXCEPT ![c] = n]
         /\ writers' = [m \in DOMAIN writers \cup {n} |-> IF m = n THEN c ELSE writers[m]]
         /\ IF Takes(c)
              THEN /\ got' = [got EXCEPT ![c] =
                       Append(IF n \in DOMAIN writers THEN Append(@, "error") ELSE @, "welcome")]
                   /\ UNCHANGED gone
              ELSE UNCHANGED got /\ Disconnect(c)

DirectMessage(c, n) ==
  IF n = name[c] \/ n \notin DOMAIN writers
    THEN Reply(c, "error")
    ELSE /\ Keep
         /\ IF Takes(writers[n]) THEN Deliver({writers[n]}, "msg") /\ UNCHANGED gone
                                 ELSE UNCHANGED got /\ Disconnect(c)

\* Mutant of Broadcast: it goes to all clients, registered or not.
BroadcastToClients(c) ==
  LET to == clients \ {c}
      able == {d \in to : Takes(d)}
  IN  /\ Keep
      /\ IF able = to THEN Deliver(to, "msg") /\ UNCHANGED gone
                      ELSE /\ \E S \in SUBSET able : Deliver(S, "msg")
                           /\ Disconnect(c)

\* The first recipient that cannot be written to ends the broadcast, in the
\* order of a HashMap, and the sender is the one who is disconnected.
Broadcast(c) ==
  LET to == {writers[n] : n \in DOMAIN writers \ {name[c]}}
      able == {d \in to : Takes(d)}
  IN  /\ Keep
      /\ IF able = to THEN Deliver(to, "msg") /\ UNCHANGED gone
                      ELSE /\ \E S \in SUBSET able : Deliver(S, "msg")
                           /\ Disconnect(c)

HandleMessage(c, r) ==
  \/ r.kind = "bad" /\ Disconnect(c) /\ Keep /\ UNCHANGED got
  \/ name[c] = None /\ r.kind = "join" /\ Register(c, r.name)
  \/ name[c] = None /\ r.kind \notin {"join", "bad"} /\ Unexpected(c)
  \/ name[c] # None /\ r.kind = "join" /\ Unexpected(c)
  \/ name[c] # None /\ r.kind \in {"ping", "list"} /\ Reply(c, "reply")
  \/ name[c] # None /\ r.kind = "dm" /\ DirectMessage(c, r.name)
  \/ name[c] # None /\ r.kind = "broadcast" /\ Broadcast(c)

-----------------------------------------------------------------------------
(* Events of clients *)

\* What fits into the buffer, when it holds no complete frame.
Loads(c) == SubSeq(inbox[c], 1, IF Len(inbox[c]) < BufferFrames THEN Len(inbox[c])
                                                               ELSE BufferFrames)

\* Mutant of Receive: recv does not look at its buffer again after a read.
ReceiveOnce(c) ==
  /\ poller = "handle" /\ c \in events \cap clients
  /\ buffer[c] \o inbox[c] # <<>>
  /\ IF buffer[c] # <<>>
       THEN /\ HandleMessage(c, Head(buffer[c]))
            /\ buffer' = [buffer EXCEPT ![c] = Tail(@)]
            /\ UNCHANGED inbox
       ELSE /\ buffer' = [buffer EXCEPT ![c] = Loads(c)]
            /\ inbox' = [inbox EXCEPT ![c] = SubSeq(@, Len(Loads(c)) + 1, Len(@))]
            /\ UNCHANGED <<got, name, gone, writers>>
  /\ events' = events \ {c}
  /\ UNCHANGED <<peer, sent, backlog, clients, rejected, poller, terminated>>

\* One message per event, from the buffer if it has one.
Receive(c) ==
  /\ poller = "handle" /\ c \in events \cap clients
  /\ buffer[c] \o inbox[c] # <<>>
  /\ LET read == IF buffer[c] = <<>> THEN Loads(c) ELSE <<>>
         loaded == buffer[c] \o read
     IN  /\ HandleMessage(c, Head(loaded))
         /\ buffer' = [buffer EXCEPT ![c] = Tail(loaded)]
         /\ inbox' = [inbox EXCEPT ![c] = SubSeq(@, Len(read) + 1, Len(@))]
  /\ events' = events \ {c}
  /\ UNCHANGED <<peer, sent, backlog, clients, rejected, poller, terminated>>

\* Mutant of ReadEnd: the end of file is taken for a read that would block.
ReadNothing(c) ==
  /\ poller = "handle" /\ c \in events \cap clients
  /\ buffer[c] \o inbox[c] = <<>>
  /\ IF peer[c] = "reset" THEN Disconnect(c) ELSE UNCHANGED gone
  /\ events' = events \ {c}
  /\ UNCHANGED <<peerVars, backlog, got, buffer, clients, name, rejected, writers,
                 poller, terminated>>

\* Mutant of ReadEnd: recv reads before it looks at its buffer.
ReadEndFirst(c) ==
  /\ poller = "handle" /\ c \in events \cap clients
  /\ inbox[c] = <<>> /\ peer[c] # "open"
  /\ Disconnect(c)
  /\ events' = events \ {c}
  /\ UNCHANGED <<peerVars, backlog, got, buffer, clients, name, rejected, writers,
                 poller, terminated>>

\* End of file, or an error.
ReadEnd(c) ==
  /\ poller = "handle" /\ c \in events \cap clients
  /\ buffer[c] \o inbox[c] = <<>>
  /\ Disconnect(c)
  /\ events' = events \ {c}
  /\ UNCHANGED <<peerVars, backlog, got, buffer, clients, name, rejected, writers,
                 poller, terminated>>

\* A refused client is told why whenever it is ready, and never let go; once
\* it cannot be told, the error ends the thread.
Refuse(c) ==
  /\ poller = "handle" /\ c \in events \cap rejected
  /\ IF Takes(c)
       THEN /\ IF got[c] = <<>> THEN Deliver({c}, "full") ELSE UNCHANGED got
            /\ events' = events \ {c}
            /\ UNCHANGED <<mapVars, backlog, poller>>
       ELSE Stop("dead") /\ UNCHANGED got
  /\ UNCHANGED <<peerVars, buffer, terminated>>

\* Mutant of NextRound: the writer of a client that has left stays.
NextRoundKeepingWriters ==
  /\ poller = "handle" /\ events = {}
  /\ IF \E c \in gone : peer[c] = "reset" THEN Stop("dead")
     ELSE IF terminated THEN Stop("ended")
     ELSE /\ poller' = "wait"
          /\ clients' = clients \ gone /\ gone' = {}
          /\ UNCHANGED <<name, rejected, writers, backlog, events>>
  /\ UNCHANGED <<peerVars, got, buffer, terminated>>

\* All events are handled: cleanup_disconnected, in which shutdown fails on a
\* connection that was reset and unwrap panics, and the test of the flag.
NextRound ==
  /\ poller = "handle" /\ events = {}
  /\ IF \E c \in gone : peer[c] = "reset" THEN Stop("dead")
     ELSE IF terminated THEN Stop("ended")
     ELSE /\ poller' = "wait"
          /\ clients' = clients \ gone /\ gone' = {}
          /\ writers' = Restrict(writers, DOMAIN writers \ {name[c] : c \in gone})
          /\ UNCHANGED <<name, rejected, backlog, events>>
  /\ UNCHANGED <<peerVars, got, buffer, terminated>>

-----------------------------------------------------------------------------
HandleEvent ==
  Accept \/ \E c \in Conn : Receive(c) \/ ReadEnd(c) \/ Refuse(c)
PollerStep == Wait \/ HandleEvent \/ NextRound

ClientStep(c) ==
  Connect(c) \/ Submit(c) \/ CloseWrite(c) \/ Reset(c)

Next == PollerStep \/ Drop \/ \E c \in Conn : ClientStep(c)

Spec == Init /\ [][Next]_vars
\* The poller thread is scheduled; clients and owner do what they like.
FairSpec == Spec /\ WF_vars(PollerStep)

-----------------------------------------------------------------------------
(* Properties *)

Stopped == poller \in {"ended", "dead"}

\* The variables stay in their types, at most max_clients are served, and
\* only a connection that a map knows can be ready.
TypeOK ==
  /\ peer \in [Conn -> {"absent", "open", "half", "reset"}]
  /\ backlog \in Seq(Conn)
  /\ inbox \in [Conn -> Seq(Request)] /\ buffer \in [Conn -> Seq(Request)]
  /\ sent \in [Conn -> Nat]
  /\ got \in [Conn -> Seq(Frame)]
  /\ clients \subseteq Conn /\ Cardinality(clients) <= MaxClients
  /\ rejected \subseteq Conn \ clients
  /\ name \in [Conn -> Names \cup {None}]
  /\ gone \subseteq clients
  /\ DOMAIN writers \subseteq Names
  /\ poller \in {"wait", "handle", "ended", "dead"}
  /\ events \subseteq clients \cup rejected \cup {Listener}
  /\ Listener \in events => backlog # <<>>
  /\ terminated \in BOOLEAN

\* Every writer in the map belongs to a client that is served under that very
\* name: no writer outlives its client, though two clients may claim a name
\* and either of them may leave first.
WritersBelong ==
  \A n \in DOMAIN writers : writers[n] \in clients /\ name[writers[n]] = n

\* A client gets messages of others only after its own Welcome.
MessagesAfterWelcome ==
  \A c \in Conn : \A i \in DOMAIN got[c] :
    got[c][i] = "msg" => \E k \in 1 .. i - 1 : got[c][k] = "welcome"

MaySendBad(c) == \E k \in DOMAIN Script[c] : [kind |-> "bad"] \in Script[c][k]

\* A client that has sent nothing illegal is disconnected only when all it
\* sent has been handled, unless some connection was reset.
LeavesOnlyWhenDone ==
  [][\A c \in clients \ clients' :
        \/ Stopped'
        \/ peer[c] = "half" /\ inbox[c] = <<>> /\ buffer[c] = <<>>
        \/ "error" \in Range(got[c]) \/ MaySendBad(c)
        \/ \E d \in Conn : peer[d] = "reset"]_vars

\* The number of c's frames that the server has taken out of its reader.
Handled(c) == sent[c] - Len(inbox[c]) - Len(buffer[c])

\* A frame of a client that has nothing in its buffer is handled, however
\* many others are busy.
NextFrameHandled ==
  \A c \in Conn : \A k \in 0 .. Len(Script[c]) - 1 :
    c \in clients /\ inbox[c] # <<>> /\ buffer[c] = <<>> /\ Handled(c) = k
      ~> Handled(c) > k \/ c \notin clients

\* A client that has closed its sending side has all its frames handled, also
\* those in the reader's buffer, and is let go.
HalfClosedLeave ==
  \A c \in Conn : c \in clients /\ peer[c] = "half" ~> c \notin clients

\* drop returns, or panics, although nothing wakes up the poller.
DropEnds == terminated ~> Stopped

=============================================================================
