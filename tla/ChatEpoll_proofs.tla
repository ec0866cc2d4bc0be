-------------------------- MODULE ChatEpoll_proofs --------------------------
(***************************************************************************)
(* What the epoll server never does, for every set of clients, whatever    *)
(* they send, whichever of them are reset, and every limit.                *)
(***************************************************************************)
EXTENDS ChatEpoll, SequenceTheorems, FiniteSetTheorems, TLAPS

-----------------------------------------------------------------------------
(* The inductive invariant *)

Says(s, kind) == \E k \in 1 .. Len(s) : s[k] = kind

\* A connection is in one place, and not before the client has connected.
QueueInv ==
  /\ \A i, j \in 1 .. Len(backlog) : backlog[i] = backlog[j] => i = j
  /\ \A i \in 1 .. Len(backlog) : backlog[i] \notin clients \cup rejected
  /\ \A c \in Conn : peer[c] = "absent" =>
       c \notin clients \cup rejected /\ \A i \in 1 .. Len(backlog) : backlog[i] # c

\* An event stays true until it is handled.
EventsInv == \A c \in events \cap Conn : Readable(c)

\* Whoever has a writer has been welcomed, unless it could not be told.
WelcomeInv ==
  \A n \in DOMAIN writers :
    peer[writers[n]] = "reset" \/ Says(got[writers[n]], "welcome")

\* What a client's script allows is all that is ever on its way.
Legal(c) == {r \in Request : r.kind = "bad" => MaySendBad(c)}
ScriptInv == \A c \in Conn : inbox[c] \in Seq(Legal(c)) /\ buffer[c] \in Seq(Legal(c))

Done(c) == peer[c] = "half" /\ inbox[c] = <<>> /\ buffer[c] = <<>>
ResetHappened == \E d \in Conn : peer[d] = "reset"

\* Why a client is going to be removed.
GoneInv ==
  \A c \in gone : Done(c) \/ Says(got[c], "error") \/ MaySendBad(c) \/ ResetHappened

IInv ==
  /\ TypeOK /\ QueueInv /\ EventsInv
  /\ WritersBelong /\ WelcomeInv /\ MessagesAfterWelcome
  /\ ScriptInv /\ GoneInv

-----------------------------------------------------------------------------
(* Sequences *)

Orderly(s) ==
  \A i \in DOMAIN s : s[i] = "msg" => \E k \in 1 .. i - 1 : s[k] = "welcome"

Grows(s, t) == \A kind : Says(s, kind) => Says(t, kind)

\* One more frame keeps the order, provided that a message has a Welcome
\* before it.
LEMMA SaidMore ==
  ASSUME NEW s \in Seq(Frame), NEW kind \in Frame, Orderly(s),
         kind = "msg" => Says(s, "welcome")
  PROVE  LET t == Append(s, kind)
         IN  t \in Seq(Frame) /\ Orderly(t) /\ Grows(s, t) /\ Says(t, kind)
<1> DEFINE t == Append(s, kind)
<1>1. /\ t \in Seq(Frame) /\ Len(t) = Len(s) + 1 /\ t[Len(s) + 1] = kind
      /\ \A i \in 1 .. Len(s) : t[i] = s[i]
  BY AppendProperties
<1>2. Len(s) \in Nat /\ DOMAIN s = 1 .. Len(s) /\ DOMAIN t = 1 .. Len(t)
  BY <1>1, LenProperties
<1> HIDE DEF t
<1>3. Grows(s, t)
  <2> SUFFICES ASSUME NEW x, NEW k \in 1 .. Len(s), s[k] = x
               PROVE  \E j \in 1 .. Len(t) : t[j] = x
    BY DEF Grows, Says
  <2> QED  BY <1>1, <1>2
<1>4. Says(t, kind)
  BY <1>1, <1>2 DEF Says
<1>5. Orderly(t)
  <2> SUFFICES ASSUME NEW i \in 1 .. Len(t), t[i] = "msg"
               PROVE  \E k \in 1 .. i - 1 : t[k] = "welcome"
    BY <1>2 DEF Orderly
  <2>1. CASE i \in 1 .. Len(s)
    <3>1. PICK k \in 1 .. i - 1 : s[k] = "welcome"
      BY <2>1, <1>1, <1>2 DEF Orderly
    <3>2. k \in 1 .. Len(s)
      BY <2>1, <1>2
    <3> QED  BY <3>1, <3>2, <1>1
  <2>2. CASE i = Len(s) + 1
    <3>1. PICK k \in 1 .. Len(s) : s[k] = "welcome"
      BY <2>2, <1>1 DEF Says
    <3>2. k \in 1 .. i - 1
      BY <2>2, <1>2
    <3> QED  BY <3>1, <3>2, <1>1
  <2> QED  BY <2>1, <2>2, <1>1, <1>2
<1> QED  BY <1>1, <1>3, <1>4, <1>5 DEF t

\* What a read does to the buffer and the socket of a reader.
LEMMA Loading ==
  ASSUME NEW S, NEW s \in Seq(S), NEW b \in Seq(S), NEW n \in Nat \ {0},
         b \o s # <<>>
  PROVE  LET read == IF b = <<>> THEN SubSeq(s, 1, IF Len(s) < n THEN Len(s) ELSE n)
                                 ELSE <<>>
             loaded == b \o read
         IN  /\ Head(loaded) \in S /\ Tail(loaded) \in Seq(S)
             /\ SubSeq(s, Len(read) + 1, Len(s)) \in Seq(S)
<1> DEFINE m == IF Len(s) < n THEN Len(s) ELSE n
           read == IF b = <<>> THEN SubSeq(s, 1, m) ELSE <<>>
           loaded == b \o read
<1>1. Len(s) \in Nat /\ \A i \in 1 .. Len(s) : s[i] \in S
  BY LenProperties, ElementOfSeq
<1>2. m \in 0 .. Len(s) /\ (m = 0 => Len(s) = 0)
  BY <1>1
<1>3. <<>> \in Seq(S) /\ Len(<<>>) = 0
  BY EmptySeq
<1> HIDE DEF m
<1>4. SubSeq(s, 1, m) \in Seq(S) /\ Len(SubSeq(s, 1, m)) = m
  <2>1. \A i \in 1 .. m : s[i] \in S
    BY <1>1, <1>2
  <2>2. /\ SubSeq(s, 1, m) \in Seq(S)
        /\ Len(SubSeq(s, 1, m)) = IF 1 <= m THEN m - 1 + 1 ELSE 0
    BY <2>1, <1>2, SubSeqProperties
  <2> QED  BY <2>2, <1>2
<1>5. read \in Seq(S) /\ Len(read) \in Nat
  BY <1>3, <1>4, LenProperties
<1>6. loaded \in Seq(S)
  BY <1>5, ConcatProperties
<1>7. loaded # <<>>
  <2>1. CASE b = <<>>
    <3>1. s # <<>>
      BY <2>1, ConcatEmptySeq
    <3>2. Len(s) # 0
      BY <3>1, EmptySeq
    <3>3. read # <<>>
      BY <2>1, <3>2, <1>2, <1>3, <1>4
    <3> QED  BY <2>1, <3>3, <1>5, ConcatEmptySeq
  <2>2. CASE b # <<>>
    BY <2>2, ConcatEmptySeq DEF read
  <2> QED  BY <2>1, <2>2
<1> HIDE DEF read, loaded
<1>8. Head(loaded) \in S /\ Tail(loaded) \in Seq(S)
  BY <1>6, <1>7, HeadTailProperties
<1>9. SubSeq(s, Len(read) + 1, Len(s)) \in Seq(S)
  <2>1. \A i \in Len(read) + 1 .. Len(s) : s[i] \in S
    BY <1>1, <1>5
  <2> QED  BY <2>1, <1>1, <1>5, SubSeqProperties
<1> QED  BY <1>8, <1>9 DEF read, loaded, m

-----------------------------------------------------------------------------
(* What the handlers do *)

\* What handling the message r of c may change, in a state in which the
\* invariant holds.
Effect(c, r) ==
  /\ name' \in [Conn -> Names \cup {None}]
  /\ DOMAIN writers' \subseteq Names
  /\ \A n \in DOMAIN writers' : writers'[n] \in clients /\ name'[writers'[n]] = n
  /\ \A n \in DOMAIN writers' :
       peer[writers'[n]] = "reset" \/ Says(got'[writers'[n]], "welcome")
  /\ got' \in [Conn -> Seq(Frame)]
  /\ \A d \in Conn : Orderly(got'[d]) /\ Grows(got[d], got'[d])
  /\ gone' = gone \/ gone' = gone \cup {c}
  /\ gone' = gone \/ r.kind = "bad" \/ Says(got'[c], "error") \/ ResetHappened

\* Frames go to the ends of the sequences of their recipients.
LEMMA DeliverEffect ==
  ASSUME got \in [Conn -> Seq(Frame)], \A d \in Conn : Orderly(got[d]),
         NEW S, NEW kind \in Frame,
         kind = "msg" => \A d \in S \cap Conn : Says(got[d], "welcome"),
         Deliver(S, kind)
  PROVE  /\ got' \in [Conn -> Seq(Frame)]
         /\ \A d \in Conn : Orderly(got'[d]) /\ Grows(got[d], got'[d])
         /\ \A d \in S \cap Conn : Says(got'[d], kind)
<1>1. got' = [d \in Conn |-> IF d \in S THEN Append(got[d], kind) ELSE got[d]]
  BY DEF Deliver
<1>2. ASSUME NEW d \in Conn
      PROVE  /\ got'[d] \in Seq(Frame) /\ Orderly(got'[d]) /\ Grows(got[d], got'[d])
             /\ d \in S => Says(got'[d], kind)
  <2>1. CASE d \in S
    <3>1. got'[d] = Append(got[d], kind) /\ got[d] \in Seq(Frame)
      BY <1>1, <2>1
    <3>2. Orderly(got[d]) /\ (kind = "msg" => Says(got[d], "welcome"))
      BY <2>1
    <3> QED  BY <3>1, <3>2, SaidMore
  <2>2. CASE d \notin S
    <3>1. got'[d] = got[d]
      BY <1>1, <2>2
    <3> QED  BY <3>1, <2>2 DEF Grows
  <2> QED  BY <2>1, <2>2
<1> QED  BY <1>1, <1>2

\* As long as names and writers are kept, only the frames and gone matter.
LEMMA KeepEffect ==
  ASSUME IInv, Keep, NEW c \in clients, NEW r,
         got' \in [Conn -> Seq(Frame)],
         \A d \in Conn : Orderly(got'[d]) /\ Grows(got[d], got'[d]),
         gone' = gone \/ gone' = gone \cup {c},
         gone' = gone \/ r.kind = "bad" \/ Says(got'[c], "error") \/ ResetHappened
  PROVE  Effect(c, r)
<1>1. name' = name /\ writers' = writers
  BY DEF Keep
<1>2. \A n \in DOMAIN writers : writers[n] \in Conn
  BY DEF IInv, TypeOK, WritersBelong
<1>3. \A n \in DOMAIN writers :
        peer[writers[n]] = "reset" \/ Says(got'[writers[n]], "welcome")
  BY <1>2 DEF IInv, WelcomeInv, Grows
<1> QED  BY <1>1, <1>3 DEF Effect, IInv, TypeOK, WritersBelong

LEMMA ReplyEffect ==
  ASSUME IInv, NEW c \in clients, NEW r, NEW kind \in {"reply", "error"}, Reply(c, kind)
  PROVE  Effect(c, r)
<1>1. c \in Conn /\ got \in [Conn -> Seq(Frame)] /\ \A d \in Conn : Orderly(got[d])
  BY DEF IInv, TypeOK, MessagesAfterWelcome, Orderly
<1>2. kind \in Frame /\ kind # "msg"
  BY DEF Frame
<1>3. CASE Takes(c)
  <2>1. Keep /\ Deliver({c}, kind) /\ gone' = gone
    BY <1>3 DEF Reply
  <2>2. /\ got' \in [Conn -> Seq(Frame)]
        /\ \A d \in Conn : Orderly(got'[d]) /\ Grows(got[d], got'[d])
    BY <2>1, <1>1, <1>2, DeliverEffect
  <2> QED  BY <2>1, <2>2, KeepEffect
<1>4. CASE ~Takes(c)
  <2>1. Keep /\ got' = got /\ gone' = gone \cup {c}
    BY <1>4 DEF Reply, Disconnect
  <2>2. ResetHappened
    BY <1>1, <1>4 DEF Takes, ResetHappened
  <2> QED  BY <1>1, <2>1, <2>2, KeepEffect DEF Grows
<1> QED  BY <1>3, <1>4

LEMMA UnexpectedEffect ==
  ASSUME IInv, NEW c \in clients, NEW r, Unexpected(c)
  PROVE  Effect(c, r)
<1>1. c \in Conn /\ got \in [Conn -> Seq(Frame)] /\ \A d \in Conn : Orderly(got[d])
  BY DEF IInv, TypeOK, MessagesAfterWelcome, Orderly
<1>2. Keep /\ gone' = gone \cup {c}
  BY DEF Unexpected, Disconnect
<1>3. CASE Takes(c)
  <2>1. Deliver({c}, "error") /\ "error" \in Frame
    BY <1>3 DEF Unexpected, Frame
  <2>2. /\ got' \in [Conn -> Seq(Frame)]
        /\ \A d \in Conn : Orderly(got'[d]) /\ Grows(got[d], got'[d])
        /\ Says(got'[c], "error")
    BY <2>1, <1>1, DeliverEffect
  <2> QED  BY <1>2, <2>2, KeepEffect
<1>4. CASE ~Takes(c)
  <2>1. got' = got
    BY <1>4 DEF Unexpected
  <2>2. ResetHappened
    BY <1>1, <1>4 DEF Takes, ResetHappened
  <2> QED  BY <1>1, <1>2, <2>1, <2>2, KeepEffect DEF Grows
<1> QED  BY <1>3, <1>4

\* A client that has no name yet takes one, also one that is taken: whoever
\* had it is not under that name any more.
LEMMA RegisterEffect ==
  ASSUME IInv, NEW c \in clients, NEW r, NEW n \in Names, name[c] = None,
         Register(c, n)
  PROVE  Effect(c, r)
<1>1. /\ c \in Conn /\ got \in [Conn -> Seq(Frame)] /\ got[c] \in Seq(Frame)
      /\ \A d \in Conn : Orderly(got[d])
      /\ name \in [Conn -> Names \cup {None}] /\ DOMAIN writers \subseteq Names
  BY DEF IInv, TypeOK, MessagesAfterWelcome, Orderly
<1>2. \A m \in DOMAIN writers : writers[m] \in clients /\ writers[m] \in Conn
                                /\ name[writers[m]] = m
  BY DEF IInv, TypeOK, WritersBelong
<1>3. None \notin Names
  BY ClientsAssumption
<1>4. ~Takes(c) => ResetHappened
  BY <1>1 DEF Takes, ResetHappened
<1>5. CASE n \in DOMAIN writers /\ ~Takes(c)
  <2>1. Keep /\ got' = got /\ gone' = gone \cup {c}
    BY <1>5 DEF Register, Disconnect, Keep
  <2> QED  BY <1>1, <1>4, <1>5, <2>1, KeepEffect DEF Grows
<1>6. CASE ~(n \in DOMAIN writers /\ ~Takes(c))
  <2>1. /\ name' = [name EXCEPT ![c] = n]
        /\ writers' = [m \in DOMAIN writers \cup {n} |-> IF m = n THEN c ELSE writers[m]]
    BY <1>6 DEF Register
  <2>2. name' \in [Conn -> Names \cup {None}] /\ DOMAIN writers' \subseteq Names
    BY <1>1, <2>1
  <2>3. ASSUME NEW m \in DOMAIN writers'
        PROVE  writers'[m] \in clients /\ name'[writers'[m]] = m
    <3>1. CASE m = n
      BY <3>1, <1>1, <2>1
    <3>2. CASE m # n
      <4>1. m \in DOMAIN writers /\ writers'[m] = writers[m]
        BY <3>2, <2>1
      <4>2. writers[m] # c
        BY <4>1, <1>1, <1>2, <1>3
      <4> QED  BY <4>1, <4>2, <1>1, <1>2, <2>1
    <3> QED  BY <3>1, <3>2
  <2>4. /\ got' \in [Conn -> Seq(Frame)]
        /\ \A d \in Conn : Orderly(got'[d]) /\ Grows(got[d], got'[d])
        /\ Takes(c) => Says(got'[c], "welcome")
    <3>1. CASE Takes(c)
      <4> DEFINE s == IF n \in DOMAIN writers THEN Append(got[c], "error") ELSE got[c]
      <4>1. got' = [got EXCEPT ![c] = Append(s, "welcome")]
        BY <3>1, <1>1, <1>6 DEF Register
      <4>2. s \in Seq(Frame) /\ Orderly(s) /\ Grows(got[c], s)
        <5>1. "error" \in Frame
          BY DEF Frame
        <5> QED  BY <1>1, <5>1, SaidMore DEF Grows
      <4> HIDE DEF s
      <4>3. /\ Append(s, "welcome") \in Seq(Frame) /\ Orderly(Append(s, "welcome"))
            /\ Grows(s, Append(s, "welcome")) /\ Says(Append(s, "welcome"), "welcome")
        BY <4>2, SaidMore DEF Frame
      <4>4. Grows(got[c], Append(s, "welcome"))
        BY <4>2, <4>3 DEF Grows
      <4>5. got'[c] = Append(s, "welcome") /\ \A d \in Conn \ {c} : got'[d] = got[d]
        BY <4>1, <1>1
      <4>6. \A d \in Conn : Grows(got[d], got[d])
        BY DEF Grows
      <4>7. got' \in [Conn -> Seq(Frame)]
        BY <4>1, <4>3, <1>1
      <4>8. \A d \in Conn : Orderly(got'[d]) /\ Grows(got[d], got'[d])
        BY <4>3, <4>4, <4>5, <4>6, <1>1
      <4> QED  BY <4>3, <4>5, <4>7, <4>8
    <3>2. CASE ~Takes(c)
      <4>1. got' = got
        BY <3>2, <1>6 DEF Register
      <4> QED  BY <4>1, <3>2, <1>1 DEF Grows
    <3> QED  BY <3>1, <3>2
  <2>5. ASSUME NEW m \in DOMAIN writers'
        PROVE  peer[writers'[m]] = "reset" \/ Says(got'[writers'[m]], "welcome")
    <3>1. CASE m = n
      <4>1. writers'[m] = c
        BY <3>1, <2>1
      <4> QED  BY <4>1, <2>4 DEF Takes
    <3>2. CASE m # n
      <4>1. m \in DOMAIN writers /\ writers'[m] = writers[m] /\ writers[m] \in Conn
        BY <3>2, <2>1, <1>2
      <4>2. peer[writers[m]] = "reset" \/ Says(got[writers[m]], "welcome")
        BY <4>1 DEF IInv, WelcomeInv
      <4> QED  BY <4>1, <4>2, <2>4 DEF Grows
    <3> QED  BY <3>1, <3>2
  <2>6. /\ gone' = gone \/ gone' = gone \cup {c}
        /\ gone' = gone \/ ResetHappened
    BY <1>4, <1>6 DEF Register, Disconnect
  <2> QED  BY <2>2, <2>3, <2>4, <2>5, <2>6 DEF Effect
<1> QED  BY <1>5, <1>6

LEMMA DirectMessageEffect ==
  ASSUME IInv, NEW c \in clients, NEW r, NEW n, DirectMessage(c, n)
  PROVE  Effect(c, r)
<1>1. got \in [Conn -> Seq(Frame)] /\ \A d \in Conn : Orderly(got[d])
  BY DEF IInv, TypeOK, MessagesAfterWelcome, Orderly
<1>2. CASE n = name[c] \/ n \notin DOMAIN writers
  <2>1. Reply(c, "error")
    BY <1>2 DEF DirectMessage
  <2> QED  BY <2>1, ReplyEffect
<1>3. CASE ~(n = name[c] \/ n \notin DOMAIN writers)
  <2>1. writers[n] \in Conn /\ (peer[writers[n]] = "reset" \/ Says(got[writers[n]], "welcome"))
    BY <1>3 DEF IInv, TypeOK, WritersBelong, WelcomeInv
  <2>2. CASE Takes(writers[n])
    <3>1. Keep /\ Deliver({writers[n]}, "msg") /\ gone' = gone
      BY <1>3, <2>2 DEF DirectMessage
    <3>2. \A d \in {writers[n]} \cap Conn : Says(got[d], "welcome")
      BY <2>1, <2>2 DEF Takes
    <3>3. /\ got' \in [Conn -> Seq(Frame)]
          /\ \A d \in Conn : Orderly(got'[d]) /\ Grows(got[d], got'[d])
      BY <3>1, <3>2, <1>1, DeliverEffect DEF Frame
    <3> QED  BY <3>1, <3>3, KeepEffect
  <2>3. CASE ~Takes(writers[n])
    <3>1. Keep /\ got' = got /\ gone' = gone \cup {c}
      BY <1>3, <2>3 DEF DirectMessage, Disconnect
    <3>2. ResetHappened
      BY <2>1, <2>3 DEF Takes, ResetHappened
    <3> QED  BY <1>1, <3>1, <3>2, KeepEffect DEF Grows
  <2> QED  BY <2>2, <2>3
<1> QED  BY <1>2, <1>3

LEMMA BroadcastEffect ==
  ASSUME IInv, NEW c \in clients, NEW r, Broadcast(c)
  PROVE  Effect(c, r)
<1> DEFINE to == {writers[n] : n \in DOMAIN writers \ {name[c]}}
           able == {d \in to : Takes(d)}
<1>1. got \in [Conn -> Seq(Frame)] /\ \A d \in Conn : Orderly(got[d])
  BY DEF IInv, TypeOK, MessagesAfterWelcome, Orderly
<1>2. \A d \in to : d \in Conn /\ (peer[d] = "reset" \/ Says(got[d], "welcome"))
  BY DEF IInv, TypeOK, WritersBelong, WelcomeInv
<1>3. \A d \in able : Says(got[d], "welcome")
  BY <1>2 DEF Takes
<1>4. /\ Keep
      /\ \/ able = to /\ Deliver(to, "msg") /\ gone' = gone
         \/ able # to /\ (\E S \in SUBSET able : Deliver(S, "msg")) /\ gone' = gone \cup {c}
  BY DEF Broadcast, Disconnect
<1>5. able # to => ResetHappened
  BY <1>2 DEF Takes, ResetHappened
<1> HIDE DEF to, able
<1>6. PICK S \in SUBSET able : Deliver(S, "msg")
  BY <1>4
<1>7. /\ got' \in [Conn -> Seq(Frame)]
      /\ \A d \in Conn : Orderly(got'[d]) /\ Grows(got[d], got'[d])
  BY <1>1, <1>3, <1>6, DeliverEffect DEF Frame
<1> QED  BY <1>4, <1>5, <1>7, KeepEffect

LEMMA HandleMessageEffect ==
  ASSUME IInv, NEW c \in clients, NEW r \in Request, HandleMessage(c, r)
  PROVE  Effect(c, r)
<1>1. got \in [Conn -> Seq(Frame)] /\ \A d \in Conn : Orderly(got[d])
  BY DEF IInv, TypeOK, MessagesAfterWelcome, Orderly
<1>2. CASE r.kind = "bad" /\ Disconnect(c) /\ Keep /\ UNCHANGED got
  BY <1>1, <1>2, KeepEffect DEF Disconnect, Grows
<1>3. CASE name[c] = None /\ r.kind = "join" /\ Register(c, r.name)
  <2>1. r.name \in Names
    BY <1>3 DEF Request
  <2> QED  BY <1>3, <2>1, RegisterEffect
<1>4. CASE Unexpected(c)
  BY <1>4, UnexpectedEffect
<1>5. CASE Reply(c, "reply")
  BY <1>5, ReplyEffect
<1>6. CASE DirectMessage(c, r.name)
  BY <1>6, DirectMessageEffect
<1>7. CASE Broadcast(c)
  BY <1>7, BroadcastEffect
<1> QED  BY <1>2, <1>3, <1>4, <1>5, <1>6, <1>7 DEF HandleMessage

-----------------------------------------------------------------------------
(* Every step keeps the invariant *)

\* Clients and writers are finite in number.
LEMMA CountClient ==
  ASSUME NEW S \in SUBSET Conn, NEW c \in Conn, Cardinality(S) < MaxClients
  PROVE  Cardinality(S \cup {c}) <= MaxClients
<1>1. IsFiniteSet(S)
  BY ClientsAssumption, FS_Subset
<1>2. Cardinality(S) \in Nat
  BY <1>1, FS_CardinalityType
<1>3. Cardinality(S \cup {c}) = IF c \in S THEN Cardinality(S) ELSE Cardinality(S) + 1
  BY <1>1, FS_AddElement
<1> QED  BY <1>2, <1>3, BoundsAssumption

LEMMA CountFewer ==
  ASSUME NEW S \in SUBSET Conn, NEW T \in SUBSET S, Cardinality(S) <= MaxClients
  PROVE  Cardinality(T) <= MaxClients
<1>1. IsFiniteSet(S)
  BY ClientsAssumption, FS_Subset
<1>2. IsFiniteSet(T) /\ Cardinality(T) <= Cardinality(S)
  BY <1>1, FS_Subset
<1>3. Cardinality(S) \in Nat /\ Cardinality(T) \in Nat
  BY <1>1, <1>2, FS_CardinalityType
<1> QED  BY <1>2, <1>3, BoundsAssumption

LEMMA InitInv == Init => IInv
<1> SUFFICES ASSUME Init PROVE IInv
  OBVIOUS
<1>1. \A S : <<>> \in Seq(S) /\ Len(<<>>) = 0 /\ DOMAIN <<>> = {}
  BY EmptySeq
<1>2. Cardinality({}) <= MaxClients
  BY FS_EmptySet, BoundsAssumption
<1>3. TypeOK
  BY <1>1, <1>2 DEF Init, TypeOK
<1>4. QueueInv
  BY <1>1 DEF Init, QueueInv
<1>5. EventsInv /\ GoneInv
  BY DEF Init, EventsInv, GoneInv
<1>6. WritersBelong /\ WelcomeInv
  BY DEF Init, WritersBelong, WelcomeInv
<1>7. MessagesAfterWelcome
  BY <1>1 DEF Init, MessagesAfterWelcome
<1>8. ScriptInv
  BY <1>1 DEF Init, ScriptInv
<1> QED  BY <1>3, <1>4, <1>5, <1>6, <1>7, <1>8 DEF IInv

LEMMA ConnectInv ==
  ASSUME IInv, NEW c \in Conn, Connect(c)
  PROVE  IInv'
<1>1. /\ peer[c] = "absent" /\ peer' = [peer EXCEPT ![c] = "open"]
      /\ backlog' = Append(backlog, c)
      /\ UNCHANGED <<inbox, sent, got, buffer, clients, name, gone, rejected, writers,
                     poller, events, terminated>>
  BY DEF Connect, mapVars, threadVars
<1>2. /\ peer \in [Conn -> {"absent", "open", "half", "reset"}] /\ backlog \in Seq(Conn)
      /\ Len(backlog) \in Nat
  BY LenProperties DEF IInv, TypeOK
<1>3. /\ backlog' \in Seq(Conn) /\ backlog' # <<>> /\ Len(backlog') = Len(backlog) + 1
      /\ \A i \in 1 .. Len(backlog) : backlog'[i] = backlog[i]
      /\ backlog'[Len(backlog) + 1] = c
  BY <1>1, <1>2, AppendProperties
<1>4. /\ peer' \in [Conn -> {"absent", "open", "half", "reset"}]
      /\ \A d \in Conn : peer'[d] = IF d = c THEN "open" ELSE peer[d]
  BY <1>1, <1>2
<1>5. TypeOK'
  BY <1>1, <1>3, <1>4 DEF IInv, TypeOK
<1>6. QueueInv'
  <2>1. \A i \in 1 .. Len(backlog) : backlog[i] # c
    BY <1>1 DEF IInv, QueueInv
  <2>2. c \notin clients \cup rejected
    BY <1>1 DEF IInv, QueueInv
  <2>3. \A i \in 1 .. Len(backlog') : i \in 1 .. Len(backlog) \/ i = Len(backlog) + 1
    BY <1>2, <1>3
  <2>4. \A i, j \in 1 .. Len(backlog') : backlog'[i] = backlog'[j] => i = j
    BY <1>3, <2>1, <2>3 DEF IInv, QueueInv
  <2>5. \A i \in 1 .. Len(backlog') : backlog'[i] \notin clients' \cup rejected'
    BY <1>1, <1>3, <2>2, <2>3 DEF IInv, QueueInv
  <2>6. ASSUME NEW d \in Conn, peer'[d] = "absent"
        PROVE  /\ d \notin clients' \cup rejected'
               /\ \A i \in 1 .. Len(backlog') : backlog'[i] # d
    <3>1. d # c /\ peer[d] = "absent"
      BY <1>4, <2>6
    <3> QED  BY <3>1, <1>1, <1>3, <2>3 DEF IInv, QueueInv
  <2> QED  BY <2>4, <2>5, <2>6 DEF QueueInv
<1>7. EventsInv'
  BY <1>1, <1>4 DEF IInv, EventsInv, Readable
<1>8. WritersBelong' /\ MessagesAfterWelcome' /\ ScriptInv'
  BY <1>1 DEF IInv, WritersBelong, MessagesAfterWelcome, ScriptInv, Legal, MaySendBad
<1>9. WelcomeInv'
  <2>1. \A n \in DOMAIN writers : writers[n] \in Conn
    BY DEF IInv, TypeOK, WritersBelong
  <2> QED  BY <2>1, <1>1, <1>4 DEF IInv, WelcomeInv, Says
<1>10. GoneInv'
  <2>1. gone \subseteq Conn
    BY DEF IInv, TypeOK
  <2> QED  BY <2>1, <1>1, <1>4 DEF IInv, GoneInv, Done, ResetHappened, MaySendBad, Says
<1> QED  BY <1>5, <1>6, <1>7, <1>8, <1>9, <1>10 DEF IInv

LEMMA SubmitInv ==
  ASSUME IInv, NEW c \in Conn, Submit(c)
  PROVE  IInv'
<1>1. /\ peer[c] = "open" /\ sent[c] < Len(Script[c])
      /\ sent' = [sent EXCEPT ![c] = @ + 1]
      /\ UNCHANGED <<peer, backlog, got, buffer, clients, name, gone, rejected, writers,
                     poller, events, terminated>>
  BY DEF Submit, mapVars, threadVars
<1>2. PICK r \in Script[c][sent[c] + 1] : inbox' = [inbox EXCEPT ![c] = Append(@, r)]
  BY DEF Submit
<1>3. /\ sent \in [Conn -> Nat] /\ inbox \in [Conn -> Seq(Request)]
      /\ \A d \in Conn : inbox[d] \in Seq(Legal(d))
  BY DEF IInv, TypeOK, ScriptInv
<1>4. r \in Legal(c)
  <2>1. Len(Script[c]) \in Nat /\ sent[c] + 1 \in 1 .. Len(Script[c])
    BY <1>1, <1>3, ScriptAssumption
  <2>2. r \in Request
    BY <1>2, <2>1, ScriptAssumption
  <2>3. ASSUME r.kind = "bad"
        PROVE  MaySendBad(c)
    <3>1. r = [kind |-> "bad"]
      BY <2>2, <2>3 DEF Request
    <3>2. sent[c] + 1 \in DOMAIN Script[c]
      BY <2>1, ScriptAssumption
    <3> QED  BY <1>2, <3>1, <3>2 DEF MaySendBad
  <2> QED  BY <2>2, <2>3 DEF Legal
<1>5. /\ Append(inbox[c], r) \in Seq(Legal(c)) /\ Append(inbox[c], r) # <<>>
      /\ Append(inbox[c], r) \in Seq(Request)
  <2>1. r \in Request
    BY <1>4 DEF Legal
  <2> QED  BY <1>3, <1>4, <2>1, AppendProperties
<1>6. /\ inbox' \in [Conn -> Seq(Request)] /\ inbox'[c] # <<>>
      /\ \A d \in Conn : inbox'[d] \in Seq(Legal(d))
      /\ \A d \in Conn \ {c} : inbox'[d] = inbox[d]
  BY <1>2, <1>3, <1>5
<1>7. TypeOK'
  <2>1. sent' \in [Conn -> Nat]
    BY <1>1, <1>3
  <2> QED  BY <2>1, <1>1, <1>6 DEF IInv, TypeOK
<1>8. QueueInv' /\ WritersBelong' /\ WelcomeInv' /\ MessagesAfterWelcome'
  BY <1>1 DEF IInv, QueueInv, WritersBelong, WelcomeInv, MessagesAfterWelcome, Says
<1>9. ScriptInv'
  BY <1>1, <1>6 DEF IInv, ScriptInv, Legal, MaySendBad
<1>10. EventsInv'
  BY <1>1, <1>6 DEF IInv, EventsInv, Readable
<1>11. GoneInv'
  <2>1. \A d \in gone : Done(d) => d # c
    BY <1>1 DEF Done
  <2>2. gone \subseteq Conn
    BY DEF IInv, TypeOK
  <2> QED  BY <2>1, <2>2, <1>1, <1>6 DEF IInv, GoneInv, Done, ResetHappened, MaySendBad, Says
<1> QED  BY <1>7, <1>8, <1>9, <1>10, <1>11 DEF IInv

\* The end of a connection on the client's side, orderly or not.
LEMMA EndInv ==
  ASSUME IInv, NEW c \in Conn, CloseWrite(c) \/ Reset(c)
  PROVE  IInv'
<1>1. PICK how \in {"half", "reset"} :
        /\ peer' = [peer EXCEPT ![c] = how]
        /\ peer[c] \in {"open", "half"} /\ (how = "half" => peer[c] = "open")
  BY DEF CloseWrite, Reset
<1>2. UNCHANGED <<inbox, sent, backlog, got, buffer, clients, name, gone, rejected,
                  writers, poller, events, terminated>>
  BY DEF CloseWrite, Reset, mapVars, threadVars
<1>3. /\ peer' \in [Conn -> {"absent", "open", "half", "reset"}]
      /\ \A d \in Conn : peer'[d] = IF d = c THEN how ELSE peer[d]
  BY <1>1 DEF IInv, TypeOK
<1>4. TypeOK'
  BY <1>2, <1>3 DEF IInv, TypeOK
<1>5. QueueInv'
  BY <1>1, <1>2, <1>3 DEF IInv, QueueInv
<1>6. EventsInv'
  BY <1>1, <1>2, <1>3 DEF IInv, EventsInv, Readable
<1>7. WritersBelong' /\ MessagesAfterWelcome' /\ ScriptInv'
  BY <1>2 DEF IInv, WritersBelong, MessagesAfterWelcome, ScriptInv, Legal, MaySendBad
<1>8. WelcomeInv'
  <2>1. \A n \in DOMAIN writers : writers[n] \in Conn
    BY DEF IInv, TypeOK, WritersBelong
  <2> QED  BY <2>1, <1>1, <1>2, <1>3 DEF IInv, WelcomeInv, Says
<1>9. GoneInv'
  <2> SUFFICES ASSUME NEW d \in gone
               PROVE  (Done(d) \/ Says(got[d], "error") \/ MaySendBad(d) \/ ResetHappened)'
    BY <1>2 DEF GoneInv
  <2>1. gone \subseteq Conn
    BY DEF IInv, TypeOK
  <2>2. CASE Done(d)
    <3>1. CASE d = c
      BY <3>1, <2>2, <1>1, <1>3 DEF Done, ResetHappened
    <3>2. CASE d # c
      BY <3>2, <2>1, <2>2, <1>2, <1>3 DEF Done
    <3> QED  BY <3>1, <3>2
  <2>3. CASE ResetHappened
    BY <2>3, <1>1, <1>3 DEF ResetHappened
  <2>4. CASE Says(got[d], "error") \/ MaySendBad(d)
    BY <2>4, <1>2 DEF Says, MaySendBad
  <2> QED  BY <2>2, <2>3, <2>4 DEF IInv, GoneInv
<1> QED  BY <1>4, <1>5, <1>6, <1>7, <1>8, <1>9 DEF IInv

LEMMA DropInv ==
  ASSUME IInv, Drop
  PROVE  IInv'
<1>1. /\ terminated' = TRUE
      /\ UNCHANGED <<peer, inbox, sent, backlog, got, buffer, clients, name, gone,
                     rejected, writers, poller, events>>
  BY DEF Drop, peerVars, mapVars
<1>2. TypeOK' /\ QueueInv' /\ EventsInv'
  BY <1>1 DEF IInv, TypeOK, QueueInv, EventsInv, Readable
<1>3. WritersBelong' /\ WelcomeInv' /\ MessagesAfterWelcome'
  BY <1>1 DEF IInv, WritersBelong, WelcomeInv, MessagesAfterWelcome, Says
<1>4. ScriptInv' /\ GoneInv'
  BY <1>1 DEF IInv, ScriptInv, GoneInv, Legal, MaySendBad, Done, Says, ResetHappened
<1> QED  BY <1>2, <1>3, <1>4 DEF IInv

LEMMA WaitInv ==
  ASSUME IInv, Wait
  PROVE  IInv'
<1>1. /\ events' = Ready /\ poller' = "handle"
      /\ UNCHANGED <<peer, inbox, sent, backlog, got, buffer, clients, name, gone,
                     rejected, writers, terminated>>
  BY DEF Wait, peerVars, mapVars
<1>2. /\ Ready \subseteq clients \cup rejected \cup {Listener}
      /\ Ready \cap Conn \subseteq {c \in Conn : Readable(c)}
      /\ Listener \in Ready => backlog # <<>>
  BY ClientsAssumption DEF Ready, IInv, TypeOK
<1>3. TypeOK'
  BY <1>1, <1>2 DEF IInv, TypeOK
<1>4. QueueInv' /\ WritersBelong' /\ WelcomeInv' /\ MessagesAfterWelcome'
  BY <1>1 DEF IInv, QueueInv, WritersBelong, WelcomeInv, MessagesAfterWelcome, Says
<1>5. EventsInv'
  BY <1>1, <1>2 DEF EventsInv, Readable
<1>6. ScriptInv' /\ GoneInv'
  BY <1>1 DEF IInv, ScriptInv, GoneInv, Legal, MaySendBad, Done, Says, ResetHappened
<1> QED  BY <1>3, <1>4, <1>5, <1>6 DEF IInv

LEMMA AcceptInv ==
  ASSUME IInv, Accept
  PROVE  IInv'
<1> DEFINE c == Head(backlog)
<1>1. /\ Listener \in events /\ backlog' = Tail(backlog) /\ events' = events \ {Listener}
      /\ UNCHANGED <<peer, inbox, sent, got, buffer, name, gone, writers, poller, terminated>>
  BY DEF Accept, peerVars
<1>2. \/ Cardinality(clients) >= MaxClients /\ rejected' = rejected \cup {c} /\ clients' = clients
      \/ ~(Cardinality(clients) >= MaxClients) /\ clients' = clients \cup {c} /\ rejected' = rejected
  BY DEF Accept
<1>3. backlog \in Seq(Conn) /\ backlog # <<>>
  BY <1>1 DEF IInv, TypeOK
<1>4. /\ Tail(backlog) \in Seq(Conn) /\ Len(Tail(backlog)) = Len(backlog) - 1
      /\ \A i \in 1 .. Len(Tail(backlog)) : Tail(backlog)[i] = backlog[i + 1]
  BY <1>3, HeadTailProperties
<1>5. Len(backlog) \in Nat \ {0} /\ c = backlog[1] /\ c \in Conn
  BY <1>3, EmptySeq, HeadTailProperties
<1> HIDE DEF c
<1>6. /\ c \notin clients \cup rejected /\ peer[c] # "absent"
      /\ \A i \in 1 .. Len(backlog') : backlog'[i] # c
  <2>1. 1 \in 1 .. Len(backlog)
    BY <1>5
  <2>2. c \notin clients \cup rejected /\ peer[c] # "absent"
    BY <1>5, <2>1 DEF IInv, QueueInv
  <2>3. ASSUME NEW i \in 1 .. Len(backlog')
        PROVE  backlog'[i] # c
    <3>1. i + 1 \in 1 .. Len(backlog) /\ i + 1 # 1 /\ backlog'[i] = backlog[i + 1]
      BY <1>1, <1>4, <1>5
    <3> QED  BY <3>1, <2>1, <1>5 DEF IInv, QueueInv
  <2> QED  BY <2>2, <2>3
<1>7. Cardinality(clients') <= MaxClients
  <2>1. CASE clients' = clients
    BY <2>1 DEF IInv, TypeOK
  <2>2. CASE ~(Cardinality(clients) >= MaxClients) /\ clients' = clients \cup {c}
    <3>1. clients \in SUBSET Conn
      BY DEF IInv, TypeOK
    <3>2. Cardinality(clients) \in Nat
      BY <3>1, ClientsAssumption, FS_Subset, FS_CardinalityType
    <3>3. Cardinality(clients) < MaxClients
      BY <2>2, <3>2, BoundsAssumption
    <3> QED  BY <2>2, <3>1, <3>3, <1>5, CountClient
  <2> QED  BY <1>2, <2>1, <2>2
<1>8. TypeOK'
  <2>1. clients' \subseteq Conn /\ rejected' \subseteq Conn \ clients'
    BY <1>2, <1>5, <1>6 DEF IInv, TypeOK
  <2>2. gone' \subseteq clients' /\ events' \subseteq clients' \cup rejected' \cup {Listener}
    BY <1>1, <1>2 DEF IInv, TypeOK
  <2> QED  BY <2>1, <2>2, <1>1, <1>4, <1>7 DEF IInv, TypeOK
<1>9. QueueInv'
  <2>1. ASSUME NEW i \in 1 .. Len(backlog')
        PROVE  /\ i + 1 \in 1 .. Len(backlog) /\ backlog'[i] = backlog[i + 1]
    BY <1>1, <1>4, <1>5
  <2>2. \A i, j \in 1 .. Len(backlog') : backlog'[i] = backlog'[j] => i = j
    <3> SUFFICES ASSUME NEW i \in 1 .. Len(backlog'), NEW j \in 1 .. Len(backlog'),
                        backlog'[i] = backlog'[j]
                 PROVE  i = j
      OBVIOUS
    <3>1. i + 1 = j + 1
      BY <2>1 DEF IInv, QueueInv
    <3> QED  BY <3>1
  <2>3. \A i \in 1 .. Len(backlog') : backlog'[i] \notin clients' \cup rejected'
    BY <1>2, <1>6, <2>1 DEF IInv, QueueInv
  <2>4. \A d \in Conn : peer'[d] = "absent" =>
          d \notin clients' \cup rejected' /\ \A i \in 1 .. Len(backlog') : backlog'[i] # d
    BY <1>1, <1>2, <1>6, <2>1 DEF IInv, QueueInv
  <2> QED  BY <2>2, <2>3, <2>4 DEF QueueInv
<1>10. EventsInv' /\ ScriptInv' /\ GoneInv'
  BY <1>1 DEF IInv, EventsInv, Readable, ScriptInv, GoneInv, Legal, MaySendBad, Done, Says,
              ResetHappened
<1>11. WritersBelong' /\ WelcomeInv' /\ MessagesAfterWelcome'
  BY <1>1, <1>2 DEF IInv, WritersBelong, WelcomeInv, MessagesAfterWelcome, Says
<1> QED  BY <1>8, <1>9, <1>10, <1>11 DEF IInv

LEMMA ReceiveInv ==
  ASSUME IInv, NEW c \in Conn, Receive(c)
  PROVE  IInv'
<1> DEFINE s == inbox[c]
           b == buffer[c]
           read == IF b = <<>> THEN Loads(c) ELSE <<>>
           r == Head(b \o read)
           b1 == Tail(b \o read)
           s1 == SubSeq(s, Len(read) + 1, Len(s))
<1>1. /\ c \in events \cap clients /\ b \o s # <<>>
      /\ HandleMessage(c, r)
      /\ buffer' = [buffer EXCEPT ![c] = b1]
      /\ inbox' = [inbox EXCEPT ![c] = s1]
      /\ events' = events \ {c}
      /\ UNCHANGED <<peer, sent, backlog, clients, rejected, poller, terminated>>
  BY DEF Receive, IInv, TypeOK
<1>2. /\ s \in Seq(Legal(c)) /\ b \in Seq(Legal(c))
      /\ inbox \in [Conn -> Seq(Request)] /\ buffer \in [Conn -> Seq(Request)]
  BY DEF IInv, TypeOK, ScriptInv
<1>3. r \in Legal(c) /\ b1 \in Seq(Legal(c)) /\ s1 \in Seq(Legal(c))
  BY <1>1, <1>2, BoundsAssumption, Loading DEF Loads
<1>4. Done(c) => FALSE
  BY <1>1, <1>2, ConcatEqualIffEmpty DEF Done
<1> HIDE DEF s, b, read, r, b1, s1
<1>5. Legal(c) \subseteq Request
  BY DEF Legal
<1>6. r \in Request /\ b1 \in Seq(Request) /\ s1 \in Seq(Request)
  BY <1>3, <1>5, SeqMonotonic
<1>7. Effect(c, r)
  BY <1>1, <1>6, HandleMessageEffect
<1>8. /\ inbox' \in [Conn -> Seq(Request)] /\ buffer' \in [Conn -> Seq(Request)]
      /\ \A d \in Conn : inbox'[d] \in Seq(Legal(d)) /\ buffer'[d] \in Seq(Legal(d))
      /\ \A d \in Conn \ {c} : inbox'[d] = inbox[d] /\ buffer'[d] = buffer[d]
  <2>1. \A d \in Conn : inbox[d] \in Seq(Legal(d)) /\ buffer[d] \in Seq(Legal(d))
    BY DEF IInv, ScriptInv
  <2> QED  BY <1>1, <1>2, <1>3, <1>6, <2>1
<1>9. gone \subseteq clients /\ clients \subseteq Conn
  BY DEF IInv, TypeOK
<1>10. TypeOK'
  <2>1. gone' \subseteq clients'
    BY <1>1, <1>7, <1>9 DEF Effect
  <2>2. events' \subseteq clients' \cup rejected' \cup {Listener}
        /\ (Listener \in events' => backlog' # <<>>)
    BY <1>1 DEF IInv, TypeOK
  <2> QED  BY <2>1, <2>2, <1>1, <1>7, <1>8 DEF IInv, TypeOK, Effect
<1>11. QueueInv'
  BY <1>1 DEF IInv, QueueInv
<1>12. EventsInv'
  BY <1>1, <1>8 DEF IInv, EventsInv, Readable
<1>13. WritersBelong'
  BY <1>1, <1>7 DEF WritersBelong, Effect
<1>14. WelcomeInv'
  BY <1>1, <1>7 DEF WelcomeInv, Effect, Says
<1>15. MessagesAfterWelcome'
  BY <1>7 DEF MessagesAfterWelcome, Effect, Orderly
<1>16. ScriptInv'
  BY <1>8 DEF ScriptInv, Legal, MaySendBad
<1>17. GoneInv'
  <2> SUFFICES ASSUME NEW d \in gone'
               PROVE  (Done(d) \/ Says(got[d], "error") \/ MaySendBad(d) \/ ResetHappened)'
    BY DEF GoneInv
  <2>1. d \in Conn
    BY <1>1, <1>7, <1>9 DEF Effect
  <2>2. CASE d \in gone
    <3>1. Done(d) => d # c
      BY <1>4
    <3>2. Done(d) => Done(d)'
      BY <3>1, <2>1, <1>1, <1>8 DEF Done
    <3>3. Says(got[d], "error") => Says(got[d], "error")'
      BY <2>1, <1>7 DEF Effect, Grows, Says
    <3> QED  BY <2>2, <3>2, <3>3, <1>1 DEF IInv, GoneInv, MaySendBad, ResetHappened
  <2>3. CASE d \notin gone
    <3>1. d = c /\ gone' # gone
      BY <2>3, <1>7 DEF Effect
    <3>2. r.kind = "bad" \/ Says(got'[c], "error") \/ ResetHappened
      BY <3>1, <1>7 DEF Effect
    <3>3. r.kind = "bad" => MaySendBad(c)
      BY <1>3 DEF Legal
    <3> QED  BY <3>1, <3>2, <3>3, <1>1 DEF MaySendBad, ResetHappened, Says
  <2> QED  BY <2>2, <2>3
<1> QED  BY <1>10, <1>11, <1>12, <1>13, <1>14, <1>15, <1>16, <1>17 DEF IInv

\* A connection is found to have nothing more only when its end is in sight.
LEMMA ReadEndInv ==
  ASSUME IInv, NEW c \in Conn, ReadEnd(c)
  PROVE  IInv'
<1>1. /\ c \in events \cap clients /\ buffer[c] \o inbox[c] = <<>>
      /\ gone' = gone \cup {c} /\ events' = events \ {c}
      /\ UNCHANGED <<peer, inbox, sent, backlog, got, buffer, clients, name, rejected,
                     writers, poller, terminated>>
  BY DEF ReadEnd, Disconnect, peerVars
<1>2. inbox[c] = <<>> /\ buffer[c] = <<>>
  BY <1>1, ConcatEqualIffEmpty DEF IInv, TypeOK
<1>3. Done(c) \/ ResetHappened
  BY <1>1, <1>2 DEF IInv, EventsInv, Readable, Done, ResetHappened
<1>4. TypeOK'
  BY <1>1 DEF IInv, TypeOK
<1>5. QueueInv' /\ WritersBelong' /\ WelcomeInv' /\ MessagesAfterWelcome'
  BY <1>1 DEF IInv, QueueInv, WritersBelong, WelcomeInv, MessagesAfterWelcome, Says
<1>6. EventsInv' /\ ScriptInv'
  BY <1>1 DEF IInv, EventsInv, Readable, ScriptInv, Legal, MaySendBad
<1>7. GoneInv'
  BY <1>1, <1>3 DEF IInv, GoneInv, Done, Says, MaySendBad, ResetHappened
<1> QED  BY <1>4, <1>5, <1>6, <1>7 DEF IInv

LEMMA StopInv ==
  ASSUME IInv, NEW how \in {"ended", "dead"}, Stop(how),
         UNCHANGED <<peer, inbox, sent, got, buffer, terminated>>
  PROVE  IInv'
<1>1. /\ poller' = how /\ events' = {} /\ clients' = {} /\ gone' = {} /\ rejected' = {}
      /\ DOMAIN writers' = {} /\ backlog' = <<>> /\ name' = name
  BY DEF Stop
<1>2. <<>> \in Seq(Conn) /\ Len(<<>>) = 0
  BY EmptySeq
<1>3. Cardinality({}) <= MaxClients
  BY FS_EmptySet, BoundsAssumption
<1>4. TypeOK'
  BY <1>1, <1>2, <1>3 DEF IInv, TypeOK
<1>5. QueueInv'
  BY <1>1, <1>2 DEF QueueInv
<1>6. EventsInv' /\ WritersBelong' /\ WelcomeInv' /\ GoneInv'
  BY <1>1 DEF EventsInv, WritersBelong, WelcomeInv, GoneInv
<1>7. MessagesAfterWelcome' /\ ScriptInv'
  BY DEF IInv, MessagesAfterWelcome, ScriptInv, Legal, MaySendBad
<1> QED  BY <1>4, <1>5, <1>6, <1>7 DEF IInv

LEMMA RefuseInv ==
  ASSUME IInv, NEW c \in Conn, Refuse(c)
  PROVE  IInv'
<1>1. UNCHANGED <<peer, inbox, sent, buffer, terminated>>
  BY DEF Refuse, peerVars
<1>2. CASE Takes(c)
  <2>1. /\ events' = events \ {c}
        /\ UNCHANGED <<clients, name, gone, rejected, writers, backlog, poller>>
    BY <1>2 DEF Refuse, mapVars
  <2>2. Deliver({c}, "full") \/ got' = got
    BY <1>2 DEF Refuse
  <2>3. /\ got' \in [Conn -> Seq(Frame)]
        /\ \A d \in Conn : Orderly(got'[d]) /\ Grows(got[d], got'[d])
    <3>1. got \in [Conn -> Seq(Frame)] /\ \A d \in Conn : Orderly(got[d])
      BY DEF IInv, TypeOK, MessagesAfterWelcome, Orderly
    <3>2. CASE Deliver({c}, "full")
      BY <3>1, <3>2, DeliverEffect DEF Frame
    <3>3. CASE got' = got
      BY <3>1, <3>3 DEF Grows
    <3> QED  BY <2>2, <3>2, <3>3
  <2>4. TypeOK'
    BY <1>1, <2>1, <2>3 DEF IInv, TypeOK
  <2>5. QueueInv' /\ EventsInv' /\ WritersBelong' /\ ScriptInv'
    BY <1>1, <2>1 DEF IInv, QueueInv, EventsInv, Readable, WritersBelong, ScriptInv, Legal,
                      MaySendBad
  <2>6. WelcomeInv'
    <3>1. \A n \in DOMAIN writers : writers[n] \in Conn
      BY DEF IInv, TypeOK, WritersBelong
    <3>2. \A d \in Conn : Says(got[d], "welcome") => Says(got'[d], "welcome")
      BY <2>3 DEF Grows
    <3> QED  BY <3>1, <3>2, <1>1, <2>1 DEF IInv, WelcomeInv, Says
  <2>7. MessagesAfterWelcome'
    BY <2>3 DEF MessagesAfterWelcome, Orderly
  <2>8. GoneInv'
    <3>1. gone \subseteq Conn
      BY DEF IInv, TypeOK
    <3>2. \A d \in gone : Says(got[d], "error") => Says(got'[d], "error")
      BY <3>1, <2>3 DEF Grows
    <3> QED  BY <3>2, <1>1, <2>1 DEF IInv, GoneInv, Done, MaySendBad, ResetHappened, Says
  <2> QED  BY <2>4, <2>5, <2>6, <2>7, <2>8 DEF IInv
<1>3. CASE ~Takes(c)
  <2>1. Stop("dead") /\ got' = got
    BY <1>3 DEF Refuse
  <2> QED  BY <1>1, <2>1, StopInv
<1> QED  BY <1>2, <1>3

\* The cleanup removes every name of a client that leaves, so that no writer
\* of it is left.
LEMMA NextRoundInv ==
  ASSUME IInv, NextRound
  PROVE  IInv'
<1>1. events = {} /\ UNCHANGED <<peer, inbox, sent, got, buffer, terminated>>
  BY DEF NextRound, peerVars
<1>2. CASE (\E c \in gone : peer[c] = "reset") \/ terminated
  <2>1. Stop("dead") \/ Stop("ended")
    BY <1>2 DEF NextRound
  <2> QED  BY <1>1, <2>1, StopInv
<1>3. CASE ~((\E c \in gone : peer[c] = "reset") \/ terminated)
  <2> DEFINE left == DOMAIN writers \ {name[c] : c \in gone}
  <2>1. /\ poller' = "wait" /\ clients' = clients \ gone /\ gone' = {}
        /\ writers' = Restrict(writers, left)
        /\ UNCHANGED <<name, rejected, backlog, events>>
    BY <1>3 DEF NextRound
  <2>2. DOMAIN writers' = left /\ \A n \in left : writers'[n] = writers[n]
    BY <2>1 DEF Restrict
  <2>3. /\ left \subseteq DOMAIN writers
        /\ \A n \in left : \A c \in gone : name[c] # n
    OBVIOUS
  <2> HIDE DEF left
  <2>4. Cardinality(clients') <= MaxClients
    BY <2>1, CountFewer DEF IInv, TypeOK
  <2>5. TypeOK'
    BY <1>1, <2>1, <2>2, <2>3, <2>4 DEF IInv, TypeOK
  <2>6. QueueInv'
    BY <1>1, <2>1 DEF IInv, QueueInv
  <2>7. EventsInv' /\ GoneInv'
    BY <1>1, <2>1 DEF EventsInv, GoneInv
  <2>8. WritersBelong'
    BY <2>1, <2>2, <2>3 DEF IInv, WritersBelong
  <2>9. WelcomeInv'
    BY <1>1, <2>2, <2>3 DEF IInv, WelcomeInv, Says
  <2>10. MessagesAfterWelcome' /\ ScriptInv'
    BY <1>1 DEF IInv, MessagesAfterWelcome, ScriptInv, Legal, MaySendBad
  <2> QED  BY <2>5, <2>6, <2>7, <2>8, <2>9, <2>10 DEF IInv
<1> QED  BY <1>2, <1>3

LEMMA StutterInv ==
  ASSUME IInv, UNCHANGED vars
  PROVE  IInv'
<1>1. UNCHANGED <<peer, inbox, sent, backlog, got, buffer, clients, name, gone, rejected,
                  writers, poller, events, terminated>>
  BY DEF vars, peerVars, mapVars, threadVars
<1>2. TypeOK' /\ QueueInv' /\ EventsInv'
  BY <1>1 DEF IInv, TypeOK, QueueInv, EventsInv, Readable
<1>3. WritersBelong' /\ WelcomeInv' /\ MessagesAfterWelcome'
  BY <1>1 DEF IInv, WritersBelong, WelcomeInv, MessagesAfterWelcome, Says
<1>4. ScriptInv' /\ GoneInv'
  BY <1>1 DEF IInv, ScriptInv, GoneInv, Legal, MaySendBad, Done, Says, ResetHappened
<1> QED  BY <1>2, <1>3, <1>4 DEF IInv

LEMMA StepInv == IInv /\ [Next]_vars => IInv'
<1> SUFFICES ASSUME IInv, [Next]_vars PROVE IInv'
  OBVIOUS
<1>1. CASE Wait
  BY <1>1, WaitInv
<1>2. CASE Accept
  BY <1>2, AcceptInv
<1>3. CASE \E c \in Conn : Receive(c) \/ ReadEnd(c) \/ Refuse(c)
  BY <1>3, ReceiveInv, ReadEndInv, RefuseInv
<1>4. CASE NextRound
  BY <1>4, NextRoundInv
<1>5. CASE Drop
  BY <1>5, DropInv
<1>6. CASE \E c \in Conn : ClientStep(c)
  BY <1>6, ConnectInv, SubmitInv, EndInv DEF ClientStep
<1>7. CASE UNCHANGED vars
  BY <1>7, StutterInv
<1> QED  BY <1>1, <1>2, <1>3, <1>4, <1>5, <1>6, <1>7 DEF Next, PollerStep, HandleEvent

-----------------------------------------------------------------------------
(* The theorems *)

\* The invariant holds in every reachable state.
THEOREM Invariance == Spec => []IInv
BY InitInv, StepInv, PTL DEF Spec

\* The types, the limit on the served clients and the events of the poller:
\* TypeOK of Server::accept_and_setup_client and process_events.
THEOREM TypeCorrect == Spec => []TypeOK
<1>1. IInv => TypeOK
  BY DEF IInv
<1> QED  BY <1>1, Invariance, PTL

\* cleanup_disconnected and Join leave no writer that outlives its client,
\* whatever names the clients claim and in whatever order they leave.
THEOREM WritersCorrect == Spec => []WritersBelong
<1>1. IInv => WritersBelong
  BY DEF IInv
<1> QED  BY <1>1, Invariance, PTL

\* No client gets a message of another before its Welcome.
THEOREM WelcomeFirst == Spec => []MessagesAfterWelcome
<1>1. IInv => MessagesAfterWelcome
  BY DEF IInv
<1> QED  BY <1>1, Invariance, PTL

\* A step lets a client go only for one of the reasons for which it is in gone.
LEMMA StepLeaves ==
  IInv /\ [Next]_vars =>
    \A c \in clients \ clients' :
      \/ Stopped'
      \/ peer[c] = "half" /\ inbox[c] = <<>> /\ buffer[c] = <<>>
      \/ "error" \in Range(got[c]) \/ MaySendBad(c)
      \/ \E d \in Conn : peer[d] = "reset"
<1> SUFFICES ASSUME IInv, [Next]_vars, NEW c \in clients, c \notin clients'
             PROVE  \/ Stopped' \/ Done(c) \/ "error" \in Range(got[c]) \/ MaySendBad(c)
                    \/ ResetHappened
  BY DEF Done, ResetHappened
<1>1. clients' = clients \/ Accept \/ NextRound \/ \E d \in Conn : Refuse(d)
  BY DEF Next, PollerStep, HandleEvent, ClientStep, Wait, Receive, ReadEnd, Drop, Connect,
         Submit, CloseWrite, Reset, vars, mapVars
<1>2. CASE Accept
  <2>1. clients \subseteq clients'
    BY <1>2 DEF Accept
  <2> QED  BY <2>1
<1>3. CASE \E d \in Conn : Refuse(d)
  BY <1>3 DEF Refuse, mapVars, Stop, Stopped
<1>4. CASE NextRound
  <2>1. CASE Stop("dead") \/ Stop("ended")
    BY <2>1 DEF Stop, Stopped
  <2>2. CASE clients' = clients \ gone
    <3>1. c \in gone
      BY <2>2
    <3>2. Done(c) \/ Says(got[c], "error") \/ MaySendBad(c) \/ ResetHappened
      BY <3>1 DEF IInv, GoneInv
    <3>3. DOMAIN got[c] = 1 .. Len(got[c])
      BY LenProperties DEF IInv, TypeOK
    <3>4. Says(got[c], "error") => "error" \in Range(got[c])
      BY <3>3 DEF Says, Range
    <3> QED  BY <3>2, <3>4
  <2> QED  BY <1>4, <2>1, <2>2 DEF NextRound
<1> QED  BY <1>1, <1>2, <1>3, <1>4

\* try_recv_msg and cleanup_disconnected let a client that behaves go only
\* when all it has sent is handled: no frame is lost in a reader's buffer.
THEOREM LeavingCorrect == Spec => LeavesOnlyWhenDone
BY Invariance, StepLeaves, PTL DEF Spec, LeavesOnlyWhenDone
=============================================================================
