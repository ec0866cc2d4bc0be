-------------------------- MODULE ChatHarness_proofs --------------------------
(***************************************************************************)
(* What the scripts of a test keep, whatever the tests are: for the proofs *)
(* about the servers of lessons 10 and 10_parallel.                        *)
(***************************************************************************)
EXTENDS ChatHarness, SequenceTheorems, TLAPS

NetType ==
  /\ test \in DOMAIN Tests
  /\ conn \in [Conn -> {"absent", "open", "half", "dropped"}]
  /\ backlog \in Seq(Conn) /\ closed \subseteq Conn
  /\ inbox \in [Conn -> Seq(Request)] /\ got \in [Conn -> Seq(Reply)]
  /\ seen \in [Conn -> Nat]

Queued(c) == \E i \in 1 .. Len(backlog) : backlog[i] = c

\* A connection waits for the listener once, and not before there is one.
BacklogInv ==
  /\ \A i, j \in 1 .. Len(backlog) : backlog[i] = backlog[j] => i = j
  /\ \A c \in Conn : conn[c] = "absent" => ~Queued(c)

\* Clients come and go in one direction.
Onward ==
  \A c \in Conn :
    /\ conn'[c] = "absent" => conn[c] = "absent"
    /\ conn[c] = "dropped" => conn'[c] = "dropped"
    /\ Queued(c)' => Queued(c) \/ conn[c] = "absent"

-----------------------------------------------------------------------------
(* The backlog *)

\* A new connection waits behind the others.
LEMMA Enqueued ==
  ASSUME NetType, BacklogInv, NEW c \in Conn, ~Queued(c), backlog' = Append(backlog, c)
  PROVE  /\ backlog' \in Seq(Conn)
         /\ \A i, j \in 1 .. Len(backlog') : backlog'[i] = backlog'[j] => i = j
         /\ \A d : Queued(d)' => Queued(d) \/ d = c
<1>1. /\ backlog \in Seq(Conn) /\ Len(backlog) \in Nat
      /\ backlog' \in Seq(Conn) /\ Len(backlog') = Len(backlog) + 1
      /\ backlog'[Len(backlog) + 1] = c
      /\ \A i \in 1 .. Len(backlog) : backlog'[i] = backlog[i]
  BY AppendProperties, LenProperties DEF NetType
<1>2. \A i \in 1 .. Len(backlog') : i \in 1 .. Len(backlog) \/ i = Len(backlog) + 1
  BY <1>1
<1>3. \A i, j \in 1 .. Len(backlog') : backlog'[i] = backlog'[j] => i = j
  BY <1>1, <1>2 DEF BacklogInv, Queued
<1>4. \A d : Queued(d)' => Queued(d) \/ d = c
  BY <1>1, <1>2 DEF Queued
<1> QED  BY <1>1, <1>3, <1>4

\* The listener takes the connection that has waited longest.
LEMMA Dequeued ==
  ASSUME NetType, BacklogInv, backlog # <<>>, backlog' = Tail(backlog)
  PROVE  /\ Head(backlog) \in Conn /\ Queued(Head(backlog))
         /\ backlog' \in Seq(Conn)
         /\ \A i, j \in 1 .. Len(backlog') : backlog'[i] = backlog'[j] => i = j
         /\ \A d : Queued(d)' => Queued(d) /\ d # Head(backlog)
<1>1. /\ backlog \in Seq(Conn) /\ Len(backlog) \in Nat /\ Len(backlog) # 0
      /\ Head(backlog) \in Conn /\ Head(backlog) = backlog[1]
      /\ backlog' \in Seq(Conn) /\ Len(backlog') = Len(backlog) - 1
      /\ \A i \in 1 .. Len(backlog') : backlog'[i] = backlog[i + 1]
  BY HeadTailProperties, LenProperties, EmptySeq DEF NetType
<1>2. \A i \in 1 .. Len(backlog') : i + 1 \in 1 .. Len(backlog) /\ i + 1 # 1
  BY <1>1
<1>3. 1 \in 1 .. Len(backlog)
  BY <1>1
<1>4. \A i, j \in 1 .. Len(backlog') : backlog'[i] = backlog'[j] => i = j
  <2> SUFFICES ASSUME NEW i \in 1 .. Len(backlog'), NEW j \in 1 .. Len(backlog'),
                      backlog'[i] = backlog'[j]
               PROVE  i = j
    OBVIOUS
  <2>1. i + 1 = j + 1
    BY <1>1, <1>2 DEF BacklogInv
  <2> QED  BY <2>1
<1>5. \A d : Queued(d)' => Queued(d) /\ d # Head(backlog)
  <2> SUFFICES ASSUME NEW d, NEW i \in 1 .. Len(backlog'), backlog'[i] = d
               PROVE  Queued(d) /\ d # Head(backlog)
    BY DEF Queued
  <2>1. backlog[i + 1] = d /\ i + 1 \in 1 .. Len(backlog) /\ i + 1 # 1
    BY <1>1, <1>2
  <2>2. backlog[1] # d
    BY <2>1, <1>3 DEF BacklogInv
  <2> QED  BY <2>1, <2>2, <1>1 DEF Queued
<1> QED  BY <1>1, <1>3, <1>4, <1>5 DEF Queued

-----------------------------------------------------------------------------
(* The steps of a script *)

\* The fields of a step, by its operation.
LEMMA StepFields ==
  ASSUME NEW s \in Step
  PROVE  /\ s.op \notin {"sleep", "welcomed"} => s.who \in Conn
         /\ s.op \in {"send", "try", "last"} => s.req \in Request
         /\ s.op = "choose" => s.reqs \in SUBSET Request
         /\ s.op = "leave" => s.how \in SUBSET Leaving
BY DEF Step

LEMMA NowIsStep ==
  ASSUME NetType, NEW t \in Threads, Active(t)
  PROVE  Now(t) \in Step
BY HarnessAssumption DEF NetType, Active, Threads, Now, Blocks

\* A message goes behind those that are on their way.
LEMMA Posted ==
  ASSUME NetType, NEW c \in Conn, NEW r \in Request,
         inbox' = [inbox EXCEPT ![c] = Append(@, r)]
  PROVE  inbox' \in [Conn -> Seq(Request)]
<1>1. inbox[c] \in Seq(Request)
  BY DEF NetType
<1>2. Append(inbox[c], r) \in Seq(Request)
  BY <1>1, AppendProperties
<1> QED  BY <1>2 DEF NetType

\* Nothing that the clients do breaks the types or the backlog.
LEMMA ScriptKeeps ==
  ASSUME NetType, BacklogInv, NEW STATE quiet, NEW STATE overdue, ScriptStep(quiet, overdue)
  PROVE  NetType' /\ BacklogInv' /\ Onward /\ closed' = closed /\ got' = got
<1>1. CASE EndBlock
  BY <1>1 DEF EndBlock, netVars, NetType, BacklogInv, Onward, Queued
<1>2. ASSUME NEW t \in Threads, Active(t),
             \/ DoConnect(t) \/ DoSend(t) \/ DoChoose(t) \/ DoReceive(t)
             \/ DoClose(t) \/ DoCheckClosed(t) \/ DoSleep(t, quiet, overdue) \/ DoAssert(t)
      PROVE  NetType' /\ BacklogInv' /\ Onward /\ closed' = closed /\ got' = got
  <2> DEFINE c == Now(t).who
  <2>1. Now(t) \in Step
    BY <1>2, NowIsStep
  <2>2. /\ Now(t).op \notin {"sleep", "welcomed"} => c \in Conn
        /\ Now(t).op \in {"send", "try", "last"} => Now(t).req \in Request
        /\ Now(t).op = "choose" => Now(t).reqs \in SUBSET Request
        /\ Now(t).op = "leave" => Now(t).how \in SUBSET Leaving
    BY <2>1, StepFields
  <2>3. CASE DoConnect(t)
    <3>1. /\ c \in Conn /\ conn[c] = "absent" /\ backlog' = Append(backlog, c)
          /\ conn' = [conn EXCEPT ![c] = "open"]
          /\ test' = test /\ closed' = closed /\ inbox' = inbox /\ got' = got /\ seen' = seen
      BY <2>3, <2>2 DEF DoConnect, Pass
    <3>2. ~Queued(c)
      BY <3>1 DEF BacklogInv
    <3>3. /\ backlog' \in Seq(Conn)
          /\ \A i, j \in 1 .. Len(backlog') : backlog'[i] = backlog'[j] => i = j
          /\ \A d : Queued(d)' => Queued(d) \/ d = c
      BY <3>1, <3>2, Enqueued
    <3>4. conn' \in [Conn -> {"absent", "open", "half", "dropped"}] /\ conn'[c] = "open"
          /\ \A d \in Conn : d # c => conn'[d] = conn[d]
      BY <3>1 DEF NetType
    <3>5. NetType'
      BY <3>1, <3>3, <3>4 DEF NetType
    <3>6. BacklogInv'
      <4>1. \A d \in Conn : conn'[d] = "absent" => ~Queued(d)'
        BY <3>3, <3>4 DEF BacklogInv
      <4> QED  BY <3>3, <4>1 DEF BacklogInv
    <3>7. Onward
      BY <3>1, <3>3, <3>4 DEF Onward
    <3> QED  BY <3>1, <3>5, <3>6, <3>7
  <2>4. CASE DoSend(t)
    <3>1. /\ conn' = conn /\ backlog' = backlog /\ got' = got /\ seen' = seen /\ closed' = closed
          /\ test' = test
          /\ inbox' = inbox \/ inbox' = [inbox EXCEPT ![c] = Append(@, Now(t).req)]
          /\ c \in Conn /\ Now(t).req \in Request
      BY <2>4, <2>2 DEF DoSend, Pass, Fail
    <3>2. inbox' \in [Conn -> Seq(Request)]
      BY <3>1, Posted DEF NetType
    <3> QED  BY <3>1, <3>2 DEF NetType, BacklogInv, Onward, Queued
  <2>5. CASE DoChoose(t)
    <3>1. /\ conn' = conn /\ backlog' = backlog /\ got' = got /\ seen' = seen /\ closed' = closed
          /\ test' = test /\ c \in Conn
          /\ \E r \in Request : inbox' = [inbox EXCEPT ![c] = Append(@, r)]
      BY <2>5, <2>2 DEF DoChoose, Pass
    <3>2. inbox' \in [Conn -> Seq(Request)]
      BY <3>1, Posted
    <3> QED  BY <3>1, <3>2 DEF NetType, BacklogInv, Onward, Queued
  <2>6. CASE DoReceive(t)
    <3>1. /\ conn' = conn /\ backlog' = backlog /\ got' = got /\ inbox' = inbox
          /\ closed' = closed /\ test' = test /\ c \in Conn
          /\ seen' = seen \/ seen' = [seen EXCEPT ![c] = @ + 1]
      BY <2>6, <2>2 DEF DoReceive, Pass, Fail
    <3>2. seen' \in [Conn -> Nat]
      <4> HIDE DEF c
      <4>1. seen \in [Conn -> Nat] /\ seen[c] + 1 \in Nat
        BY <3>1 DEF NetType
      <4> QED  BY <3>1, <4>1
    <3>3. \A d : Queued(d)' = Queued(d)
      BY <3>1 DEF Queued
    <3>4. NetType'
      BY <3>1, <3>2 DEF NetType
    <3>5. BacklogInv' /\ Onward
      BY <3>1, <3>3 DEF BacklogInv, Onward
    <3> QED  BY <3>1, <3>4, <3>5
  <2>7. CASE DoClose(t)
    <3>1. /\ backlog' = backlog /\ got' = got /\ inbox' = inbox /\ seen' = seen
          /\ closed' = closed /\ test' = test /\ c \in Conn /\ conn[c] = "open"
          /\ \E how \in Leaving : conn' = [conn EXCEPT ![c] = how]
      BY <2>7, <2>2 DEF DoClose, Pass, Leaving
    <3>2. /\ conn' \in [Conn -> {"absent", "open", "half", "dropped"}]
          /\ \A d \in Conn : d # c => conn'[d] = conn[d]
          /\ conn'[c] \in Leaving
      BY <3>1 DEF NetType, Leaving
    <3>3. NetType' /\ \A d : Queued(d)' = Queued(d)
      BY <3>1, <3>2 DEF NetType, Queued
    <3> QED  BY <3>1, <3>2, <3>3 DEF BacklogInv, Onward, Leaving
  <2>8. CASE DoCheckClosed(t) \/ DoSleep(t, quiet, overdue) \/ DoAssert(t)
    <3>1. netVars' = netVars /\ test' = test
      <4>1. CASE DoCheckClosed(t)
        BY <4>1 DEF DoCheckClosed, Pass, Fail
      <4>2. CASE DoSleep(t, quiet, overdue)
        BY <4>2 DEF DoSleep, Pass
      <4>3. CASE DoAssert(t)
        BY <4>3 DEF DoAssert, Pass, Fail
      <4> QED  BY <2>8, <4>1, <4>2, <4>3
    <3>2. /\ conn' = conn /\ backlog' = backlog /\ inbox' = inbox /\ got' = got
          /\ seen' = seen /\ closed' = closed /\ test' = test
      BY <3>1 DEF netVars
    <3>3. NetType' /\ BacklogInv'
      BY <3>2 DEF NetType, BacklogInv, Queued
    <3>4. Onward
      BY <3>2 DEF Onward, Queued
    <3> QED  BY <3>2, <3>3, <3>4
  <2> QED  BY <1>2, <2>3, <2>4, <2>5, <2>6, <2>7, <2>8
<1> QED  BY <1>1, <1>2 DEF ScriptStep

LEMMA DropClientsKeeps ==
  ASSUME NetType, BacklogInv, DropClients, UNCHANGED test
  PROVE  NetType' /\ BacklogInv' /\ Onward /\ closed' = closed /\ got' = got
BY DEF DropClients, NetType, BacklogInv, Onward, Queued

LEMMA HarnessStarts ==
  ASSUME HarnessInit
  PROVE  NetType /\ BacklogInv
<1>1. <<>> \in Seq(Conn) /\ <<>> \in Seq(Request) /\ <<>> \in Seq(Reply) /\ Len(<<>>) = 0
  BY EmptySeq
<1> QED  BY <1>1 DEF HarnessInit, NetType, BacklogInv, Queued

-----------------------------------------------------------------------------
(* What a client hears *)

\* It hears one Welcome, before anything else, or one Error and nothing else.
Greeted(c) ==
  /\ got[c] # <<>> /\ got[c][1].kind = "welcome"
  /\ \A i \in 2 .. Len(got[c]) : got[c][i].kind # "welcome"
RefusedOnly(c) == Len(got[c]) = 1 /\ got[c][1].kind = "error" /\ c \in closed
WelcomeFirst == \A c \in Conn : got[c] = <<>> \/ Greeted(c) \/ RefusedOnly(c)

\* What a reply changes, unless the client has dropped its socket.
LEMMA Hears ==
  ASSUME NetType, NEW c \in Conn, NEW r \in Reply,
         got' = [got EXCEPT ![c] = IF conn[c] = "dropped" THEN @ ELSE Append(@, r)]
  PROVE  /\ \A d \in Conn \ {c} : got'[d] = got[d]
         /\ conn[c] = "dropped" => got'[c] = got[c]
         /\ Greeted(c) /\ r.kind # "welcome" => Greeted(c)'
         /\ got[c] = <<>> /\ r.kind = "welcome" =>
              Greeted(c)' \/ (got'[c] = <<>> /\ conn[c] = "dropped")
         /\ got[c] = <<>> /\ r.kind = "error" =>
              got'[c] = <<>> \/ (Len(got'[c]) = 1 /\ got'[c][1].kind = "error")
<1>1. /\ \A d \in Conn \ {c} : got'[d] = got[d]
      /\ got'[c] = IF conn[c] = "dropped" THEN got[c] ELSE Append(got[c], r)
      /\ got[c] \in Seq(Reply)
  BY DEF NetType
<1>2. ASSUME NEW s \in Seq(Reply)
      PROVE  /\ Append(s, r) # <<>> /\ Len(Append(s, r)) = Len(s) + 1 /\ Len(s) \in Nat
             /\ s # <<>> => Len(s) > 0
             /\ Append(s, r)[Len(s) + 1] = r
             /\ \A i \in 1 .. Len(s) : Append(s, r)[i] = s[i]
             /\ s = <<>> => Len(s) = 0
  OBVIOUS
<1>3. CASE conn[c] = "dropped"
  BY <1>1, <1>3 DEF Greeted
<1>4. CASE conn[c] # "dropped" /\ Greeted(c)
  <2>1. /\ got'[c] # <<>> /\ Len(got'[c]) = Len(got[c]) + 1 /\ Len(got[c]) \in Nat \ {0}
        /\ got'[c][Len(got[c]) + 1] = r
        /\ \A i \in 1 .. Len(got[c]) : got'[c][i] = got[c][i]
    BY <1>1, <1>2, <1>4 DEF Greeted
  <2>2. ASSUME r.kind # "welcome", NEW i \in 2 .. Len(got'[c]) PROVE got'[c][i].kind # "welcome"
    <3>1. CASE i = Len(got[c]) + 1
      BY <2>1, <2>2, <3>1
    <3>2. CASE i # Len(got[c]) + 1
      <4>1. i \in 2 .. Len(got[c]) /\ i \in 1 .. Len(got[c])
        BY <2>1, <2>2, <3>2
      <4> QED  BY <1>4, <2>1, <4>1 DEF Greeted
    <3> QED  BY <3>1, <3>2
  <2>3. 1 \in 1 .. Len(got[c])
    BY <2>1
  <2>4. r.kind # "welcome" => Greeted(c)'
    BY <1>4, <2>1, <2>2, <2>3 DEF Greeted
  <2> QED  BY <1>1, <1>4, <2>4 DEF Greeted
<1>5. CASE conn[c] # "dropped" /\ ~Greeted(c)
  <2> SUFFICES ASSUME got[c] = <<>>
               PROVE  /\ r.kind = "welcome" => Greeted(c)'
                      /\ r.kind = "error" => Len(got'[c]) = 1 /\ got'[c][1].kind = "error"
    BY <1>1, <1>5
  <2>1. got'[c] # <<>> /\ Len(got'[c]) = 1 /\ got'[c][1] = r
    BY <1>1, <1>2, <1>5
  <2>2. 2 .. 1 = {}
    OBVIOUS
  <2> QED  BY <2>1, <2>2 DEF Greeted
<1> QED  BY <1>3, <1>4, <1>5
=============================================================================
