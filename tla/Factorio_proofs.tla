---------------------------- MODULE Factorio_proofs ----------------------------
(***************************************************************************)
(* The variables of Factorio keep their types, gatherers join results of   *)
(* one item, and pipelines implement OrderedPipe and never get stuck, in   *)
(* every network of threads that the builder can make.                     *)
(***************************************************************************)
EXTENDS Factorio, SequenceTheorems, WellFoundedInduction, TLAPS

-----------------------------------------------------------------------------
(* Types *)

ChansOK ==
  /\ buf \in [Chans -> Seq(Values)]
  /\ \A ch \in Chans : Len(buf[ch]) <= QueueSize \/ (QueueSize = 0 /\ Len(buf[ch]) = 1)

\* A thread that sends has an input from every channel and an output left.
NodesOK ==
  /\ pc \in [Nodes -> {"recv", "send", "done", "panicked"}]
  /\ got \in [Nodes -> Seq(Values)]
  /\ sentTo \in [Nodes -> Nat]
  /\ \A n \in Nodes :
       /\ Len(got[n]) <= Len(In[n])
       /\ Ended(n) => got[n] = <<>>
       /\ IF pc[n] = "send" THEN Len(got[n]) = Len(In[n]) /\ sentTo[n] < Len(Out[n])
                            ELSE sentTo[n] = 0

\* A producer that sends has an item left, a close that joins a handle.
UsersOK ==
  /\ producer \in {"ready", "send", "dropped"}
  /\ consumer \in {"ready", "recv", "dropped"}
  /\ owner \in {"here", "join", "closed", "panicked"}
  /\ joined \in 0 .. Len(Handles) /\ (owner \in {"here", "join"} => joined < Len(Handles))
  /\ sent \in 0 .. MaxItems /\ (producer = "send" => sent < MaxItems)
  /\ received \in Seq(Values)

IType == ChansOK /\ NodesOK /\ UsersOK

LEMMA ConstantTypes ==
  /\ \A n \in Nodes : /\ In[n] \in Seq(Chans) /\ Out[n] \in Seq(Chans)
                      /\ Len(In[n]) \in Nat /\ Len(Out[n]) \in Nat
  /\ InputChan \in Chans /\ OutputChan \in Chans
  /\ QueueSize \in Nat /\ MaxItems \in Nat /\ Len(Handles) \in Nat \ {0}
<1>1. Handles # <<>>
  BY NetworkAssumption DEF Range
<1> QED
  BY <1>1, NetworkAssumption, FunctionsAssumption, EmptySeq

LEMMA ResultType == ASSUME NodesOK, NEW n \in Nodes PROVE Result(n) \in Values
<1>1. got[n] \in Seq(Values)
  BY DEF NodesOK
<1>2. got[n] # <<>> => 1 \in DOMAIN got[n] /\ got[n][1] \in Values
  BY <1>1
<1> QED
  BY <1>2 DEF Result, Values

\* A value added to a channel that has room.
LEMMA PutType ==
  ASSUME ChansOK, NEW ch \in Chans, HasRoom(ch), NEW v \in Values,
         buf' = [buf EXCEPT ![ch] = Append(@, v)]
  PROVE  ChansOK'
<1>1. buf[ch] \in Seq(Values) /\ Len(buf[ch]) \in Nat /\ QueueSize \in Nat
  BY ConstantTypes DEF ChansOK
<1>2. /\ Append(buf[ch], v) \in Seq(Values)
      /\ Len(Append(buf[ch], v)) = Len(buf[ch]) + 1
  BY <1>1, AppendProperties
<1>3. Len(Append(buf[ch], v)) <= QueueSize \/ (QueueSize = 0 /\ Len(Append(buf[ch], v)) = 1)
  BY <1>1, <1>2 DEF HasRoom
<1> QED
  BY <1>2, <1>3 DEF ChansOK

\* A value taken from a channel.
LEMMA TakeType ==
  ASSUME ChansOK, NEW ch \in Chans, buf[ch] # <<>>, buf' = [buf EXCEPT ![ch] = Tail(@)]
  PROVE  ChansOK' /\ Head(buf[ch]) \in Values
<1>1. buf[ch] \in Seq(Values) /\ Len(buf[ch]) \in Nat /\ QueueSize \in Nat
  BY ConstantTypes DEF ChansOK
<1>2. /\ Head(buf[ch]) \in Values /\ Tail(buf[ch]) \in Seq(Values)
      /\ Len(Tail(buf[ch])) = Len(buf[ch]) - 1
  BY <1>1, HeadTailProperties
<1>3. Len(Tail(buf[ch])) <= QueueSize \/ (QueueSize = 0 /\ Len(Tail(buf[ch])) = 1)
  BY <1>1, <1>2 DEF ChansOK
<1> QED
  BY <1>2, <1>3 DEF ChansOK

\* A thread that ends.
LEMMA EndType ==
  ASSUME IType, NEW n \in Nodes, NEW how \in {"done", "panicked"}, End(n, how)
  PROVE  IType'
<1>0. <<>> \in Seq(Values) /\ Len(<<>>) = 0
  BY EmptySeq
<1>1. ChansOK'
  BY <1>0, ConstantTypes DEF IType, ChansOK, End
<1>2. NodesOK'
  BY <1>0, ConstantTypes DEF IType, NodesOK, End, Ended
<1>3. UsersOK'
  BY DEF IType, UsersOK, End, userVars
<1> QED
  BY <1>1, <1>2, <1>3 DEF IType

\* The types are preserved.
LEMMA TypeStep == IType /\ [Next]_vars => IType'
<1> SUFFICES ASSUME IType, [Next]_vars PROVE IType'
  OBVIOUS
<1> USE DEF IType
<1>a. \A n \in Nodes : /\ got[n] \in Seq(Values) /\ Len(got[n]) \in Nat /\ sentTo[n] \in Nat
                       /\ In[n] \in Seq(Chans) /\ Out[n] \in Seq(Chans)
                       /\ Len(In[n]) \in Nat /\ Len(Out[n]) \in Nat
  BY ConstantTypes DEF NodesOK
<1>b. <<>> \in Seq(Values) /\ Len(<<>>) = 0
  BY EmptySeq
<1>c. UNCHANGED buf => ChansOK'
  BY DEF ChansOK
<1>d. UNCHANGED nodeVars => NodesOK'
  BY DEF nodeVars, NodesOK, Ended
<1>e. UNCHANGED userVars => UsersOK'
  BY DEF userVars, UsersOK
<1>1. ASSUME NEW n \in Nodes, Recv(n) PROVE IType'
  <2>1. NextIn(n) \in Chans
    BY <1>1, <1>a, ElementOfSeq DEF Recv, Receiving, NextIn
  <2>2. ChansOK' /\ Head(buf[NextIn(n)]) \in Values
    BY <1>1, <2>1, TakeType DEF Recv
  <2>3. /\ Append(got[n], Head(buf[NextIn(n)])) \in Seq(Values)
        /\ Len(Append(got[n], Head(buf[NextIn(n)]))) = Len(got[n]) + 1
    BY <1>a, <2>2, AppendProperties
  <2>4. NodesOK'
    BY <1>1, <1>a, <2>3 DEF Recv, Receiving, NodesOK, Ended
  <2> QED
    BY <1>1, <1>e, <2>2, <2>4 DEF Recv
<1>2. ASSUME NEW n \in Nodes, RecvClosed(n) PROVE IType'
  BY <1>2, EndType DEF RecvClosed
<1>3. ASSUME NEW n \in Nodes, Work(n) PROVE IType'
  <2>1. Out[n] # <<>> => 0 < Len(Out[n])
    BY <1>a
  <2>2. NodesOK'
    <3>1. CASE Discards(n) \/ Out[n] = <<>>
      <4>1. got' = [got EXCEPT ![n] = <<>>] /\ UNCHANGED <<pc, sentTo>>
        BY <1>3, <3>1 DEF Work
      <4> QED
        BY <1>3, <4>1, <1>a, <1>b DEF Work, NodesOK, Ended
    <3>2. CASE ~(Discards(n) \/ Out[n] = <<>>)
      <4>1. pc' = [pc EXCEPT ![n] = "send"] /\ UNCHANGED <<got, sentTo>>
        BY <1>3, <3>2 DEF Work
      <4> QED
        BY <1>3, <3>2, <4>1, <1>a, <2>1 DEF Work, NodesOK, Ended
    <3> QED
      BY <3>1, <3>2
  <2> QED
    BY <1>3, <1>c, <1>e, <2>2 DEF Work
<1>4. ASSUME NEW n \in Nodes, WorkPanics(n) PROVE IType'
  BY <1>4, EndType DEF WorkPanics
<1>5. ASSUME NEW n \in Nodes, SendItem(n) PROVE IType'
  <2>1. sentTo[n] < Len(Out[n])
    BY <1>5 DEF SendItem, NodesOK
  <2>2. NextOut(n) \in Chans
    BY <1>a, <2>1, ElementOfSeq DEF NextOut
  <2>3. ChansOK'
    BY <1>5, <2>2, ResultType, PutType DEF SendItem
  <2>4. NodesOK'
    <3>1. CASE sentTo[n] + 1 = Len(Out[n])
      <4>1. /\ pc' = [pc EXCEPT ![n] = "recv"] /\ got' = [got EXCEPT ![n] = <<>>]
            /\ sentTo' = [sentTo EXCEPT ![n] = 0]
        BY <1>5, <3>1 DEF SendItem
      <4> QED
        BY <4>1, <1>a, <1>b DEF NodesOK, Ended
    <3>2. CASE sentTo[n] + 1 # Len(Out[n])
      BY <1>5, <1>a, <2>1, <3>2 DEF SendItem, NodesOK, Ended
    <3> QED
      BY <3>1, <3>2
  <2> QED
    BY <1>5, <1>e, <2>3, <2>4 DEF SendItem
<1>6. ASSUME NEW n \in Nodes, SendClosed(n) PROVE IType'
  BY <1>6, EndType DEF SendClosed
<1>7. ASSUME SendInput PROVE IType'
  <2>1. sent \in Nat /\ MaxItems \in Nat /\ sent < MaxItems
    BY <1>7, ConstantTypes DEF SendInput, UsersOK
  <2>2. sent + 1 \in Values
    BY <2>1 DEF Values, Items
  <2>3. ChansOK'
    BY <1>7, <1>c, <2>2, ConstantTypes, PutType DEF SendInput
  <2>4. UsersOK'
    BY <1>7, <2>1 DEF SendInput, UsersOK
  <2> QED
    BY <1>7, <1>d, <2>3, <2>4 DEF SendInput
<1>8. ASSUME ReceiveOutput PROVE IType'
  <2>1. CASE UNCHANGED <<buf, received>>
    BY <1>8, <1>c, <1>d, <2>1 DEF ReceiveOutput, UsersOK
  <2>2. CASE /\ buf[OutputChan] # <<>> /\ received' = Append(received, Head(buf[OutputChan]))
             /\ buf' = [buf EXCEPT ![OutputChan] = Tail(@)]
    <3>1. ChansOK' /\ Head(buf[OutputChan]) \in Values
      BY <2>2, ConstantTypes, TakeType
    <3>2. received' \in Seq(Values)
      BY <2>2, <3>1, AppendProperties DEF UsersOK
    <3>3. UsersOK'
      BY <1>8, <3>2 DEF ReceiveOutput, UsersOK
    <3> QED
      BY <1>8, <1>d, <3>1, <3>3 DEF ReceiveOutput
  <2> QED
    BY <1>8, <2>1, <2>2 DEF ReceiveOutput
<1>9. ASSUME DropOutput PROVE IType'
  <2>1. ChansOK'
    BY <1>9, <1>b, ConstantTypes DEF DropOutput, ChansOK
  <2>2. UsersOK'
    BY <1>9 DEF DropOutput, UsersOK
  <2> QED
    BY <1>9, <1>d, <2>1, <2>2 DEF DropOutput
<1>10. ASSUME Close \/ Join PROVE IType'
  <2>1. UsersOK'
    <3>1. joined \in Nat /\ Len(Handles) \in Nat
      BY ConstantTypes DEF UsersOK
    <3> QED
      BY <1>10, <3>1 DEF Close, Join, UsersOK
  <2> QED
    BY <1>10, <1>c, <1>d, <2>1 DEF Close, Join
<1>11. ASSUME BeginSend \/ DropInput \/ BeginReceive PROVE IType'
  <2>1. UsersOK'
    BY <1>11, ConstantTypes DEF BeginSend, DropInput, BeginReceive, UsersOK
  <2> QED
    BY <1>11, <1>c, <1>d, <2>1 DEF BeginSend, DropInput, BeginReceive
<1>12. ASSUME UNCHANGED vars PROVE IType'
  BY <1>12, <1>c, <1>d, <1>e DEF vars
<1> QED
  BY <1>1, <1>2, <1>3, <1>4, <1>5, <1>6, <1>7, <1>8, <1>9, <1>10, <1>11, <1>12
     DEF Next, NodeStep, Idle

\* Initially every channel is empty.
LEMMA TypeInit == Init => IType
<1>1. <<>> \in Seq(Values) /\ Len(<<>>) = 0
  BY EmptySeq
<1> SUFFICES ASSUME Init PROVE ChansOK /\ NodesOK /\ UsersOK
  BY DEF IType
<1>2. ChansOK
  BY <1>1, ConstantTypes DEF Init, ChansOK
<1>3. NodesOK
  BY <1>1, ConstantTypes DEF Init, NodesOK, Ended
<1>4. UsersOK
  BY <1>1, ConstantTypes DEF Init, UsersOK
<1> QED
  BY <1>2, <1>3, <1>4

\* The variables of the pipeline stay in their types, for every network, size
\* of the queues and number of items; in particular a channel never holds more
\* than its bound.
THEOREM TypeCorrect == Spec => []TypeOK
<1>1. Spec => []IType
  BY TypeInit, TypeStep, PTL DEF Spec
<1>2. IType => TypeOK
  BY DEF IType, ChansOK, NodesOK, UsersOK, TypeOK
<1> QED
  BY <1>1, <1>2, PTL

-----------------------------------------------------------------------------
(* Results on their way to a gatherer *)

Fork(s, line, g) ==
  /\ s \in Nodes /\ g \in Nodes /\ line \in [DOMAIN In[g] -> Nodes]
  /\ Len(In[g]) > 1 /\ ForkJoin(s, line, g)

\* What the gatherer has from line k, what the distributer has for it, and what
\* line k is still to deliver.
Taken(g, k) == IF k <= Len(got[g]) THEN <<got[g][k]>> ELSE <<>>
Due(s, k) == IF pc[s] = "send" /\ k > sentTo[s] THEN got[s] ELSE <<>>
Coming(s, l, k) == IF Ended(l) THEN <<>> ELSE got[l] \o (buf[Out[s][k]] \o Due(s, k))
Way(s, l, g, k) == Taken(g, k) \o (buf[In[g][k]] \o Coming(s, l, k))

Prefix(u, w) == \E r \in Seq(Values) : w = u \o r

\* All lines carry the same sequence, which is cut off where a line or the
\* distributer has ended.
JoinOK(s, line, g) ==
  \E w \in Seq(Values) : \A k \in DOMAIN In[g] :
    /\ Prefix(Way(s, line[k], g, k), w)
    /\ ~Ended(s) /\ ~Ended(line[k]) => Way(s, line[k], g, k) = w
JoinInv ==
  \A s, g \in Nodes : \A line \in [DOMAIN In[g] -> Nodes] :
    Fork(s, line, g) /\ ~Ended(g) => JoinOK(s, line, g)

\* A fork_join is made of threads and channels of its own.
LEMMA ForkFacts ==
  ASSUME NEW s, NEW line, NEW g, Fork(s, line, g), NEW k \in DOMAIN In[g]
  PROVE  /\ s \in Nodes /\ g \in Nodes /\ line[k] \in Nodes
         /\ s # g /\ line[k] # s /\ line[k] # g
         /\ DOMAIN In[g] = 1 .. Len(In[g]) /\ Len(In[g]) \in Nat
         /\ DOMAIN Out[s] = DOMAIN In[g] /\ k \in Nat /\ 1 <= k
         /\ In[s] = <<In[s][1]>> /\ Len(In[s]) = 1
         /\ Len(In[line[k]]) = 1 /\ In[line[k]] = <<Out[s][k]>>
         /\ Len(Out[line[k]]) = 1 /\ Out[line[k]] = <<In[g][k]>> /\ Keep[line[k]] = Items
         /\ In[g][k] \in Chans /\ Out[s][k] \in Chans
         /\ In[g][k] \notin {InputChan, OutputChan}
         /\ Out[s][k] \notin {InputChan, OutputChan}
         /\ In[g][k] # Out[s][k]
<1>1. /\ s \in Nodes /\ g \in Nodes /\ line[k] \in Nodes
      /\ In[s] \in Seq(Chans) /\ Out[s] \in Seq(Chans) /\ In[g] \in Seq(Chans)
      /\ Len(In[g]) \in Nat /\ DOMAIN In[g] = 1 .. Len(In[g])
      /\ DOMAIN Out[s] = 1 .. Len(Out[s])
  BY ConstantTypes, LenProperties DEF Fork
<1>2. /\ Len(In[s]) = 1 /\ Len(Out[s]) = Len(In[g]) /\ Len(In[g]) > 1
      /\ In[line[k]] = <<Out[s][k]>> /\ Out[line[k]] = <<In[g][k]>> /\ Keep[line[k]] = Items
  BY DEF Fork, ForkJoin, IsLine
<1>3. /\ Len(In[line[k]]) = 1 /\ Len(Out[line[k]]) = 1
      /\ 1 \in DOMAIN In[line[k]] /\ 1 \in DOMAIN Out[line[k]]
      /\ In[line[k]][1] = Out[s][k] /\ Out[line[k]][1] = In[g][k]
  BY <1>2
<1>4. s # g /\ line[k] # s /\ line[k] # g
  <2>1. Len(In[s]) = 1 /\ Len(Out[s]) = Len(In[g]) /\ Len(In[g]) > 1
    BY <1>2
  <2>2. Len(In[line[k]]) = 1 /\ Len(Out[line[k]]) = 1
    BY <1>3
  <2>3. s # g
    BY <2>1
  <2>0. Len(In[g]) # 1 /\ Len(Out[s]) # 1
    <3>1. \A m \in Nat : m > 1 => m # 1
      OBVIOUS
    <3>2. Len(In[g]) # 1
      BY <1>1, <2>1, <3>1, Zenon
    <3> QED
      BY <2>1, <3>2
  <2>4. ASSUME NEW l, Len(In[l]) = 1, Len(Out[l]) = 1 PROVE l # g /\ l # s
    BY <2>0, <2>4, Zenon
  <2>5. line[k] # g /\ line[k] # s
    BY <2>2, <2>4, Zenon
  <2> QED
    BY <2>3, <2>5
<1>5. In[g][k] \in Chans /\ Out[s][k] \in Chans
  BY <1>1, <1>2, ElementOfSeq
<1>6. In[g][k] # Out[s][k]
  BY <1>1, <1>3, <1>4, EndsAssumption
<1>7. In[g][k] # OutputChan /\ In[g][k] # InputChan
  BY <1>1, <1>3, EndsAssumption DEF Range
<1>8. Out[s][k] # OutputChan /\ Out[s][k] # InputChan
  BY <1>1, <1>2, <1>3, EndsAssumption DEF Range
<1>9. In[s] = <<In[s][1]>>
  BY <1>1, <1>2
<1> QED
  BY <1>1, <1>2, <1>3, <1>4, <1>5, <1>6, <1>7, <1>8, <1>9

\* Its channels have no other ends.
LEMMA ForkEnds ==
  ASSUME NEW s, NEW line, NEW g, Fork(s, line, g), NEW k \in DOMAIN In[g], NEW n \in Nodes
  PROVE  /\ \A i \in DOMAIN In[n] : /\ In[n][i] = In[g][k] => n = g /\ i = k
                                    /\ In[n][i] = Out[s][k] => n = line[k]
         /\ \A i \in DOMAIN Out[n] : /\ Out[n][i] = In[g][k] => n = line[k]
                                     /\ Out[n][i] = Out[s][k] => n = s /\ i = k
         /\ \A j \in DOMAIN In[g] : line[j] = line[k] => j = k
<1>1. /\ 1 \in DOMAIN In[line[k]] /\ 1 \in DOMAIN Out[line[k]]
      /\ In[line[k]][1] = Out[s][k] /\ Out[line[k]][1] = In[g][k]
      /\ line[k] \in Nodes /\ s \in Nodes /\ g \in Nodes /\ k \in DOMAIN Out[s]
  BY ForkFacts
<1>2. \A j \in DOMAIN In[g] : Out[line[j]][1] = In[g][j]
  BY ForkFacts
<1>3. \A j \in DOMAIN In[g] : line[j] = line[k] => j = k
  BY <1>1, <1>2, EndsAssumption
<1>4. \A i \in DOMAIN In[n] : /\ In[n][i] = In[g][k] => n = g /\ i = k
                              /\ In[n][i] = Out[s][k] => n = line[k]
  BY <1>1, EndsAssumption
<1>5. \A i \in DOMAIN Out[n] : /\ Out[n][i] = In[g][k] => n = line[k]
                               /\ Out[n][i] = Out[s][k] => n = s /\ i = k
  BY <1>1, EndsAssumption
<1> QED
  BY <1>3, <1>4, <1>5

\* What is on the way is a sequence of values.
LEMMA WayType ==
  ASSUME IType, NEW s, NEW line, NEW g, Fork(s, line, g), NEW k \in DOMAIN In[g]
  PROVE  /\ Taken(g, k) \in Seq(Values) /\ Due(s, k) \in Seq(Values)
         /\ buf[In[g][k]] \in Seq(Values) /\ buf[Out[s][k]] \in Seq(Values)
         /\ got[line[k]] \in Seq(Values) /\ got[s] \in Seq(Values)
         /\ Coming(s, line[k], k) \in Seq(Values)
         /\ Way(s, line[k], g, k) \in Seq(Values)
<1>1. /\ got[g] \in Seq(Values) /\ got[line[k]] \in Seq(Values) /\ got[s] \in Seq(Values)
      /\ buf[In[g][k]] \in Seq(Values) /\ buf[Out[s][k]] \in Seq(Values)
      /\ <<>> \in Seq(Values)
  BY ForkFacts, EmptySeq DEF IType, ChansOK, NodesOK
<1>2. Taken(g, k) \in Seq(Values)
  <2>1. k <= Len(got[g]) => got[g][k] \in Values
    BY <1>1, ForkFacts, ElementOfSeq
  <2> QED
    BY <1>1, <2>1 DEF Taken
<1>3. Due(s, k) \in Seq(Values)
  BY <1>1 DEF Due
<1>4. got[line[k]] \o (buf[Out[s][k]] \o Due(s, k)) \in Seq(Values)
  BY <1>1, <1>3, ConcatProperties
<1>5. Coming(s, line[k], k) \in Seq(Values)
  BY <1>1, <1>4 DEF Coming
<1>6. Way(s, line[k], g, k) \in Seq(Values)
  BY <1>1, <1>2, <1>5, ConcatProperties DEF Way
<1> QED
  BY <1>1, <1>2, <1>3, <1>5, <1>6

\* A gatherer's inputs are derived from one item.
LEMMA Aligned ==
  ASSUME IType, JoinInv, NEW n \in Nodes, NEW i \in DOMAIN got[n]
  PROVE  got[n][i] = got[n][1]
<1>1. /\ got[n] \in Seq(Values) /\ DOMAIN got[n] = 1 .. Len(got[n]) /\ Len(got[n]) \in Nat
      /\ Len(got[n]) <= Len(In[n]) /\ Len(In[n]) \in Nat
  BY ConstantTypes, LenProperties DEF IType, NodesOK
<1>2. CASE Len(In[n]) <= 1
  BY <1>1, <1>2
<1>3. CASE Len(In[n]) > 1
  <2>1. PICK s \in Nodes, line \in [DOMAIN In[n] -> Nodes] : Fork(s, line, n)
    BY <1>3, GathererAssumption DEF Fork
  <2>2. ~Ended(n)
    BY <1>1 DEF IType, NodesOK
  <2>3. PICK w \in Seq(Values) : \A k \in DOMAIN In[n] : Prefix(Way(s, line[k], n, k), w)
    BY <2>1, <2>2 DEF JoinInv, JoinOK
  <2>4. ASSUME NEW k \in DOMAIN got[n] PROVE w[1] = got[n][k]
    <3>1. k \in DOMAIN In[n]
      BY <2>4, <1>1, <2>1, ForkFacts, ConstantTypes, LenProperties
    <3> DEFINE rest == buf[In[n][k]] \o Coming(s, line[k], k)
    <3>2. Way(s, line[k], n, k) = <<got[n][k]>> \o rest
      <4>1. Taken(n, k) = <<got[n][k]>>
        BY <2>4, <1>1 DEF Taken
      <4> QED
        BY <4>1 DEF Way
    <3>3. rest \in Seq(Values) /\ <<got[n][k]>> \in Seq(Values)
      <4>1. buf[In[n][k]] \in Seq(Values) /\ Coming(s, line[k], k) \in Seq(Values)
        BY <2>1, <3>1, WayType
      <4>2. got[n][k] \in Values
        BY <2>4, <1>1
      <4> QED
        BY <4>1, <4>2, ConcatProperties
    <3>4. PICK r \in Seq(Values) : w = Way(s, line[k], n, k) \o r
      BY <2>3, <3>1 DEF Prefix
    <3>5. <<got[n][k]>> \o rest \in Seq(Values) /\ (<<got[n][k]>> \o rest)[1] = got[n][k]
          /\ Len(<<got[n][k]>> \o rest) >= 1
      <4> HIDE DEF rest
      <4>1. Len(<<got[n][k]>>) = 1 /\ <<got[n][k]>>[1] = got[n][k] /\ Len(rest) \in Nat
        BY <3>3, LenProperties
      <4> QED
        BY <3>3, <4>1, ConcatProperties
    <3> HIDE DEF rest
    <3> QED
      BY <3>2, <3>4, <3>5, ConcatProperties
  <2> QED
    BY <1>1, <2>4
<1> QED
  BY <1>1, <1>2, <1>3

-----------------------------------------------------------------------------
(* Sequences *)

LEMMA PrefixSelf == ASSUME NEW u \in Seq(Values) PROVE Prefix(u, u)
  BY ConcatEmptySeq, EmptySeq DEF Prefix

LEMMA PrefixTrans ==
  ASSUME NEW u \in Seq(Values), NEW v \in Seq(Values), NEW w \in Seq(Values),
         Prefix(u, v), Prefix(v, w)
  PROVE  Prefix(u, w)
<1>1. PICK q \in Seq(Values) : v = u \o q
  BY DEF Prefix
<1>2. PICK r \in Seq(Values) : w = v \o r
  BY DEF Prefix
<1>3. w = u \o (q \o r) /\ q \o r \in Seq(Values)
  BY <1>1, <1>2, ConcatAssociative, ConcatProperties
<1> QED
  BY <1>3 DEF Prefix

\* Less of what follows a is less of the whole.
LEMMA PrefixBehind ==
  ASSUME NEW a \in Seq(Values), NEW u \in Seq(Values), NEW v \in Seq(Values), Prefix(u, v)
  PROVE  Prefix(a \o u, a \o v)
<1>1. PICK q \in Seq(Values) : v = u \o q
  BY DEF Prefix
<1>2. a \o v = (a \o u) \o q
  BY <1>1, ConcatAssociative
<1> QED
  BY <1>2 DEF Prefix

\* The head of b moves to the place before b.
LEMMA HeadMoves ==
  ASSUME NEW b \in Seq(Values), NEW c \in Seq(Values), b # <<>>
  PROVE  <<>> \o (b \o c) = <<Head(b)>> \o (Tail(b) \o c)
<1>1. Head(b) \in Values /\ Tail(b) \in Seq(Values) /\ <<Head(b)>> \in Seq(Values)
  BY HeadTailProperties
<1>2. b = <<Head(b)>> \o Tail(b)
  <2>1. Len(<<Head(b)>> \o Tail(b)) = Len(b)
    BY <1>1, HeadTailProperties, ConcatProperties
  <2>2. \A i \in 1 .. Len(b) : (<<Head(b)>> \o Tail(b))[i] = b[i]
    BY <1>1, HeadTailProperties, ConcatProperties
  <2>3. <<Head(b)>> \o Tail(b) \in Seq(Values)
    BY <1>1, ConcatProperties
  <2> QED
    BY <2>1, <2>2, <2>3, SeqEqual
<1>3. b \o c \in Seq(Values)
  BY ConcatProperties
<1>4. <<>> \o (b \o c) = b \o c
  BY <1>3, ConcatEmptySeq
<1>5. (<<Head(b)>> \o Tail(b)) \o c = <<Head(b)>> \o (Tail(b) \o c)
  BY <1>1, ConcatAssociative
<1> QED
  BY <1>2, <1>4, <1>5

\* A value behind b moves to the end of b.
LEMMA LastMoves ==
  ASSUME NEW b \in Seq(Values), NEW x \in Values, NEW c \in Seq(Values)
  PROVE  /\ b \o (<<x>> \o c) = Append(b, x) \o (<<>> \o c)
         /\ b \o <<x>> = Append(b, x) \o <<>>
<1>1. <<x>> \in Seq(Values) /\ Append(b, x) = b \o <<x>> /\ Append(b, x) \in Seq(Values)
  BY AppendIsConcat, AppendProperties
<1>2. (b \o <<x>>) \o c = b \o (<<x>> \o c)
  BY <1>1, ConcatAssociative
<1>3. <<>> \o c = c /\ Append(b, x) \o <<>> = Append(b, x)
  BY <1>1, ConcatEmptySeq
<1> QED
  BY <1>1, <1>2, <1>3

LEMMA Associative == \A u, v, w \in Seq(Values) : (u \o v) \o w = u \o (v \o w)
  BY ConcatAssociative

\* Values behind everything.
Cat(u, v) == u \o v
Five(t, b, l, d, x) == t \o (b \o (l \o (d \o x)))
LEMMA AllJoined ==
  \A t, b, l, d, x \in Seq(Values) : Five(t, b, l, d, x) = Cat(Five(t, b, l, d, <<>>), x)
<1>1. \A u, v \in Seq(Values) : Cat(u, v) \in Seq(Values)
  BY ConcatProperties DEF Cat
<1>2. \A u, v, w \in Seq(Values) : Cat(Cat(u, v), w) = Cat(u, Cat(v, w))
  BY Associative DEF Cat
<1>3. \A u \in Seq(Values) : Cat(u, <<>>) = u
  BY ConcatEmptySeq DEF Cat
<1>4. \A t, b, l, d, x : Five(t, b, l, d, x) = Cat(t, Cat(b, Cat(l, Cat(d, x))))
  BY DEF Five, Cat
<1>5. ASSUME NEW t \in Seq(Values), NEW b \in Seq(Values), NEW l \in Seq(Values),
             NEW d \in Seq(Values), NEW x \in Seq(Values)
      PROVE  Cat(t, Cat(b, Cat(l, Cat(d, x)))) = Cat(Cat(t, Cat(b, Cat(l, Cat(d, <<>>)))), x)
  <2>1. Cat(l, Cat(d, x)) = Cat(Cat(l, d), x) /\ Cat(l, d) \in Seq(Values)
    BY <1>1, <1>2
  <2>2. Cat(b, Cat(Cat(l, d), x)) = Cat(Cat(b, Cat(l, d)), x) /\ Cat(b, Cat(l, d)) \in Seq(Values)
    BY <1>1, <1>2, <2>1
  <2>3. Cat(t, Cat(Cat(b, Cat(l, d)), x)) = Cat(Cat(t, Cat(b, Cat(l, d))), x)
    BY <1>2, <2>2
  <2> QED
    BY <1>3, <2>1, <2>2, <2>3
<1>6. ASSUME NEW t \in Seq(Values), NEW b \in Seq(Values), NEW l \in Seq(Values),
             NEW d \in Seq(Values), NEW x \in Seq(Values)
      PROVE  Five(t, b, l, d, x) = Cat(Five(t, b, l, d, <<>>), x)
  BY <1>4, <1>5
<1> QED
  BY <1>6

LEMMA PushTail ==
  ASSUME NEW x \in Values, NEW u \in Seq(Values)
  PROVE  <<x>> \o u # <<>> /\ Tail(<<x>> \o u) = u
<1>1. /\ <<x>> \in Seq(Values) /\ Len(<<x>>) = 1 /\ <<x>> \o u \in Seq(Values)
      /\ Len(<<x>> \o u) = 1 + Len(u) /\ Len(u) \in Nat
      /\ \A i \in 1 .. 1 + Len(u) : (<<x>> \o u)[i] = IF i <= 1 THEN <<x>>[i] ELSE u[i - 1]
  BY ConcatProperties, LenProperties
<1>2. <<x>> \o u # <<>>
  BY <1>1, EmptySeq
<1>3. /\ Tail(<<x>> \o u) \in Seq(Values) /\ Len(Tail(<<x>> \o u)) = Len(u)
      /\ \A i \in 1 .. Len(u) : Tail(<<x>> \o u)[i] = (<<x>> \o u)[i + 1]
  BY <1>1, <1>2, HeadTailProperties
<1>4. \A i \in 1 .. Len(u) : Tail(<<x>> \o u)[i] = u[i]
  BY <1>1, <1>3
<1> QED
  BY <1>2, <1>3, <1>4, SeqEqual

-----------------------------------------------------------------------------
(* The steps *)

WaysOK ==
  \A s, g \in Nodes : \A line \in [DOMAIN In[g] -> Nodes] : Fork(s, line, g) =>
    \A k \in DOMAIN In[g] : Way(s, line[k], g, k) \in Seq(Values)

LEMMA WaysAreSequences == IType => WaysOK
  BY WayType DEF WaysOK

LEMMA WaysStaySequences == IType' => WaysOK'
  BY WaysAreSequences, PTL

\* Lines that go on carry what they did, the others at most that.
LEMMA Shrink ==
  ASSUME IType, IType', NEW s, NEW line, NEW g, Fork(s, line, g), JoinOK(s, line, g),
         \A k \in DOMAIN In[g] :
           /\ Prefix(Way(s, line[k], g, k)', Way(s, line[k], g, k))
           /\ ~Ended(s)' /\ ~Ended(line[k])' =>
                ~Ended(s) /\ ~Ended(line[k]) /\ Way(s, line[k], g, k)' = Way(s, line[k], g, k)
  PROVE  JoinOK(s, line, g)'
<1>1. PICK w \in Seq(Values) : \A k \in DOMAIN In[g] :
        /\ Prefix(Way(s, line[k], g, k), w)
        /\ ~Ended(s) /\ ~Ended(line[k]) => Way(s, line[k], g, k) = w
  BY DEF JoinOK
<1>2. ASSUME NEW k \in DOMAIN In[g]
      PROVE  /\ Prefix(Way(s, line[k], g, k)', w)
             /\ ~Ended(s)' /\ ~Ended(line[k])' => Way(s, line[k], g, k)' = w
  <2>1. Way(s, line[k], g, k) \in Seq(Values) /\ Way(s, line[k], g, k)' \in Seq(Values)
    <3>1. Way(s, line[k], g, k) \in Seq(Values)
      BY <1>2, WayType
    <3>2. Way(s, line[k], g, k)' \in Seq(Values)
      BY <1>2, WaysStaySequences DEF WaysOK, Fork
    <3> QED
      BY <3>1, <3>2
  <2> QED
    BY <1>1, <1>2, <2>1, PrefixTrans
<1> QED
  BY <1>2 DEF JoinOK, Prefix

\* Nothing that line k carries has moved.
LEMMA Same ==
  ASSUME IType, NEW s, NEW line, NEW g, Fork(s, line, g), NEW k \in DOMAIN In[g],
         Taken(g, k)' = Taken(g, k), buf'[In[g][k]] = buf[In[g][k]],
         Coming(s, line[k], k)' = Coming(s, line[k], k)
  PROVE  /\ Way(s, line[k], g, k)' = Way(s, line[k], g, k)
         /\ Prefix(Way(s, line[k], g, k)', Way(s, line[k], g, k))
<1>1. Way(s, line[k], g, k)' = Way(s, line[k], g, k)
  BY DEF Way
<1> QED
  BY <1>1, WayType, PrefixSelf

\* The gatherer is done with a round.
LEMMA DropHead ==
  ASSUME IType, IType', NEW s, NEW line, NEW g, Fork(s, line, g), JoinOK(s, line, g),
         Len(got[g]) = Len(In[g]), got'[g] = <<>>, Ended(s)' = Ended(s),
         \A k \in DOMAIN In[g] :
           /\ buf'[In[g][k]] = buf[In[g][k]] /\ Coming(s, line[k], k)' = Coming(s, line[k], k)
           /\ Ended(line[k])' = Ended(line[k])
  PROVE  JoinOK(s, line, g)'
<1>1. PICK w \in Seq(Values) : \A k \in DOMAIN In[g] :
        /\ Prefix(Way(s, line[k], g, k), w)
        /\ ~Ended(s) /\ ~Ended(line[k]) => Way(s, line[k], g, k) = w
  BY DEF JoinOK
<1>2. ASSUME NEW k \in DOMAIN In[g]
      PROVE  /\ w # <<>>
             /\ Prefix(Way(s, line[k], g, k)', Tail(w))
             /\ ~Ended(s)' /\ ~Ended(line[k])' => Way(s, line[k], g, k)' = Tail(w)
  <2> DEFINE rest == buf[In[g][k]] \o Coming(s, line[k], k)
             x == got[g][k]
  <2>1. k \in 1 .. Len(got[g]) /\ got[g] \in Seq(Values) /\ Len(got'[g]) = 0
    BY <1>2, ForkFacts, EmptySeq DEF IType, NodesOK
  <2>2. x \in Values
    BY <2>1, ElementOfSeq
  <2>3. rest \in Seq(Values)
    BY <1>2, WayType, ConcatProperties
  <2>4. Way(s, line[k], g, k) = <<x>> \o rest
    <3>1. Taken(g, k) = <<x>>
      BY <2>1 DEF Taken
    <3> QED
      BY <3>1 DEF Way
  <2>5. Way(s, line[k], g, k)' = rest
    <3>1. Taken(g, k)' = <<>>
      BY <2>1 DEF Taken
    <3>2. Way(s, line[k], g, k)' = <<>> \o rest
      BY <1>2, <3>1 DEF Way
    <3> QED
      BY <2>3, <3>2, ConcatEmptySeq
  <2> HIDE DEF rest, x
  <2>6. \A r \in Seq(Values) : (<<x>> \o rest) \o r # <<>> /\ Tail((<<x>> \o rest) \o r) = rest \o r
    <3> SUFFICES ASSUME NEW r \in Seq(Values)
                 PROVE  (<<x>> \o rest) \o r # <<>> /\ Tail((<<x>> \o rest) \o r) = rest \o r
      OBVIOUS
    <3>1. <<x>> \in Seq(Values) /\ rest \o r \in Seq(Values)
      BY <2>2, <2>3, ConcatProperties
    <3>2. (<<x>> \o rest) \o r = <<x>> \o (rest \o r)
      BY <3>1, <2>3, ConcatAssociative
    <3> QED
      BY <3>1, <3>2, PushTail
  <2>7. Prefix(rest, Tail(w)) /\ w # <<>>
    <3>1. PICK r \in Seq(Values) : w = (<<x>> \o rest) \o r
      BY <1>1, <1>2, <2>4 DEF Prefix
    <3> QED
      BY <3>1, <2>6 DEF Prefix
  <2>8. ASSUME w = <<x>> \o rest PROVE Tail(w) = rest
    <3>1. (<<x>> \o rest) \o <<>> = <<x>> \o rest /\ rest \o <<>> = rest /\ <<>> \in Seq(Values)
      BY <2>2, <2>3, ConcatProperties, ConcatEmptySeq, EmptySeq
    <3> QED
      BY <2>8, <2>6, <3>1
  <2> QED
    BY <1>1, <1>2, <2>4, <2>5, <2>7, <2>8
<1>3. 1 \in DOMAIN In[g]
  BY ConstantTypes, LenProperties DEF Fork
<1>4. Tail(w) \in Seq(Values)
  BY <1>2, <1>3, HeadTailProperties
<1> QED
  BY <1>2, <1>4 DEF JoinOK, Prefix

\* A thread that ends.
LEMMA EndJoin ==
  ASSUME IType, IType', NEW s, NEW line, NEW g, Fork(s, line, g), JoinOK(s, line, g),
         ~Ended(g)', NEW n \in Nodes, NEW how \in {"done", "panicked"}, End(n, how)
  PROVE  JoinOK(s, line, g)'
<1>1. n # g /\ Ended(n)' /\ pc'[n] # "send" /\ got'[g] = got[g]
      /\ \A m \in Nodes : m # n => pc'[m] = pc[m] /\ got'[m] = got[m] /\ sentTo'[m] = sentTo[m]
  BY DEF End, Ended, IType, NodesOK, Fork
<1>2. ASSUME NEW k \in DOMAIN In[g]
      PROVE  /\ Prefix(Way(s, line[k], g, k)', Way(s, line[k], g, k))
             /\ ~Ended(s)' /\ ~Ended(line[k])' =>
                  ~Ended(s) /\ ~Ended(line[k]) /\ Way(s, line[k], g, k)' = Way(s, line[k], g, k)
  <2> USE <1>2
  <2>0. /\ s \in Nodes /\ line[k] \in Nodes /\ line[k] # s
        /\ In[g][k] \in Chans /\ Out[s][k] \in Chans
    BY ForkFacts
  <2>1. Taken(g, k)' = Taken(g, k)
    BY <1>1 DEF Taken
  <2>2. buf'[In[g][k]] = buf[In[g][k]]
    <3>1. In[g][k] \notin Range(In[n])
      BY <1>1, ForkEnds DEF Range
    <3> QED
      BY <2>0, <3>1 DEF End
  <2>3. n # line[k] => buf'[Out[s][k]] = buf[Out[s][k]]
    <3>1. n # line[k] => Out[s][k] \notin Range(In[n])
      BY ForkEnds DEF Range
    <3> QED
      BY <2>0, <3>1 DEF End
  <2>4. <<>> \in Seq(Values)
    BY EmptySeq
  <2>5. CASE n = line[k]
    <3>1. Coming(s, line[k], k)' = <<>>
      BY <1>1, <2>5 DEF Coming
    <3>2. Prefix(<<>>, Coming(s, line[k], k))
      BY WayType, ConcatEmptySeq DEF Prefix
    <3>3. Way(s, line[k], g, k)' = Taken(g, k) \o (buf[In[g][k]] \o <<>>)
      BY <2>1, <2>2, <3>1 DEF Way
    <3>4. Prefix(Taken(g, k) \o (buf[In[g][k]] \o <<>>), Way(s, line[k], g, k))
      <4>1. Prefix(buf[In[g][k]] \o <<>>, buf[In[g][k]] \o Coming(s, line[k], k))
        BY <2>4, <3>2, WayType, PrefixBehind
      <4> QED
        BY <2>4, <4>1, WayType, PrefixBehind, ConcatProperties DEF Way
    <3> QED
      BY <1>1, <2>5, <3>3, <3>4
  <2>6. CASE n = s
    <3>1. Due(s, k)' = <<>>
      BY <1>1, <2>6 DEF Due
    <3>2. got'[line[k]] = got[line[k]] /\ Ended(line[k])' = Ended(line[k])
      BY <1>1, <2>0, <2>6 DEF Ended
    <3>3. Prefix(Coming(s, line[k], k)', Coming(s, line[k], k)) /\ Coming(s, line[k], k)' \in Seq(Values)
      <4>1. CASE Ended(line[k])
        BY <2>4, <3>2, <4>1, PrefixSelf DEF Coming
      <4>2. CASE ~Ended(line[k])
        <5>1. Prefix(<<>>, Due(s, k))
          BY WayType, ConcatEmptySeq DEF Prefix
        <5>2. Prefix(buf[Out[s][k]] \o <<>>, buf[Out[s][k]] \o Due(s, k))
              /\ buf[Out[s][k]] \o <<>> \in Seq(Values) /\ buf[Out[s][k]] \o Due(s, k) \in Seq(Values)
          BY <2>4, <5>1, WayType, PrefixBehind, ConcatProperties
        <5>3. Coming(s, line[k], k)' = got[line[k]] \o (buf[Out[s][k]] \o <<>>)
          BY <2>0, <2>3, <2>6, <3>1, <3>2, <4>2 DEF Coming
        <5>4. Coming(s, line[k], k) = got[line[k]] \o (buf[Out[s][k]] \o Due(s, k))
          BY <4>2 DEF Coming
        <5>5. got[line[k]] \in Seq(Values)
          BY WayType
        <5>6. Prefix(got[line[k]] \o (buf[Out[s][k]] \o <<>>), got[line[k]] \o (buf[Out[s][k]] \o Due(s, k)))
              /\ got[line[k]] \o (buf[Out[s][k]] \o <<>>) \in Seq(Values)
          BY <5>2, <5>5, PrefixBehind, ConcatProperties
        <5> QED
          BY <5>3, <5>4, <5>6
      <4> QED
        BY <4>1, <4>2
    <3>4. Prefix(buf[In[g][k]] \o Coming(s, line[k], k)', buf[In[g][k]] \o Coming(s, line[k], k))
          /\ buf[In[g][k]] \o Coming(s, line[k], k)' \in Seq(Values)
          /\ buf[In[g][k]] \o Coming(s, line[k], k) \in Seq(Values)
      BY <3>3, WayType, PrefixBehind, ConcatProperties
    <3>5. Way(s, line[k], g, k)' = Taken(g, k) \o (buf[In[g][k]] \o Coming(s, line[k], k)')
      BY <2>1, <2>2 DEF Way
    <3>6. Prefix(Way(s, line[k], g, k)', Way(s, line[k], g, k))
      BY <3>4, <3>5, WayType, PrefixBehind DEF Way
    <3> QED
      BY <1>1, <2>6, <3>6
  <2>7. CASE n # line[k] /\ n # s
    <3>1. Coming(s, line[k], k)' = Coming(s, line[k], k)
      BY <1>1, <2>0, <2>3, <2>7 DEF Coming, Due, Ended
    <3> QED
      BY <1>1, <2>0, <2>1, <2>2, <2>7, <3>1, Same DEF Ended
  <2> QED
    BY <2>5, <2>6, <2>7
<1> QED
  BY <1>2, Shrink

\* A value received.
LEMMA RecvJoin ==
  ASSUME IType, IType', NEW s, NEW line, NEW g, Fork(s, line, g), JoinOK(s, line, g),
         NEW n \in Nodes, Recv(n)
  PROVE  JoinOK(s, line, g)'
<1> DEFINE ch == NextIn(n)
<1>1. /\ UNCHANGED <<pc, sentTo>> /\ pc[n] = "recv" /\ buf[ch] # <<>>
      /\ Len(got[n]) < Len(In[n]) /\ Len(got[n]) \in Nat /\ Len(got[n]) + 1 \in DOMAIN In[n]
      /\ ch = In[n][Len(got[n]) + 1] /\ ch \in Chans
      /\ got'[n] = Append(got[n], Head(buf[ch])) /\ buf'[ch] = Tail(buf[ch])
      /\ \A m \in Nodes : m # n => got'[m] = got[m]
      /\ \A d \in Chans : d # ch => buf'[d] = buf[d]
      /\ got[n] \in Seq(Values) /\ Head(buf[ch]) \in Values /\ buf[ch] \in Seq(Values)
      /\ Len(got'[n]) = Len(got[n]) + 1 /\ got'[n][Len(got[n]) + 1] = Head(buf[ch])
      /\ \A i \in 1 .. Len(got[n]) : got'[n][i] = got[n][i]
  <2>1. /\ UNCHANGED <<pc, sentTo>> /\ pc[n] = "recv" /\ buf[ch] # <<>>
        /\ Len(got[n]) < Len(In[n]) /\ ch = In[n][Len(got[n]) + 1]
    BY DEF Recv, Receiving, NextIn
  <2>2. /\ Len(got[n]) \in Nat /\ Len(In[n]) \in Nat /\ DOMAIN In[n] = 1 .. Len(In[n])
        /\ In[n] \in Seq(Chans) /\ got[n] \in Seq(Values)
    BY ConstantTypes, LenProperties DEF IType, NodesOK
  <2>3. Len(got[n]) + 1 \in DOMAIN In[n] /\ ch \in Chans
    BY <2>1, <2>2, ElementOfSeq
  <2>4. Head(buf[ch]) \in Values /\ buf[ch] \in Seq(Values)
    BY <2>1, <2>3, HeadTailProperties DEF IType, ChansOK
  <2>5. /\ got'[n] = Append(got[n], Head(buf[ch])) /\ buf'[ch] = Tail(buf[ch])
        /\ \A m \in Nodes : m # n => got'[m] = got[m]
        /\ \A d \in Chans : d # ch => buf'[d] = buf[d]
    BY <2>3 DEF Recv, IType, NodesOK, ChansOK
  <2>6. /\ Len(got'[n]) = Len(got[n]) + 1 /\ got'[n][Len(got[n]) + 1] = Head(buf[ch])
        /\ \A i \in 1 .. Len(got[n]) : got'[n][i] = got[n][i]
    BY <2>2, <2>4, <2>5, AppendProperties
  <2> QED
    BY <2>1, <2>2, <2>3, <2>4, <2>5, <2>6
<1>a. ASSUME NEW k \in DOMAIN In[g]
      PROVE  /\ ch = In[g][k] => n = g /\ Len(got[n]) + 1 = k
             /\ ch = Out[s][k] => n = line[k]
  BY <1>1, <1>a, ForkEnds
<1> HIDE DEF ch
<1>2. ASSUME NEW k \in DOMAIN In[g] PROVE Way(s, line[k], g, k)' = Way(s, line[k], g, k)
  <2> USE <1>2
  <2>0. /\ s \in Nodes /\ g \in Nodes /\ line[k] \in Nodes /\ line[k] # s /\ line[k] # g /\ s # g
        /\ In[g][k] \in Chans /\ Out[s][k] \in Chans /\ k \in Nat /\ In[g][k] # Out[s][k]
    BY ForkFacts
  <2>1. Due(s, k)' = Due(s, k)
    BY <1>1, <2>0 DEF Due
  <2>2. CASE ch = In[g][k]
    <3>1. n = g /\ Len(got[g]) + 1 = k
      BY <1>a, <2>2
    <3>2. Taken(g, k) = <<>> /\ Taken(g, k)' = <<Head(buf[ch])>>
      <4>1. ~(k <= Len(got[g])) /\ k <= Len(got'[g]) /\ got'[g][k] = Head(buf[ch])
        BY <1>1, <3>1
      <4> QED
        BY <4>1 DEF Taken
    <3>3. Coming(s, line[k], k)' = Coming(s, line[k], k)
      BY <1>1, <2>0, <2>1, <2>2, <3>1 DEF Coming, Ended
    <3> QED
      <4>1. <<>> \o (buf[ch] \o Coming(s, line[k], k))
              = <<Head(buf[ch])>> \o (Tail(buf[ch]) \o Coming(s, line[k], k))
        BY <1>1, WayType, HeadMoves
      <4> QED
        BY <1>1, <2>2, <3>2, <3>3, <4>1 DEF Way
  <2>3. CASE ch = Out[s][k]
    <3>1. n = line[k]
      BY <1>a, <2>3
    <3>2. got[n] = <<>> /\ got'[n] = <<Head(buf[ch])>>
      <4>1. Len(In[n]) = 1
        BY <3>1, ForkFacts
      <4>2. Len(got[n]) = 0
        BY <1>1, <4>1
      <4>3. got[n] = <<>>
        BY <1>1, <4>2
      <4> QED
        BY <1>1, <4>3
    <3>3. Taken(g, k)' = Taken(g, k) /\ buf'[In[g][k]] = buf[In[g][k]]
      BY <1>1, <2>0, <2>3, <3>1 DEF Taken
    <3>4. Coming(s, line[k], k)' = Coming(s, line[k], k)
      <4>1. ~Ended(line[k]) /\ ~Ended(line[k])'
        BY <1>1, <3>1 DEF Ended
      <4>2. <<>> \o (buf[ch] \o Due(s, k)) = <<Head(buf[ch])>> \o (Tail(buf[ch]) \o Due(s, k))
        BY <1>1, WayType, HeadMoves
      <4> QED
        BY <1>1, <2>1, <2>3, <3>1, <3>2, <4>1, <4>2 DEF Coming
    <3> QED
      BY <3>3, <3>4 DEF Way
  <2>4. CASE ch # In[g][k] /\ ch # Out[s][k]
    <3>1. n # line[k]
      BY <1>1, <2>4, ForkFacts
    <3>2. Taken(g, k)' = Taken(g, k)
      <4>1. CASE n = g
        <5>1. /\ Len(got'[g]) = Len(got[g]) + 1 /\ k # Len(got[g]) + 1
              /\ \A i \in 1 .. Len(got[g]) : got'[g][i] = got[g][i]
          <6>1. k # Len(got[g]) + 1
            <7>1. In[g][Len(got[g]) + 1] = ch
              BY <1>1, <4>1
            <7> QED
              BY <2>4, <7>1
          <6> QED
            BY <1>1, <4>1, <6>1
        <5> QED
          BY <1>1, <2>0, <4>1, <5>1, ForkFacts DEF Taken
      <4>2. CASE n # g
        BY <1>1, <2>0, <4>2 DEF Taken
      <4> QED
        BY <4>1, <4>2
    <3>3. Coming(s, line[k], k)' = Coming(s, line[k], k)
      BY <1>1, <2>0, <2>1, <2>4, <3>1 DEF Coming, Ended
    <3> QED
      BY <1>1, <2>0, <2>4, <3>2, <3>3 DEF Way
  <2> QED
    BY <2>2, <2>3, <2>4
<1>3. \A k \in DOMAIN In[g] : Prefix(Way(s, line[k], g, k)', Way(s, line[k], g, k))
  BY <1>2, WayType, PrefixSelf
<1>4. \A m \in Nodes : Ended(m)' = Ended(m)
  BY <1>1 DEF Ended
<1> QED
  BY <1>2, <1>3, <1>4, ForkFacts, Shrink

\* A thread works.
LEMMA WorkJoin ==
  ASSUME IType, IType', NEW s, NEW line, NEW g, Fork(s, line, g), JoinOK(s, line, g),
         NEW n \in Nodes, Work(n)
  PROVE  JoinOK(s, line, g)'
<1>1. /\ UNCHANGED <<buf, sentTo>> /\ pc[n] = "recv" /\ sentTo[n] = 0
      /\ Len(got[n]) = Len(In[n]) /\ got[n] \in Seq(Values)
      /\ \A m \in Nodes : m # n => pc'[m] = pc[m] /\ got'[m] = got[m]
      /\ pc'[n] \in {"recv", "send"}
      /\ \/ got'[n] = <<>> /\ pc'[n] = "recv" /\ (Discards(n) \/ Out[n] = <<>>)
         \/ got'[n] = got[n] /\ pc'[n] = "send"
  BY DEF Work, IType, NodesOK
<1>2. \A m \in Nodes : Ended(m)' = Ended(m)
  BY <1>1 DEF Ended
<1>3. s \in Nodes /\ g \in Nodes /\ s # g /\ 1 \in DOMAIN In[g]
  <2>1. 1 \in DOMAIN In[g]
    BY ConstantTypes, LenProperties DEF Fork
  <2> QED
    BY <2>1, ForkFacts
<1>4. \A k \in DOMAIN In[g] : line[k] \in Nodes /\ line[k] # s /\ line[k] # g
  BY ForkFacts
<1>5. ASSUME NEW k \in DOMAIN In[g], n = line[k] PROVE got'[n] = got[n]
  <2>1. Keep[n] = Items /\ Out[n] # <<>>
    BY <1>5, ForkFacts
  <2>2. ~Discards(n)
    BY <2>1 DEF Discards
  <2> QED
    BY <1>1, <2>1, <2>2
<1>6. ASSUME NEW k \in DOMAIN In[g], n # s PROVE Coming(s, line[k], k)' = Coming(s, line[k], k)
  <2>1. got'[line[k]] = got[line[k]] /\ Due(s, k)' = Due(s, k)
    BY <1>1, <1>3, <1>4, <1>5, <1>6 DEF Due
  <2> QED
    BY <1>1, <1>2, <1>4, <1>6, <2>1 DEF Coming
<1>7. CASE n # s /\ got'[g] = got[g]
  <2>1. \A k \in DOMAIN In[g] : /\ Way(s, line[k], g, k)' = Way(s, line[k], g, k)
                                /\ Prefix(Way(s, line[k], g, k)', Way(s, line[k], g, k))
    <3> SUFFICES ASSUME NEW k \in DOMAIN In[g]
                 PROVE  /\ Way(s, line[k], g, k)' = Way(s, line[k], g, k)
                        /\ Prefix(Way(s, line[k], g, k)', Way(s, line[k], g, k))
      OBVIOUS
    <3>1. Taken(g, k)' = Taken(g, k)
      BY <1>7 DEF Taken
    <3>2. buf'[In[g][k]] = buf[In[g][k]] /\ Coming(s, line[k], k)' = Coming(s, line[k], k)
      BY <1>1, <1>6, <1>7
    <3> QED
      BY <3>1, <3>2, Same
  <2> QED
    BY <1>2, <1>3, <1>4, <2>1, Shrink
<1>8. CASE n # s /\ got'[g] # got[g]
  <2>1. n = g /\ got'[g] = <<>> /\ Len(got[g]) = Len(In[g])
    BY <1>1, <1>3, <1>8
  <2> QED
    BY <1>1, <1>2, <1>3, <1>4, <1>6, <1>8, <2>1, DropHead
<1>9. CASE n = s
  <2>1. PICK w \in Seq(Values) : \A k \in DOMAIN In[g] :
          /\ Prefix(Way(s, line[k], g, k), w)
          /\ ~Ended(s) /\ ~Ended(line[k]) => Way(s, line[k], g, k) = w
    BY DEF JoinOK
  <2>2. PICK x \in Seq(Values) : \A k \in DOMAIN In[g] : Due(s, k) = <<>> /\ Due(s, k)' = x
    <3>1. CASE pc'[s] = "send"
      <4>1. \A k \in DOMAIN In[g] : k > 0
        BY ForkFacts
      <4> QED
        BY <1>1, <1>9, <3>1, <4>1 DEF Due
    <3>2. CASE pc'[s] # "send"
      BY <1>1, <1>9, <3>2, EmptySeq DEF Due
    <3> QED
      BY <3>1, <3>2
  <2>3. w \o x \in Seq(Values)
    BY ConcatProperties
  <2>4. ASSUME NEW k \in DOMAIN In[g]
        PROVE  /\ Prefix(Way(s, line[k], g, k)', w \o x)
               /\ ~Ended(s)' /\ ~Ended(line[k])' => Way(s, line[k], g, k)' = w \o x
    <3> USE <2>4
    <3> DEFINE t == Taken(g, k)
               b == buf[In[g][k]]
               l == got[line[k]]
               d == buf[Out[s][k]]
    <3>1. t \in Seq(Values) /\ b \in Seq(Values) /\ l \in Seq(Values) /\ d \in Seq(Values)
          /\ Coming(s, line[k], k) \in Seq(Values) /\ Way(s, line[k], g, k) \in Seq(Values)
          /\ <<>> \in Seq(Values)
      BY WayType, EmptySeq
    <3>2. /\ Taken(g, k)' = t /\ buf'[In[g][k]] = b
          /\ got'[line[k]] = l /\ buf'[Out[s][k]] = d
      BY <1>1, <1>3, <1>4, <1>9 DEF Taken
    <3>3. CASE Ended(line[k])
      <4>1. Way(s, line[k], g, k)' = Way(s, line[k], g, k)
        BY <1>2, <1>4, <3>2, <3>3 DEF Way, Coming
      <4>2. Prefix(w, w \o x)
        BY DEF Prefix
      <4> QED
        BY <1>2, <1>4, <2>1, <2>3, <3>1, <3>3, <4>1, <4>2, PrefixTrans
    <3>4. CASE ~Ended(line[k])
      <4>1. Way(s, line[k], g, k) = w
        BY <1>1, <1>9, <2>1, <3>4 DEF Ended
      <4>2. /\ Way(s, line[k], g, k) = Five(t, b, l, d, <<>>)
            /\ Way(s, line[k], g, k)' = Five(t, b, l, d, x)
        BY <1>2, <1>4, <2>2, <3>2, <3>4 DEF Way, Coming, Five
      <4> HIDE DEF t, b, l, d
      <4>3. Five(t, b, l, d, x) = Cat(Five(t, b, l, d, <<>>), x)
        BY <2>2, <3>1, AllJoined
      <4>4. Way(s, line[k], g, k)' = w \o x
        BY <4>1, <4>2, <4>3 DEF Cat
      <4> QED
        BY <2>3, <4>4, PrefixSelf
    <3> QED
      BY <3>3, <3>4
  <2> QED
    BY <2>3, <2>4 DEF JoinOK, Prefix
<1> QED
  BY <1>7, <1>8, <1>9

\* A value sent.
LEMMA SendJoin ==
  ASSUME IType, IType', NEW s, NEW line, NEW g, Fork(s, line, g), JoinOK(s, line, g),
         NEW n \in Nodes, SendItem(n)
  PROVE  JoinOK(s, line, g)'
<1> DEFINE ch == NextOut(n)
           j == sentTo[n] + 1
           last == j = Len(Out[n])
<1>1. /\ pc[n] = "send" /\ sentTo[n] \in Nat /\ j \in DOMAIN Out[n] /\ DOMAIN Out[n] = 1 .. Len(Out[n])
      /\ Len(Out[n]) \in Nat /\ ch = Out[n][j] /\ ch \in Chans /\ got[n] \in Seq(Values)
      /\ Len(got[n]) = Len(In[n])
  BY ConstantTypes, LenProperties, ElementOfSeq DEF SendItem, IType, NodesOK, NextOut
<1>2. /\ buf'[ch] = Append(buf[ch], Result(n)) /\ \A d \in Chans : d # ch => buf'[d] = buf[d]
      /\ Result(n) \in Values /\ buf[ch] \in Seq(Values)
  BY <1>1, ResultType DEF SendItem, IType, ChansOK
<1>3. /\ last => pc'[n] = "recv" /\ got'[n] = <<>> /\ sentTo'[n] = 0
      /\ ~last => pc'[n] = pc[n] /\ got'[n] = got[n] /\ sentTo'[n] = j
      /\ \A m \in Nodes : m # n => pc'[m] = pc[m] /\ got'[m] = got[m] /\ sentTo'[m] = sentTo[m]
  BY DEF SendItem, IType, NodesOK
<1>4. ASSUME NEW k \in DOMAIN In[g]
      PROVE  /\ ch = In[g][k] => n = line[k]
             /\ ch = Out[s][k] => n = s /\ j = k
  BY <1>1, <1>4, ForkEnds
<1> HIDE DEF ch, j, last
<1>5. \A m \in Nodes : Ended(m)' = Ended(m)
  BY <1>1, <1>3 DEF Ended
<1>6. Len(got[n]) = 1 => Result(n) = got[n][1] /\ got[n] = <<Result(n)>>
  <2> SUFFICES ASSUME Len(got[n]) = 1 PROVE Result(n) = got[n][1] /\ got[n] = <<Result(n)>>
    OBVIOUS
  <2>1. got[n] # <<>> /\ DOMAIN got[n] = 1 .. 1 /\ got[n] = <<got[n][1]>>
    <3>1. got[n] # <<>> /\ DOMAIN got[n] = 1 .. 1
      <4>1. DOMAIN got[n] = 1 .. Len(got[n])
        BY <1>1, LenProperties
      <4> QED
        BY <4>1, EmptySeq
    <3>2. got[n][1] \in Values
      BY <1>1, ElementOfSeq
    <3>3. /\ <<got[n][1]>> \in Seq(Values) /\ Len(<<got[n][1]>>) = 1
          /\ <<got[n][1]>>[1] = got[n][1]
      BY <3>2
    <3>4. got[n] = <<got[n][1]>>
      BY <1>1, <3>3, SeqEqual
    <3> QED
      BY <3>1, <3>4
  <2>2. Result(n) = got[n][1]
    BY <2>1 DEF Result
  <2> QED
    BY <2>1, <2>2
<1>7. ASSUME NEW k \in DOMAIN In[g], n # line[k]
      PROVE  /\ buf'[In[g][k]] = buf[In[g][k]]
             /\ Coming(s, line[k], k)' = Coming(s, line[k], k)
  <2>0. /\ s \in Nodes /\ line[k] \in Nodes /\ line[k] # s /\ k \in Nat /\ 1 <= k
        /\ In[g][k] \in Chans /\ Out[s][k] \in Chans /\ k \in DOMAIN Out[s] /\ Len(In[s]) = 1
    BY <1>7, ForkFacts
  <2>1. buf'[In[g][k]] = buf[In[g][k]] /\ got'[line[k]] = got[line[k]]
    BY <1>2, <1>3, <1>4, <1>7, <2>0
  <2>2. buf'[Out[s][k]] \o Due(s, k)' = buf[Out[s][k]] \o Due(s, k)
    <3>1. CASE n # s
      BY <1>2, <1>3, <1>4, <1>7, <2>0, <3>1 DEF Due
    <3>2. CASE n = s /\ j = k
      <4>1. ch = Out[s][k]
        BY <1>1, <3>2
      <4>2. Due(s, k) = <<Result(s)>>
        BY <1>1, <1>6, <2>0, <3>2 DEF Due, j
      <4>3. Due(s, k)' = <<>>
        BY <1>3, <2>0, <3>2 DEF Due
      <4>4. buf[ch] \o <<Result(s)>> = Append(buf[ch], Result(s)) \o <<>>
        BY <1>2, <3>2, LastMoves, EmptySeq
      <4> QED
        BY <1>2, <3>2, <4>1, <4>2, <4>3, <4>4
    <3>3. CASE n = s /\ j # k
      <4>1. buf'[Out[s][k]] = buf[Out[s][k]]
        BY <1>2, <1>4, <1>7, <2>0, <3>3
      <4>2. CASE last
        <5>1. ~(k > sentTo[s])
          BY <1>1, <2>0, <3>3, <4>2 DEF j, last
        <5> QED
          BY <1>3, <3>3, <4>1, <4>2, <5>1 DEF Due
      <4>3. CASE ~last
        <5>1. k > sentTo[s] <=> k > sentTo'[s]
          BY <1>1, <1>3, <2>0, <3>3, <4>3 DEF j
        <5> QED
          BY <1>3, <3>3, <4>1, <4>3, <5>1 DEF Due
      <4> QED
        BY <4>2, <4>3
    <3> QED
      BY <3>1, <3>2, <3>3
  <2> QED
    BY <1>5, <2>0, <2>1, <2>2 DEF Coming
<1>8. CASE n = g /\ last
  <2>1. \A k \in DOMAIN In[g] : line[k] \in Nodes /\ n # line[k]
    BY <1>8, ForkFacts
  <2>2. s \in Nodes
    BY DEF Fork
  <2> QED
    BY <1>1, <1>3, <1>5, <1>7, <1>8, <2>1, <2>2, DropHead
<1>9. CASE ~(n = g /\ last)
  <2>1. got'[g] = got[g]
    BY <1>3, <1>9 DEF Fork
  <2>2. ASSUME NEW k \in DOMAIN In[g]
        PROVE  /\ Way(s, line[k], g, k)' = Way(s, line[k], g, k)
               /\ Prefix(Way(s, line[k], g, k)', Way(s, line[k], g, k))
    <3> USE <2>2
    <3>1. Taken(g, k)' = Taken(g, k)
      BY <2>1 DEF Taken
    <3>2. CASE n # line[k]
      BY <1>7, <3>1, <3>2, Same
    <3>3. CASE n = line[k]
      <4>0. /\ s \in Nodes /\ n # s /\ Len(Out[n]) = 1 /\ Out[n] = <<In[g][k]>> /\ Len(In[n]) = 1
            /\ Out[s][k] \in Chans /\ In[g][k] # Out[s][k]
        BY <3>3, ForkFacts
      <4>1. last /\ ch = In[g][k]
        BY <1>1, <4>0 DEF last, j
      <4>2. got[n] = <<Result(n)>> /\ got'[n] = <<>>
        BY <1>1, <1>3, <1>6, <4>0, <4>1
      <4>3. buf'[Out[s][k]] \o Due(s, k)' = buf[Out[s][k]] \o Due(s, k)
        BY <1>2, <1>3, <4>0, <4>1 DEF Due
      <4> DEFINE c == buf[Out[s][k]] \o Due(s, k)
      <4>4. c \in Seq(Values)
        BY WayType, ConcatProperties
      <4>5. Coming(s, line[k], k) = <<Result(n)>> \o c /\ Coming(s, line[k], k)' = <<>> \o c
        <5>1. ~Ended(line[k]) /\ ~Ended(line[k])'
          BY <1>1, <1>5, <3>3 DEF Ended
        <5> QED
          BY <3>3, <4>2, <4>3, <5>1 DEF Coming
      <4> HIDE DEF c
      <4>6. buf[ch] \o (<<Result(n)>> \o c) = Append(buf[ch], Result(n)) \o (<<>> \o c)
        BY <1>2, <4>4, LastMoves
      <4>7. Way(s, line[k], g, k)' = Way(s, line[k], g, k)
        BY <1>2, <3>1, <4>1, <4>5, <4>6 DEF Way
      <4> QED
        BY <4>7, WayType, PrefixSelf
    <3> QED
      BY <3>2, <3>3
  <2>3. s \in Nodes /\ \A k \in DOMAIN In[g] : line[k] \in Nodes
    BY DEF Fork
  <2> QED
    BY <1>5, <2>2, <2>3, Shrink
<1> QED
  BY <1>8, <1>9

\* Whoever has ended has ended for good.
LEMMA StaysEnded == ASSUME IType, [Next]_vars, NEW m \in Nodes, Ended(m) PROVE Ended(m)'
<1>1. ASSUME NEW n \in Nodes, NodeStep(n) PROVE Ended(m)'
  BY <1>1 DEF NodeStep, Recv, RecvClosed, Receiving, Work, WorkPanics, SendItem, SendClosed, End, Ended,
     IType, NodesOK
<1>2. ASSUME UNCHANGED pc PROVE Ended(m)'
  BY <1>2 DEF Ended
<1> QED
  BY <1>1, <1>2 DEF Next, BeginSend, SendInput, DropInput, BeginReceive, ReceiveOutput, DropOutput,
     Close, Join, Idle, nodeVars, vars

\* The users have nothing to do with the channels of a fork_join.
LEMMA UserJoin ==
  ASSUME IType, IType', NEW s, NEW line, NEW g, Fork(s, line, g), JoinOK(s, line, g),
         UNCHANGED nodeVars,
         \A ch \in Chans \ {InputChan, OutputChan} : buf'[ch] = buf[ch]
  PROVE  JoinOK(s, line, g)'
<1>1. ASSUME NEW k \in DOMAIN In[g]
      PROVE  /\ Way(s, line[k], g, k)' = Way(s, line[k], g, k)
             /\ Prefix(Way(s, line[k], g, k)', Way(s, line[k], g, k))
  <2>1. buf'[In[g][k]] = buf[In[g][k]] /\ buf'[Out[s][k]] = buf[Out[s][k]]
    BY <1>1, ForkFacts
  <2>2. Taken(g, k)' = Taken(g, k) /\ Coming(s, line[k], k)' = Coming(s, line[k], k)
    BY <2>1 DEF Taken, Coming, Due, Ended, nodeVars
  <2> QED
    BY <1>1, <2>1, <2>2, Same
<1> QED
  BY <1>1, Shrink DEF Ended, nodeVars

\* JoinInv is preserved.
LEMMA JoinStep == IType /\ IType' /\ JoinInv /\ [Next]_vars => JoinInv'
<1> SUFFICES ASSUME IType, IType', JoinInv, [Next]_vars,
                    NEW s \in Nodes, NEW g \in Nodes, NEW line \in [DOMAIN In[g] -> Nodes],
                    Fork(s, line, g), ~Ended(g)'
             PROVE  JoinOK(s, line, g)'
  BY DEF JoinInv
<1>0. JoinOK(s, line, g)
  BY StaysEnded DEF JoinInv
<1>1. ASSUME NEW n \in Nodes, NodeStep(n) PROVE JoinOK(s, line, g)'
  <2>1. CASE Recv(n)
    BY <1>0, <2>1, RecvJoin
  <2>2. CASE RecvClosed(n) \/ SendClosed(n) \/ WorkPanics(n)
    BY <1>0, <2>2, EndJoin DEF RecvClosed, SendClosed, WorkPanics
  <2>3. CASE Work(n)
    BY <1>0, <2>3, WorkJoin
  <2>4. CASE SendItem(n)
    BY <1>0, <2>4, SendJoin
  <2> QED
    BY <1>1, <2>1, <2>2, <2>3, <2>4 DEF NodeStep
<1>2. ASSUME UNCHANGED nodeVars,
             \A ch \in Chans \ {InputChan, OutputChan} : buf'[ch] = buf[ch]
      PROVE  JoinOK(s, line, g)'
  BY <1>0, <1>2, UserJoin
<1>3. CASE UNCHANGED <<buf, nodeVars>>
  BY <1>2, <1>3
<1>4. CASE SendInput \/ ReceiveOutput \/ DropOutput
  <2>1. \A ch \in Chans \ {InputChan, OutputChan} : buf'[ch] = buf[ch]
    BY <1>4 DEF SendInput, ReceiveOutput, DropOutput, IType, ChansOK
  <2>2. UNCHANGED nodeVars
    BY <1>4 DEF SendInput, ReceiveOutput, DropOutput
  <2> QED
    BY <1>2, <2>1, <2>2
<1> QED
  BY <1>1, <1>3, <1>4 DEF Next, BeginSend, DropInput, BeginReceive, Close, Join, Idle, vars

\* No value in flight is a join of different items.
Good == Items \cup {Nothing}
GoodInv == buf \in [Chans -> Seq(Good)] /\ got \in [Nodes -> Seq(Good)]

LEMMA GoodResult ==
  ASSUME IType, JoinInv, GoodInv, NEW n \in Nodes PROVE Result(n) \in Good
<1>1. got[n] \in Seq(Good) /\ \A i \in DOMAIN got[n] : got[n][i] = got[n][1]
  BY Aligned DEF GoodInv
<1>2. got[n] # <<>> => got[n][1] \in Good
  BY <1>1, EmptySeq, ElementOfSeq
<1> QED
  BY <1>1, <1>2 DEF Result, Good

LEMMA GoodStep == IType /\ JoinInv /\ GoodInv /\ [Next]_vars => GoodInv'
<1> SUFFICES ASSUME IType, JoinInv, GoodInv, [Next]_vars PROVE GoodInv'
  OBVIOUS
<1>0. <<>> \in Seq(Good)
  BY EmptySeq
<1>a. ASSUME NEW ch \in Chans, buf[ch] # <<>>
      PROVE  Head(buf[ch]) \in Good /\ [buf EXCEPT ![ch] = Tail(@)] \in [Chans -> Seq(Good)]
  BY <1>a, HeadTailProperties DEF GoodInv
<1>b. ASSUME NEW ch \in Chans, NEW v \in Good
      PROVE  [buf EXCEPT ![ch] = Append(@, v)] \in [Chans -> Seq(Good)]
  BY <1>b, AppendProperties DEF GoodInv
<1>1. ASSUME NEW n \in Nodes, NodeStep(n) PROVE GoodInv'
  <2>1. CASE Recv(n)
    <3>1. NextIn(n) \in Chans
      BY <2>1, ConstantTypes, ElementOfSeq DEF Recv, Receiving, NextIn, IType, NodesOK
    <3>2. Head(buf[NextIn(n)]) \in Good /\ buf' \in [Chans -> Seq(Good)]
      BY <1>a, <2>1, <3>1 DEF Recv
    <3>3. Append(got[n], Head(buf[NextIn(n)])) \in Seq(Good)
      BY <3>2, AppendProperties DEF GoodInv
    <3> QED
      BY <2>1, <3>2, <3>3 DEF Recv, GoodInv
  <2>2. CASE RecvClosed(n) \/ SendClosed(n) \/ WorkPanics(n)
    BY <1>0, <2>2 DEF RecvClosed, SendClosed, WorkPanics, End, GoodInv
  <2>3. CASE Work(n)
    BY <1>0, <2>3 DEF Work, GoodInv
  <2>4. CASE SendItem(n)
    <3>1. NextOut(n) \in Chans
      BY <2>4, ConstantTypes, ElementOfSeq DEF SendItem, NextOut, IType, NodesOK
    <3>2. buf' \in [Chans -> Seq(Good)]
      BY <1>b, <2>4, <3>1, GoodResult DEF SendItem
    <3>3. got' \in [Nodes -> Seq(Good)]
      BY <1>0, <2>4 DEF SendItem, GoodInv
    <3> QED
      BY <3>2, <3>3 DEF GoodInv
  <2> QED
    BY <1>1, <2>1, <2>2, <2>3, <2>4 DEF NodeStep
<1>2. CASE UNCHANGED <<buf, nodeVars>>
  BY <1>2 DEF GoodInv, nodeVars
<1>3. CASE SendInput
  <2>1. sent + 1 \in Good
    <3>1. sent \in Nat /\ MaxItems \in Nat /\ sent < MaxItems
      BY <1>3, ConstantTypes DEF SendInput, IType, UsersOK
    <3> QED
      BY <3>1 DEF Good, Items
  <2>2. buf' \in [Chans -> Seq(Good)]
    <3>1. [buf EXCEPT ![InputChan] = Append(@, sent + 1)] \in [Chans -> Seq(Good)]
      BY <1>b, <2>1, ConstantTypes
    <3> QED
      BY <1>3, <3>1 DEF SendInput, GoodInv
  <2> QED
    BY <1>3, <2>2 DEF SendInput, nodeVars, GoodInv
<1>4. CASE ReceiveOutput
  <2>1. buf' \in [Chans -> Seq(Good)]
    BY <1>a, <1>4, ConstantTypes DEF ReceiveOutput, GoodInv
  <2> QED
    BY <1>4, <2>1 DEF ReceiveOutput, nodeVars, GoodInv
<1>5. CASE DropOutput
  BY <1>0, <1>5 DEF DropOutput, nodeVars, GoodInv
<1> QED
  BY <1>1, <1>2, <1>3, <1>4, <1>5 DEF Next, BeginSend, DropInput, BeginReceive, Close, Join, Idle, vars

\* Initially nothing is on its way.
LEMMA JoinInit == Init => JoinInv /\ GoodInv
<1> SUFFICES ASSUME Init PROVE JoinInv /\ GoodInv
  OBVIOUS
<1>1. <<>> \in Seq(Values) /\ <<>> \in Seq(Good) /\ <<>> \o <<>> = <<>> /\ Len(<<>>) = 0
  BY EmptySeq, ConcatEmptySeq
<1>2. GoodInv
  BY <1>1 DEF Init, GoodInv
<1>3. ASSUME NEW s \in Nodes, NEW g \in Nodes, NEW line \in [DOMAIN In[g] -> Nodes], Fork(s, line, g)
      PROVE  JoinOK(s, line, g)
  <2>1. ASSUME NEW k \in DOMAIN In[g] PROVE Way(s, line[k], g, k) = <<>>
    <3>1. /\ got[g] = <<>> /\ got[line[k]] = <<>> /\ buf[In[g][k]] = <<>> /\ buf[Out[s][k]] = <<>>
          /\ pc[s] = "recv" /\ ~(k <= 0)
      BY <1>3, <2>1, ForkFacts DEF Init
    <3>2. Taken(g, k) = <<>> /\ Due(s, k) = <<>>
      BY <1>1, <3>1 DEF Taken, Due
    <3> QED
      BY <1>1, <3>1, <3>2 DEF Way, Coming
  <2>2. Prefix(<<>>, <<>>)
    BY <1>1, PrefixSelf
  <2> QED
    BY <1>1, <2>1, <2>2 DEF JoinOK
<1> QED
  BY <1>2, <1>3 DEF JoinInv

\* "The join function needs to receive the intermediate results in the original
\* order": in every network of forwarders, filters and fork_joins, whatever the
\* size of the queues, wherever functions panic and whoever drops an end, a
\* gatherer joins the results of one item only.
THEOREM JoinsAreAligned == Spec => []GatherAligned
<1>1. Spec => []IType
  BY TypeInit, TypeStep, PTL DEF Spec
<1>2. IType /\ IType' /\ JoinInv /\ GoodInv /\ [Next]_vars => JoinInv' /\ GoodInv'
  BY JoinStep, GoodStep
<1>3. IType /\ JoinInv /\ GoodInv => GatherAligned
  BY GoodResult, FunctionsAssumption DEF GatherAligned, Good
<1> QED
  BY <1>1, <1>2, <1>3, JoinInit, PTL DEF Spec
-----------------------------------------------------------------------------
(* The pipeline as an ordered pipe *)

\* The item that a thread holds, unless the first output has it already.
Held(n) == IF got[n] = <<>> \/ (pc[n] = "send" /\ sentTo[n] > 0) THEN {} ELSE {got[n][1]}

\* Where the items of the pipeline are: with the producer, at each thread of
\* the way with the channel in front of it, behind the last thread, with the
\* consumer.
Places(path) == 0 .. Len(path) + 2
Front(path, i) == IF i = Len(path) + 1 THEN OutputChan ELSE In[path[i]][1]
HeldAt(path, i) == IF i = Len(path) + 1 THEN {} ELSE Held(path[i])
At(path, i) ==
  IF i = 0 THEN sent + 1 .. MaxItems
  ELSE IF i = Len(path) + 2 THEN Range(received)
  ELSE HeldAt(path, i) \cup Range(buf[Front(path, i)])

\* The items at place i still reach the consumer.
Flowing(path, i) ==
  i <= Len(path) + 1 =>
    consumer # "dropped" /\ \A k \in DOMAIN path : i <= k => ~Ended(path[k])

\* Nodes whose work is in what place i holds.
Behind(path, i) ==
  {n \in Nodes : \E k \in DOMAIN path :
     k < i /\ (n = path[k] \/ Range(Out[n]) \cap Range(In[path[k]]) # {})}
\* What a node does not hold back.
Pass(n) == Values \ (Panics[n] \cup (Items \ Keep[n]))

\* Items keep their order from place to place.
Ordered(path) ==
  \A i, k \in Places(path) : i < k => \A v \in At(path, i), u \in At(path, k) : u < v
\* What is ahead of an item at a place that still flows is at that place or
\* further on, unless some filter discards it.
NoneLost(path) ==
  \A i \in Places(path) : Flowing(path, i) =>
    \A v \in At(path, i), j \in Kept : j < v =>
      \E k \in i .. Len(path) + 2 : j \in At(path, k)
\* An item has got past the functions behind it.
Clean(path) ==
  \A i \in 1 .. Len(path) + 2 : \A n \in Behind(path, i) : At(path, i) \subseteq Pass(n)
ItemsOnly(path) == \A i \in Places(path) : At(path, i) \subseteq Items
FlowInv(path) ==
  ItemsOnly(path) /\ Ordered(path) /\ NoneLost(path) /\ Clean(path)

\* Within a place, too, items are in order.
Increasing(s) == \A i, k \in DOMAIN s : i < k => s[i] < s[k]
LinedAt(path, i) ==
  /\ Increasing(buf[Front(path, i)])
  /\ \A h \in HeldAt(path, i), v \in Range(buf[Front(path, i)]) : h < v
Lined(path) == \A i \in 1 .. Len(path) + 1 : LinedAt(path, i)

FlowAll(path) == FlowInv(path) /\ Lined(path)

\* What a channel, or a thread at the channel's other end, has from a thread is
\* what that thread passes on.
PassInv ==
  /\ \A n \in Nodes : \A ch \in Range(Out[n]) : Range(buf[ch]) \subseteq Pass(n)
  /\ \A n \in Nodes : pc[n] = "send" => Result(n) \in Pass(n)
  /\ \A n, m \in Nodes : \A x \in DOMAIN got[m] : In[m][x] \in Range(Out[n]) => got[m][x] \in Pass(n)

\* Channels and threads of the way.
LEMMA PathFacts ==
  ASSUME NEW path, IsPipeline(path)
  PROVE  /\ Len(path) \in Nat /\ 1 <= Len(path) /\ DOMAIN path = 1 .. Len(path)
         /\ \A i \in 1 .. Len(path) :
              /\ path[i] \in Nodes /\ 1 \in DOMAIN In[path[i]] /\ 1 \in DOMAIN Out[path[i]]
              /\ Front(path, i) = In[path[i]][1] /\ Front(path, i + 1) = Out[path[i]][1]
              /\ HeldAt(path, i) = Held(path[i])
         /\ \A i \in 1 .. Len(path) + 1 : Front(path, i) \in Chans
         /\ Front(path, 1) = InputChan /\ Front(path, Len(path) + 1) = OutputChan
         /\ HeldAt(path, Len(path) + 1) = {}
<1>1. path \in Seq(Nodes) /\ path # <<>>
  BY DEF IsPipeline
<1>2. Len(path) \in Nat /\ 1 <= Len(path) /\ DOMAIN path = 1 .. Len(path)
  BY <1>1, LenProperties, EmptySeq
<1>3. ASSUME NEW i \in 1 .. Len(path)
      PROVE  /\ path[i] \in Nodes /\ 1 \in DOMAIN In[path[i]] /\ 1 \in DOMAIN Out[path[i]]
             /\ In[path[i]][1] \in Chans
  <2>1. path[i] \in Nodes
    BY <1>1, <1>3, ElementOfSeq
  <2>2. /\ In[path[i]] \in Seq(Chans) /\ In[path[i]] # <<>>
        /\ Out[path[i]] \in Seq(Chans) /\ Out[path[i]] # <<>>
    BY <1>2, <1>3, <2>1, ConstantTypes DEF IsPipeline
  <2>3. Len(In[path[i]]) >= 1 /\ Len(Out[path[i]]) >= 1
    BY <2>2, EmptySeq
  <2> QED
    BY <2>1, <2>2, <2>3, LenProperties, ElementOfSeq
<1>4. ASSUME NEW i \in 1 .. Len(path)
      PROVE  /\ Front(path, i) = In[path[i]][1] /\ HeldAt(path, i) = Held(path[i])
             /\ Front(path, i + 1) = Out[path[i]][1]
  <2>1. i # Len(path) + 1
    BY <1>2, <1>4
  <2>2. Front(path, i + 1) = Out[path[i]][1]
    <3>1. CASE i = Len(path)
      BY <3>1 DEF Front, IsPipeline
    <3>2. CASE i # Len(path)
      <4>1. i \in 1 .. Len(path) - 1 /\ i + 1 # Len(path) + 1
        <5>1. \A m \in Nat : \A j \in 1 .. m : j # m => j \in 1 .. m - 1 /\ j + 1 # m + 1
          OBVIOUS
        <5> QED
          BY <1>2, <1>4, <3>2, <5>1, Zenon
      <4>2. Out[path[i]][1] = In[path[i + 1]][1]
        BY <4>1 DEF IsPipeline
      <4> QED
        BY <4>1, <4>2 DEF Front
    <3> QED
      BY <3>1, <3>2
  <2> QED
    BY <2>1, <2>2 DEF Front, HeldAt
<1>5. Front(path, 1) = InputChan
  BY <1>2, <1>4 DEF IsPipeline
<1>6. Front(path, Len(path) + 1) = OutputChan /\ HeldAt(path, Len(path) + 1) = {}
  BY DEF Front, HeldAt
<1>7. \A i \in 1 .. Len(path) + 1 : Front(path, i) \in Chans
  <2>1. \A i \in 1 .. Len(path) + 1 : i \in 1 .. Len(path) \/ i = Len(path) + 1
    BY <1>2
  <2> QED
    BY <1>3, <1>4, <1>6, <2>1, ConstantTypes
<1> QED
  BY <1>2, <1>3, <1>4, <1>5, <1>6, <1>7

\* Only the threads of the way send to its channels and receive from them, each
\* at its first end.
LEMMA FrontEnds ==
  ASSUME NEW path, IsPipeline(path), NEW i \in 1 .. Len(path) + 1, NEW n \in Nodes
  PROVE  /\ \A x \in DOMAIN In[n] :
              In[n][x] = Front(path, i) => i <= Len(path) /\ n = path[i] /\ x = 1
         /\ \A j \in DOMAIN Out[n] :
              Out[n][j] = Front(path, i) => i > 1 /\ n = path[i - 1] /\ j = 1
<1>1. Len(path) \in Nat /\ 1 <= Len(path)
  BY PathFacts
<1>2. ASSUME NEW x \in DOMAIN In[n], In[n][x] = Front(path, i)
      PROVE  i <= Len(path) /\ n = path[i] /\ x = 1
  <2>1. i # Len(path) + 1
    <3>1. In[n][x] \in Range(In[n])
      BY <1>2 DEF Range
    <3> QED
      BY <1>2, <3>1, PathFacts, EndsAssumption
  <2>2. i \in 1 .. Len(path) /\ i <= Len(path)
    BY <1>1, <2>1
  <2> QED
    BY <1>2, <2>2, PathFacts, EndsAssumption
<1>3. ASSUME NEW j \in DOMAIN Out[n], Out[n][j] = Front(path, i)
      PROVE  i > 1 /\ n = path[i - 1] /\ j = 1
  <2>1. i # 1
    <3>1. Out[n][j] \in Range(Out[n])
      BY <1>3 DEF Range
    <3> QED
      BY <1>3, <3>1, PathFacts, EndsAssumption
  <2>2. i - 1 \in 1 .. Len(path) /\ i > 1 /\ (i - 1) + 1 = i
    BY <1>1, <2>1
  <2>3. Front(path, i) = Out[path[i - 1]][1] /\ path[i - 1] \in Nodes /\ 1 \in DOMAIN Out[path[i - 1]]
    <3> DEFINE k == i - 1
    <3>1. k \in 1 .. Len(path) /\ i = k + 1
      BY <2>2
    <3> HIDE DEF k
    <3>2. Front(path, k + 1) = Out[path[k]][1] /\ path[k] \in Nodes /\ 1 \in DOMAIN Out[path[k]]
      BY <3>1, PathFacts
    <3> QED
      BY <3>1, <3>2 DEF k
  <2> QED
    BY <1>3, <2>2, <2>3, EndsAssumption
<1> QED
  BY <1>2, <1>3

LEMMA FrontDistinct ==
  ASSUME NEW path, IsPipeline(path), NEW i \in 1 .. Len(path) + 1, NEW k \in 1 .. Len(path) + 1,
         Front(path, i) = Front(path, k)
  PROVE  i = k
<1>1. Len(path) \in Nat /\ 1 <= Len(path)
  BY PathFacts
<1>2. CASE i \in 1 .. Len(path)
  <2>1. k <= Len(path) /\ path[i] = path[k]
    BY <1>2, PathFacts, FrontEnds
  <2>2. k \in 1 .. Len(path)
    BY <1>1, <2>1
  <2> QED
    BY <1>2, <2>1, <2>2, PathFacts DEF IsPipeline
<1>3. CASE k \in 1 .. Len(path)
  <2>1. i <= Len(path) /\ path[k] = path[i]
    BY <1>3, PathFacts, FrontEnds
  <2>2. i \in 1 .. Len(path)
    BY <1>1, <2>1
  <2> QED
    BY <1>3, <2>1, <2>2, PathFacts DEF IsPipeline
<1>4. i \in 1 .. Len(path) \/ k \in 1 .. Len(path) \/ i = k
  BY <1>1
<1> QED
  BY <1>2, <1>3, <1>4

\* Sequences that increase.
LEMMA IncreasingTail ==
  ASSUME NEW T, NEW s \in Seq(T), s # <<>>
  PROVE  /\ Range(s) = {Head(s)} \cup Range(Tail(s))
         /\ Increasing(s) => Increasing(Tail(s)) /\ \A v \in Range(Tail(s)) : Head(s) < v
<1>1. /\ Len(s) \in Nat /\ 1 <= Len(s) /\ DOMAIN s = 1 .. Len(s) /\ Head(s) = s[1]
      /\ Tail(s) \in Seq(T) /\ Len(Tail(s)) = Len(s) - 1
      /\ \A i \in 1 .. Len(Tail(s)) : Tail(s)[i] = s[i + 1]
  BY HeadTailProperties, LenProperties, EmptySeq
<1>2. DOMAIN Tail(s) = 1 .. Len(s) - 1
  BY <1>1, LenProperties
<1>3. \A i \in DOMAIN Tail(s) : i + 1 \in DOMAIN s /\ 1 \in DOMAIN s /\ 1 < i + 1 /\ Tail(s)[i] = s[i + 1]
  BY <1>1, <1>2
<1>4. \A i \in DOMAIN s : i = 1 \/ (i - 1 \in DOMAIN Tail(s) /\ Tail(s)[i - 1] = s[i])
  BY <1>1, <1>2
<1>5. Range(s) = {Head(s)} \cup Range(Tail(s))
  <2>1. Range(s) \subseteq {Head(s)} \cup Range(Tail(s))
    <3> SUFFICES ASSUME NEW i \in DOMAIN s PROVE s[i] \in {Head(s)} \cup Range(Tail(s))
      BY DEF Range
    <3>1. i = 1 \/ s[i] \in Range(Tail(s))
      BY <1>4 DEF Range
    <3> QED
      BY <1>1, <3>1
  <2>2. Head(s) \in Range(s)
    BY <1>1 DEF Range
  <2>3. Range(Tail(s)) \subseteq Range(s)
    BY <1>3 DEF Range
  <2> QED
    BY <2>1, <2>2, <2>3
<1>6. ASSUME Increasing(s) PROVE Increasing(Tail(s)) /\ \A v \in Range(Tail(s)) : Head(s) < v
  <2>1. \A i, k \in DOMAIN Tail(s) : i < k => i + 1 < k + 1
    BY <1>1, <1>2
  <2>2. Increasing(Tail(s))
    BY <1>3, <1>6, <2>1 DEF Increasing
  <2>3. \A v \in Range(Tail(s)) : Head(s) < v
    BY <1>1, <1>3, <1>6 DEF Increasing, Range
  <2> QED
    BY <2>2, <2>3
<1> QED
  BY <1>5, <1>6

LEMMA IncreasingAppend ==
  ASSUME NEW T, NEW s \in Seq(T), NEW x \in T
  PROVE  /\ Range(Append(s, x)) = Range(s) \cup {x}
         /\ Increasing(s) /\ (\A v \in Range(s) : v < x) => Increasing(Append(s, x))
<1> DEFINE w == Append(s, x)
           m == Len(s)
<1>1. /\ m \in Nat /\ DOMAIN s = 1 .. m /\ DOMAIN w = 1 .. m + 1
      /\ w[m + 1] = x /\ \A i \in 1 .. m : w[i] = s[i]
  BY AppendProperties, LenProperties
<1> HIDE DEF w, m
<1>2. Range(w) = Range(s) \cup {x}
  <2>1. \A i \in DOMAIN w : i \in DOMAIN s \/ i = m + 1
    BY <1>1
  <2>2. \A i \in DOMAIN s : i \in DOMAIN w
    BY <1>1
  <2>3. m + 1 \in DOMAIN w
    BY <1>1
  <2>4. Range(w) \subseteq Range(s) \cup {x}
    BY <1>1, <2>1 DEF Range
  <2>5. Range(s) \subseteq Range(w)
    BY <1>1, <2>2 DEF Range
  <2>6. x \in Range(w)
    BY <1>1, <2>3 DEF Range
  <2> QED
    BY <2>4, <2>5, <2>6
<1>3. ASSUME Increasing(s), \A v \in Range(s) : v < x PROVE Increasing(w)
  <2>1. \A i \in DOMAIN s : s[i] < x
    BY <1>3 DEF Range
  <2>2. \A i, k \in DOMAIN w : i < k => i \in DOMAIN s /\ (k \in DOMAIN s \/ k = m + 1)
    BY <1>1
  <2> QED
    BY <1>1, <1>3, <2>1, <2>2 DEF Increasing
<1> QED
  BY <1>2, <1>3 DEF w

LEMMA EmptyRange == Range(<<>>) = {} /\ Increasing(<<>>)
  BY DEF Range, Increasing

-----------------------------------------------------------------------------
(* What a step does to the flow of items *)

\* Places lose items only when those are discarded, or when nothing flows from
\* there to the consumer any more.
LEMMA FlowThins ==
  ASSUME NEW path, IsPipeline(path), FlowInv(path),
         \A k \in Places(path) : At(path, k)' \subseteq At(path, k),
         \A k \in Places(path) : Flowing(path, k)' => Flowing(path, k),
         \A i, k \in Places(path) : Flowing(path, i)' /\ i <= k =>
           \A j \in Kept : j \in At(path, k) => j \in At(path, k)'
  PROVE  FlowInv(path)'
<1>1. ItemsOnly(path)'
  BY DEF FlowInv, ItemsOnly, Places
<1>2. Ordered(path)'
  BY DEF FlowInv, Ordered, Places
<1>3. NoneLost(path)'
  <2> SUFFICES ASSUME NEW i \in Places(path), Flowing(path, i)', NEW v \in At(path, i)',
                      NEW j \in Kept, j < v
               PROVE  \E k \in i .. Len(path) + 2 : j \in At(path, k)'
    BY DEF NoneLost, Places
  <2>1. PICK k \in i .. Len(path) + 2 : j \in At(path, k)
    BY DEF FlowInv, NoneLost
  <2>2. k \in Places(path) /\ i <= k
    BY PathFacts DEF Places
  <2> QED
    BY <2>1, <2>2
<1>4. Clean(path)'
  <2>1. \A i \in 1 .. Len(path) + 2 : i \in Places(path)
    BY PathFacts DEF Places
  <2> QED
    BY <2>1 DEF FlowInv, Clean, Behind, Pass
<1> QED
  BY <1>1, <1>2, <1>3, <1>4 DEF FlowInv

\* The first item of a place moves on to the next one.
LEMMA FlowMoves ==
  ASSUME NEW path, IsPipeline(path), FlowInv(path), NEW i \in 0 .. Len(path) + 1,
         NEW h \in At(path, i), \A v \in At(path, i) : v = h \/ h < v,
         At(path, i)' = At(path, i) \ {h}, At(path, i + 1)' = At(path, i + 1) \cup {h},
         \A k \in Places(path) : k # i /\ k # i + 1 => At(path, k)' = At(path, k),
         \A k \in Places(path) : Flowing(path, k)' => Flowing(path, k),
         Flowing(path, i + 1) => Flowing(path, i),
         \A n \in Behind(path, i + 1) : h \in Pass(n)
  PROVE  FlowInv(path)'
<1>0. /\ Len(path) \in Nat /\ i \in Places(path) /\ i + 1 \in Places(path) /\ i \in Nat
      /\ \A k \in Places(path) : k \in Nat /\ k <= Len(path) + 2
  BY PathFacts DEF Places
<1>a. \A k \in Places(path) : At(path, k)' \subseteq At(path, k) \cup {h}
  BY <1>0
<1>b. \A k \in Places(path) : k # i + 1 => At(path, k)' \subseteq At(path, k)
  BY <1>0
<1>c. \A k \in Places(path) : At(path, k) \subseteq Items
  BY DEF FlowInv, ItemsOnly
<1>d. Items \subseteq Nat
  BY ConstantTypes DEF Items
<1>1. ItemsOnly(path)'
  <2>1. h \in Items
    BY <1>0, <1>c
  <2> QED
    BY <1>a, <1>c, <2>1 DEF ItemsOnly, Places, Items
<1>2. Ordered(path)'
  <2> SUFFICES ASSUME NEW j \in Places(path), NEW k \in Places(path), j < k,
                      NEW v \in At(path, j)', NEW u \in At(path, k)'
               PROVE  u < v
    BY DEF Ordered, Places
  <2>o. \A a, b \in Places(path) : a < b => \A x \in At(path, a), y \in At(path, b) : y < x
    BY DEF FlowInv, Ordered
  <2>1. CASE k # i + 1 /\ j # i + 1
    BY <1>b, <2>o, <2>1
  <2>2. CASE k = i + 1
    <3>1. v \in At(path, j) /\ (j = i \/ j < i)
      BY <1>0, <1>b, <2>2
    <3>2. u \in At(path, k) \/ u = h
      BY <2>2
    <3>3. CASE u \in At(path, k)
      BY <3>1, <3>3, <2>o
    <3>4. CASE u = h /\ j = i
      <4>1. v # h
        BY <3>4
      <4> QED
        BY <3>1, <3>4, <4>1
    <3>5. CASE u = h /\ j < i
      BY <1>0, <3>1, <3>5, <2>o
    <3> QED
      BY <3>1, <3>2, <3>3, <3>4, <3>5
  <2>3. CASE j = i + 1
    <3>1. k # i + 1 /\ i < k /\ u \in At(path, k)
      BY <1>0, <1>b, <2>3
    <3>2. v \in At(path, j) \/ v = h
      BY <2>3
    <3> QED
      BY <1>0, <3>1, <3>2, <2>o
  <2> QED
    BY <2>1, <2>2, <2>3
<1>3. NoneLost(path)'
  <2> SUFFICES ASSUME NEW a \in Places(path), Flowing(path, a)', NEW v \in At(path, a)',
                      NEW j \in Kept, j < v
               PROVE  \E k \in a .. Len(path) + 2 : j \in At(path, k)'
    BY DEF NoneLost, Places
  <2>1. Flowing(path, a) /\ a \in Nat /\ a <= Len(path) + 2
    BY <1>0
  <2>2. ASSUME NEW b \in Places(path), b <= a, Flowing(path, b), v \in At(path, b),
               a <= i + 1, b = a \/ (b = i /\ v = h)
        PROVE  \E k \in a .. Len(path) + 2 : j \in At(path, k)'
    <3>1. PICK k \in b .. Len(path) + 2 : j \in At(path, k)
      BY <2>2 DEF FlowInv, NoneLost
    <3>2. k \in Places(path) /\ b \in Nat
      BY <1>0, <2>2 DEF Places
    <3>3. CASE j = h
      <4>1. i + 1 \in a .. Len(path) + 2
        BY <1>0, <2>1, <2>2
      <4> QED
        BY <3>3, <4>1
    <3>4. CASE j # h
      <4>1. j \in At(path, k)'
        BY <3>1, <3>2, <3>4, <1>0
      <4>2. k \in a .. Len(path) + 2
        <5>1. CASE b = a
          BY <5>1
        <5>2. CASE b = i /\ v = h
          <6>1. k # i
            <7> SUFFICES ASSUME k = i PROVE FALSE
              OBVIOUS
            <7>1. j \in At(path, i) /\ j < h
              BY <3>1, <5>2
            <7>2. h < j /\ h \in Nat /\ j \in Nat
              BY <1>0, <1>c, <1>d, <3>4, <7>1
            <7> QED
              BY <7>1, <7>2
          <6> QED
            BY <1>0, <2>1, <2>2, <3>1, <3>2, <5>2, <6>1
        <5> QED
          BY <2>2, <5>1, <5>2
      <4> QED
        BY <4>1, <4>2
    <3> QED
      BY <3>3, <3>4
  <2>3. CASE a <= i
    <3>1. v \in At(path, a)
      BY <1>0, <1>b, <2>1, <2>3
    <3> QED
      BY <1>0, <2>1, <2>2, <2>3, <3>1
  <2>4. CASE a = i + 1
    <3>1. CASE v \in At(path, a)
      BY <1>0, <2>1, <2>2, <2>4, <3>1
    <3>2. CASE v = h
      BY <1>0, <2>1, <2>2, <2>4, <3>2
    <3> QED
      BY <2>4, <3>1, <3>2
  <2>5. CASE i + 1 < a
    <3>1. v \in At(path, a)
      BY <1>0, <1>b, <2>1, <2>5
    <3>2. PICK k \in a .. Len(path) + 2 : j \in At(path, k)
      BY <2>1, <3>1 DEF FlowInv, NoneLost
    <3>3. k \in Places(path) /\ k # i /\ k # i + 1
      BY <1>0, <2>1, <2>5 DEF Places
    <3> QED
      BY <3>2, <3>3
  <2> QED
    BY <1>0, <2>1, <2>3, <2>4, <2>5
<1>4. Clean(path)'
  <2> SUFFICES ASSUME NEW k \in 1 .. Len(path) + 2, NEW n \in Behind(path, k), NEW v \in At(path, k)'
               PROVE  v \in Pass(n)
    BY DEF Clean, Behind, Pass
  <2>1. k \in Places(path)
    BY PathFacts DEF Places
  <2>2. v \in At(path, k) \/ (k = i + 1 /\ v = h)
    BY <1>0, <1>b, <2>1
  <2> QED
    BY <2>2 DEF FlowInv, Clean
<1> QED
  BY <1>1, <1>2, <1>3, <1>4 DEF FlowInv

LEMMA PlaceFacts ==
  ASSUME NEW path, IsPipeline(path)
  PROVE  /\ At(path, 0) = sent + 1 .. MaxItems /\ At(path, 0)' = sent' + 1 .. MaxItems
         /\ At(path, Len(path) + 2) = Range(received)
         /\ At(path, Len(path) + 2)' = Range(received')
         /\ \A k \in 1 .. Len(path) + 1 :
              /\ At(path, k) = HeldAt(path, k) \cup Range(buf[Front(path, k)])
              /\ At(path, k)' = HeldAt(path, k)' \cup Range(buf'[Front(path, k)])
         /\ \A k \in Places(path) : k = 0 \/ k \in 1 .. Len(path) + 1 \/ k = Len(path) + 2
         /\ 1 .. Len(path) + 1 \subseteq Places(path)
         /\ 0 \in Places(path) /\ Len(path) + 2 \in Places(path)
<1>1. Len(path) \in Nat
  BY PathFacts
<1>2. \A k \in 1 .. Len(path) + 1 : k # 0 /\ k # Len(path) + 2
  BY <1>1
<1>3. Len(path) + 2 # 0
  BY <1>1
<1> QED
  BY <1>1, <1>2, <1>3 DEF At, Places, Front

\* A place whose thread and channel have not changed.
LEMMA PlaceSame ==
  ASSUME NEW path, IsPipeline(path), NEW k \in 1 .. Len(path) + 1,
         buf'[Front(path, k)] = buf[Front(path, k)], HeldAt(path, k)' = HeldAt(path, k)
  PROVE  At(path, k)' = At(path, k) /\ (LinedAt(path, k) => LinedAt(path, k)')
<1>1. At(path, k)' = At(path, k)
  BY PlaceFacts
<1>2. Front(path, k)' = Front(path, k)
  BY DEF Front
<1> QED
  BY <1>1, <1>2 DEF LinedAt, Increasing

\* A thread that has not changed holds what it held.
LEMMA HeldSame ==
  ASSUME NEW path, IsPipeline(path), NEW k \in 1 .. Len(path) + 1,
         k <= Len(path) =>
           /\ pc'[path[k]] = pc[path[k]] /\ got'[path[k]] = got[path[k]]
           /\ sentTo'[path[k]] = sentTo[path[k]]
  PROVE  HeldAt(path, k)' = HeldAt(path, k)
<1>1. Len(path) \in Nat
  BY PathFacts
<1>2. k = Len(path) + 1 \/ k <= Len(path)
  BY <1>1
<1> QED
  BY <1>1, <1>2 DEF HeldAt, Held

LEMMA FlowingSame ==
  ASSUME NEW path, IsPipeline(path), \A m \in Nodes : Ended(m)' = Ended(m),
         consumer' = "dropped" <=> consumer = "dropped"
  PROVE  \A k \in Places(path) : Flowing(path, k)' = Flowing(path, k)
<1>1. \A i \in DOMAIN path : path[i] \in Nodes
  BY PathFacts
<1>2. \A k \in Places(path) : Flowing(path, k)' <=> Flowing(path, k)
  BY <1>1 DEF Flowing
<1> QED
  BY <1>2 DEF Flowing

\* A step that leaves every place as it is.
LEMMA FlowSame ==
  ASSUME NEW path, IsPipeline(path), FlowInv(path), UNCHANGED <<sent, received>>,
         \A k \in 1 .. Len(path) + 1 : At(path, k)' = At(path, k),
         \A m \in Nodes : Ended(m)' = Ended(m),
         consumer' = "dropped" <=> consumer = "dropped"
  PROVE  FlowInv(path)'
<1>1. \A k \in Places(path) : At(path, k)' = At(path, k)
  BY PlaceFacts
<1>2. \A k \in Places(path) : Flowing(path, k)' = Flowing(path, k)
  BY FlowingSame
<1> QED
  BY <1>1, <1>2, FlowThins

\* A value received by a thread.
LEMMA RecvFlow ==
  ASSUME IType, IType', NEW path, IsPipeline(path), FlowAll(path), NEW n \in Nodes, Recv(n)
  PROVE  FlowAll(path)'
<1> DEFINE ch == NextIn(n)
<1>1. /\ UNCHANGED <<pc, sentTo>> /\ pc[n] = "recv" /\ buf[ch] # <<>>
      /\ Len(got[n]) < Len(In[n]) /\ ch = In[n][Len(got[n]) + 1]
  BY DEF Recv, Receiving, NextIn
<1>2. /\ Len(got[n]) \in Nat /\ Len(In[n]) \in Nat /\ DOMAIN In[n] = 1 .. Len(In[n])
      /\ In[n] \in Seq(Chans) /\ got[n] \in Seq(Values)
  BY ConstantTypes, LenProperties DEF IType, NodesOK
<1>3. Len(got[n]) + 1 \in DOMAIN In[n] /\ ch \in Chans
  BY <1>1, <1>2, ElementOfSeq
<1>4. Head(buf[ch]) \in Values /\ buf[ch] \in Seq(Values)
  BY <1>1, <1>3, HeadTailProperties DEF IType, ChansOK
<1>5. /\ got'[n] = Append(got[n], Head(buf[ch])) /\ buf'[ch] = Tail(buf[ch])
      /\ \A m \in Nodes : m # n => got'[m] = got[m]
      /\ \A d \in Chans : d # ch => buf'[d] = buf[d]
  BY <1>3 DEF Recv, IType, NodesOK, ChansOK
<1>6. /\ Len(got'[n]) = Len(got[n]) + 1 /\ got'[n][Len(got[n]) + 1] = Head(buf[ch])
      /\ \A i \in 1 .. Len(got[n]) : got'[n][i] = got[n][i]
      /\ got'[n] # <<>>
  <2>1. /\ Len(got'[n]) = Len(got[n]) + 1 /\ got'[n][Len(got[n]) + 1] = Head(buf[ch])
        /\ \A i \in 1 .. Len(got[n]) : got'[n][i] = got[n][i]
    BY <1>2, <1>4, <1>5, AppendProperties
  <2>2. Len(got'[n]) # 0
    BY <1>2, <2>1
  <2> QED
    BY <2>1, <2>2, EmptySeq
<1> HIDE DEF ch
<1>7. ASSUME NEW k \in 1 .. Len(path) + 1
      PROVE  At(path, k)' = At(path, k) /\ LinedAt(path, k)'
  <2>0. LinedAt(path, k) /\ Front(path, k) \in Chans /\ Len(path) \in Nat
    BY <1>7, PathFacts DEF FlowAll, Lined
  <2>1. CASE ch = Front(path, k)
    <3>1. k \in 1 .. Len(path) /\ n = path[k] /\ Len(got[n]) + 1 = 1
      <4>1. k <= Len(path) /\ n = path[k] /\ Len(got[n]) + 1 = 1
        <5>1. In[n][Len(got[n]) + 1] = Front(path, k)
          BY <1>1, <2>1
        <5>2. \A x \in DOMAIN In[n] :
                In[n][x] = Front(path, k) => k <= Len(path) /\ n = path[k] /\ x = 1
          BY <1>7, FrontEnds
        <5> QED
          BY <1>3, <5>1, <5>2
      <4> QED
        BY <1>7, <2>0, <4>1
    <3>2. got[n] = <<>> /\ got'[n][1] = Head(buf[ch])
      BY <1>2, <1>6, <3>1, EmptySeq
    <3>3. HeldAt(path, k) = {} /\ HeldAt(path, k)' = {Head(buf[ch])}
      <4>1. Held(n) = {} /\ Held(n)' = {Head(buf[ch])}
        BY <1>1, <1>6, <3>2 DEF Held
      <4>2. HeldAt(path, k) = Held(n) /\ HeldAt(path, k)' = Held(n)'
        BY <2>0, <3>1 DEF HeldAt
      <4> QED
        BY <4>1, <4>2
    <3>4. /\ Range(buf[ch]) = {Head(buf[ch])} \cup Range(Tail(buf[ch]))
          /\ Increasing(Tail(buf[ch])) /\ \A v \in Range(Tail(buf[ch])) : Head(buf[ch]) < v
      BY <1>1, <1>4, <2>0, <2>1, IncreasingTail DEF LinedAt
    <3>5. At(path, k)' = At(path, k)
      BY <1>5, <1>7, <2>1, <3>3, <3>4, PlaceFacts
    <3>6. Front(path, k)' = Front(path, k)
      BY DEF Front
    <3> QED
      BY <1>5, <2>1, <3>3, <3>4, <3>5, <3>6 DEF LinedAt, Increasing
  <2>2. CASE ch # Front(path, k)
    <3>1. HeldAt(path, k)' = HeldAt(path, k)
      <4>1. CASE k <= Len(path) /\ n = path[k]
        <5>1. Len(got[n]) + 1 # 1
          <6>1. Front(path, k) = In[n][1]
            <7>1. k \in 1 .. Len(path)
              BY <1>7, <2>0, <4>1
            <7> QED
              BY <4>1, <7>1, PathFacts
          <6> QED
            BY <1>1, <2>2, <6>1
        <5>2. got[n] # <<>> /\ got'[n][1] = got[n][1]
          BY <1>2, <1>6, <5>1, EmptySeq
        <5>3. Held(n)' = Held(n)
          BY <1>1, <1>6, <5>2 DEF Held
        <5>4. k # Len(path) + 1
          BY <2>0, <4>1
        <5> QED
          BY <4>1, <5>3, <5>4 DEF HeldAt
      <4>2. CASE k <= Len(path) /\ n # path[k]
        <5>1. path[k] \in Nodes
          <6>1. k \in 1 .. Len(path)
            BY <1>7, <2>0, <4>2
          <6> QED
            BY <6>1, PathFacts
        <5> QED
          BY <1>1, <1>5, <1>7, <4>2, <5>1, HeldSame
      <4>3. CASE ~(k <= Len(path))
        BY <1>7, <4>3, HeldSame
      <4> QED
        BY <4>1, <4>2, <4>3
    <3> QED
      BY <1>5, <1>7, <2>0, <2>2, <3>1, PlaceSame
  <2> QED
    BY <2>1, <2>2
<1>8. FlowInv(path)'
  <2>1. UNCHANGED <<sent, received, consumer>> /\ \A m \in Nodes : Ended(m)' = Ended(m)
    BY <1>1 DEF Recv, userVars, Ended
  <2> QED
    BY <1>7, <2>1, FlowSame DEF FlowAll
<1> QED
  BY <1>7, <1>8 DEF FlowAll, Lined

\* A thread that ends.
LEMMA EndFlow ==
  ASSUME IType, NEW path, IsPipeline(path), FlowAll(path),
         NEW n \in Nodes, NEW how \in {"done", "panicked"}, End(n, how)
  PROVE  FlowAll(path)'
<1>1. /\ UNCHANGED <<sent, received, consumer>> /\ Ended(n)' /\ got'[n] = <<>>
      /\ \A m \in Nodes : m # n => pc'[m] = pc[m] /\ got'[m] = got[m] /\ sentTo'[m] = sentTo[m]
      /\ \A ch \in Chans : buf'[ch] = IF ch \in Range(In[n]) THEN <<>> ELSE buf[ch]
  BY DEF End, userVars, Ended, IType, NodesOK
<1>2. Len(path) \in Nat /\ DOMAIN path = 1 .. Len(path)
  BY PathFacts
<1>3. ASSUME NEW k \in 1 .. Len(path) + 1, k <= Len(path) => n # path[k]
      PROVE  At(path, k)' = At(path, k) /\ LinedAt(path, k)'
  <2>1. Front(path, k) \notin Range(In[n])
    BY <1>3, FrontEnds DEF Range
  <2>2. buf'[Front(path, k)] = buf[Front(path, k)]
    BY <1>1, <1>3, <2>1, PathFacts
  <2>3. k <= Len(path) => k \in 1 .. Len(path)
    BY <1>2, <1>3
  <2>4. HeldAt(path, k)' = HeldAt(path, k)
    BY <1>1, <1>3, <2>3, PathFacts, HeldSame
  <2> QED
    BY <1>3, <2>2, <2>4, PlaceSame DEF FlowAll, Lined
<1>4. ASSUME NEW k \in 1 .. Len(path), n = path[k]
      PROVE  At(path, k)' = {} /\ LinedAt(path, k)'
  <2>1. HeldAt(path, k)' = {}
    <3>1. Held(n)' = {}
      BY <1>1 DEF Held
    <3>2. k # Len(path) + 1
      BY <1>2
    <3> QED
      BY <1>4, <3>1, <3>2 DEF HeldAt
  <2>2. buf'[Front(path, k)] = <<>>
    <3>1. Front(path, k) \in Range(In[n]) /\ Front(path, k) \in Chans
      <4>1. Front(path, k) = In[n][1] /\ 1 \in DOMAIN In[n] /\ k \in 1 .. Len(path) + 1
        BY <1>2, <1>4, PathFacts
      <4> QED
        BY <4>1, PathFacts DEF Range
    <3> QED
      BY <1>1, <3>1
  <2>3. k \in 1 .. Len(path) + 1 /\ Front(path, k)' = Front(path, k)
    BY <1>2 DEF Front
  <2> QED
    BY <2>1, <2>2, <2>3, PlaceFacts, EmptyRange DEF LinedAt, Increasing
<1>5. \A k \in 1 .. Len(path) + 1 : \/ k \in 1 .. Len(path) /\ n = path[k]
                                    \/ k <= Len(path) => n # path[k]
  BY <1>2
<1>6. \A k \in Places(path) : \/ At(path, k)' = At(path, k)
                              \/ k \in 1 .. Len(path) /\ n = path[k] /\ At(path, k)' = {}
  BY <1>1, <1>3, <1>4, <1>5, PlaceFacts
<1>7. \A k \in Places(path) : Flowing(path, k)' => Flowing(path, k)
  <2>1. \A m \in Nodes : Ended(m) => Ended(m)'
    BY <1>1 DEF Ended
  <2> QED
    BY <1>1, <2>1, PathFacts DEF Flowing
<1>8. ASSUME NEW i \in Places(path), NEW k \in Places(path), Flowing(path, i)', i <= k
      PROVE  At(path, k)' = At(path, k)
  <2> SUFFICES ASSUME k \in 1 .. Len(path), n = path[k] PROVE FALSE
    BY <1>6
  <2>1. i <= Len(path) + 1
    BY <1>2, <1>8 DEF Places
  <2> QED
    BY <1>1, <1>2, <1>8, <2>1 DEF Flowing
<1>9. FlowInv(path)'
  <2>1. \A k \in Places(path) : At(path, k)' \subseteq At(path, k)
    BY <1>6
  <2> QED
    BY <1>7, <1>8, <2>1, FlowThins DEF FlowAll
<1>10. Lined(path)'
  BY <1>3, <1>4, <1>5 DEF Lined
<1> QED
  BY <1>9, <1>10 DEF FlowAll

\* A thread that works: an item that it discards is not a kept one.
LEMMA WorkFlow ==
  ASSUME IType, NEW path, IsPipeline(path), FlowAll(path), NEW n \in Nodes, Work(n)
  PROVE  FlowAll(path)'
<1>1. /\ UNCHANGED <<buf, sentTo, sent, received, consumer>> /\ pc[n] = "recv" /\ sentTo[n] = 0
      /\ got[n] \in Seq(Values)
      /\ \A m \in Nodes : m # n => pc'[m] = pc[m] /\ got'[m] = got[m]
      /\ \/ got'[n] = <<>> /\ pc'[n] = "recv" /\ (Discards(n) \/ Out[n] = <<>>)
         \/ got'[n] = got[n] /\ pc'[n] = "send"
  BY DEF Work, IType, NodesOK, userVars
<1>2. Len(path) \in Nat /\ DOMAIN path = 1 .. Len(path)
  BY PathFacts
<1>3. ASSUME Discards(n) PROVE got[n] # <<>> /\ got[n][1] \in Items \ Keep[n]
  BY <1>3, FunctionsAssumption DEF Discards, Result
<1>4. /\ got'[n] = got[n] => Held(n)' = Held(n)
      /\ got'[n] # got[n] => Held(n)' = {} /\ Held(n) = {got[n][1]}
  <2>1. Held(n) = IF got[n] = <<>> THEN {} ELSE {got[n][1]}
    BY <1>1 DEF Held
  <2>2. Held(n)' = IF got'[n] = <<>> THEN {} ELSE {got'[n][1]}
    <3>1. ~(sentTo'[n] > 0)
      BY <1>1
    <3> QED
      BY <3>1 DEF Held
  <2> QED
    BY <1>1, <2>1, <2>2
<1>5. ASSUME NEW k \in 1 .. Len(path) + 1
      PROVE  /\ HeldAt(path, k)' = HeldAt(path, k) \/ HeldAt(path, k)' = {}
             /\ \A j \in Kept : j \in HeldAt(path, k) => j \in HeldAt(path, k)'
  <2>1. CASE k \in 1 .. Len(path) /\ n = path[k]
    <3>1. HeldAt(path, k) = Held(n) /\ HeldAt(path, k)' = Held(n)'
      <4>1. k # Len(path) + 1
        BY <1>2, <2>1
      <4> QED
        BY <2>1, <4>1 DEF HeldAt
    <3>2. Out[n] # <<>>
      BY <1>2, <2>1 DEF IsPipeline
    <3>3. \A j \in Kept : j \in Keep[n]
      BY DEF Kept
    <3> QED
      BY <1>1, <1>3, <1>4, <3>1, <3>2, <3>3
  <2>2. CASE ~(k \in 1 .. Len(path) /\ n = path[k])
    <3>1. k <= Len(path) => k \in 1 .. Len(path)
      BY <1>2, <1>5
    <3>2. HeldAt(path, k)' = HeldAt(path, k)
      BY <1>1, <1>5, <2>2, <3>1, PathFacts, HeldSame
    <3> QED
      BY <3>2
  <2> QED
    BY <2>1, <2>2
<1>6. \A m \in Nodes : Ended(m)' = Ended(m)
  BY <1>1 DEF Ended
<1>7. FlowInv(path)'
  <2>1. \A k \in Places(path) : At(path, k)' \subseteq At(path, k)
    BY <1>1, <1>5, PlaceFacts
  <2>2. \A k \in Places(path) : \A j \in Kept : j \in At(path, k) => j \in At(path, k)'
    BY <1>1, <1>5, PlaceFacts
  <2> QED
    BY <1>1, <1>6, <2>1, <2>2, FlowingSame, FlowThins DEF FlowAll
<1>8. Lined(path)'
  <2> SUFFICES ASSUME NEW k \in 1 .. Len(path) + 1 PROVE LinedAt(path, k)'
    BY DEF Lined
  <2>1. LinedAt(path, k) /\ Front(path, k)' = Front(path, k)
    BY DEF FlowAll, Lined, Front
  <2> QED
    BY <1>1, <1>5, <2>1 DEF LinedAt
<1> QED
  BY <1>7, <1>8 DEF FlowAll

\* A thread of the way hands its item to the next place.
LEMMA HandOver ==
  ASSUME IType, JoinInv, PassInv, NEW path, IsPipeline(path), FlowAll(path),
         NEW i \in 1 .. Len(path), SendItem(path[i]), sentTo[path[i]] = 0
  PROVE  FlowAll(path)'
<1> DEFINE n == path[i]
           ch == Front(path, i + 1)
           h == got[n][1]
<1>0. /\ Len(path) \in Nat /\ n \in Nodes /\ ch = Out[n][1] /\ ch \in Chans
      /\ i \in 1 .. Len(path) + 1 /\ i + 1 \in 1 .. Len(path) + 1 /\ i \in 0 .. Len(path) + 1
      /\ HeldAt(path, i) = Held(n) /\ Front(path, i) \in Chans /\ In[n] # <<>>
      /\ i \in Places(path) /\ i + 1 \in Places(path) /\ i # i + 1 /\ i < i + 1
  <2>1. Len(path) \in Nat
    BY PathFacts
  <2>2. i \in 1 .. Len(path) + 1 /\ i + 1 \in 1 .. Len(path) + 1 /\ i \in 0 .. Len(path) + 1
        /\ i # i + 1 /\ i < i + 1
    BY <2>1
  <2>3. In[n] # <<>>
    BY PathFacts DEF IsPipeline
  <2> QED
    BY <2>1, <2>2, <2>3, PathFacts, PlaceFacts
<1>1. /\ pc[n] = "send" /\ got[n] \in Seq(Values) /\ Len(got[n]) = Len(In[n]) /\ got[n] # <<>>
      /\ UNCHANGED <<sent, received, consumer>> /\ NextOut(n) = ch
  <2>1. got[n] \in Seq(Values) /\ Len(got[n]) = Len(In[n]) /\ pc[n] = "send"
    BY <1>0 DEF SendItem, IType, NodesOK
  <2>2. got[n] # <<>>
    BY <1>0, <2>1, ConstantTypes, EmptySeq
  <2>3. NextOut(n) = ch
    BY <1>0 DEF NextOut
  <2>4. UNCHANGED <<sent, received, consumer>>
    BY DEF SendItem, userVars
  <2> QED
    BY <2>1, <2>2, <2>3, <2>4
<1>2. /\ pc'[n] # "send" => got'[n] = <<>>
      /\ pc'[n] = "send" => sentTo'[n] > 0
      /\ pc'[n] \in {"recv", "send"}
      /\ \A m \in Nodes : m # n => pc'[m] = pc[m] /\ got'[m] = got[m] /\ sentTo'[m] = sentTo[m]
      /\ buf'[ch] = Append(buf[ch], Result(n)) /\ \A d \in Chans : d # ch => buf'[d] = buf[d]
  BY <1>0, <1>1 DEF SendItem, IType, NodesOK, ChansOK
<1>3. Result(n) = h /\ 1 \in DOMAIN got[n] /\ DOMAIN got[n] = DOMAIN In[n]
  <2>1. \A x \in DOMAIN got[n] : got[n][x] = got[n][1]
    BY <1>0, Aligned
  <2>2. 1 \in DOMAIN got[n] /\ DOMAIN got[n] = DOMAIN In[n]
    BY <1>0, <1>1, ConstantTypes, LenProperties, EmptySeq
  <2> QED
    BY <1>1, <2>1, <2>2 DEF Result
<1>4. HeldAt(path, i) = {h} /\ HeldAt(path, i)' = {}
  <2>1. Held(n) = {h} /\ Held(n)' = {}
    BY <1>1, <1>2 DEF Held
  <2>2. HeldAt(path, i)' = Held(n)'
    <3>1. i # Len(path) + 1
      BY <1>0
    <3> QED
      BY <3>1 DEF HeldAt
  <2> QED
    BY <1>0, <2>1, <2>2
<1>5. h \in Values /\ buf[ch] \in Seq(Values)
  BY <1>0, <1>1, <1>3, ElementOfSeq DEF IType, ChansOK
<1>6. h \in At(path, i) /\ h \in Nat
  <2>1. h \in At(path, i)
    BY <1>0, <1>4, PlaceFacts
  <2> QED
    BY <1>0, <2>1, ConstantTypes DEF FlowAll, FlowInv, ItemsOnly, Items
<1>7. ASSUME NEW k \in 1 .. Len(path) + 1, k # i
      PROVE  HeldAt(path, k)' = HeldAt(path, k)
  <2>1. k <= Len(path) => k \in 1 .. Len(path)
    BY <1>0, <1>7
  <2>2. ASSUME k \in 1 .. Len(path) PROVE path[k] \in Nodes /\ path[k] # n
    <3>1. k \in DOMAIN path /\ i \in DOMAIN path /\ path[k] \in Nodes
      BY <2>2, PathFacts
    <3> QED
      BY <1>7, <3>1 DEF IsPipeline
  <2> HIDE DEF n
  <2>3. k <= Len(path) => path[k] \in Nodes /\ path[k] # n
    BY <2>1, <2>2
  <2> QED
    BY <1>2, <1>7, <2>3, HeldSame
<1>8. \A k \in 1 .. Len(path) + 1 : k # i + 1 => Front(path, k) # ch
  BY <1>0, FrontDistinct
<1> HIDE DEF n, ch, h
<1>9. /\ LinedAt(path, i) /\ LinedAt(path, i + 1)
      /\ Front(path, i)' = Front(path, i) /\ Front(path, i + 1)' = ch
  BY <1>0 DEF FlowAll, Lined, Front, ch
<1>10. At(path, i)' = At(path, i) \ {h} /\ LinedAt(path, i)'
  <2>1. buf'[Front(path, i)] = buf[Front(path, i)]
    BY <1>0, <1>2, <1>8
  <2>2. h \notin Range(buf[Front(path, i)])
    BY <1>4, <1>6, <1>9 DEF LinedAt
  <2>3. At(path, i)' = At(path, i) \ {h}
    BY <1>0, <1>4, <2>1, <2>2, PlaceFacts
  <2> QED
    BY <1>4, <1>9, <2>1, <2>3 DEF LinedAt
<1>11. At(path, i + 1)' = At(path, i + 1) \cup {h} /\ LinedAt(path, i + 1)'
  <2>1. HeldAt(path, i + 1)' = HeldAt(path, i + 1)
    BY <1>0, <1>7
  <2>2. At(path, i + 1) = HeldAt(path, i + 1) \cup Range(buf[ch])
        /\ At(path, i + 1)' = HeldAt(path, i + 1) \cup Range(buf'[ch])
    BY <1>0, <2>1, PlaceFacts DEF ch
  <2>3. \A u \in At(path, i + 1) : u < h
    BY <1>0, <1>6 DEF FlowAll, FlowInv, Ordered
  <2>4. Increasing(buf[ch])
    BY <1>9 DEF LinedAt, ch
  <2>5. Range(buf'[ch]) = Range(buf[ch]) \cup {h} /\ Increasing(buf'[ch])
    BY <1>2, <1>3, <1>5, <2>2, <2>3, <2>4, IncreasingAppend
  <2>6. \A u \in HeldAt(path, i + 1), v \in Range(buf'[ch]) : u < v
    BY <1>9, <2>2, <2>3, <2>5 DEF LinedAt, ch
  <2>7. LinedAt(path, i + 1)'
    BY <1>9, <2>1, <2>5, <2>6 DEF LinedAt
  <2> QED
    BY <2>2, <2>5, <2>7
<1>12. ASSUME NEW k \in 1 .. Len(path) + 1, k # i, k # i + 1
       PROVE  At(path, k)' = At(path, k) /\ LinedAt(path, k)'
  <2>1. buf'[Front(path, k)] = buf[Front(path, k)]
    BY <1>2, <1>8, <1>12, PathFacts
  <2> QED
    BY <1>7, <1>12, <2>1, PlaceSame DEF FlowAll, Lined
<1>13. ASSUME NEW m \in Behind(path, i + 1) PROVE h \in Pass(m)
  <2>1. PICK k \in DOMAIN path :
          m \in Nodes /\ k < i + 1 /\ (m = path[k] \/ Range(Out[m]) \cap Range(In[path[k]]) # {})
    BY <1>13 DEF Behind
  <2>2. CASE k < i
    <3>1. m \in Behind(path, i)
      BY <2>1, <2>2 DEF Behind
    <3>2. i \in 1 .. Len(path) + 2
      BY <1>0
    <3> QED
      BY <1>6, <3>1, <3>2 DEF FlowAll, FlowInv, Clean
  <2>3. CASE k = i /\ m = n
    BY <1>0, <1>1, <1>3, <2>3 DEF PassInv
  <2>4. CASE k = i /\ Range(Out[m]) \cap Range(In[n]) # {}
    <3>1. PICK x \in DOMAIN In[n] : In[n][x] \in Range(Out[m])
      BY <2>4 DEF Range
    <3>2. got[n][x] \in Pass(m) /\ got[n][x] = h
      BY <1>0, <1>3, <2>1, <3>1, Aligned DEF PassInv, h
    <3> QED
      BY <3>2
  <2>5. k < i \/ k = i
    BY <1>0, <2>1, PathFacts
  <2> QED
    BY <2>1, <2>2, <2>3, <2>4, <2>5 DEF n
<1>14. \A m \in Nodes : Ended(m)' = Ended(m)
  <2>1. ~Ended(n) /\ ~Ended(n)'
    BY <1>1, <1>2 DEF Ended
  <2> QED
    BY <1>2, <2>1 DEF Ended
<1>15. Flowing(path, i + 1) => Flowing(path, i)
  <2>1. ~Ended(path[i])
    BY <1>1 DEF Ended, n
  <2>2. \A k \in DOMAIN path : i <= k => k = i \/ i + 1 <= k
    BY <1>0, PathFacts
  <2> QED
    BY <1>0, <2>1, <2>2 DEF Flowing
<1>16. FlowInv(path)'
  <2>1. \A v \in At(path, i) : v = h \/ h < v
    BY <1>0, <1>4, <1>9, PlaceFacts DEF LinedAt
  <2>2. \A k \in Places(path) : k # i /\ k # i + 1 => At(path, k)' = At(path, k)
    BY <1>1, <1>12, PlaceFacts
  <2>3. \A k \in Places(path) : Flowing(path, k)' => Flowing(path, k)
    BY <1>1, <1>14, FlowingSame
  <2>4. FlowInv(path)
    BY DEF FlowAll
  <2> QED
    BY <1>0, <1>6, <1>10, <1>11, <1>13, <1>15, <2>1, <2>2, <2>3, <2>4, FlowMoves
<1>17. Lined(path)'
  BY <1>10, <1>11, <1>12 DEF Lined
<1> QED
  BY <1>16, <1>17 DEF FlowAll

\* A value sent.
LEMMA SendFlow ==
  ASSUME IType, JoinInv, PassInv, NEW path, IsPipeline(path), FlowAll(path),
         NEW n \in Nodes, SendItem(n)
  PROVE  FlowAll(path)'
<1>1. CASE \E i \in 1 .. Len(path) : n = path[i] /\ sentTo[n] = 0
  BY <1>1, HandOver
<1>2. CASE ~\E i \in 1 .. Len(path) : n = path[i] /\ sentTo[n] = 0
  <2>1. /\ pc[n] = "send" /\ sentTo[n] \in Nat /\ sentTo[n] + 1 \in DOMAIN Out[n]
        /\ NextOut(n) = Out[n][sentTo[n] + 1] /\ NextOut(n) \in Chans
        /\ UNCHANGED <<sent, received, consumer>>
    <3>1. pc[n] = "send" /\ UNCHANGED <<sent, received, consumer>>
      BY DEF SendItem, userVars
    <3>2. sentTo[n] \in Nat /\ sentTo[n] < Len(Out[n]) /\ Out[n] \in Seq(Chans) /\ Len(Out[n]) \in Nat
      BY <3>1, ConstantTypes DEF IType, NodesOK
    <3>3. sentTo[n] + 1 \in DOMAIN Out[n]
      BY <3>2, LenProperties
    <3> QED
      BY <3>1, <3>2, <3>3, ElementOfSeq DEF NextOut
  <2>2. /\ pc'[n] # "send" => got'[n] = <<>>
        /\ pc'[n] = "send" => sentTo'[n] > 0
        /\ pc'[n] \in {"recv", "send"}
        /\ \A m \in Nodes : m # n => pc'[m] = pc[m] /\ got'[m] = got[m] /\ sentTo'[m] = sentTo[m]
        /\ \A d \in Chans : d # NextOut(n) => buf'[d] = buf[d]
    BY <2>1 DEF SendItem, IType, NodesOK, ChansOK
  <2>3. ASSUME NEW k \in 1 .. Len(path) + 1
        PROVE  At(path, k)' = At(path, k) /\ LinedAt(path, k)'
    <3>0. Len(path) \in Nat
      BY PathFacts
    <3>1. Front(path, k) # NextOut(n)
      <4> SUFFICES ASSUME Front(path, k) = NextOut(n) PROVE FALSE
        OBVIOUS
      <4>1. k > 1 /\ n = path[k - 1] /\ sentTo[n] + 1 = 1
        <5>1. \A j \in DOMAIN Out[n] :
                Out[n][j] = Front(path, k) => k > 1 /\ n = path[k - 1] /\ j = 1
          BY <2>3, FrontEnds
        <5> QED
          BY <2>1, <5>1
      <4>2. k - 1 \in 1 .. Len(path) /\ sentTo[n] = 0
        BY <2>1, <2>3, <3>0, <4>1
      <4> QED
        BY <1>2, <4>1, <4>2
    <3>2. HeldAt(path, k)' = HeldAt(path, k)
      <4>1. CASE k \in 1 .. Len(path) /\ n = path[k]
        <5>1. sentTo[n] > 0
          BY <1>2, <2>1, <4>1
        <5>2. Held(n) = {} /\ Held(n)' = {}
          BY <2>1, <2>2, <5>1 DEF Held
        <5>3. k # Len(path) + 1
          BY <3>0, <4>1
        <5> QED
          BY <4>1, <5>2, <5>3 DEF HeldAt
      <4>2. CASE ~(k \in 1 .. Len(path) /\ n = path[k])
        <5>1. k <= Len(path) => k \in 1 .. Len(path)
          BY <2>3, <3>0
        <5>2. k <= Len(path) => path[k] \in Nodes /\ path[k] # n
          BY <4>2, <5>1, PathFacts
        <5> QED
          BY <2>2, <2>3, <5>2, HeldSame
      <4> QED
        BY <4>1, <4>2
    <3>3. buf'[Front(path, k)] = buf[Front(path, k)]
      BY <2>2, <2>3, <3>1, PathFacts
    <3> QED
      BY <2>3, <3>2, <3>3, PlaceSame DEF FlowAll, Lined
  <2>4. \A m \in Nodes : Ended(m)' = Ended(m)
    <3>1. ~Ended(n) /\ ~Ended(n)'
      BY <2>1, <2>2 DEF Ended
    <3> QED
      BY <2>2, <3>1 DEF Ended
  <2>5. FlowInv(path)'
    BY <2>1, <2>3, <2>4, FlowSame DEF FlowAll
  <2> QED
    BY <2>3, <2>5 DEF FlowAll, Lined
<1> QED
  BY <1>1, <1>2

\* The users leave the threads alone, and the channels but for the two ends.
LEMMA UserPlaces ==
  ASSUME NEW path, IsPipeline(path), FlowAll(path), UNCHANGED nodeVars
  PROVE  /\ \A k \in 1 .. Len(path) + 1 :
              /\ HeldAt(path, k)' = HeldAt(path, k)
              /\ buf'[Front(path, k)] = buf[Front(path, k)] =>
                   At(path, k)' = At(path, k) /\ LinedAt(path, k)'
         /\ \A m \in Nodes : Ended(m)' = Ended(m)
<1>1. \A k \in 1 .. Len(path) + 1 : HeldAt(path, k)' = HeldAt(path, k)
  BY HeldSame DEF nodeVars
<1>2. \A k \in 1 .. Len(path) + 1 : buf'[Front(path, k)] = buf[Front(path, k)] =>
        At(path, k)' = At(path, k) /\ LinedAt(path, k)'
  BY <1>1, PlaceSame DEF FlowAll, Lined
<1> QED
  BY <1>1, <1>2 DEF nodeVars, Ended

\* The producer sends the next item.
LEMMA InputFlow ==
  ASSUME IType, NEW path, IsPipeline(path), FlowAll(path), SendInput
  PROVE  FlowAll(path)'
<1>0. /\ Len(path) \in Nat /\ 1 <= Len(path) /\ 1 \in 1 .. Len(path) + 1 /\ Front(path, 1) = InputChan
      /\ 0 \in Places(path) /\ 0 + 1 = 1 /\ 0 \in 0 .. Len(path) + 1 /\ 1 \in Places(path)
      /\ UNCHANGED <<received, consumer>> /\ UNCHANGED nodeVars
  <2>1. Len(path) \in Nat /\ 1 <= Len(path)
    BY PathFacts
  <2>2. 1 \in 1 .. Len(path) + 1 /\ 0 \in 0 .. Len(path) + 1 /\ 0 + 1 = 1
    BY <2>1
  <2> QED
    BY <2>1, <2>2, PathFacts, PlaceFacts DEF SendInput
<1>1. CASE UNCHANGED <<buf, sent>>
  <2>1. \A k \in 1 .. Len(path) + 1 : At(path, k)' = At(path, k) /\ LinedAt(path, k)'
    BY <1>0, <1>1, UserPlaces
  <2>2. \A m \in Nodes : Ended(m)' = Ended(m)
    BY <1>0, UserPlaces
  <2>3. FlowInv(path)'
    BY <1>0, <1>1, <2>1, <2>2, FlowSame DEF FlowAll
  <2> QED
    BY <2>1, <2>3 DEF FlowAll, Lined
<1>2. CASE buf' = [buf EXCEPT ![InputChan] = Append(@, sent + 1)] /\ sent' = sent + 1
  <2>1. /\ sent \in Nat /\ MaxItems \in Nat /\ sent < MaxItems /\ sent + 1 \in Values
        /\ buf[InputChan] \in Seq(Values) /\ buf'[InputChan] = Append(buf[InputChan], sent + 1)
        /\ \A d \in Chans : d # InputChan => buf'[d] = buf[d]
    <3>1. sent \in Nat /\ MaxItems \in Nat /\ sent < MaxItems
      BY ConstantTypes DEF SendInput, IType, UsersOK
    <3>2. sent + 1 \in Values
      BY <3>1 DEF Values, Items
    <3> QED
      BY <1>2, <3>1, <3>2, ConstantTypes DEF IType, ChansOK
  <2>2. /\ sent + 1 \in At(path, 0) /\ At(path, 0)' = At(path, 0) \ {sent + 1}
        /\ \A v \in At(path, 0) : v = sent + 1 \/ sent + 1 < v
    <3>1. At(path, 0) = sent + 1 .. MaxItems /\ At(path, 0)' = sent + 1 + 1 .. MaxItems
      BY <1>2, PlaceFacts
    <3> QED
      BY <2>1, <3>1
  <2>3. \A k \in Places(path) : 0 < k => \A u \in At(path, k) : u < sent + 1
    BY <1>0, <2>2 DEF FlowAll, FlowInv, Ordered
  <2>4. \A k \in 1 .. Len(path) + 1 : k # 1 => At(path, k)' = At(path, k) /\ LinedAt(path, k)'
    <3> SUFFICES ASSUME NEW k \in 1 .. Len(path) + 1, k # 1
                 PROVE  At(path, k)' = At(path, k) /\ LinedAt(path, k)'
      OBVIOUS
    <3>1. Front(path, k) # InputChan /\ Front(path, k) \in Chans
      BY <1>0, FrontDistinct, PathFacts
    <3> QED
      BY <1>0, <2>1, <3>1, UserPlaces
  <2>5. At(path, 1)' = At(path, 1) \cup {sent + 1} /\ LinedAt(path, 1)'
    <3>1. HeldAt(path, 1)' = HeldAt(path, 1) /\ LinedAt(path, 1) /\ Front(path, 1)' = InputChan
      BY <1>0, UserPlaces DEF FlowAll, Lined, Front
    <3>2. At(path, 1) = HeldAt(path, 1) \cup Range(buf[InputChan])
          /\ At(path, 1)' = HeldAt(path, 1) \cup Range(buf'[InputChan])
      BY <1>0, <3>1, PlaceFacts
    <3>3. \A u \in At(path, 1) : u < sent + 1
      BY <1>0, <2>3
    <3>4. Range(buf'[InputChan]) = Range(buf[InputChan]) \cup {sent + 1} /\ Increasing(buf'[InputChan])
      BY <1>0, <2>1, <3>1, <3>2, <3>3, IncreasingAppend DEF LinedAt
    <3>5. LinedAt(path, 1)'
      BY <1>0, <3>1, <3>2, <3>3, <3>4 DEF LinedAt
    <3> QED
      BY <3>2, <3>4, <3>5
  <2>6. \A k \in Places(path) : Flowing(path, k)' = Flowing(path, k)
    BY <1>0, UserPlaces, FlowingSame
  <2>7. Flowing(path, 1) => Flowing(path, 0)
    BY <1>0, PathFacts DEF Flowing
  <2>8. Behind(path, 1) = {}
    <3>1. \A k \in DOMAIN path : ~(k < 1)
      BY PathFacts
    <3> QED
      BY <3>1 DEF Behind
  <2>9. \A k \in Places(path) : k # 0 /\ k # 1 => At(path, k)' = At(path, k)
    BY <1>0, <2>4, PlaceFacts
  <2>10. FlowInv(path)'
    BY <1>0, <2>2, <2>5, <2>6, <2>7, <2>8, <2>9, FlowMoves DEF FlowAll
  <2> QED
    BY <2>4, <2>5, <2>10 DEF FlowAll, Lined
<1> QED
  BY <1>1, <1>2 DEF SendInput

\* The consumer receives the next item.
LEMMA OutputFlow ==
  ASSUME IType, NEW path, IsPipeline(path), FlowAll(path), ReceiveOutput
  PROVE  FlowAll(path)'
<1> DEFINE z == Len(path) + 1
           h == Head(buf[OutputChan])
<1>0. /\ Len(path) \in Nat /\ z \in 1 .. Len(path) + 1 /\ Front(path, z) = OutputChan
      /\ z \in Places(path) /\ z + 1 = Len(path) + 2 /\ z \in 0 .. Len(path) + 1
      /\ z + 1 \in Places(path) /\ HeldAt(path, z) = {} /\ z \in Nat
      /\ UNCHANGED <<sent>> /\ UNCHANGED nodeVars /\ consumer # "dropped" /\ consumer' # "dropped"
  <2>1. Len(path) \in Nat
    BY PathFacts
  <2>2. z \in 1 .. Len(path) + 1 /\ z \in 0 .. Len(path) + 1 /\ z + 1 = Len(path) + 2 /\ z \in Nat
    BY <2>1
  <2> QED
    BY <2>1, <2>2, PathFacts, PlaceFacts DEF ReceiveOutput
<1>1. CASE UNCHANGED <<buf, received>>
  <2>1. \A k \in 1 .. Len(path) + 1 : At(path, k)' = At(path, k) /\ LinedAt(path, k)'
    BY <1>0, <1>1, UserPlaces
  <2>2. \A m \in Nodes : Ended(m)' = Ended(m)
    BY <1>0, UserPlaces
  <2>3. FlowInv(path)'
    BY <1>0, <1>1, <2>1, <2>2, FlowSame DEF FlowAll
  <2> QED
    BY <2>1, <2>3 DEF FlowAll, Lined
<1>2. CASE /\ buf[OutputChan] # <<>> /\ received' = Append(received, h)
           /\ buf' = [buf EXCEPT ![OutputChan] = Tail(@)]
  <2>1. /\ buf[OutputChan] \in Seq(Values) /\ buf'[OutputChan] = Tail(buf[OutputChan])
        /\ h \in Values /\ received \in Seq(Values)
        /\ \A d \in Chans : d # OutputChan => buf'[d] = buf[d]
    BY <1>2, ConstantTypes, HeadTailProperties DEF IType, ChansOK, UsersOK
  <2>2. LinedAt(path, z) /\ HeldAt(path, z)' = {} /\ Front(path, z)' = OutputChan
    BY <1>0, UserPlaces DEF FlowAll, Lined, Front
  <2>3. /\ Range(buf[OutputChan]) = {h} \cup Range(buf'[OutputChan])
        /\ Increasing(buf'[OutputChan]) /\ \A v \in Range(buf'[OutputChan]) : h < v
    BY <1>0, <1>2, <2>1, <2>2, IncreasingTail DEF LinedAt
  <2>4. At(path, z) = Range(buf[OutputChan]) /\ At(path, z)' = Range(buf'[OutputChan])
    <3>1. /\ At(path, z) = HeldAt(path, z) \cup Range(buf[Front(path, z)])
          /\ At(path, z)' = HeldAt(path, z)' \cup Range(buf'[Front(path, z)])
      <4> HIDE DEF z
      <4> QED
        BY <1>0, PlaceFacts
    <3> HIDE DEF z
    <3> QED
      BY <1>0, <2>2, <3>1
  <2> HIDE DEF h
  <2>5. h \in Nat
    BY <1>0, <2>3, <2>4, ConstantTypes DEF FlowAll, FlowInv, ItemsOnly, Items
  <2>6. /\ h \in At(path, z) /\ At(path, z)' = At(path, z) \ {h}
        /\ \A v \in At(path, z) : v = h \/ h < v
    <3>1. h \notin Range(buf'[OutputChan])
      BY <2>3, <2>5
    <3> QED
      BY <2>3, <2>4, <3>1
  <2>7. At(path, z + 1)' = At(path, z + 1) \cup {h}
    <3>1. Range(received') = Range(received) \cup {h}
      BY <1>2, <2>1, IncreasingAppend
    <3> QED
      BY <1>0, <3>1, PlaceFacts
  <2>8. \A k \in 1 .. Len(path) + 1 : k # z => At(path, k)' = At(path, k) /\ LinedAt(path, k)'
    <3> SUFFICES ASSUME NEW k \in 1 .. Len(path) + 1, k # z
                 PROVE  At(path, k)' = At(path, k) /\ LinedAt(path, k)'
      OBVIOUS
    <3>1. Front(path, k) # OutputChan /\ Front(path, k) \in Chans
      BY <1>0, FrontDistinct, PathFacts
    <3> QED
      BY <1>0, <2>1, <3>1, UserPlaces
  <2>9. LinedAt(path, z)'
    BY <2>2, <2>3 DEF LinedAt
  <2>10. \A k \in Places(path) : Flowing(path, k)' = Flowing(path, k)
    BY <1>0, UserPlaces, FlowingSame
  <2>11. Flowing(path, z)
    BY <1>0, PathFacts DEF Flowing
  <2>12. ASSUME NEW m \in Behind(path, z + 1) PROVE h \in Pass(m)
    <3>1. m \in Behind(path, z)
      <4>1. \A k \in DOMAIN path : k < z
        BY PathFacts
      <4> QED
        BY <2>12, <4>1 DEF Behind
    <3>2. z \in 1 .. Len(path) + 2
      BY <1>0
    <3> QED
      BY <2>6, <3>1, <3>2 DEF FlowAll, FlowInv, Clean
  <2>13. \A k \in Places(path) : k # z /\ k # z + 1 => At(path, k)' = At(path, k)
    BY <1>0, <2>8, PlaceFacts
  <2> HIDE DEF z
  <2>14. FlowInv(path)'
    BY <1>0, <2>6, <2>7, <2>10, <2>11, <2>12, <2>13, FlowMoves DEF FlowAll
  <2> QED
    BY <2>8, <2>9, <2>14 DEF FlowAll, Lined
<1> QED
  BY <1>1, <1>2 DEF ReceiveOutput

\* The consumer drops its end: nothing flows to it any more.
LEMMA DropFlow ==
  ASSUME IType, NEW path, IsPipeline(path), FlowAll(path), DropOutput
  PROVE  FlowAll(path)'
<1>1. /\ UNCHANGED nodeVars /\ UNCHANGED <<sent, received>> /\ consumer' = "dropped"
      /\ \A d \in Chans : d # OutputChan => buf'[d] = buf[d]
      /\ buf'[OutputChan] = <<>> /\ Len(path) \in Nat
  BY PathFacts, ConstantTypes DEF DropOutput, IType, ChansOK
<1>2. ASSUME NEW k \in 1 .. Len(path) + 1 PROVE At(path, k)' \subseteq At(path, k) /\ LinedAt(path, k)'
  <2>1. CASE Front(path, k) = OutputChan
    <3>1. HeldAt(path, k)' = HeldAt(path, k) /\ Range(buf'[OutputChan]) = {} /\ Increasing(buf'[OutputChan])
      BY <1>1, <1>2, UserPlaces, EmptyRange
    <3>2. Front(path, k)' = OutputChan
      BY <2>1 DEF Front
    <3> QED
      BY <1>2, <2>1, <3>1, <3>2, PlaceFacts DEF LinedAt
  <2>2. CASE Front(path, k) # OutputChan
    BY <1>1, <1>2, <2>2, PathFacts, UserPlaces
  <2> QED
    BY <2>1, <2>2
<1>3. \A k \in Places(path) : At(path, k)' \subseteq At(path, k)
  BY <1>1, <1>2, PlaceFacts
<1>4. \A k \in Places(path) : Flowing(path, k)' => k = Len(path) + 2
  BY <1>1, PlaceFacts DEF Flowing
<1>5. \A k \in Places(path) : Flowing(path, k)' => Flowing(path, k)
  BY <1>1, <1>4 DEF Flowing
<1>6. \A i, k \in Places(path) : Flowing(path, i)' /\ i <= k =>
        \A j \in Kept : j \in At(path, k) => j \in At(path, k)'
  <2>1. \A k \in Places(path) : Len(path) + 2 <= k => k = Len(path) + 2
    BY <1>1 DEF Places
  <2>2. At(path, Len(path) + 2)' = At(path, Len(path) + 2)
    BY <1>1, PlaceFacts
  <2> QED
    BY <1>4, <2>1, <2>2
<1>7. FlowInv(path)'
  BY <1>3, <1>5, <1>6, FlowThins DEF FlowAll
<1> QED
  BY <1>2, <1>7 DEF FlowAll, Lined

\* What a channel or a gatherer has from a thread is what that thread passes on.
LEMMA PassStep == IType /\ PassInv /\ [Next]_vars => PassInv'
<1> SUFFICES ASSUME IType, PassInv, [Next]_vars PROVE PassInv'
  OBVIOUS
<1>0. \A n \in Nodes : Range(Out[n]) \subseteq Chans /\ Pass(n)' = Pass(n)
  BY ConstantTypes, ElementOfSeq, LenProperties DEF Range, Pass
<1>a. \A ch \in Chans : buf[ch] # <<>> =>
        Head(buf[ch]) \in Range(buf[ch]) /\ Range(Tail(buf[ch])) \subseteq Range(buf[ch])
  BY IncreasingTail DEF IType, ChansOK
<1>b. ASSUME UNCHANGED nodeVars, \A ch \in Chans \ {InputChan} : Range(buf'[ch]) \subseteq Range(buf[ch])
      PROVE  PassInv'
  <2>1. \A n \in Nodes : \A ch \in Range(Out[n]) : ch # InputChan
    BY EndsAssumption
  <2>2. \A n \in Nodes : Result(n)' = Result(n)
    BY <1>b DEF nodeVars, Result
  <2> QED
    BY <1>0, <1>b, <2>1, <2>2 DEF PassInv, nodeVars
<1>1. ASSUME NEW n \in Nodes, Recv(n) PROVE PassInv'
  <2> DEFINE ch == NextIn(n)
             x == Len(got[n]) + 1
  <2>1. /\ UNCHANGED <<pc, sentTo>> /\ pc[n] = "recv" /\ buf[ch] # <<>> /\ ch = In[n][x]
        /\ ch \in Chans /\ buf[ch] \in Seq(Values) /\ Head(buf[ch]) \in Values /\ got[n] \in Seq(Values)
    <3>1. Len(got[n]) + 1 \in DOMAIN In[n] /\ In[n] \in Seq(Chans) /\ got[n] \in Seq(Values)
      BY <1>1, ConstantTypes, LenProperties DEF Recv, Receiving, IType, NodesOK
    <3>2. ch \in Chans
      BY <3>1, ElementOfSeq DEF NextIn
    <3> QED
      BY <1>1, <3>1, <3>2, HeadTailProperties DEF Recv, Receiving, NextIn, IType, ChansOK
  <2>2. /\ got'[n] = Append(got[n], Head(buf[ch])) /\ buf'[ch] = Tail(buf[ch])
        /\ \A m \in Nodes : m # n => got'[m] = got[m]
        /\ \A d \in Chans : d # ch => buf'[d] = buf[d]
    BY <1>1, <2>1 DEF Recv, IType, NodesOK, ChansOK
  <2>3. /\ DOMAIN got'[n] = 1 .. x /\ got'[n][x] = Head(buf[ch]) /\ DOMAIN got[n] = 1 .. x - 1
        /\ x \in Nat /\ x >= 1
        /\ \A i \in 1 .. x - 1 : got'[n][i] = got[n][i]
    BY <2>1, <2>2, AppendProperties, LenProperties
  <2> HIDE DEF ch, x
  <2>4. \A m \in Nodes : \A d \in Range(Out[m]) : Range(buf'[d]) \subseteq Pass(m)
    BY <1>0, <1>a, <2>1, <2>2 DEF PassInv
  <2>5. \A m \in Nodes : pc'[m] = "send" => Result(m)' \in Pass(m)
    <3>1. \A m \in Nodes : m # n => Result(m)' = Result(m)
      BY <2>2 DEF Result
    <3> QED
      BY <2>1, <3>1 DEF PassInv
  <2>6. ASSUME NEW m \in Nodes, NEW l \in Nodes, NEW i \in DOMAIN got'[l], In[l][i] \in Range(Out[m])
        PROVE  got'[l][i] \in Pass(m)
    <3>1. CASE l # n
      BY <2>2, <2>6, <3>1 DEF PassInv
    <3>2. CASE l = n /\ i # x
      <4>1. i \in 1 .. x - 1
        BY <2>3, <2>6, <3>2
      <4> QED
        BY <2>3, <2>6, <3>2, <4>1 DEF PassInv
    <3>3. CASE l = n /\ i = x
      BY <1>a, <2>1, <2>3, <2>6, <3>3 DEF PassInv
    <3> QED
      BY <3>1, <3>2, <3>3
  <2> QED
    BY <1>0, <2>4, <2>5, <2>6 DEF PassInv
<1>2. ASSUME NEW n \in Nodes, NEW how \in {"done", "panicked"}, End(n, how) PROVE PassInv'
  <2>1. /\ pc'[n] # "send" /\ got'[n] = <<>>
        /\ \A m \in Nodes : m # n => pc'[m] = pc[m] /\ got'[m] = got[m]
        /\ \A ch \in Chans : buf'[ch] = <<>> \/ buf'[ch] = buf[ch]
    BY <1>2 DEF End, IType, NodesOK
  <2>2. \A m \in Nodes : m # n => Result(m)' = Result(m)
    BY <2>1 DEF Result
  <2>3. DOMAIN got'[n] = {}
    BY <2>1
  <2> QED
    BY <1>0, <2>1, <2>2, <2>3, EmptyRange DEF PassInv
<1>3. ASSUME NEW n \in Nodes, Work(n) PROVE PassInv'
  <2>1. /\ UNCHANGED buf /\ \A m \in Nodes : m # n => pc'[m] = pc[m] /\ got'[m] = got[m]
        /\ \/ got'[n] = <<>> /\ pc'[n] # "send"
           \/ got'[n] = got[n] /\ ~Discards(n)
        /\ Result(n) \notin Panics[n]
    BY <1>3 DEF Work, IType, NodesOK
  <2>2. \A m \in Nodes : m # n => Result(m)' = Result(m)
    BY <2>1 DEF Result
  <2>3. pc'[n] = "send" => Result(n)' \in Pass(n)
    <3> SUFFICES ASSUME pc'[n] = "send" PROVE Result(n)' \in Pass(n)
      OBVIOUS
    <3>1. Result(n)' = Result(n) /\ ~Discards(n)
      BY <2>1 DEF Result
    <3>2. Result(n) \in Values
      BY ResultType DEF IType
    <3> QED
      BY <2>1, <3>1, <3>2 DEF Pass, Discards
  <2>4. \A m \in Nodes : got'[m] = got[m] \/ DOMAIN got'[m] = {}
    BY <2>1
  <2> QED
    BY <1>0, <2>1, <2>2, <2>3, <2>4 DEF PassInv
<1>4. ASSUME NEW n \in Nodes, SendItem(n) PROVE PassInv'
  <2> DEFINE ch == NextOut(n)
  <2>1. /\ pc[n] = "send" /\ sentTo[n] + 1 \in DOMAIN Out[n] /\ ch = Out[n][sentTo[n] + 1] /\ ch \in Chans
    <3>1. sentTo[n] \in Nat /\ sentTo[n] < Len(Out[n]) /\ Out[n] \in Seq(Chans) /\ Len(Out[n]) \in Nat
      BY <1>4, ConstantTypes DEF SendItem, IType, NodesOK
    <3>2. sentTo[n] + 1 \in DOMAIN Out[n]
      BY <3>1, LenProperties
    <3> QED
      BY <1>4, <3>1, <3>2, ElementOfSeq DEF SendItem, NextOut
  <2>2. /\ \A m \in Nodes : m # n => pc'[m] = pc[m] /\ got'[m] = got[m]
        /\ \/ got'[n] = <<>> /\ pc'[n] # "send"
           \/ got'[n] = got[n] /\ pc'[n] = pc[n]
        /\ buf'[ch] = Append(buf[ch], Result(n)) /\ \A d \in Chans : d # ch => buf'[d] = buf[d]
        /\ buf[ch] \in Seq(Values)
    BY <1>4, <2>1 DEF SendItem, IType, NodesOK, ChansOK
  <2> HIDE DEF ch
  <2>3. Range(buf'[ch]) = Range(buf[ch]) \cup {Result(n)}
    BY <2>2, ResultType, IncreasingAppend DEF IType
  <2>4. Result(n) \in Pass(n)
    BY <2>1 DEF PassInv
  <2>5. \A m \in Nodes : ch \in Range(Out[m]) => m = n
    BY <2>1, EndsAssumption DEF Range
  <2>6. \A m \in Nodes : \A d \in Range(Out[m]) : Range(buf'[d]) \subseteq Pass(m)
    BY <1>0, <2>2, <2>3, <2>4, <2>5 DEF PassInv
  <2>7. \A m \in Nodes : pc'[m] = "send" => pc[m] = "send" /\ Result(m)' = Result(m)
    BY <2>1, <2>2 DEF Result
  <2>8. \A m \in Nodes : got'[m] = got[m] \/ DOMAIN got'[m] = {}
    BY <2>2
  <2> QED
    BY <1>0, <2>6, <2>7, <2>8 DEF PassInv
<1>5. CASE UNCHANGED <<buf, nodeVars>>
  BY <1>b, <1>5
<1>6. CASE SendInput
  BY <1>b, <1>6 DEF SendInput, IType, ChansOK
<1>7. CASE ReceiveOutput \/ DropOutput
  <2>1. \A ch \in Chans : Range(buf'[ch]) \subseteq Range(buf[ch])
    BY <1>7, <1>a, EmptyRange, ConstantTypes DEF ReceiveOutput, DropOutput, IType, ChansOK
  <2> QED
    BY <1>b, <1>7, <2>1 DEF ReceiveOutput, DropOutput
<1> QED
  BY <1>1, <1>2, <1>3, <1>4, <1>5, <1>6, <1>7
     DEF Next, NodeStep, RecvClosed, WorkPanics, SendClosed, BeginSend, DropInput, BeginReceive,
         Close, Join, Idle, vars

LEMMA FlowStep ==
  ASSUME NEW path, IsPipeline(path), IType, IType', JoinInv, PassInv, FlowAll(path), [Next]_vars
  PROVE  FlowAll(path)'
<1>1. ASSUME NEW n \in Nodes, NodeStep(n) PROVE FlowAll(path)'
  BY <1>1, RecvFlow, EndFlow, WorkFlow, SendFlow DEF NodeStep, RecvClosed, WorkPanics, SendClosed
<1>2. ASSUME UNCHANGED <<buf, nodeVars, sent, received>>, consumer' = "dropped" <=> consumer = "dropped"
      PROVE  FlowAll(path)'
  <2>1. \A k \in 1 .. Len(path) + 1 : At(path, k)' = At(path, k) /\ LinedAt(path, k)'
    BY <1>2, UserPlaces
  <2>2. \A m \in Nodes : Ended(m)' = Ended(m)
    BY <1>2, UserPlaces
  <2>3. FlowInv(path)'
    BY <1>2, <2>1, <2>2, FlowSame DEF FlowAll
  <2> QED
    BY <2>1, <2>3 DEF FlowAll, Lined
<1>3. CASE BeginSend \/ DropInput \/ BeginReceive \/ Close \/ Join \/ UNCHANGED vars
  <2>1. UNCHANGED <<buf, nodeVars, sent, received>> /\ (consumer' = "dropped" <=> consumer = "dropped")
    BY <1>3 DEF BeginSend, DropInput, BeginReceive, Close, Join, vars, userVars
  <2> QED
    BY <1>2, <2>1
<1>4. CASE SendInput \/ ReceiveOutput \/ DropOutput
  BY <1>4, InputFlow, OutputFlow, DropFlow
<1> QED
  BY <1>1, <1>3, <1>4 DEF Next, Idle

\* Initially every item is with the producer.
LEMMA FlowInit == ASSUME NEW path, IsPipeline(path), Init PROVE FlowAll(path)
<1>1. /\ \A k \in 1 .. Len(path) + 1 : At(path, k) = {} /\ buf[Front(path, k)] = <<>>
      /\ At(path, Len(path) + 2) = {} /\ At(path, 0) = Items
  <2>1. \A k \in 1 .. Len(path) + 1 : HeldAt(path, k) = {}
    <3> SUFFICES ASSUME NEW k \in 1 .. Len(path) + 1 PROVE HeldAt(path, k) = {}
      OBVIOUS
    <3>1. k \in 1 .. Len(path) \/ k = Len(path) + 1
      BY PathFacts
    <3>2. \A n \in Nodes : Held(n) = {}
      BY DEF Init, Held
    <3> QED
      BY <3>1, <3>2, PathFacts
  <2>2. \A k \in 1 .. Len(path) + 1 : buf[Front(path, k)] = <<>>
    BY PathFacts DEF Init
  <2>3. At(path, 0) = Items
    BY PlaceFacts DEF Init, Items
  <2> QED
    BY <2>1, <2>2, <2>3, PlaceFacts, EmptyRange DEF Init
<1>2. \A k \in Places(path) : k # 0 => At(path, k) = {}
  BY <1>1, PlaceFacts
<1>3. ItemsOnly(path)
  BY <1>1, <1>2 DEF ItemsOnly
<1>4. Ordered(path)
  <2>1. \A i, k \in Places(path) : i < k => At(path, k) = {}
    BY <1>2, PathFacts DEF Places
  <2> QED
    BY <2>1 DEF Ordered
<1>5. NoneLost(path)
  <2> SUFFICES ASSUME NEW i \in Places(path), NEW v \in At(path, i), NEW j \in Kept
               PROVE  \E k \in i .. Len(path) + 2 : j \in At(path, k)
    BY DEF NoneLost
  <2>1. i = 0 /\ 0 \in 0 .. Len(path) + 2
    BY <1>2, PathFacts
  <2>2. j \in At(path, 0)
    BY <1>1 DEF Kept
  <2> QED
    BY <2>1, <2>2
<1>6. Clean(path)
  <2>1. \A k \in 1 .. Len(path) + 2 : k \in Places(path) /\ k # 0
    BY PathFacts DEF Places
  <2> QED
    BY <1>2, <2>1 DEF Clean
<1>7. Lined(path)
  BY <1>1, EmptyRange DEF Lined, LinedAt
<1> QED
  BY <1>3, <1>4, <1>5, <1>6, <1>7 DEF FlowAll, FlowInv

LEMMA PassInit == Init => PassInv
<1> SUFFICES ASSUME Init PROVE PassInv
  OBVIOUS
<1>1. \A n \in Nodes : Range(Out[n]) \subseteq Chans
  BY ConstantTypes, ElementOfSeq, LenProperties DEF Range
<1>2. \A n \in Nodes : DOMAIN got[n] = {} /\ pc[n] # "send"
  BY DEF Init
<1> QED
  BY <1>1, <1>2, EmptyRange DEF Init, PassInv

AllFlow == \A path \in Seq(Nodes) : IsPipeline(path) => FlowAll(path)

\* What comes out of the pipeline may come out of the ordered pipe.
LEMMA ReceivesDue ==
  ASSUME IType, NEW path, IsPipeline(path), FlowAll(path), ReceiveOutput, buf[OutputChan] # <<>>
  PROVE  \E i \in 1 .. sent : Pipe!Receive(i)
<1> DEFINE h == Head(buf[OutputChan])
           z == Len(path) + 1
<1>1. /\ received' = Append(received, h) /\ UNCHANGED sent /\ consumer # "dropped"
      /\ buf[OutputChan] \in Seq(Values) /\ h \in Values /\ received \in Seq(Values)
  BY ConstantTypes, HeadTailProperties DEF ReceiveOutput, IType, ChansOK, UsersOK
<1>2. /\ Len(path) \in Nat /\ z \in Places(path) /\ z + 1 \in Places(path) /\ 0 \in Places(path)
      /\ 0 < z /\ z < z + 1 /\ z \in 1 .. Len(path) + 2 /\ z \in 1 .. Len(path) + 1
      /\ \A k \in z .. Len(path) + 2 : k = z \/ k = z + 1
  BY PathFacts DEF Places
<1>3. At(path, z) = Range(buf[OutputChan]) /\ At(path, z + 1) = Range(received)
      /\ At(path, 0) = sent + 1 .. MaxItems
  <2>1. At(path, z) = HeldAt(path, z) \cup Range(buf[Front(path, z)])
    <3> HIDE DEF z
    <3> QED
      BY <1>2, PlaceFacts
  <2>2. HeldAt(path, z) = {} /\ Front(path, z) = OutputChan
    BY PathFacts
  <2>3. At(path, z + 1) = Range(received)
    <3>1. z + 1 = Len(path) + 2
      BY <1>2
    <3> HIDE DEF z
    <3> QED
      BY <3>1, PlaceFacts
  <2> HIDE DEF z
  <2> QED
    BY <2>1, <2>2, <2>3, PlaceFacts
<1>4. LinedAt(path, z) /\ Front(path, z) = OutputChan
  <2>1. LinedAt(path, z)
    BY <1>2 DEF FlowAll, Lined
  <2> QED
    BY <2>1, PathFacts
<1> HIDE DEF z
<1>5. /\ h \in At(path, z) /\ \A v \in Range(Tail(buf[OutputChan])) : h < v
      /\ At(path, z) = {h} \cup Range(Tail(buf[OutputChan]))
  BY <1>1, <1>3, <1>4, IncreasingTail DEF LinedAt
<1> HIDE DEF h
<1>6. h \in Items /\ At(path, z) \subseteq Nat /\ h \in Nat
  BY <1>2, <1>5, ConstantTypes DEF FlowAll, FlowInv, ItemsOnly, Items
<1>7. h \in 1 .. sent
  <2>1. sent \in Nat /\ MaxItems \in Nat
    BY ConstantTypes DEF IType, UsersOK
  <2>2. h \notin sent + 1 .. MaxItems
    <3> SUFFICES ASSUME h \in At(path, 0) PROVE FALSE
      BY <1>3
    <3>1. h < h
      BY <1>2, <1>5 DEF FlowAll, FlowInv, Ordered
    <3> QED
      BY <1>6, <3>1
  <2> QED
    BY <1>6, <2>1, <2>2 DEF Items
<1>8. \A n \in Nodes : n \in Behind(path, z) /\ n \in Behind(path, z + 1)
  <2>1. \A k \in DOMAIN path : k < z /\ k < z + 1
    BY PathFacts DEF z
  <2> QED
    BY <2>1 DEF Behind, IsPipeline
<1>9. \A n \in Nodes : h \in Pass(n) /\ Range(received) \subseteq Pass(n)
  <2>1. z + 1 \in 1 .. Len(path) + 2
    BY <1>2 DEF z
  <2> QED
    BY <1>2, <1>3, <1>5, <1>8, <2>1 DEF FlowAll, FlowInv, Clean
<1>10. h \in Kept /\ h \notin Poison
  BY <1>6, <1>9 DEF Pass, Kept, Poison
<1>11. \A k \in 1 .. Len(received) : received[k] < h /\ received[k] \in Range(received)
  <2>1. \A u \in Range(received) : u < h
    BY <1>2, <1>3, <1>5 DEF FlowAll, FlowInv, Ordered
  <2>2. DOMAIN received = 1 .. Len(received)
    BY <1>1, LenProperties
  <2> QED
    BY <2>1, <2>2 DEF Range
<1>12. ASSUME NEW j \in 1 .. h - 1
       PROVE  /\ j \in Kept => \E k \in 1 .. Len(received) : received[k] = j
              /\ j \notin Kept \cap Poison
  <2>0. j \in Nat /\ j < h
    BY <1>6
  <2>1. ASSUME j \in Kept PROVE j \in Range(received)
    <3>1. Flowing(path, z)
      <4>1. \A k \in DOMAIN path : ~(z <= k)
        BY PathFacts DEF z
      <4> QED
        BY <1>1, <4>1 DEF Flowing
    <3>2. PICK k \in z .. Len(path) + 2 : j \in At(path, k)
      BY <1>2, <1>5, <2>0, <2>1, <3>1 DEF FlowAll, FlowInv, NoneLost
    <3>3. j \notin At(path, z)
      BY <1>5, <1>6, <2>0
    <3> QED
      BY <1>2, <1>3, <3>2, <3>3
  <2>2. j \in Range(received) => \E k \in 1 .. Len(received) : received[k] = j
    <3>1. DOMAIN received = 1 .. Len(received)
      BY <1>1, LenProperties
    <3> QED
      BY <3>1 DEF Range
  <2>3. ASSUME j \in Kept \cap Poison PROVE FALSE
    <3>1. PICK n \in Nodes : j \in Panics[n]
      BY <2>3 DEF Poison
    <3>2. j \in Range(received)
      BY <2>1, <2>3
    <3> QED
      BY <1>9, <3>1, <3>2 DEF Pass
  <2> QED
    BY <2>1, <2>2, <2>3
<1>13. Pipe!Due(h)
  BY <1>10, <1>11, <1>12 DEF Pipe!Due
<1>14. Pipe!Receive(h)
  BY <1>1, <1>10, <1>13 DEF Pipe!Receive
<1> QED
  BY <1>7, <1>14

LEMMA RefinementStep ==
  ASSUME NEW path, IsPipeline(path), IType, FlowAll(path), [Next]_vars
  PROVE  [Pipe!Next]_(Pipe!vars)
<1>1. CASE UNCHANGED <<sent, received>>
  BY <1>1 DEF Pipe!vars
<1>2. CASE SendInput /\ ~UNCHANGED sent
  <2>1. Pipe!Send
    BY <1>2 DEF SendInput, Pipe!Send, IType, UsersOK
  <2> QED
    BY <2>1 DEF Pipe!Next
<1>3. CASE ReceiveOutput /\ ~UNCHANGED received
  <2>1. \E i \in 1 .. sent : Pipe!Receive(i)
    BY <1>3, ReceivesDue DEF ReceiveOutput
  <2> QED
    BY <2>1 DEF Pipe!Next
<1>4. ASSUME NEW n \in Nodes, NodeStep(n) PROVE UNCHANGED <<sent, received>>
  BY <1>4 DEF NodeStep, Recv, RecvClosed, Work, WorkPanics, SendItem, SendClosed, End, userVars
<1>5. \/ UNCHANGED <<sent, received>>
      \/ SendInput /\ UNCHANGED received
      \/ ReceiveOutput /\ UNCHANGED sent
  BY <1>4 DEF Next, BeginSend, SendInput, DropInput, BeginReceive, ReceiveOutput, DropOutput,
              Close, Join, Idle, vars, userVars
<1> QED
  BY <1>1, <1>2, <1>3, <1>5

LEMMA FlowInvariant == Spec => [](IType /\ AllFlow)
<1>1. Spec => []IType
  BY TypeInit, TypeStep, PTL DEF Spec
<1>2. Init => AllFlow /\ PassInv /\ JoinInv
  BY FlowInit, PassInit, JoinInit DEF AllFlow
<1>3. IType /\ IType' /\ JoinInv /\ PassInv /\ AllFlow /\ [Next]_vars => JoinInv' /\ PassInv' /\ AllFlow'
  BY JoinStep, PassStep, FlowStep DEF AllFlow
<1> QED
  BY <1>1, <1>2, <1>3, PTL DEF Spec

\* "Items cannot skip ahead in the pipeline": what a pipeline delivers is what
\* the ordered pipe delivers, for any number of forwarders, filters and
\* fork_joins of at least one line, any queue size and number of items,
\* wherever functions discard or panic and whenever the ends are dropped.  No
\* item overtakes another, none is lost or delivered twice, and nothing comes
\* out behind an item on which a function panics.
THEOREM PipelineIsOrderedPipe ==
  (\E path \in Seq(Nodes) : IsPipeline(path)) => (Spec => ImplementsPipe)
<1> SUFFICES ASSUME NEW path \in Seq(Nodes), IsPipeline(path) PROVE Spec => ImplementsPipe
  OBVIOUS
<1>1. Init => Pipe!Init
  BY DEF Init, Pipe!Init
<1>2. IType /\ AllFlow /\ [Next]_vars => [Pipe!Next]_(Pipe!vars)
  BY RefinementStep DEF AllFlow
<1> QED
  BY <1>1, <1>2, FlowInvariant, PTL DEF Spec, ImplementsPipe, Pipe!Spec

-----------------------------------------------------------------------------
(* A pipeline never gets stuck *)

\* The ways in which a recv or a send of the code blocks.
Blocked(n) ==
  \/ Receiving(n) /\ buf[NextIn(n)] = <<>> /\ ~SenderGone(NextIn(n))
  \/ pc[n] = "send" /\ ~ReceiverGone(NextOut(n)) /\ ~HasRoom(NextOut(n))
ProducerBlocked == producer = "send" /\ ~ReceiverGone(InputChan) /\ ~HasRoom(InputChan)
ConsumerBlocked == consumer = "recv" /\ buf[OutputChan] = <<>> /\ ~SenderGone(OutputChan)

\* Nobody can go on, neither the threads nor those who use the pipeline.
Stuck ==
  /\ \A n \in Nodes : Ended(n) \/ Blocked(n)
  /\ producer = "dropped" \/ ProducerBlocked
  /\ consumer = "dropped" \/ ConsumerBlocked
NeverStuck ==
  Stuck => (\A n \in Nodes : Ended(n)) /\ producer = "dropped" /\ consumer = "dropped"

LEMMA Least ==
  ASSUME NEW S \in SUBSET Nat, S # {} PROVE \E m \in S : \A k \in S : m <= k
<1> DEFINE R == {p \in Nat \X Nat : p[1] < p[2]}
<1>1. R = OpToRel(<, Nat)
  BY DEF OpToRel
<1>2. IsWellFoundedOn(R, Nat)
  BY <1>1, NatLessThanWellFounded
<1>3. PICK m \in S : \A k \in S : <<k, m>> \notin R
  <2> HIDE DEF R
  <2> QED
    BY <1>2, WFMin, Zenon
<1>4. \A k \in S : m <= k
  <2>1. \A i, j \in Nat : <<j, i>> \notin R => i <= j
    OBVIOUS
  <2> QED
    BY <1>3, <2>1
<1> QED
  BY <1>4

LEMMA Greatest ==
  ASSUME NEW m \in Nat, NEW S \in SUBSET (1 .. m), S # {}
  PROVE  \E i \in S : \A k \in S : k <= i
<1> DEFINE T == {j \in Nat : \E i \in S : j = m - i}
<1>1. PICK j \in T : \A k \in T : j <= k
  <2>1. PICK i \in S : TRUE
    OBVIOUS
  <2>2. m - i \in T
    BY <2>1
  <2>3. T \in SUBSET Nat
    OBVIOUS
  <2> HIDE DEF T
  <2> QED
    BY <2>2, <2>3, Least
<1>2. PICK i \in S : j = m - i
  OBVIOUS
<1>3. ASSUME NEW k \in S PROVE k <= i
  <2>1. m - k \in T /\ k \in Nat /\ i \in Nat
    OBVIOUS
  <2>2. j <= m - k
    BY <1>1, <2>1
  <2> QED
    BY <1>2, <2>1, <2>2
<1> QED
  BY <1>3

\* The neighbours of a thread on the way.
LEMMA PathNext ==
  ASSUME NEW path, IsPipeline(path), NEW i \in 1 .. Len(path), NEW n \in Nodes,
         NEW x \in DOMAIN In[n], In[n][x] = Out[path[i]][1]
  PROVE  i + 1 <= Len(path) /\ n = path[i + 1] /\ x = 1
<1>1. In[n][x] = Front(path, i + 1) /\ i + 1 \in 1 .. Len(path) + 1
  BY PathFacts
<1> QED
  BY <1>1, FrontEnds

LEMMA PathPrevious ==
  ASSUME NEW path, IsPipeline(path), NEW i \in 1 .. Len(path), NEW n \in Nodes,
         NEW j \in DOMAIN Out[n], Out[n][j] = In[path[i]][1]
  PROVE  i > 1 /\ n = path[i - 1] /\ j = 1
<1>1. Out[n][j] = Front(path, i) /\ i \in 1 .. Len(path) + 1
  BY PathFacts
<1> QED
  BY <1>1, FrontEnds

\* The distributer, the first line and the gatherer of a fork_join follow one
\* another on the way.
LEMMA ForkOnPath ==
  ASSUME NEW path, IsPipeline(path), NEW s, NEW line, NEW g, Fork(s, line, g),
         NEW i \in 1 .. Len(path)
  PROVE  /\ g = path[i] => \E k \in 1 .. Len(path) : k < i /\ s = path[k]
         /\ s = path[i] => \E k \in 1 .. Len(path) : i < k /\ g = path[k]
<1>1. /\ 1 \in DOMAIN In[g] /\ 1 \in DOMAIN Out[s] /\ s \in Nodes /\ g \in Nodes
      /\ line[1] \in Nodes /\ 1 \in DOMAIN In[line[1]] /\ 1 \in DOMAIN Out[line[1]]
      /\ In[line[1]][1] = Out[s][1] /\ Out[line[1]][1] = In[g][1]
  <2>1. 1 \in DOMAIN In[g]
    BY ConstantTypes, LenProperties DEF Fork
  <2> QED
    BY <2>1, ForkFacts
<1>2. ASSUME g = path[i] PROVE \E k \in 1 .. Len(path) : k < i /\ s = path[k]
  <2>1. i > 1 /\ line[1] = path[i - 1]
    BY <1>1, <1>2, PathPrevious
  <2> DEFINE j == i - 1
  <2>2. j \in 1 .. Len(path) /\ j < i /\ line[1] = path[j]
    BY <2>1, PathFacts
  <2> HIDE DEF j
  <2>3. j > 1 /\ s = path[j - 1]
    BY <1>1, <2>2, PathPrevious
  <2>4. j - 1 \in 1 .. Len(path) /\ j - 1 < i
    BY <2>2, <2>3, PathFacts
  <2> QED
    BY <2>3, <2>4
<1>3. ASSUME s = path[i] PROVE \E k \in 1 .. Len(path) : i < k /\ g = path[k]
  <2>1. i + 1 <= Len(path) /\ line[1] = path[i + 1]
    BY <1>1, <1>3, PathNext
  <2> DEFINE j == i + 1
  <2>2. j \in 1 .. Len(path) /\ i < j /\ line[1] = path[j]
    BY <2>1, PathFacts
  <2> HIDE DEF j
  <2>3. j + 1 <= Len(path) /\ g = path[j + 1]
    BY <1>1, <2>2, PathNext
  <2>4. j + 1 \in 1 .. Len(path) /\ i < j + 1
    BY <2>2, <2>3, PathFacts
  <2> QED
    BY <2>3, <2>4
<1> QED
  BY <1>2, <1>3

\* A thread beside the way is a line of a fork_join on it.
LEMMA BesidePath ==
  ASSUME NEW path, IsPipeline(path), NEW n \in Nodes, \A i \in 1 .. Len(path) : n # path[i]
  PROVE  \E i \in 1 .. Len(path) : \E s \in Nodes : \E line \in [DOMAIN In[path[i]] -> Nodes] :
           Fork(s, line, path[i]) /\ \E k \in DOMAIN In[path[i]] : n = line[k]
<1>1. PICK i \in 1 .. Len(path) : Range(Out[n]) \cap Range(In[path[i]]) # {}
  BY PathFacts DEF IsPipeline
<1>2. path[i] \in Nodes
  BY PathFacts
<1>3. PICK j \in DOMAIN Out[n], x \in DOMAIN In[path[i]] : Out[n][j] = In[path[i]][x]
  BY <1>1 DEF Range
<1>4. x # 1
  <2> SUFFICES ASSUME x = 1 PROVE FALSE
    OBVIOUS
  <2>1. i > 1 /\ n = path[i - 1]
    BY <1>3, PathPrevious
  <2>2. i - 1 \in 1 .. Len(path)
    BY <2>1, PathFacts
  <2> QED
    BY <2>1, <2>2
<1>5. Len(In[path[i]]) > 1
  BY <1>2, <1>3, <1>4, ConstantTypes, LenProperties
<1>6. PICK s \in Nodes, line \in [DOMAIN In[path[i]] -> Nodes] : Fork(s, line, path[i])
  BY <1>2, <1>5, GathererAssumption DEF Fork
<1>7. n = line[x]
  BY <1>3, <1>6, ForkEnds
<1> QED
  BY <1>6, <1>7

\* What a stuck thread waits for does not come, although there is room for it.
LEMMA NothingComes ==
  ASSUME IType, Stuck, NEW n \in Nodes, Receiving(n), NEW x, x = Len(got[n]) + 1
  PROVE  /\ x \in DOMAIN In[n] /\ NextIn(n) = In[n][x] /\ In[n][x] # InputChan
         /\ buf[In[n][x]] = <<>> /\ HasRoom(In[n][x])
         /\ \A m \in Nodes : \A j \in DOMAIN Out[m] :
              Out[m][j] = In[n][x] => ~Ended(m) /\ ~(pc[m] = "send" /\ sentTo[m] + 1 = j)
<1> DEFINE ch == In[n][x]
<1>1. x \in DOMAIN In[n] /\ NextIn(n) = ch
  <2>1. /\ Len(got[n]) \in Nat /\ Len(In[n]) \in Nat /\ Len(got[n]) < Len(In[n])
        /\ DOMAIN In[n] = 1 .. Len(In[n])
    BY ConstantTypes, LenProperties DEF IType, NodesOK, Receiving
  <2> QED
    BY <2>1 DEF NextIn
<1> HIDE DEF ch
<1>2. buf[ch] = <<>> /\ ~SenderGone(ch)
  BY <1>1 DEF Stuck, Blocked, Receiving, Ended
<1>3. HasRoom(ch)
  <2>1. Awaited(ch)
    BY <1>1 DEF Awaited
  <2>2. QueueSize > 0 => 0 < QueueSize
    BY ConstantTypes
  <2> QED
    BY <1>2, <2>1, <2>2, EmptySeq DEF HasRoom
<1>4. ch # InputChan
  BY <1>2, <1>3 DEF SenderGone, Stuck, ProducerBlocked
<1>5. ASSUME NEW m \in Nodes, NEW j \in DOMAIN Out[m], Out[m][j] = ch
      PROVE  ~Ended(m) /\ ~(pc[m] = "send" /\ sentTo[m] + 1 = j)
  <2>1. ch \in Range(Out[m])
    BY <1>5 DEF Range
  <2>2. ~Ended(m)
    BY <1>2, <1>4, <2>1 DEF SenderGone
  <2>3. ASSUME pc[m] = "send", sentTo[m] + 1 = j PROVE FALSE
    <3>1. NextOut(m) = ch
      BY <1>5, <2>3 DEF NextOut
    <3>2. ~HasRoom(NextOut(m))
      BY <2>2, <2>3 DEF Stuck, Blocked, Receiving
    <3> QED
      BY <1>3, <3>1, <3>2
  <2> QED
    BY <2>2, <2>3
<1> QED
  BY <1>1, <1>2, <1>3, <1>4, <1>5 DEF ch

\* Who could take what a stuck thread sends is alive and busy with other things.
LEMMA NothingLeaves ==
  ASSUME IType, Stuck, NEW n \in Nodes, pc[n] = "send", NEW y, y = sentTo[n] + 1
  PROVE  /\ y \in DOMAIN Out[n] /\ Out[n][y] # OutputChan
         /\ \A m \in Nodes : \A x \in DOMAIN In[m] :
              In[m][x] = Out[n][y] => ~Ended(m) /\ ~(Receiving(m) /\ Len(got[m]) + 1 = x)
<1> DEFINE ch == Out[n][y]
<1>1. y \in DOMAIN Out[n] /\ NextOut(n) = ch
  <2>1. /\ sentTo[n] \in Nat /\ Len(Out[n]) \in Nat /\ sentTo[n] < Len(Out[n])
        /\ DOMAIN Out[n] = 1 .. Len(Out[n])
    BY ConstantTypes, LenProperties DEF IType, NodesOK
  <2> QED
    BY <2>1 DEF NextOut
<1> HIDE DEF ch
<1>2. ~ReceiverGone(ch) /\ ~HasRoom(ch)
  BY <1>1 DEF Stuck, Blocked, Receiving, Ended
<1>3. ch # OutputChan
  <2> SUFFICES ASSUME ch = OutputChan PROVE FALSE
    OBVIOUS
  <2>1. consumer = "recv" /\ buf[ch] = <<>>
    BY <1>2 DEF ReceiverGone, Stuck, ConsumerBlocked
  <2>2. QueueSize > 0 => 0 < QueueSize
    BY ConstantTypes
  <2> QED
    BY <1>2, <2>1, <2>2, EmptySeq DEF HasRoom, Awaited
<1>4. ASSUME NEW m \in Nodes, NEW x \in DOMAIN In[m], In[m][x] = ch
      PROVE  ~Ended(m) /\ ~(Receiving(m) /\ Len(got[m]) + 1 = x)
  <2>1. ch \in Range(In[m])
    BY <1>4 DEF Range
  <2>2. ~Ended(m)
    BY <1>2, <1>3, <2>1 DEF ReceiverGone
  <2>3. ASSUME Receiving(m), Len(got[m]) + 1 = x PROVE FALSE
    BY <1>2, <1>4, <2>3, NothingComes
  <2> QED
    BY <2>2, <2>3
<1> QED
  BY <1>1, <1>3, <1>4 DEF ch

LEMMA StuckThreads ==
  ASSUME Stuck, NEW n \in Nodes, ~Ended(n) PROVE Receiving(n) \/ pc[n] = "send"
BY DEF Stuck, Blocked

\* A line works on one item at a time and has one output.
LEMMA StuckLine ==
  ASSUME IType, Stuck, NEW s, NEW line, NEW g, Fork(s, line, g), NEW k \in DOMAIN In[g]
  PROVE  /\ Receiving(line[k]) => /\ got[line[k]] = <<>> /\ buf[Out[s][k]] = <<>> /\ ~Ended(s)
                                  /\ ~(pc[s] = "send" /\ sentTo[s] + 1 = k)
         /\ pc[line[k]] = "send" => Len(got[line[k]]) = 1 /\ ~Ended(g)
                                    /\ ~(Receiving(g) /\ Len(got[g]) + 1 = k)
<1> DEFINE l == line[k]
<1>1. /\ l \in Nodes /\ s \in Nodes /\ g \in Nodes /\ k \in DOMAIN Out[s]
      /\ Len(In[l]) = 1 /\ In[l] = <<Out[s][k]>> /\ Len(Out[l]) = 1 /\ Out[l] = <<In[g][k]>>
      /\ In[l][1] = Out[s][k] /\ Out[l][1] = In[g][k]
  BY ForkFacts
<1> HIDE DEF l
<1>2. got[l] \in Seq(Values) /\ Len(got[l]) \in Nat /\ sentTo[l] \in Nat
  BY <1>1, LenProperties DEF IType, NodesOK
<1>3. ASSUME Receiving(l)
      PROVE  /\ got[l] = <<>> /\ buf[Out[s][k]] = <<>> /\ ~Ended(s)
             /\ ~(pc[s] = "send" /\ sentTo[s] + 1 = k)
  <2>1. Len(got[l]) = 0 /\ 1 = Len(got[l]) + 1
    BY <1>1, <1>2, <1>3 DEF Receiving
  <2>2. got[l] = <<>>
    BY <1>2, <2>1, EmptySeq
  <2> QED
    BY <1>1, <1>3, <2>1, <2>2, NothingComes
<1>4. ASSUME pc[l] = "send"
      PROVE  Len(got[l]) = 1 /\ ~Ended(g) /\ ~(Receiving(g) /\ Len(got[g]) + 1 = k)
  <2>0. Len(got[l]) = Len(In[l]) /\ sentTo[l] < Len(Out[l])
    BY <1>1, <1>4 DEF IType, NodesOK
  <2>1. Len(got[l]) = 1 /\ sentTo[l] = 0
    <3>1. \A i \in Nat : i < 1 => i = 0
      OBVIOUS
    <3> QED
      BY <1>1, <1>2, <2>0, <3>1, Zenon
  <2>2. 1 = sentTo[l] + 1
    BY <2>1
  <2> QED
    BY <1>1, <1>4, <2>1, <2>2, NothingLeaves
<1> QED
  BY <1>3, <1>4 DEF l

\* The line that a stuck gatherer waits for carries at most one result.
LEMMA ShortWay ==
  ASSUME IType, Stuck, NEW s, NEW line, NEW g, Fork(s, line, g), Receiving(g),
         NEW x, x = Len(got[g]) + 1
  PROVE  /\ x \in DOMAIN In[g] /\ Receiving(line[x]) /\ ~Ended(line[x]) /\ ~Ended(s)
         /\ Len(Way(s, line[x], g, x)) <= 1
<1>1. g \in Nodes
  BY DEF Fork
<1>2. x \in DOMAIN In[g] /\ buf[In[g][x]] = <<>>
  BY <1>1, NothingComes
<1>3. ~Ended(line[x]) /\ pc[line[x]] # "send"
  <2>1. line[x] \in Nodes /\ 1 \in DOMAIN Out[line[x]] /\ Out[line[x]][1] = In[g][x]
    BY <1>2, ForkFacts
  <2>2. ~Ended(line[x])
    BY <1>1, <2>1, NothingComes
  <2> QED
    BY <1>2, <2>2, StuckLine
<1>4. Receiving(line[x])
  BY <1>2, <1>3, ForkFacts, StuckThreads
<1>5. /\ got[line[x]] = <<>> /\ buf[Out[s][x]] = <<>> /\ ~Ended(s)
  BY <1>2, <1>4, StuckLine
<1>6. Taken(g, x) = <<>>
  <2>1. Len(got[g]) \in Nat
    BY <1>1, LenProperties DEF IType, NodesOK
  <2>2. ~(x <= Len(got[g]))
    BY <2>1
  <2> QED
    BY <2>2 DEF Taken
<1>7. Due(s, x) \in Seq(Values) /\ Len(Due(s, x)) <= 1
  <2>1. s \in Nodes /\ Len(In[s]) = 1
    BY <1>2, ForkFacts
  <2>2. Len(<<>>) = 0 /\ (pc[s] = "send" => Len(got[s]) = 1)
    BY <2>1 DEF IType, NodesOK
  <2>3. Due(s, x) \in Seq(Values)
    BY <1>2, WayType
  <2>4. Len(Due(s, x)) = 0 \/ Len(Due(s, x)) = 1
    BY <2>2 DEF Due
  <2>5. 0 <= 1 /\ 1 <= 1
    OBVIOUS
  <2> QED
    BY <2>3, <2>4, <2>5, Zenon
<1>8. Way(s, line[x], g, x) = Due(s, x)
  <2> DEFINE d == Due(s, x)
  <2>1. d \in Seq(Values)
    BY <1>7
  <2>2. Way(s, line[x], g, x) = <<>> \o (<<>> \o (<<>> \o (<<>> \o d)))
    BY <1>2, <1>3, <1>5, <1>6 DEF Way, Coming
  <2> HIDE DEF d
  <2>3. <<>> \o d = d
    BY <2>1, ConcatEmptySeq
  <2> QED
    BY <2>2, <2>3 DEF d
<1> QED
  BY <1>2, <1>3, <1>4, <1>5, <1>7, <1>8

\* No line carries more: the gatherer of a line that is stuck with a result has
\* it, or the distributer has another result for the line, in no stuck state.
LEMMA LongWay ==
  ASSUME IType, JoinInv, Stuck, NEW s, NEW line, NEW g, Fork(s, line, g), Receiving(g),
         NEW k \in DOMAIN In[g], pc[line[k]] = "send",
         k <= Len(got[g]) \/ (pc[s] = "send" /\ k > sentTo[s])
  PROVE  FALSE
<1> DEFINE x == Len(got[g]) + 1
<1>1. /\ x \in DOMAIN In[g] /\ ~Ended(line[x]) /\ ~Ended(s) /\ Len(Way(s, line[x], g, x)) <= 1
  BY ShortWay
<1> HIDE DEF x
<1>2. ~Ended(line[k]) /\ ~Ended(g)
  BY DEF Ended, Receiving
<1>3. Way(s, line[k], g, k) = Way(s, line[x], g, x)
  <2>1. JoinOK(s, line, g)
    BY <1>2 DEF JoinInv, Fork
  <2> QED
    BY <1>1, <1>2, <2>1 DEF JoinOK
<1> DEFINE t == Taken(g, k)
           b == buf[In[g][k]]
           c == buf[Out[s][k]]
           l == got[line[k]]
           d == Due(s, k)
<1>4. /\ t \in Seq(Values) /\ b \in Seq(Values) /\ l \in Seq(Values) /\ c \in Seq(Values)
      /\ d \in Seq(Values)
  BY WayType
<1>5. Len(l) = 1
  BY StuckLine
<1>6. Len(t) = 1 \/ Len(d) = 1
  <2>1. k <= Len(got[g]) => Len(t) = 1
    BY DEF Taken
  <2>2. pc[s] = "send" /\ k > sentTo[s] => Len(d) = 1
    <3>1. s \in Nodes /\ Len(In[s]) = 1
      BY ForkFacts
    <3> QED
      BY <3>1 DEF Due, IType, NodesOK
  <2> QED
    BY <2>1, <2>2
<1>7. Way(s, line[k], g, k) = t \o (b \o (l \o (c \o d)))
  BY <1>2 DEF Way, Coming
<1> HIDE DEF t, b, c, l, d
<1>8. Len(t \o (b \o (l \o (c \o d)))) = Len(t) + (Len(b) + (Len(l) + (Len(c) + Len(d))))
  <2>1. c \o d \in Seq(Values) /\ Len(c \o d) = Len(c) + Len(d)
    BY <1>4, ConcatProperties
  <2>2. l \o (c \o d) \in Seq(Values) /\ Len(l \o (c \o d)) = Len(l) + Len(c \o d)
    BY <1>4, <2>1, ConcatProperties
  <2>3. b \o (l \o (c \o d)) \in Seq(Values) /\ Len(b \o (l \o (c \o d))) = Len(b) + Len(l \o (c \o d))
    BY <1>4, <2>2, ConcatProperties
  <2>4. Len(t \o (b \o (l \o (c \o d)))) = Len(t) + Len(b \o (l \o (c \o d)))
    BY <1>4, <2>3, ConcatProperties
  <2> QED
    BY <2>1, <2>2, <2>3, <2>4
<1>9. Len(t) + (Len(b) + (Len(l) + (Len(c) + Len(d)))) >= 2
  <2>1. Len(t) \in Nat /\ Len(b) \in Nat /\ Len(c) \in Nat /\ Len(d) \in Nat
    BY <1>4, LenProperties
  <2> QED
    BY <1>5, <1>6, <2>1
<1>10. ~(Len(t \o (b \o (l \o (c \o d)))) <= 1)
  <2> DEFINE e == Len(t) + (Len(b) + (Len(l) + (Len(c) + Len(d))))
  <2>1. e \in Nat
    BY <1>4, <1>5, LenProperties
  <2>2. e >= 2
    BY <1>9
  <2> HIDE DEF e
  <2>3. ~(e <= 1)
    BY <2>1, <2>2
  <2> QED
    BY <1>8, <2>3 DEF e
<1> QED
  BY <1>1, <1>3, <1>7, <1>10

\* A stuck thread of the way does not send: the last one that did would have a
\* gatherer ahead of it that waits for another line.
LEMMA NobodySends ==
  ASSUME IType, JoinInv, Stuck, NEW path, IsPipeline(path), NEW i0 \in 1 .. Len(path),
         pc[path[i0]] = "send"
  PROVE  FALSE
<1> DEFINE S == {i \in 1 .. Len(path) : pc[path[i]] = "send"}
<1>1. PICK i \in S : \A k \in S : k <= i
  <2>1. i0 \in S /\ S \in SUBSET (1 .. Len(path)) /\ Len(path) \in Nat
    BY PathFacts
  <2> HIDE DEF S
  <2> QED
    BY <2>1, Greatest
<1> DEFINE n == path[i]
           y == sentTo[n] + 1
<1>2. i \in 1 .. Len(path) /\ n \in Nodes /\ pc[n] = "send"
  BY <1>1, PathFacts
<1>3. ASSUME NEW k \in 1 .. Len(path), i < k PROVE pc[path[k]] # "send"
  <2>1. ~(k <= i)
    BY <1>2, <1>3
  <2> QED
    BY <1>1, <2>1
<1> HIDE DEF S, n, y
<1>4. y \in DOMAIN Out[n] /\ Out[n][y] # OutputChan
  BY <1>2, NothingLeaves DEF y
<1>5. sentTo[n] \in Nat /\ (sentTo[n] = 0 => y = 1) /\ (sentTo[n] # 0 => y > 1 /\ y > sentTo[n])
  BY <1>2 DEF y, IType, NodesOK
<1>6. CASE sentTo[n] = 0
  <2>1. i + 1 \in 1 .. Len(path) /\ i < i + 1 /\ i + 1 \in 1 .. Len(path) + 1
    <3>1. i # Len(path)
      BY <1>2, <1>4, <1>5, <1>6, PathFacts DEF n, IsPipeline
    <3> QED
      BY <1>2, <3>1, PathFacts
  <2> DEFINE m == path[i + 1]
  <2>2. m \in Nodes /\ 1 \in DOMAIN In[m] /\ In[m][1] = Out[n][1] /\ pc[m] # "send"
    <3>1. Front(path, i + 1) = Out[n][1]
      BY <1>2, PathFacts DEF n
    <3> QED
      BY <1>3, <2>1, <3>1, PathFacts
  <2> HIDE DEF m
  <2>3. ~Ended(m) /\ ~(Receiving(m) /\ Len(got[m]) + 1 = 1)
    BY <1>2, <1>5, <1>6, <2>2, NothingLeaves DEF y
  <2>4. Receiving(m)
    BY <2>2, <2>3, StuckThreads
  <2>5. Len(got[m]) \in Nat /\ Len(In[m]) \in Nat /\ Len(got[m]) < Len(In[m]) /\ Len(got[m]) # 0
    BY <2>2, <2>3, <2>4, ConstantTypes, LenProperties DEF Receiving, IType, NodesOK
  <2>6. Len(In[m]) > 1 /\ 1 <= Len(got[m])
    <3>1. \A u, w \in Nat : u < w /\ u # 0 => w > 1 /\ 1 <= u
      OBVIOUS
    <3> QED
      BY <2>5, <3>1, Zenon
  <2>7. PICK s \in Nodes, line \in [DOMAIN In[m] -> Nodes] : Fork(s, line, m)
    BY <2>2, <2>6, GathererAssumption DEF Fork
  <2>8. n = line[1]
    BY <1>2, <1>4, <1>5, <1>6, <2>2, <2>7, ForkEnds
  <2> QED
    BY <1>2, <2>2, <2>4, <2>6, <2>7, <2>8, LongWay
<1>7. CASE sentTo[n] # 0
  <2>1. Len(Out[n]) > 1
    BY <1>2, <1>4, <1>5, <1>7, ConstantTypes, LenProperties
  <2>2. PICK g \in Nodes : \E line \in [DOMAIN In[g] -> Nodes] : ForkJoin(n, line, g)
    BY <1>2, <2>1, DistributerAssumption
  <2>3. PICK line \in [DOMAIN In[g] -> Nodes] : Fork(n, line, g)
    BY <1>2, <2>1, <2>2 DEF Fork, ForkJoin
  <2>4. PICK k \in 1 .. Len(path) : i < k /\ g = path[k]
    BY <1>2, <2>3, ForkOnPath DEF n
  <2>5. pc[g] # "send"
    BY <1>3, <2>4
  <2>6. y \in DOMAIN In[g] /\ y \in DOMAIN Out[n]
    <3>1. 1 \in DOMAIN In[g]
      BY <2>3, ConstantTypes, LenProperties DEF Fork
    <3> QED
      BY <1>4, <2>3, <3>1, ForkFacts
  <2> DEFINE l == line[y]
  <2>7. /\ l \in Nodes /\ 1 \in DOMAIN In[l] /\ In[l][1] = Out[n][y] /\ Len(In[l]) = 1
    BY <2>3, <2>6, ForkFacts
  <2> HIDE DEF l
  <2>8. ~Ended(l) /\ ~(Receiving(l) /\ Len(got[l]) + 1 = 1)
    BY <1>2, <2>7, NothingLeaves DEF y
  <2>9. ~Receiving(l)
    <3> SUFFICES ASSUME Receiving(l) PROVE FALSE
      OBVIOUS
    <3>1. got[l] = <<>>
      BY <2>3, <2>6, StuckLine DEF l
    <3>2. Len(got[l]) + 1 = 1
      BY <3>1, EmptySeq
    <3> QED
      BY <2>8, <3>2
  <2>10. pc[l] = "send"
    BY <2>7, <2>8, <2>9, StuckThreads
  <2>11. ~Ended(g)
    BY <2>3, <2>6, <2>10, StuckLine DEF l
  <2>12. Receiving(g)
    BY <2>5, <2>11, StuckThreads
  <2> QED
    BY <1>2, <1>5, <1>7, <2>3, <2>6, <2>10, <2>12, LongWay DEF l
<1> QED
  BY <1>6, <1>7

\* Nor does one wait: the first one that did would wait for nobody.
LEMMA NobodyWaits ==
  ASSUME IType, JoinInv, Stuck, NEW path, IsPipeline(path), NEW i0 \in 1 .. Len(path)
  PROVE  Ended(path[i0])
<1> SUFFICES ASSUME ~Ended(path[i0]) PROVE FALSE
  OBVIOUS
<1> DEFINE S == {i \in 1 .. Len(path) : ~Ended(path[i])}
<1>1. PICK i \in S : \A k \in S : i <= k
  <2>1. i0 \in S /\ S \in SUBSET Nat
    OBVIOUS
  <2> HIDE DEF S
  <2> QED
    BY <2>1, Least
<1> DEFINE n == path[i]
           x == Len(got[n]) + 1
<1>2. i \in 1 .. Len(path) /\ n \in Nodes /\ ~Ended(n)
  BY <1>1, PathFacts
<1>3. ASSUME NEW k \in 1 .. Len(path), k < i PROVE Ended(path[k])
  <2>1. ~(i <= k)
    BY <1>2, <1>3
  <2> QED
    BY <1>1, <2>1
<1>4. Receiving(n)
  BY <1>2, NobodySends, StuckThreads
<1> HIDE DEF S, n, x
<1>5. x \in DOMAIN In[n] /\ In[n][x] # InputChan
  BY <1>2, <1>4, NothingComes DEF x
<1>6. CASE x = 1
  <2>1. i # 1
    BY <1>2, <1>5, <1>6 DEF n, IsPipeline
  <2> DEFINE k == i - 1
  <2>2. k \in 1 .. Len(path) - 1 /\ k \in 1 .. Len(path) /\ k < i /\ i = k + 1
    BY <1>2, <2>1, PathFacts
  <2> HIDE DEF k
  <2>3. Out[path[k]][1] = In[n][1] /\ 1 \in DOMAIN Out[path[k]] /\ path[k] \in Nodes
    BY <2>2, PathFacts DEF n, IsPipeline
  <2>4. ~Ended(path[k])
    BY <1>2, <1>4, <1>6, <2>3, NothingComes DEF x
  <2> QED
    BY <1>3, <2>2, <2>4
<1>7. CASE x # 1
  <2>1. Len(In[n]) > 1
    BY <1>2, <1>5, <1>7, ConstantTypes, LenProperties
  <2>2. PICK s \in Nodes, line \in [DOMAIN In[n] -> Nodes] : Fork(s, line, n)
    BY <1>2, <2>1, GathererAssumption DEF Fork
  <2>3. ~Ended(s)
    BY <1>4, <2>2, ShortWay DEF x
  <2>4. PICK k \in 1 .. Len(path) : k < i /\ s = path[k]
    BY <1>2, <2>2, ForkOnPath DEF n
  <2> QED
    BY <1>3, <2>3, <2>4
<1> QED
  BY <1>6, <1>7

LEMMA StuckHasEnded ==
  ASSUME IType, JoinInv, NEW path, IsPipeline(path) PROVE NeverStuck
<1> SUFFICES ASSUME Stuck
             PROVE  (\A n \in Nodes : Ended(n)) /\ producer = "dropped" /\ consumer = "dropped"
  BY DEF NeverStuck
<1>1. \A i \in 1 .. Len(path) : Ended(path[i])
  BY NobodyWaits
<1>2. ASSUME NEW n \in Nodes, \A i \in 1 .. Len(path) : n # path[i] PROVE Ended(n)
  <2>0. PICK i \in 1 .. Len(path) :
          \E s \in Nodes : \E line \in [DOMAIN In[path[i]] -> Nodes] :
            Fork(s, line, path[i]) /\ \E k \in DOMAIN In[path[i]] : n = line[k]
    BY <1>2, BesidePath
  <2>1. PICK s \in Nodes, line \in [DOMAIN In[path[i]] -> Nodes] :
          Fork(s, line, path[i]) /\ \E k \in DOMAIN In[path[i]] : n = line[k]
    BY <2>0
  <2>2. PICK k \in DOMAIN In[path[i]] : n = line[k]
    BY <2>1
  <2>3. Ended(path[i]) /\ Ended(s)
    BY <1>1, <2>1, ForkOnPath
  <2>4. ~Receiving(n) /\ pc[n] # "send"
    BY <2>1, <2>2, <2>3, StuckLine
  <2> QED
    BY <2>4, StuckThreads
<1>3. \A n \in Nodes : Ended(n)
  BY <1>1, <1>2
<1>4. producer = "dropped"
  <2>1. path[1] \in Nodes /\ InputChan \in Range(In[path[1]])
    BY PathFacts DEF Range
  <2>2. InputChan # OutputChan
    BY <2>1, EndsAssumption
  <2>3. ReceiverGone(InputChan)
    BY <1>3, <2>1, <2>2 DEF ReceiverGone
  <2> QED
    BY <2>3 DEF Stuck, ProducerBlocked
<1>5. consumer = "dropped"
  <2> DEFINE z == Len(path)
  <2>1. z \in 1 .. Len(path)
    BY PathFacts
  <2>2. path[z] \in Nodes /\ OutputChan \in Range(Out[path[z]])
    <3>1. Front(path, z + 1) = Out[path[z]][1]
      BY <2>1, PathFacts
    <3>2. Front(path, z + 1) = OutputChan
      BY PathFacts
    <3> HIDE DEF z
    <3> QED
      BY <2>1, <3>1, <3>2, PathFacts DEF Range
  <2> HIDE DEF z
  <2>3. InputChan # OutputChan
    BY <2>2, EndsAssumption
  <2>4. SenderGone(OutputChan)
    BY <1>3, <2>2, <2>3 DEF SenderGone
  <2> QED
    BY <2>4 DEF Stuck, ConsumerBlocked
<1> QED
  BY <1>3, <1>4, <1>5

\* The distributer waits for room in one line while the gatherer waits for a
\* result of another, every queue is bounded and threads end at any moment: yet
\* in no pipeline, with any queue size, do the threads and the holders of its
\* ends come to wait for one another.  Whenever nobody can go on, both ends have
\* been dropped and every thread has ended, so that a close returns.
THEOREM PipelineNeverStuck ==
  (\E path \in Seq(Nodes) : IsPipeline(path)) => (Spec => []NeverStuck)
<1> SUFFICES ASSUME NEW path \in Seq(Nodes), IsPipeline(path) PROVE Spec => []NeverStuck
  OBVIOUS
<1>1. Spec => []IType
  BY TypeInit, TypeStep, PTL DEF Spec
<1>2. IType /\ JoinInv => NeverStuck
  BY StuckHasEnded
<1> QED
  BY <1>1, <1>2, JoinInit, JoinStep, PTL DEF Spec
=============================================================================
