-------------------------------- MODULE Factorio --------------------------------
(***************************************************************************)
(* The assembly pipeline of lessons/07: factorio.rs.  Every thread that    *)
(* the builder starts is a node of a network of bounded channels: it       *)
(* receives one item from each of its input channels in turn, works on     *)
(* them, and sends the result to each of its output channels in turn.      *)
(*    forwarder of `new`, filter_map, map, filter:  one input, one output  *)
(*    internal line of fork_join:                   one input, one output  *)
(*    distributer of fork_join:            one input, an output per line   *)
(*    gatherer of fork_join:               an input per line, one output   *)
(* Items are numbered in the order in which they are sent; a value derived *)
(* from item i is i.  A channel lives as long as both of its ends.         *)
(***************************************************************************)
EXTENDS Naturals, Sequences, Functions

CONSTANTS
  Nodes,       \* the threads of the pipeline
  Chans,       \* the channels
  In, Out,     \* In[n], Out[n]: the channels n receives from and sends to
  InputChan,   \* the channel behind input_tx
  OutputChan,  \* the channel behind output_rx
  Handles,     \* Pipeline::handles, in the order in which close joins them
  QueueSize,   \* bound of every channel; 0 is a rendezvous
  MaxItems,    \* bound: items the user sends
  Keep,        \* Keep[n]: the items n's function does not discard
  Panics,      \* Panics[n]: the items n's function panics on
  Nothing,     \* the result of a join of no inputs
  Mixed        \* the result of a join of inputs derived from different items

Items == 1 .. MaxItems
Values == Items \cup {Nothing, Mixed}

ASSUME NetworkAssumption ==
  /\ In \in [Nodes -> Seq(Chans)] /\ Out \in [Nodes -> Seq(Chans)]
  /\ InputChan \in Chans /\ OutputChan \in Chans
  /\ Nodes # {} /\ Handles \in Seq(Nodes) /\ Range(Handles) = Nodes
\* A channel has one sender and one receiver.
ASSUME EndsAssumption ==
  /\ \A n, m \in Nodes : \A i \in DOMAIN In[n], j \in DOMAIN In[m] :
       In[n][i] = In[m][j] => n = m /\ i = j
  /\ \A n, m \in Nodes : \A i \in DOMAIN Out[n], j \in DOMAIN Out[m] :
       Out[n][i] = Out[m][j] => n = m /\ i = j
  /\ \A n \in Nodes : InputChan \notin Range(Out[n]) /\ OutputChan \notin Range(In[n])

\* Line k of fork_join: its function has a result for every item.
IsLine(l, s, k, g) == In[l] = <<Out[s][k]>> /\ Out[l] = <<In[g][k]>> /\ Keep[l] = Items
\* fork_join with distributer s, lines `line` and gatherer g.
ForkJoin(s, line, g) ==
  /\ Len(In[s]) = 1 /\ Len(Out[s]) = Len(In[g])
  /\ \A k \in DOMAIN In[g] : IsLine(line[k], s, k, g)
\* Only gatherers have several inputs.
ASSUME GathererAssumption ==
  \A g \in Nodes : Len(In[g]) > 1 =>
    \E s \in Nodes : \E line \in [DOMAIN In[g] -> Nodes] : ForkJoin(s, line, g)
\* Only distributers have several outputs.
ASSUME DistributerAssumption ==
  \A s \in Nodes : Len(Out[s]) > 1 =>
    \E g \in Nodes : \E line \in [DOMAIN In[g] -> Nodes] : ForkJoin(s, line, g)
ASSUME FunctionsAssumption ==
  /\ QueueSize \in Nat /\ MaxItems \in Nat
  /\ Nothing \notin Items /\ Mixed \notin Items \cup {Nothing}
  /\ Keep \in [Nodes -> SUBSET Items] /\ Panics \in [Nodes -> SUBSET Items]

\* The builder adds every stage behind the last one: `path` is the way of the
\* items through the forwarder, the filters and, of each fork_join, the
\* distributer, the first line and the gatherer.  The other lines deliver to a
\* gatherer on the way.  No stage is a fork_join of no lines.
IsPipeline(path) ==
  /\ path \in Seq(Nodes) /\ path # <<>>
  /\ \A i, k \in DOMAIN path : path[i] = path[k] => i = k
  /\ \A i \in DOMAIN path : In[path[i]] # <<>> /\ Out[path[i]] # <<>>
  /\ In[path[1]][1] = InputChan /\ Out[path[Len(path)]][1] = OutputChan
  /\ \A i \in 1 .. Len(path) - 1 : Out[path[i]][1] = In[path[i + 1]][1]
  /\ \A n \in Nodes : \E i \in DOMAIN path :
       n = path[i] \/ Range(Out[n]) \cap Range(In[path[i]]) # {}

VARIABLES
  buf,       \* buf[ch]: values in the channel
  pc,        \* pc[n]: control state of node n
  got,       \* got[n]: the values n works on, one for each input so far
  sentTo,    \* sentTo[n]: outputs that have the result already
  producer,  \* the holder of input_tx
  consumer,  \* the holder of output_rx
  owner,     \* the holder of the Pipeline
  joined,    \* handles that close has joined
  sent,      \* items the producer has sent
  received   \* values the consumer has received, in order

nodeVars == <<pc, got, sentTo>>
userVars == <<producer, consumer, owner, joined, sent, received>>
vars == <<buf, nodeVars, userVars>>

Init ==
  /\ buf = [ch \in Chans |-> <<>>]
  /\ pc = [n \in Nodes |-> "recv"]
  /\ got = [n \in Nodes |-> <<>>]
  /\ sentTo = [n \in Nodes |-> 0]
  /\ producer = "ready" /\ consumer = "ready"
  /\ owner = "here" /\ joined = 0
  /\ sent = 0 /\ received = <<>>

-----------------------------------------------------------------------------
(* Channels *)

Ended(n) == pc[n] \in {"done", "panicked"}

SenderGone(ch) ==
  IF ch = InputChan
    THEN producer = "dropped"
    ELSE \E n \in Nodes : ch \in Range(Out[n]) /\ Ended(n)

\* Mutant of ReceiverGone: the builder keeps the receivers alive.
ReceiverGoneKept(ch) == ch = OutputChan /\ consumer = "dropped"
ReceiverGone(ch) ==
  IF ch = OutputChan
    THEN consumer = "dropped"
    ELSE \E n \in Nodes : ch \in Range(In[n]) /\ Ended(n)

\* Mutant of NextIn: whichever input has a value, or somebody who sends one.
NextInReady(n) ==
  LET ready == {ch \in Range(In[n]) :
                  buf[ch] # <<>> \/ \E m \in Nodes : pc[m] = "send" /\ Out[m][sentTo[m] + 1] = ch}
  IN IF ready # {} THEN CHOOSE ch \in ready : TRUE ELSE In[n][Len(got[n]) + 1]
\* The channel that node n in pc "recv" waits for.
NextIn(n) == In[n][Len(got[n]) + 1]
Receiving(n) == pc[n] = "recv" /\ Len(got[n]) < Len(In[n])

\* Somebody is blocked in recv on ch.
Awaited(ch) ==
  \/ ch = OutputChan /\ consumer = "recv"
  \/ \E n \in Nodes : Receiving(n) /\ NextIn(n) = ch

\* Mutant of HasRoom: an asynchronous channel, without backpressure.
HasRoomAlways(ch) == TRUE
\* A send goes through; without a buffer, only to a receiver that waits.
HasRoom(ch) ==
  IF QueueSize > 0 THEN Len(buf[ch]) < QueueSize ELSE buf[ch] = <<>> /\ Awaited(ch)

\* Thread n ends: its receivers are dropped, and what they hold with them.
End(n, how) ==
  /\ pc' = [pc EXCEPT ![n] = how]
  /\ got' = [got EXCEPT ![n] = <<>>]
  /\ sentTo' = [sentTo EXCEPT ![n] = 0]
  /\ buf' = [ch \in Chans |-> IF ch \in Range(In[n]) THEN <<>> ELSE buf[ch]]
  /\ UNCHANGED userVars

-----------------------------------------------------------------------------
(* The threads of the pipeline *)

Recv(n) ==
  /\ Receiving(n) /\ buf[NextIn(n)] # <<>>
  /\ got' = [got EXCEPT ![n] = Append(@, Head(buf[NextIn(n)]))]
  /\ buf' = [buf EXCEPT ![NextIn(n)] = Tail(@)]
  /\ UNCHANGED <<pc, sentTo, userVars>>

\* Mutant of RecvClosed: a closed line is left out, the others are joined.
RecvClosedPartial(n) ==
  /\ Receiving(n) /\ buf[NextIn(n)] = <<>> /\ SenderGone(NextIn(n))
  /\ IF got[n] = <<>>
       THEN End(n, "done")
       ELSE pc' = [pc EXCEPT ![n] = "send"] /\ UNCHANGED <<buf, got, sentTo, userVars>>

\* Mutant of RecvClosed: the thread ends with its sender.
RecvClosedEarly(n) ==
  Receiving(n) /\ SenderGone(NextIn(n)) /\ End(n, "done")

\* The channel is empty for good.
RecvClosed(n) ==
  /\ Receiving(n) /\ buf[NextIn(n)] = <<>> /\ SenderGone(NextIn(n))
  /\ End(n, "done")

\* The item that the result of n is derived from.
Result(n) ==
  IF got[n] = <<>> THEN Nothing
  ELSE IF \A i \in DOMAIN got[n] : got[n][i] = got[n][1] THEN got[n][1]
  ELSE Mixed

Discards(n) == Result(n) \in Items \ Keep[n]

\* The node's function runs: filter_map discards on None, and a node without
\* outputs has nothing to send.
Work(n) ==
  /\ pc[n] = "recv" /\ Len(got[n]) = Len(In[n])
  /\ Result(n) \notin Panics[n]
  /\ IF Discards(n) \/ Out[n] = <<>>
       THEN got' = [got EXCEPT ![n] = <<>>] /\ UNCHANGED pc
       ELSE pc' = [pc EXCEPT ![n] = "send"] /\ UNCHANGED got
  /\ UNCHANGED <<buf, sentTo, userVars>>

WorkPanics(n) ==
  /\ pc[n] = "recv" /\ Len(got[n]) = Len(In[n])
  /\ Result(n) \in Panics[n]
  /\ End(n, "panicked")

NextOut(n) == Out[n][sentTo[n] + 1]

SendItem(n) ==
  /\ pc[n] = "send" /\ ~ReceiverGone(NextOut(n)) /\ HasRoom(NextOut(n))
  /\ buf' = [buf EXCEPT ![NextOut(n)] = Append(@, Result(n))]
  /\ IF sentTo[n] + 1 = Len(Out[n])
       THEN /\ pc' = [pc EXCEPT ![n] = "recv"]
            /\ got' = [got EXCEPT ![n] = <<>>]
            /\ sentTo' = [sentTo EXCEPT ![n] = 0]
       ELSE sentTo' = [sentTo EXCEPT ![n] = @ + 1] /\ UNCHANGED <<pc, got>>
  /\ UNCHANGED userVars

SendClosed(n) ==
  /\ pc[n] = "send" /\ ReceiverGone(NextOut(n))
  /\ End(n, "done")

-----------------------------------------------------------------------------
(* The users of input_tx, output_rx and the Pipeline *)

BeginSend ==
  /\ producer = "ready" /\ sent < MaxItems
  /\ producer' = "send"
  /\ UNCHANGED <<buf, nodeVars, consumer, owner, joined, sent, received>>

\* The send goes through, or returns an error.
SendInput ==
  /\ producer = "send" /\ producer' = "ready"
  /\ \/ /\ ~ReceiverGone(InputChan) /\ HasRoom(InputChan)
        /\ buf' = [buf EXCEPT ![InputChan] = Append(@, sent + 1)]
        /\ sent' = sent + 1
     \/ ReceiverGone(InputChan) /\ UNCHANGED <<buf, sent>>
  /\ UNCHANGED <<nodeVars, consumer, owner, joined, received>>

DropInput ==
  /\ producer = "ready" /\ producer' = "dropped"
  /\ UNCHANGED <<buf, nodeVars, consumer, owner, joined, sent, received>>

BeginReceive ==
  /\ consumer = "ready" /\ consumer' = "recv"
  /\ UNCHANGED <<buf, nodeVars, producer, owner, joined, sent, received>>

\* A value comes out, or recv returns an error.
ReceiveOutput ==
  /\ consumer = "recv" /\ consumer' = "ready"
  /\ \/ /\ buf[OutputChan] # <<>>
        /\ received' = Append(received, Head(buf[OutputChan]))
        /\ buf' = [buf EXCEPT ![OutputChan] = Tail(@)]
     \/ /\ buf[OutputChan] = <<>> /\ SenderGone(OutputChan)
        /\ UNCHANGED <<buf, received>>
  /\ UNCHANGED <<nodeVars, producer, owner, joined, sent>>

DropOutput ==
  /\ consumer = "ready" /\ consumer' = "dropped"
  /\ buf' = [buf EXCEPT ![OutputChan] = <<>>]
  /\ UNCHANGED <<nodeVars, producer, owner, joined, sent, received>>

Close ==
  /\ owner = "here" /\ owner' = "join"
  /\ UNCHANGED <<buf, nodeVars, producer, consumer, joined, sent, received>>

\* The handles are joined in order; unwrap passes on a panic.
Join ==
  /\ owner = "join"
  /\ \/ /\ pc[Handles[joined + 1]] = "done"
        /\ joined' = joined + 1
        /\ owner' = IF joined + 1 = Len(Handles) THEN "closed" ELSE "join"
     \/ pc[Handles[joined + 1]] = "panicked" /\ owner' = "panicked" /\ UNCHANGED joined
  /\ UNCHANGED <<buf, nodeVars, producer, consumer, sent, received>>

-----------------------------------------------------------------------------
NodeStep(n) ==
  Recv(n) \/ RecvClosed(n) \/ Work(n) \/ WorkPanics(n) \/ SendItem(n) \/ SendClosed(n)

\* Whoever dropped the output goes on with something else.
Idle == consumer = "dropped" /\ UNCHANGED vars

Next ==
  \/ \E n \in Nodes : NodeStep(n)
  \/ BeginSend \/ SendInput \/ DropInput
  \/ BeginReceive \/ ReceiveOutput \/ DropOutput
  \/ Close \/ Join \/ Idle

Spec == Init /\ [][Next]_vars

\* Some thread runs as long as one can, and calls that can return do.
FairSpec ==
  /\ Spec
  /\ WF_vars(\E n \in Nodes : NodeStep(n))
  /\ WF_vars(SendInput) /\ WF_vars(ReceiveOutput) /\ WF_vars(Join)

\* The consumer, moreover, goes on receiving until it drops its end.
EagerSpec == FairSpec /\ WF_vars(BeginReceive \/ DropOutput)

-----------------------------------------------------------------------------
(* Properties *)

\* The variables stay in their types; a channel holds at most its bound, one
\* value in transit when the bound is 0.
TypeOK ==
  /\ buf \in [Chans -> Seq(Values)]
  /\ \A ch \in Chans : Len(buf[ch]) <= QueueSize \/ (QueueSize = 0 /\ Len(buf[ch]) = 1)
  /\ pc \in [Nodes -> {"recv", "send", "done", "panicked"}]
  /\ got \in [Nodes -> Seq(Values)]
  /\ \A n \in Nodes : Len(got[n]) <= Len(In[n])
  /\ sentTo \in [Nodes -> Nat]
  /\ \A n \in Nodes : pc[n] = "send" => sentTo[n] < Len(Out[n])
  /\ producer \in {"ready", "send", "dropped"}
  /\ consumer \in {"ready", "recv", "dropped"}
  /\ owner \in {"here", "join", "closed", "panicked"}
  /\ joined \in 0 .. Len(Handles)
  /\ sent \in 0 .. MaxItems
  /\ received \in Seq(Values)

\* "The join function needs to receive the intermediate results in the original
\* order": a gatherer never holds results of different items, whatever lines
\* run ahead and whichever of them end.
GatherAligned == \A n \in Nodes : Result(n) # Mixed

\* The pipeline implements the ordered pipe, "items cannot skip ahead", also
\* when functions panic and the ends of the pipeline are dropped at any time.
\* An item that some filter discards may not reach the function that panics.
Kept == {i \in Items : \A n \in Nodes : i \in Keep[n]}
Poison == UNION {Panics[n] : n \in Nodes}
Pipe == INSTANCE OrderedPipe WITH Poison <- Kept \cap Poison
ImplementsPipe == Pipe!Spec

\* Once both ends are dropped every thread ends, whatever was in flight and
\* wherever functions panicked, so that a close returns.
ThreadsEnd ==
  producer = "dropped" /\ consumer = "dropped" ~> \A n \in Nodes : Ended(n)

\* Pre: an eager consumer.  Backpressure never turns into a deadlock: a send
\* into the pipeline returns, also when a thread behind full queues panics.
SendReturns == producer = "send" ~> producer # "send"

\* Pre: an eager consumer.  An item that no filter discards comes out, unless
\* a function panics on it or on an earlier one, or the output is dropped first.
ItemsArrive ==
  \A i \in Kept : (\A j \in Poison : i < j) =>
    (sent >= i ~> \/ consumer = "dropped"
                  \/ \E k \in 1 .. Len(received) : received[k] = i)
=============================================================================
