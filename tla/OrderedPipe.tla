------------------------------ MODULE OrderedPipe ------------------------------
(***************************************************************************)
(* What the assembly pipeline of lessons/07 promises: items come out in    *)
(* the order in which they were sent, each once, except for those that a   *)
(* filter discards; after an item that makes a function panic nothing      *)
(* comes out any more.                                                     *)
(***************************************************************************)
EXTENDS Naturals, Sequences

CONSTANTS
  MaxItems,  \* bound: items sent
  Kept,      \* items no filter discards
  Poison     \* items some function panics on

VARIABLES
  sent,      \* items 1 .. sent have been sent
  received   \* items received, in order

vars == <<sent, received>>

Init == sent = 0 /\ received = <<>>

Send == sent < MaxItems /\ sent' = sent + 1 /\ UNCHANGED received

\* i is the item after the last one received that has to come out.
Due(i) ==
  /\ i \in Kept
  /\ \A k \in 1 .. Len(received) : received[k] < i
  /\ \A j \in 1 .. i - 1 :
       /\ j \notin Poison
       /\ j \in Kept => \E k \in 1 .. Len(received) : received[k] = j

Receive(i) ==
  /\ i \notin Poison /\ Due(i)
  /\ received' = Append(received, i)
  /\ UNCHANGED sent

Next == Send \/ \E i \in 1 .. sent : Receive(i)

Spec == Init /\ [][Next]_vars
=============================================================================
