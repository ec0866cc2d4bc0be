------------------------------ MODULE MCChatEpoll ------------------------------
(* What the clients of the TLC runs send. *)
EXTENDS ChatEpoll, TLC

CONSTANTS n1, n2, c1, c2, c3

Join(n) == [kind |-> "join", name |-> n]
DM(n) == [kind |-> "dm", name |-> n]
Plain(k) == [kind |-> k]

\* The first two clients may claim the same name; the third says nothing.
Talk == c1 :> <<{Join(n1)}, {DM(n2), Join(n1), Plain("broadcast")}>>
     @@ c2 :> <<{Join(n1), Join(n2), Plain("bad")}>>
     @@ c3 :> <<>>

=============================================================================
