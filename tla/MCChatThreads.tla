---------------------------- MODULE MCChatThreads ----------------------------
(* Values of ChatThreads' constants for TLC. *)
EXTENDS ChatThreads

CONSTANTS c1, c2, c3, n1, n2, n3

Ask(op) == [op |-> op, to |-> None]
DM(n) == [op |-> "SendDM", to |-> n]

\* Everybody may use every name: clashes, overwritten entries.
ClashingNames == [c \in Conns |-> Names]
\* Every client has a name of its own.
NameOf(c) == CASE c = c1 -> n1 [] c = c2 -> n2 [] OTHER -> n3
DistinctNames == [c \in Conns |-> {NameOf(c)}]

\* Direct messages go from c1 only, to itself, to others and to nobody.
OneWayAsks ==
  [c \in Conns |-> CASE c = c1 -> {Ask("ListUsers")} \cup {DM(n) : n \in Names}
                     [] c = c2 -> {Ask(op) : op \in {"Join", "ListUsers", "Broadcast"}}
                     [] OTHER -> {Ask("Broadcast")}]
\* Two clients that write to each other.
MutualAsks == [c \in Conns |-> {DM(n) : n \in Names}]
\* One request of each shape; c3 only joins.  (c2 may itself be n1.)
MixedAsks ==
  [c \in Conns |-> CASE c = c1 -> {Ask("Broadcast")}
                     [] c = c2 -> {DM(n1)}
                     [] OTHER -> {}]
=============================================================================
