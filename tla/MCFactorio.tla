------------------------------- MODULE MCFactorio -------------------------------
(* A pipeline as the builder makes it, for TLC. *)
EXTENDS Factorio, TLC

CONSTANTS fwd, flt, l1, l2, dist, gath  \* threads
CONSTANTS i0, a, b, d1, d2, g1, g2, o   \* channels

\* new(q).filter_map(f).fork_join(f, 2, join): `a` is the output of the
\* forwarder, `b` that of the filter.
ForkNodes == {fwd, flt, l1, l2, dist, gath}
ForkChans == {i0, a, b, d1, d2, g1, g2, o}
ForkIn == (fwd :> <<i0>>) @@ (flt :> <<a>>) @@ (dist :> <<b>>) @@ (l1 :> <<d1>>)
            @@ (l2 :> <<d2>>) @@ (gath :> <<g1, g2>>)
ForkOut == (fwd :> <<a>>) @@ (flt :> <<b>>) @@ (dist :> <<d1, d2>>) @@ (l1 :> <<g1>>)
            @@ (l2 :> <<g2>>) @@ (gath :> <<o>>)
ForkHandles == <<fwd, flt, l1, l2, dist, gath>>

\* The way of the items, through l1.
MainPath == <<fwd, flt, dist, l1, gath>>
ASSUME PathAssumption == IsPipeline(MainPath)

\* The filter discards item 1 and panics on item 4, line l2 on item 3.
KeepSome == [n \in Nodes |-> IF n = flt THEN Items \ {1} ELSE Items]
TwoPanics ==
  [n \in Nodes |-> CASE n = l2 -> {3} [] n = flt -> {4} [] OTHER -> {}]
=============================================================================
