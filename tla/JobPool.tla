-------------------------------- MODULE JobPool --------------------------------
(***************************************************************************)
(* What the job queue of lessons/07 promises its user: N lanes, jobs dealt *)
(* to them in turn, the jobs of a lane completed in the order they were    *)
(* submitted and the lanes independently of each other.  Results are read  *)
(* in the order in which jobs complete, no job completes twice, a job that *)
(* panics takes only jobs of its own lane along, and a close that returns  *)
(* has completed every job.                                                *)
(***************************************************************************)
EXTENDS Naturals, Sequences

CONSTANTS
  N,          \* number of lanes
  MaxJobs,    \* bound: jobs submitted
  Panicking   \* jobs that may panic

VARIABLES
  submitted,  \* jobs 1 .. submitted have been submitted
  waiting,    \* those of them that are neither completed nor lost
  results,    \* completed jobs whose result nobody has read
  taken,      \* results read, in order
  dead,       \* lanes that no longer work
  owner       \* "here", or the pool has been "closed" or "left"

vars == <<submitted, waiting, results, taken, dead, owner>>

Lane(j) == (j - 1) % N

Init ==
  /\ submitted = 0 /\ waiting = {} /\ results = <<>> /\ taken = <<>>
  /\ dead = {} /\ owner = "here"

Submit ==
  /\ owner = "here" /\ submitted < MaxJobs
  /\ submitted' = submitted + 1
  /\ waiting' = waiting \cup {submitted + 1}
  /\ UNCHANGED <<results, taken, dead, owner>>

First(j) == \A i \in waiting : Lane(i) = Lane(j) => j <= i

Complete(j) ==
  /\ First(j) /\ Lane(j) \notin dead
  /\ waiting' = waiting \ {j}
  /\ results' = Append(results, j)
  /\ UNCHANGED <<submitted, taken, dead, owner>>

Take ==
  /\ owner = "here" /\ results # <<>>
  /\ taken' = Append(taken, Head(results))
  /\ results' = Tail(results)
  /\ UNCHANGED <<submitted, waiting, dead, owner>>

\* The lane of j ends with j, a job that panicked or whose result nobody can
\* read any more, and jobs behind j are lost.
Break(j) ==
  /\ First(j)
  /\ j \in Panicking \/ owner = "left"
  /\ dead' = dead \cup {Lane(j)}
  /\ \E S \in SUBSET {i \in waiting : Lane(i) = Lane(j)} :
       j \in S /\ waiting' = waiting \ S
  /\ UNCHANGED <<submitted, results, taken, owner>>

\* The owner leaves of its own will, or because a lane is dead; a job that it
\* was submitting to a dead lane is lost.
Leave ==
  /\ owner = "here" /\ owner' = "left"
  /\ waiting' \in {waiting, {i \in waiting : Lane(i) \notin dead}}
  /\ UNCHANGED <<submitted, results, taken, dead>>

Close ==
  /\ owner = "here" /\ waiting = {} /\ dead = {}
  /\ owner' = "closed"
  /\ UNCHANGED <<submitted, waiting, results, taken, dead>>

Next ==
  \/ Submit \/ Take \/ Leave \/ Close
  \/ \E j \in waiting : Complete(j) \/ Break(j)

Spec == Init /\ [][Next]_vars
=============================================================================
