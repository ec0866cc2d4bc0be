------------------------------ MODULE WorkerQueue ------------------------------
(***************************************************************************)
(* The job queue of lessons/07: worker_queue.rs.  N worker threads, each   *)
(* behind a bounded channel of its own, one unbounded channel of results,  *)
(* and the single thread that can own the queue (a Receiver is not Sync).  *)
(* Job j is the j-th job that is enqueued.                                 *)
(***************************************************************************)
EXTENDS Naturals, Sequences, Functions

CONSTANTS
  N,          \* n_threads
  QueueSize,  \* bound of each worker's channel; 0 is a rendezvous
  MaxJobs,    \* bound: jobs the user enqueues
  Panicking,  \* jobs that may panic
  Endless,    \* jobs that may never return
  None

\* With n_threads = 0 the first enqueue divides by zero.
ASSUME SizeAssumption == N \in Nat \ {0} /\ QueueSize \in Nat /\ MaxJobs \in Nat
ASSUME JobsAssumption ==
  /\ Panicking \subseteq 1 .. MaxJobs
  /\ Endless \subseteq 1 .. MaxJobs
  /\ None \notin 1 .. MaxJobs

Workers == 0 .. N - 1
Jobs == 1 .. MaxJobs

VARIABLES
  next,       \* next_worker
  queue,      \* queue[w]: jobs in w's channel
  wpc,        \* wpc[w]: control state of worker w
  job,        \* job[w]: the job w runs
  results,    \* the results channel
  user,       \* control state of the thread that owns the queue
  submitted,  \* jobs the user has enqueued, or is enqueuing
  target,     \* the worker that the user sends a job to
  taken,      \* results the user has read
  joined      \* workers that close has joined

workerVars == <<queue, wpc, job>>
callVars == <<next, submitted, target>>
vars == <<workerVars, callVars, results, user, taken, joined>>

Init ==
  /\ next = 0
  /\ queue = [w \in Workers |-> <<>>]
  /\ wpc = [w \in Workers |-> "recv"]
  /\ job = [w \in Workers |-> None]
  /\ results = <<>>
  /\ user = "ready" /\ submitted = 0 /\ target = 0
  /\ taken = <<>> /\ joined = 0

Alive(w) == wpc[w] \in {"recv", "run"}
\* Mutant of SendersDropped: close joins first and drops the senders after.
SendersDroppedLate == user \in {"closed", "gone"}
\* close and the end of the queue's life drop the senders of all channels.
SendersDropped == user \in {"join", "closed", "gone"}

\* Thread w unwinds: the job it runs and those in its channel are dropped.
Die(w) ==
  /\ wpc' = [wpc EXCEPT ![w] = "panicked"]
  /\ job' = [job EXCEPT ![w] = None]
  /\ queue' = [queue EXCEPT ![w] = <<>>]

-----------------------------------------------------------------------------
(* The user: enqueue, next_result, close *)

Enqueue ==
  /\ user = "ready" /\ submitted < MaxJobs
  /\ next' = (next + 1) % N
  /\ target' = next
  /\ submitted' = submitted + 1
  /\ user' = "send"
  /\ UNCHANGED <<workerVars, results, taken, joined>>

\* Mutant of HasRoom: a channel takes one job more than its bound.
HasRoomForOneMore(w) ==
  Alive(w) /\ IF QueueSize > 0 THEN Len(queue[w]) <= QueueSize
                               ELSE queue[w] = <<>> /\ wpc[w] = "recv"

\* Without a buffer a job passes only to a worker that waits for it.
HasRoom(w) ==
  Alive(w) /\ IF QueueSize > 0 THEN Len(queue[w]) < QueueSize
                               ELSE queue[w] = <<>> /\ wpc[w] = "recv"

Send ==
  /\ user = "send" /\ HasRoom(target)
  /\ queue' = [queue EXCEPT ![target] = Append(@, submitted)]
  /\ user' = "ready"
  /\ UNCHANGED <<wpc, job, callVars, results, taken, joined>>

\* The receiver is gone: unwrap panics, the user unwinds and drops the queue.
SendToDead ==
  /\ user = "send" /\ ~Alive(target)
  /\ user' = "gone"
  /\ UNCHANGED <<workerVars, callVars, results, taken, joined>>

\* The user asks only for results that some job still owes it.
NextResult ==
  /\ user = "ready" /\ Len(taken) < submitted
  /\ user' = "receive"
  /\ UNCHANGED <<workerVars, callVars, results, taken, joined>>

Receive ==
  /\ user = "receive" /\ results # <<>>
  /\ taken' = Append(taken, Head(results))
  /\ results' = Tail(results)
  /\ user' = "ready"
  /\ UNCHANGED <<workerVars, callVars, joined>>

\* Every sender of results died with its worker: unwrap panics.
ReceiveFromDead ==
  /\ user = "receive" /\ results = <<>> /\ \A w \in Workers : ~Alive(w)
  /\ user' = "gone"
  /\ UNCHANGED <<workerVars, callVars, results, taken, joined>>

Close ==
  /\ user = "ready" /\ user' = "join"
  /\ UNCHANGED <<workerVars, callVars, results, taken, joined>>

\* Workers are joined in order; unwrap passes on the panic of one.
Join ==
  /\ user = "join"
  /\ \/ /\ wpc[joined] = "exited"
        /\ joined' = joined + 1
        /\ user' = IF joined + 1 = N THEN "closed" ELSE "join"
     \/ wpc[joined] = "panicked" /\ user' = "gone" /\ UNCHANGED joined
  /\ UNCHANGED <<workerVars, callVars, results, taken>>

\* The queue is dropped without a close.
Abandon ==
  /\ user = "ready" /\ user' = "gone"
  /\ UNCHANGED <<workerVars, callVars, results, taken, joined>>

-----------------------------------------------------------------------------
(* A worker *)

\* Mutant of TakeJob: the workers share a lock that is held during the job.
TakeJobLocked(w) ==
  /\ wpc[w] = "recv" /\ queue[w] # <<>>
  /\ \A v \in Workers : wpc[v] # "run"
  /\ queue' = [queue EXCEPT ![w] = Tail(@)]
  /\ wpc' = [wpc EXCEPT ![w] = "run"]
  /\ job' = [job EXCEPT ![w] = Head(queue[w])]
  /\ UNCHANGED <<callVars, results, user, taken, joined>>

TakeJob(w) ==
  /\ wpc[w] = "recv" /\ queue[w] # <<>>
  /\ queue' = [queue EXCEPT ![w] = Tail(@)]
  /\ wpc' = [wpc EXCEPT ![w] = "run"]
  /\ job' = [job EXCEPT ![w] = Head(queue[w])]
  /\ UNCHANGED <<callVars, results, user, taken, joined>>

\* Mutant of Exit: the worker leaves while jobs are still in its channel.
ExitAtOnce(w) ==
  /\ wpc[w] = "recv" /\ SendersDropped
  /\ wpc' = [wpc EXCEPT ![w] = "exited"]
  /\ queue' = [queue EXCEPT ![w] = <<>>]
  /\ UNCHANGED <<job, callVars, results, user, taken, joined>>

\* recv fails once the senders are gone and the channel is empty.
Exit(w) ==
  /\ wpc[w] = "recv" /\ queue[w] = <<>> /\ SendersDropped
  /\ wpc' = [wpc EXCEPT ![w] = "exited"]
  /\ UNCHANGED <<queue, job, callVars, results, user, taken, joined>>

\* Mutant of Finish: the channel of results is bounded as well.
FinishBounded(w) ==
  /\ wpc[w] = "run" /\ user # "gone"
  /\ results = <<>>
  /\ results' = Append(results, job[w])
  /\ wpc' = [wpc EXCEPT ![w] = "recv"]
  /\ job' = [job EXCEPT ![w] = None]
  /\ UNCHANGED <<queue, callVars, user, taken, joined>>

\* The result goes to an unbounded channel: sending it never blocks.
Finish(w) ==
  /\ wpc[w] = "run" /\ user # "gone"
  /\ results' = Append(results, job[w])
  /\ wpc' = [wpc EXCEPT ![w] = "recv"]
  /\ job' = [job EXCEPT ![w] = None]
  /\ UNCHANGED <<queue, callVars, user, taken, joined>>

\* The receiver of results is gone: unwrap panics in the worker.
FinishUnheard(w) ==
  /\ wpc[w] = "run" /\ user = "gone"
  /\ Die(w)
  /\ UNCHANGED <<callVars, results, user, taken, joined>>

PanicJob(w) ==
  /\ wpc[w] = "run" /\ job[w] \in Panicking
  /\ Die(w)
  /\ UNCHANGED <<callVars, results, user, taken, joined>>

-----------------------------------------------------------------------------
WorkerStep(w) ==
  TakeJob(w) \/ Exit(w) \/ Finish(w) \/ FinishUnheard(w) \/ PanicJob(w)
CallStep == Send \/ SendToDead \/ Receive \/ ReceiveFromDead \/ Join

\* The queue has been closed, or lost with whatever it had left to do.
Idle ==
  /\ user \in {"closed", "gone"}
  /\ \A w \in Workers : ~Alive(w) \/ job[w] \in Endless
  /\ UNCHANGED vars

Next ==
  \/ Enqueue \/ NextResult \/ Close \/ Abandon \/ CallStep
  \/ \E w \in Workers : WorkerStep(w)
  \/ Idle

Spec == Init /\ [][Next]_vars

\* Threads run, except for jobs that do not return; the user owes the queue
\* nothing between its calls.
FairSpec ==
  /\ Spec
  /\ WF_vars(CallStep)
  /\ \A w \in Workers : WF_vars(job[w] \notin Endless /\ WorkerStep(w))

-----------------------------------------------------------------------------
(* Properties *)

\* The variables stay in their types; a channel holds at most its bound, one
\* job in transit when the bound is 0.
TypeOK ==
  /\ next \in Workers /\ target \in Workers
  /\ queue \in [Workers -> Seq(Jobs)]
  /\ \A w \in Workers : Len(queue[w]) <= QueueSize \/ (QueueSize = 0 /\ Len(queue[w]) = 1)
  /\ wpc \in [Workers -> {"recv", "run", "exited", "panicked"}]
  /\ job \in [Workers -> Jobs \cup {None}]
  /\ results \in Seq(Jobs) /\ taken \in Seq(Jobs)
  /\ user \in {"ready", "send", "receive", "join", "closed", "gone"}
  /\ submitted \in 0 .. MaxJobs
  /\ joined \in 0 .. N

Held(w) == Range(queue[w]) \cup (IF wpc[w] = "run" THEN {job[w]} ELSE {})
InHand == IF user = "send" THEN {submitted} ELSE {}
Waiting == InHand \cup UNION {Held(w) : w \in Workers}
Dead == {w \in Workers : wpc[w] = "panicked"}
Owner == CASE user = "closed" -> "closed" [] user = "gone" -> "left" [] OTHER -> "here"

\* The queue implements the abstract pool: jobs are dealt round-robin, each
\* worker completes its jobs in order, none is completed twice or lost except
\* to a panic in its own lane, and close returns when all are completed.
Pool == INSTANCE JobPool WITH waiting <- Waiting, dead <- Dead, owner <- Owner
ImplementsPool == Pool!Spec

\* No job of j's lane up to j need panic or go on for ever.
Lane(j) == (j - 1) % N
Safe(j) == \A i \in Panicking \cup Endless : Lane(i) = Lane(j) => i > j

\* Workers "should not block each other": a safe job that a worker has accepted
\* is completed, whatever the other workers do, or the user leaves the queue.
OthersProgress ==
  \A j \in Jobs : Safe(j) =>
    (j \in Waiting \ InHand
       ~> j \in Range(results) \cup Range(taken) \/ user = "gone")

\* An enqueue returns or panics unless its worker is busy for ever, and a
\* next_result returns if a safe job is still owed, whichever channels are
\* full.  (With only lost jobs left it blocks: the other workers still hold
\* senders of the results channel.)
Owed == {j \in Waiting \cup Range(results) : Safe(j)}
CallsReturn ==
  /\ user = "send" /\ (\A i \in Endless : Lane(i) = target => i >= submitted)
       ~> user # "send"
  /\ user = "receive" /\ Owed # {} ~> user # "receive"

\* close returns, or panics, even if jobs panicked and channels are full: no
\* worker it joins waits for a job.
CloseEnds ==
  user = "join" /\ Waiting \cap Endless = {} ~> user \in {"closed", "gone"}

=============================================================================
