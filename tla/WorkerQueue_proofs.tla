--------------------------- MODULE WorkerQueue_proofs ---------------------------
(***************************************************************************)
(* The job queue implements the abstract pool, for every number of workers *)
(* and jobs, every bound of the channels and whichever jobs panic; what    *)
(* the pool promises; and that nobody waits for it in vain.                *)
(***************************************************************************)
EXTENDS WorkerQueue, Integers, TLAPS

-----------------------------------------------------------------------------
(* Arithmetic: the round-robin counter *)

LEMMA ModUnique ==
  ASSUME NEW n \in Nat \ {0}, NEW q \in Int, NEW r \in 0 .. n - 1
  PROVE  (n * q + r) % n = r
BY Z3

LEMMA ModSplit ==
  ASSUME NEW n \in Nat \ {0}, NEW x \in Nat
  PROVE  /\ x = n * (x \div n) + (x % n)
         /\ x % n \in 0 .. n - 1
         /\ x \div n \in Int
BY Z3

LEMMA ModSmall ==
  ASSUME NEW n \in Nat \ {0}, NEW r \in 0 .. n - 1
  PROVE  r % n = r
BY Z3

LEMMA ModSelf ==
  ASSUME NEW n \in Nat \ {0}
  PROVE  n % n = 0
BY Z3

\* Counting on modulo n is the same before and after taking the remainder.
LEMMA ModSucc ==
  ASSUME NEW n \in Nat \ {0}, NEW x \in Nat
  PROVE  (x + 1) % n = ((x % n) + 1) % n
<1> DEFINE q == x \div n
           r == x % n
<1>1. x = n * q + r /\ r \in 0 .. n - 1 /\ q \in Int
  BY ModSplit
<1> HIDE DEF q, r
<1>2. CASE r + 1 < n
  <2>1. r + 1 \in 0 .. n - 1
    BY <1>1, <1>2
  <2>2. (n * q + (r + 1)) % n = r + 1
    BY <2>1, <1>1, ModUnique
  <2>3. n * q + (r + 1) = x + 1
    BY <1>1
  <2>4. (r + 1) % n = r + 1
    BY <2>1, ModSmall
  <2> QED
    BY <2>2, <2>3, <2>4 DEF r
<1>3. CASE r + 1 = n
  <2>1. n * (q + 1) = n * q + n
    BY <1>1
  <2>2. (n * (q + 1) + 0) % n = 0
    BY <1>1, ModUnique
  <2>3. n * (q + 1) + 0 = x + 1
    BY <1>1, <1>3, <2>1
  <2> QED
    BY <2>2, <2>3, <1>3, ModSelf DEF r
<1> QED
  BY <1>1, <1>2, <1>3

-----------------------------------------------------------------------------
(* Sequences: what a channel holds *)

LEMMA RangeOfSeq ==
  ASSUME NEW S, NEW s \in Seq(S)
  PROVE  \A y : y \in Range(s) <=> \E i \in 1 .. Len(s) : s[i] = y
<1>1. DOMAIN s = 1 .. Len(s)
  OBVIOUS
<1> QED
  BY <1>1 DEF Range

LEMMA RangeOfAppend ==
  ASSUME NEW S, NEW s \in Seq(S), NEW x \in S
  PROVE  Range(Append(s, x)) = Range(s) \cup {x}
<1> DEFINE t == Append(s, x)
<1>1. /\ t \in Seq(S) /\ Len(t) = Len(s) + 1 /\ Len(s) \in Nat
      /\ \A i \in 1 .. Len(s) : t[i] = s[i]
      /\ t[Len(s) + 1] = x
  OBVIOUS
<1> HIDE DEF t
<1>2. \A y : y \in Range(t) <=> \E i \in 1 .. Len(t) : t[i] = y
  BY <1>1, RangeOfSeq
<1>3. \A y : y \in Range(s) <=> \E i \in 1 .. Len(s) : s[i] = y
  BY RangeOfSeq
<1>4. ASSUME NEW y PROVE y \in Range(t) <=> y \in Range(s) \cup {x}
  <2>1. ASSUME NEW i \in 1 .. Len(t), t[i] = y
        PROVE  y \in Range(s) \cup {x}
    BY <1>1, <1>3, <2>1
  <2>2. ASSUME NEW i \in 1 .. Len(s), s[i] = y
        PROVE  y \in Range(t)
    BY <1>1, <1>2, <2>2
  <2>3. x \in Range(t)
    BY <1>1, <1>2
  <2> QED
    BY <1>2, <1>3, <2>1, <2>2, <2>3
<1> QED
  BY <1>4 DEF t

LEMMA RangeOfTail ==
  ASSUME NEW S, NEW s \in Seq(S), s # <<>>
  PROVE  Range(s) = {Head(s)} \cup Range(Tail(s))
<1> DEFINE t == Tail(s)
<1>1. /\ t \in Seq(S) /\ Len(t) = Len(s) - 1
      /\ Len(s) \in Nat \ {0} /\ Head(s) = s[1]
      /\ \A i \in 1 .. Len(s) - 1 : t[i] = s[i + 1]
  OBVIOUS
<1> HIDE DEF t
<1>2. \A y : y \in Range(t) <=> \E i \in 1 .. Len(t) : t[i] = y
  BY <1>1, RangeOfSeq
<1>3. \A y : y \in Range(s) <=> \E i \in 1 .. Len(s) : s[i] = y
  BY RangeOfSeq
<1>4. ASSUME NEW y PROVE y \in Range(s) <=> y \in {Head(s)} \cup Range(t)
  <2>1. ASSUME NEW i \in 1 .. Len(s), s[i] = y
        PROVE  y \in {Head(s)} \cup Range(t)
    <3>1. CASE i = 1
      BY <1>1, <2>1, <3>1
    <3>2. CASE i # 1
      <4>1. i - 1 \in 1 .. Len(t) /\ t[i - 1] = s[i]
        BY <1>1, <3>2
      <4> QED
        BY <4>1, <1>2, <2>1
    <3> QED
      BY <3>1, <3>2
  <2>2. ASSUME NEW i \in 1 .. Len(t), t[i] = y
        PROVE  y \in Range(s)
    <3>1. i + 1 \in 1 .. Len(s) /\ s[i + 1] = y
      BY <1>1, <2>2
    <3> QED
      BY <3>1, <1>3
  <2>3. Head(s) \in Range(s)
    <3>1. 1 \in 1 .. Len(s)
      BY <1>1
    <3> QED
      BY <1>1, <1>3, <3>1
  <2> QED
    BY <1>2, <1>3, <2>1, <2>2, <2>3
<1> QED
  BY <1>4 DEF t

LEMMA RangeOfEmpty == Range(<<>>) = {}
BY DEF Range

-----------------------------------------------------------------------------
(* The inductive invariant *)

\* The counter says how many jobs have been dealt.
CounterInv ==
  /\ next = submitted % N
  /\ user = "send" => submitted > 0 /\ target = Lane(submitted)

\* A worker has jobs of its own lane, all of them submitted.
HeldOK(w) ==
  \A j \in Held(w) : /\ j \in Jobs /\ j <= submitted /\ Lane(j) = w
                     /\ user = "send" => j < submitted
HeldInv == \A w \in Workers : HeldOK(w)

\* It has them in the order in which they were submitted.
Increasing(q) == \A i, k \in DOMAIN q : i < k => q[i] < q[k]
OrderOK(w) ==
  /\ Increasing(queue[w])
  /\ wpc[w] = "run" => job[w] \in Jobs /\ \A j \in Range(queue[w]) : job[w] < j
OrderInv == \A w \in Workers : OrderOK(w)

\* A worker that has ended left nothing behind; it leaves in peace only when
\* the senders are gone.
EndedOK(w) ==
  /\ ~Alive(w) => queue[w] = <<>>
  /\ wpc[w] = "exited" => SendersDropped
EndedInv == \A w \in Workers : EndedOK(w)

\* close has joined workers that left in peace.
JoinInv ==
  /\ \A w \in Workers : w < joined => wpc[w] = "exited"
  /\ joined = N <=> user = "closed"

IInv == TypeOK /\ CounterInv /\ HeldInv /\ OrderInv /\ EndedInv /\ JoinInv

-----------------------------------------------------------------------------
(* The invariant holds initially *)

LEMMA InitInv == Init => IInv
<1> SUFFICES ASSUME Init PROVE IInv
  OBVIOUS
<1> USE SizeAssumption
<1>1. \A w \in Workers : queue[w] = <<>> /\ wpc[w] = "recv"
  BY DEF Init
<1>2. \A w \in Workers : Held(w) = {}
  BY <1>1, RangeOfEmpty DEF Held
<1>3. TypeOK
  BY <1>1 DEF Init, TypeOK, Workers, Jobs
<1>4. CounterInv
  <2>1. 0 \in 0 .. N - 1
    OBVIOUS
  <2> QED
    BY <2>1, ModSmall DEF Init, CounterInv
<1>5. HeldInv
  BY <1>2 DEF HeldInv, HeldOK
<1>6. OrderInv
  BY <1>1 DEF OrderInv, OrderOK, Increasing
<1>7. EndedInv
  BY <1>1 DEF EndedInv, EndedOK, Alive
<1>8. JoinInv
  BY DEF Init, JoinInv, Workers
<1> QED
  BY <1>3, <1>4, <1>5, <1>6, <1>7, <1>8 DEF IInv

-----------------------------------------------------------------------------
(* Every step preserves it, one part after the other *)

LEMMA TypeStep == IInv /\ [Next]_vars => TypeOK'
<1> SUFFICES ASSUME IInv, [Next]_vars PROVE TypeOK'
  OBVIOUS
<1> USE SizeAssumption, JobsAssumption
<1>t. TypeOK
  BY DEF IInv
<1>1. CASE Enqueue
  <2>1. (next + 1) % N \in Workers
    BY <1>t, ModSplit DEF TypeOK, Workers
  <2> QED
    BY <1>t, <1>1, <2>1 DEF TypeOK, Enqueue, workerVars
<1>2. CASE Send
  <2>1. submitted \in Jobs
    BY <1>t, <1>2 DEF IInv, CounterInv, TypeOK, Send, Jobs
  <2>2. /\ Append(queue[target], submitted) \in Seq(Jobs)
        /\ Len(Append(queue[target], submitted)) = Len(queue[target]) + 1
        /\ Len(queue[target]) \in Nat
        /\ queue[target] = <<>> => Len(queue[target]) = 0
    BY <1>t, <2>1 DEF TypeOK
  <2>3. /\ queue' \in [Workers -> Seq(Jobs)]
        /\ queue'[target] = Append(queue[target], submitted)
        /\ \A w \in Workers \ {target} : queue'[w] = queue[w]
    BY <1>t, <1>2, <2>2 DEF TypeOK, Send
  <2>4. Len(queue'[target]) <= QueueSize \/ (QueueSize = 0 /\ Len(queue'[target]) = 1)
    BY <1>2, <2>2, <2>3 DEF Send, HasRoom
  <2>5. \A w \in Workers :
          Len(queue'[w]) <= QueueSize \/ (QueueSize = 0 /\ Len(queue'[w]) = 1)
    BY <1>t, <2>3, <2>4 DEF TypeOK
  <2> QED
    BY <1>t, <1>2, <2>3, <2>5 DEF TypeOK, Send, callVars
<1>3. CASE SendToDead \/ NextResult \/ ReceiveFromDead \/ Close \/ Abandon
  BY <1>t, <1>3 DEF TypeOK, SendToDead, NextResult, ReceiveFromDead, Close, Abandon,
                    workerVars, callVars
<1>4. CASE Receive
  <2>1. /\ Tail(results) \in Seq(Jobs) /\ Append(taken, Head(results)) \in Seq(Jobs)
    BY <1>t, <1>4 DEF TypeOK, Receive
  <2> QED
    BY <1>t, <1>4, <2>1 DEF TypeOK, Receive, workerVars, callVars
<1>5. CASE Join
  <2>1. joined \in 0 .. N - 1
    BY <1>t, <1>5 DEF IInv, JoinInv, TypeOK, Join
  <2> QED
    BY <1>t, <1>5, <2>1 DEF TypeOK, Join, workerVars, callVars
<1>6. ASSUME NEW w \in Workers, TakeJob(w) PROVE TypeOK'
  <2>1. /\ Tail(queue[w]) \in Seq(Jobs) /\ Head(queue[w]) \in Jobs
        /\ Len(Tail(queue[w])) = Len(queue[w]) - 1 /\ Len(queue[w]) \in Nat
    BY <1>t, <1>6 DEF TypeOK, TakeJob
  <2>2. /\ queue' \in [Workers -> Seq(Jobs)]
        /\ queue'[w] = Tail(queue[w])
        /\ \A v \in Workers \ {w} : queue'[v] = queue[v]
    BY <1>t, <1>6, <2>1 DEF TypeOK, TakeJob
  <2>3. Len(queue[w]) <= QueueSize \/ (QueueSize = 0 /\ Len(queue[w]) = 1)
    BY <1>t DEF TypeOK
  <2>4. Len(queue'[w]) <= QueueSize
    BY <2>1, <2>2, <2>3
  <2>5. \A v \in Workers :
          Len(queue'[v]) <= QueueSize \/ (QueueSize = 0 /\ Len(queue'[v]) = 1)
    BY <1>t, <2>2, <2>4 DEF TypeOK
  <2> QED
    BY <1>t, <1>6, <2>1, <2>2, <2>5 DEF TypeOK, TakeJob, callVars
<1>7. ASSUME NEW w \in Workers, Exit(w) PROVE TypeOK'
  BY <1>t, <1>7 DEF TypeOK, Exit, callVars
<1>8. ASSUME NEW w \in Workers, Finish(w) PROVE TypeOK'
  <2>1. job[w] \in Jobs
    BY <1>8 DEF IInv, OrderInv, OrderOK, Finish
  <2>2. Append(results, job[w]) \in Seq(Jobs)
    BY <1>t, <2>1 DEF TypeOK
  <2> QED
    BY <1>t, <1>8, <2>2 DEF TypeOK, Finish, callVars
<1>9. ASSUME NEW w \in Workers, FinishUnheard(w) \/ PanicJob(w) PROVE TypeOK'
  <2> DEFINE e == <<>>
  <2>1. e \in Seq(Jobs) /\ Len(e) = 0
    OBVIOUS
  <2>q. queue' = [queue EXCEPT ![w] = e]
    BY <1>9 DEF FinishUnheard, PanicJob, Die
  <2> HIDE DEF e
  <2>2. /\ queue' \in [Workers -> Seq(Jobs)]
        /\ queue'[w] = e
        /\ \A v \in Workers \ {w} : queue'[v] = queue[v]
    BY <1>t, <2>1, <2>q DEF TypeOK
  <2>4. Len(queue'[w]) <= QueueSize
    BY <2>1, <2>2
  <2>3. \A v \in Workers :
          Len(queue'[v]) <= QueueSize \/ (QueueSize = 0 /\ Len(queue'[v]) = 1)
    BY <1>t, <2>2, <2>4 DEF TypeOK
  <2> QED
    BY <1>t, <1>9, <2>2, <2>3 DEF TypeOK, FinishUnheard, PanicJob, Die, callVars
<1>10. CASE UNCHANGED vars
  BY <1>t, <1>10 DEF TypeOK, vars, workerVars, callVars
<1> QED
  BY <1>1, <1>2, <1>3, <1>4, <1>5, <1>6, <1>7, <1>8, <1>9, <1>10
     DEF Next, CallStep, WorkerStep, Idle

LEMMA CounterStep == IInv /\ [Next]_vars => CounterInv'
<1> SUFFICES ASSUME IInv, [Next]_vars PROVE CounterInv'
  OBVIOUS
<1> USE SizeAssumption
<1>i. TypeOK /\ CounterInv
  BY DEF IInv
<1>1. CASE Enqueue
  <2>1. submitted \in Nat /\ submitted' = submitted + 1
    BY <1>i, <1>1 DEF TypeOK, Enqueue
  <2>2. next' = submitted' % N
    BY <1>i, <1>1, <2>1, ModSucc DEF CounterInv, Enqueue
  <2>3. target' = Lane(submitted')
    <3>1. submitted' - 1 = submitted
      BY <2>1
    <3> QED
      BY <1>i, <1>1, <3>1 DEF CounterInv, Enqueue, Lane
  <2> QED
    BY <2>1, <2>2, <2>3 DEF CounterInv, Lane
<1>2. CASE ~Enqueue
  <2>1. UNCHANGED callVars /\ (user' = "send" => user = "send")
    BY <1>2 DEF Next, CallStep, WorkerStep, Idle, vars, Send, SendToDead, NextResult, Receive,
         ReceiveFromDead, Close, Join, Abandon, TakeJob, Exit, Finish, FinishUnheard, PanicJob
  <2> QED
    BY <1>i, <2>1 DEF CounterInv, callVars, Lane
<1> QED
  BY <1>1, <1>2

-----------------------------------------------------------------------------
(* What a step does to the jobs that a worker holds *)

LEMMA WhoSteps ==
  [Next]_vars => Send \/ UNCHANGED workerVars \/ \E w \in Workers : WorkerStep(w)
BY DEF Next, CallStep, Idle, vars, Enqueue, NextResult, Close, Abandon, SendToDead,
       Receive, ReceiveFromDead, Join

\* A worker's step leaves the other workers alone.
LEMMA OthersSame ==
  ASSUME NEW w \in Workers
  PROVE  TypeOK /\ WorkerStep(w)
           => \A v \in Workers \ {w} :
                queue'[v] = queue[v] /\ wpc'[v] = wpc[v] /\ job'[v] = job[v]
<1> SUFFICES ASSUME TypeOK, WorkerStep(w)
             PROVE  \A v \in Workers \ {w} :
                      queue'[v] = queue[v] /\ wpc'[v] = wpc[v] /\ job'[v] = job[v]
  OBVIOUS
<1>1. CASE TakeJob(w) \/ Exit(w) \/ Finish(w)
  BY <1>1 DEF TypeOK, TakeJob, Exit, Finish
<1>2. CASE FinishUnheard(w) \/ PanicJob(w)
  BY <1>2 DEF TypeOK, FinishUnheard, PanicJob, Die
<1> QED
  BY <1>1, <1>2 DEF WorkerStep

LEMMA HeldSame ==
  UNCHANGED workerVars => \A v \in Workers : Held(v)' = Held(v)
BY DEF Held, workerVars

LEMMA HeldByOthers ==
  ASSUME NEW w \in Workers
  PROVE  TypeOK /\ WorkerStep(w) => \A v \in Workers \ {w} : Held(v)' = Held(v)
BY OthersSame DEF Held

LEMMA HeldAfterSend ==
  IInv /\ Send
    => /\ submitted \in Jobs
       /\ \A v \in Workers :
            Held(v)' = Held(v) \cup (IF v = target THEN {submitted} ELSE {})
<1> SUFFICES ASSUME IInv, Send
             PROVE  /\ submitted \in Jobs
                    /\ \A v \in Workers :
                         Held(v)' = Held(v) \cup (IF v = target THEN {submitted} ELSE {})
  OBVIOUS
<1>1. TypeOK /\ submitted \in Jobs
  BY JobsAssumption, SizeAssumption DEF IInv, CounterInv, TypeOK, Send, Jobs
<1>2. /\ target \in Workers
      /\ queue'[target] = Append(queue[target], submitted)
      /\ \A v \in Workers \ {target} : queue'[v] = queue[v]
      /\ UNCHANGED <<wpc, job>>
  BY <1>1 DEF TypeOK, Send
<1>3. Range(queue'[target]) = Range(queue[target]) \cup {submitted}
  BY <1>1, <1>2, RangeOfAppend DEF TypeOK
<1>4. ASSUME NEW v \in Workers
      PROVE  Held(v)' = Held(v) \cup (IF v = target THEN {submitted} ELSE {})
  BY <1>2, <1>3 DEF Held
<1> QED
  BY <1>1, <1>4

LEMMA HeldAfterTake ==
  ASSUME NEW w \in Workers
  PROVE  TypeOK /\ (TakeJob(w) \/ Exit(w)) => Held(w)' = Held(w)
<1> SUFFICES ASSUME TypeOK, TakeJob(w) \/ Exit(w) PROVE Held(w)' = Held(w)
  OBVIOUS
<1>1. CASE TakeJob(w)
  <2>1. /\ queue'[w] = Tail(queue[w]) /\ wpc'[w] = "run" /\ job'[w] = Head(queue[w])
        /\ wpc[w] = "recv"
    BY <1>1 DEF TypeOK, TakeJob
  <2>2. Range(queue[w]) = {Head(queue[w])} \cup Range(Tail(queue[w]))
    BY <1>1, RangeOfTail DEF TypeOK, TakeJob
  <2> QED
    BY <2>1, <2>2 DEF Held
<1>2. CASE Exit(w)
  <2>1. queue'[w] = queue[w] /\ wpc'[w] = "exited" /\ wpc[w] = "recv"
    BY <1>2 DEF TypeOK, Exit
  <2> QED
    BY <2>1 DEF Held
<1> QED
  BY <1>1, <1>2

LEMMA HeldAfterFinish ==
  ASSUME NEW w \in Workers
  PROVE  IInv /\ Finish(w) => job[w] \in Held(w) /\ Held(w)' = Held(w) \ {job[w]}
<1> SUFFICES ASSUME IInv, Finish(w)
             PROVE  job[w] \in Held(w) /\ Held(w)' = Held(w) \ {job[w]}
  OBVIOUS
<1>1. queue'[w] = queue[w] /\ wpc'[w] = "recv" /\ wpc[w] = "run"
  BY DEF IInv, TypeOK, Finish
<1>2. \A j \in Range(queue[w]) : job[w] < j
  BY <1>1 DEF IInv, OrderInv, OrderOK
<1>3. job[w] \in Jobs
  BY <1>1 DEF IInv, OrderInv, OrderOK
<1>4. job[w] \notin Range(queue[w])
  BY <1>2, <1>3 DEF Jobs
<1> QED
  BY <1>1, <1>4 DEF Held

LEMMA HeldAfterDeath ==
  ASSUME NEW w \in Workers
  PROVE  TypeOK /\ (FinishUnheard(w) \/ PanicJob(w))
           => job[w] \in Held(w) /\ Held(w)' = {}
<1> SUFFICES ASSUME TypeOK, FinishUnheard(w) \/ PanicJob(w)
             PROVE  job[w] \in Held(w) /\ Held(w)' = {}
  OBVIOUS
<1>1. queue'[w] = <<>> /\ wpc'[w] = "panicked" /\ wpc[w] = "run"
  BY DEF TypeOK, FinishUnheard, PanicJob, Die
<1> QED
  BY <1>1, RangeOfEmpty DEF Held

\* Only a send gives a worker jobs it did not have.
LEMMA HeldShrinks ==
  IInv /\ [Next]_vars /\ ~Send => \A v \in Workers : Held(v)' \subseteq Held(v)
<1> SUFFICES ASSUME IInv, [Next]_vars, ~Send, NEW v \in Workers
             PROVE  Held(v)' \subseteq Held(v)
  OBVIOUS
<1>1. CASE UNCHANGED workerVars
  BY <1>1, HeldSame
<1>2. ASSUME NEW w \in Workers, WorkerStep(w) PROVE Held(v)' \subseteq Held(v)
  <2>1. CASE v # w
    BY <1>2, <2>1, HeldByOthers DEF IInv
  <2>2. Held(w)' \subseteq Held(w)
    BY <1>2, HeldAfterTake, HeldAfterFinish, HeldAfterDeath DEF IInv, WorkerStep
  <2> QED
    BY <2>1, <2>2
<1> QED
  BY <1>1, <1>2, WhoSteps

LEMMA HeldStep == IInv /\ [Next]_vars => HeldInv'
<1> SUFFICES ASSUME IInv, [Next]_vars, NEW v \in Workers PROVE HeldOK(v)'
  BY DEF HeldInv
<1> USE SizeAssumption
<1>1. /\ \A j \in Held(v) : /\ j \in Jobs /\ j <= submitted /\ Lane(j) = v
                            /\ user = "send" => j < submitted
      /\ submitted \in Nat
  BY DEF IInv, HeldInv, HeldOK, TypeOK
<1>2. CASE Enqueue
  <2>1. Held(v)' = Held(v) /\ submitted' = submitted + 1
    BY <1>2, HeldSame DEF Enqueue
  <2>2. ASSUME NEW j \in Held(v)
        PROVE  j \in Jobs /\ j <= submitted' /\ Lane(j) = v /\ j < submitted'
    BY <1>1, <2>1 DEF Jobs
  <2> QED
    BY <2>1, <2>2 DEF HeldOK, Lane
<1>3. CASE Send
  <2>1. /\ submitted \in Jobs /\ submitted' = submitted /\ user' = "ready"
        /\ Held(v)' = Held(v) \cup (IF v = target THEN {submitted} ELSE {})
    BY <1>3, HeldAfterSend DEF Send, callVars
  <2>2. target = Lane(submitted)
    BY <1>3 DEF IInv, CounterInv, Send
  <2>3. ASSUME NEW j \in Held(v)'
        PROVE  j \in Jobs /\ j <= submitted /\ Lane(j) = v
    BY <1>1, <2>1, <2>2 DEF Jobs
  <2> QED
    BY <2>1, <2>3 DEF HeldOK, Lane
<1>4. CASE ~Enqueue /\ ~Send
  <2>1. submitted' = submitted /\ (user' = "send" => user = "send")
    BY <1>4 DEF Next, CallStep, WorkerStep, Idle, vars, callVars, SendToDead, NextResult,
         Receive, ReceiveFromDead, Close, Join, Abandon, TakeJob, Exit, Finish,
         FinishUnheard, PanicJob
  <2>2. Held(v)' \subseteq Held(v)
    BY <1>4, HeldShrinks
  <2> QED
    BY <1>1, <2>1, <2>2 DEF HeldOK, Lane
<1> QED
  BY <1>2, <1>3, <1>4

-----------------------------------------------------------------------------
(* The order of a worker's jobs *)

LEMMA OrderStep == IInv /\ [Next]_vars => OrderInv'
<1> SUFFICES ASSUME IInv, [Next]_vars, NEW v \in Workers PROVE OrderOK(v)'
  BY DEF OrderInv
<1>i. OrderOK(v) /\ TypeOK /\ queue[v] \in Seq(Jobs)
  BY DEF IInv, OrderInv, TypeOK
<1>s. ASSUME queue'[v] = queue[v], wpc'[v] = wpc[v], job'[v] = job[v] PROVE OrderOK(v)'
  BY <1>i, <1>s DEF OrderOK, Increasing
<1>1. CASE UNCHANGED workerVars
  BY <1>1, <1>s DEF workerVars
<1>2. CASE Send
  <2>1. CASE v # target
    BY <1>2, <2>1, <1>i, <1>s DEF TypeOK, Send
  <2>2. CASE v = target
    <3> DEFINE q == queue[v]
    <3>1. queue'[v] = Append(q, submitted) /\ wpc'[v] = wpc[v] /\ job'[v] = job[v]
      BY <1>2, <2>2, <1>i DEF TypeOK, Send
    <3>2. /\ submitted \in Jobs /\ user = "send"
          /\ Range(q) \subseteq Held(v)
          /\ wpc[v] = "run" => job[v] \in Held(v)
      BY <1>2, HeldAfterSend DEF Send, Held
    <3>3. \A j \in Held(v) : j \in Jobs /\ j < submitted
      BY <3>2 DEF IInv, HeldInv, HeldOK
    <3> DEFINE t == Append(q, submitted)
    <3>4. /\ Len(q) \in Nat /\ DOMAIN q = 1 .. Len(q) /\ DOMAIN t = 1 .. Len(q) + 1
          /\ \A i \in 1 .. Len(q) : t[i] = q[i]
          /\ t[Len(q) + 1] = submitted
          /\ q \in Seq(Jobs)
      BY <1>i, <3>2
    <3>5. Range(t) = Range(q) \cup {submitted}
      BY <3>2, <3>4, RangeOfAppend
    <3>6. \A i \in 1 .. Len(q) : q[i] \in Range(q)
      BY <3>4, RangeOfSeq
    <3> HIDE DEF t, q
    <3>7. Increasing(t)
      <4>1. Increasing(q)
        BY <1>i DEF OrderOK, q
      <4> SUFFICES ASSUME NEW i \in DOMAIN t, NEW k \in DOMAIN t, i < k
                   PROVE  t[i] < t[k]
        BY DEF Increasing
      <4>2. i \in 1 .. Len(q)
        BY <3>4
      <4>3. CASE k \in 1 .. Len(q)
        BY <4>1, <4>2, <4>3, <3>4 DEF Increasing
      <4>4. CASE k = Len(q) + 1
        BY <4>2, <4>4, <3>2, <3>3, <3>4, <3>6
      <4> QED
        BY <3>4, <4>3, <4>4
    <3>8. wpc[v] = "run" => job[v] \in Jobs /\ \A j \in Range(t) : job[v] < j
      BY <1>i, <3>2, <3>3, <3>5 DEF OrderOK, q
    <3> QED
      BY <3>1, <3>7, <3>8 DEF OrderOK, Increasing, t
  <2> QED
    BY <2>1, <2>2
<1>3. ASSUME NEW w \in Workers, WorkerStep(w) PROVE OrderOK(v)'
  <2>1. CASE v # w
    BY <1>3, <2>1, <1>i, <1>s, OthersSame
  <2>2. CASE v = w /\ TakeJob(w)
    <3> DEFINE q == queue[v]
               t == Tail(q)
    <3>1. queue'[v] = t /\ job'[v] = Head(q) /\ q # <<>>
      BY <2>2, <1>i DEF TypeOK, TakeJob
    <3>2. /\ Len(q) \in Nat \ {0} /\ DOMAIN q = 1 .. Len(q) /\ t \in Seq(Jobs)
          /\ Len(t) = Len(q) - 1 /\ DOMAIN t = 1 .. Len(q) - 1
          /\ \A i \in 1 .. Len(q) - 1 : t[i] = q[i + 1]
          /\ Head(q) = q[1] /\ Head(q) \in Jobs
      BY <1>i, <3>1
    <3>3. \A j \in Range(t) : \E i \in 1 .. Len(t) : t[i] = j
      BY <3>2, RangeOfSeq
    <3>4. Increasing(q)
      BY <1>i DEF OrderOK
    <3> HIDE DEF t, q
    <3>5. Increasing(t)
      BY <3>2, <3>4 DEF Increasing
    <3>6. ASSUME NEW j \in Range(t) PROVE Head(q) < j
      <4>1. PICK i \in 1 .. Len(t) : t[i] = j
        BY <3>3
      <4>2. i + 1 \in DOMAIN q /\ 1 \in DOMAIN q /\ 1 < i + 1 /\ q[i + 1] = j
        BY <3>2, <4>1
      <4> QED
        BY <3>2, <3>4, <4>2 DEF Increasing
    <3> QED
      BY <3>1, <3>2, <3>5, <3>6 DEF OrderOK, Increasing
  <2>3. CASE v = w /\ (Exit(w) \/ Finish(w))
    <3>1. queue'[v] = queue[v] /\ wpc'[v] # "run"
      BY <2>3, <1>i DEF TypeOK, Exit, Finish
    <3> QED
      BY <1>i, <3>1 DEF OrderOK, Increasing
  <2>4. CASE v = w /\ (FinishUnheard(w) \/ PanicJob(w))
    <3>1. queue'[v] = <<>> /\ wpc'[v] # "run"
      BY <2>4, <1>i DEF TypeOK, FinishUnheard, PanicJob, Die
    <3> QED
      BY <3>1 DEF OrderOK, Increasing
  <2> QED
    BY <1>3, <2>1, <2>2, <2>3, <2>4 DEF WorkerStep
<1> QED
  BY <1>1, <1>2, <1>3, WhoSteps

-----------------------------------------------------------------------------
(* Workers that have ended *)

\* Which end of the queue's life has been reached only ever moves on.
LEMMA SendersStayDropped ==
  IInv /\ [Next]_vars /\ SendersDropped => SendersDropped'
BY DEF Next, CallStep, WorkerStep, Idle, vars, Enqueue, Send, SendToDead, NextResult,
       Receive, ReceiveFromDead, Close, Join, Abandon, TakeJob, Exit, Finish,
       FinishUnheard, PanicJob, SendersDropped

LEMMA EndedStep == IInv /\ [Next]_vars => EndedInv'
<1> SUFFICES ASSUME IInv, [Next]_vars, NEW v \in Workers PROVE EndedOK(v)'
  BY DEF EndedInv
<1>i. EndedOK(v) /\ TypeOK
  BY DEF IInv, EndedInv
<1>s. ASSUME queue'[v] = queue[v], wpc'[v] = wpc[v] PROVE EndedOK(v)'
  BY <1>i, <1>s, SendersStayDropped DEF EndedOK, Alive
<1>1. CASE UNCHANGED workerVars
  BY <1>1, <1>s DEF workerVars
<1>2. CASE Send
  <2>1. CASE v # target
    BY <1>2, <2>1, <1>i, <1>s DEF TypeOK, Send
  <2>2. CASE v = target
    BY <1>2, <2>2 DEF Send, HasRoom, EndedOK, Alive
  <2> QED
    BY <2>1, <2>2
<1>3. ASSUME NEW w \in Workers, WorkerStep(w) PROVE EndedOK(v)'
  <2>1. CASE v # w
    BY <1>3, <2>1, <1>i, <1>s, OthersSame
  <2>2. CASE v = w /\ (TakeJob(w) \/ Finish(w))
    <3>1. wpc'[v] \in {"recv", "run"}
      BY <2>2, <1>i DEF TypeOK, TakeJob, Finish
    <3> QED
      BY <3>1 DEF EndedOK, Alive
  <2>3. CASE v = w /\ Exit(w)
    <3>1. queue'[v] = <<>> /\ SendersDropped
      BY <2>3, <1>i DEF TypeOK, Exit
    <3> QED
      BY <3>1, SendersStayDropped DEF EndedOK
  <2>4. CASE v = w /\ (FinishUnheard(w) \/ PanicJob(w))
    <3>1. queue'[v] = <<>> /\ wpc'[v] = "panicked"
      BY <2>4, <1>i DEF TypeOK, FinishUnheard, PanicJob, Die
    <3> QED
      BY <3>1 DEF EndedOK
  <2> QED
    BY <1>3, <2>1, <2>2, <2>3, <2>4 DEF WorkerStep
<1> QED
  BY <1>1, <1>2, <1>3, WhoSteps

\* A worker that has left stays away.
LEMMA ExitedStays ==
  TypeOK /\ [Next]_vars => \A v \in Workers : wpc[v] = "exited" => wpc'[v] = "exited"
<1> SUFFICES ASSUME TypeOK, [Next]_vars, NEW v \in Workers, wpc[v] = "exited"
             PROVE  wpc'[v] = "exited"
  OBVIOUS
<1>1. CASE Send \/ UNCHANGED workerVars
  BY <1>1 DEF Send, workerVars
<1>2. ASSUME NEW w \in Workers, WorkerStep(w) PROVE wpc'[v] = "exited"
  <2>1. v # w
    BY <1>2 DEF WorkerStep, TakeJob, Exit, Finish, FinishUnheard, PanicJob
  <2> QED
    BY <1>2, <2>1, OthersSame
<1> QED
  BY <1>1, <1>2, WhoSteps

LEMMA JoinStep == IInv /\ [Next]_vars => JoinInv'
<1> SUFFICES ASSUME IInv, [Next]_vars PROVE JoinInv'
  OBVIOUS
<1> USE SizeAssumption
<1>i. TypeOK /\ JoinInv
  BY DEF IInv
<1>e. \A v \in Workers : wpc[v] = "exited" => wpc'[v] = "exited"
  BY <1>i, ExitedStays
<1>1. CASE Close
  <2>1. /\ joined' = joined /\ user' = "join" /\ UNCHANGED wpc
    BY <1>1 DEF Close, workerVars
  <2>2. joined < N
    BY <1>1, <1>i DEF JoinInv, TypeOK, Close
  <2> QED
    BY <1>i, <2>1, <2>2 DEF JoinInv
<1>2. CASE Join
  <2>1. joined \in 0 .. N - 1 /\ UNCHANGED wpc
    BY <1>2, <1>i DEF JoinInv, TypeOK, Join, workerVars
  <2>2. CASE wpc[joined] = "exited" /\ joined' = joined + 1
             /\ user' = (IF joined + 1 = N THEN "closed" ELSE "join")
    <3>1. \A v \in Workers : v < joined' => v < joined \/ v = joined
      BY <2>1, <2>2 DEF Workers
    <3> QED
      BY <1>i, <2>1, <2>2, <3>1 DEF JoinInv
  <2>3. CASE user' = "gone" /\ UNCHANGED joined
    BY <1>i, <2>1, <2>3 DEF JoinInv
  <2> QED
    BY <1>2, <2>2, <2>3 DEF Join
<1>3. CASE ~Close /\ ~Join
  <2>1. joined' = joined /\ (user' = "closed" <=> user = "closed")
    BY <1>3 DEF Next, CallStep, WorkerStep, Idle, vars, Enqueue, Send, SendToDead,
         NextResult, Receive, ReceiveFromDead, Abandon, TakeJob, Exit, Finish,
         FinishUnheard, PanicJob
  <2> QED
    BY <1>i, <1>e, <2>1 DEF JoinInv
<1> QED
  BY <1>1, <1>2, <1>3

-----------------------------------------------------------------------------
\* Every reachable state satisfies the inductive invariant.
THEOREM Invariance == Spec => []IInv
<1>1. IInv /\ [Next]_vars => IInv'
  BY TypeStep, CounterStep, HeldStep, OrderStep, EndedStep, JoinStep DEF IInv
<1> QED
  BY InitInv, <1>1, PTL DEF Spec

\* No channel ever holds more than its bound, whatever the jobs do: the types
\* of the queue's state hold for any number of workers and any bound.
THEOREM TypeCorrect == Spec => []TypeOK
<1>1. IInv => TypeOK
  BY DEF IInv
<1> QED
  BY <1>1, Invariance, PTL

-----------------------------------------------------------------------------
(* The refinement: what the pool sees of the queue *)

LEMMA OwnerIs ==
  /\ Owner = IF user = "closed" THEN "closed" ELSE IF user = "gone" THEN "left" ELSE "here"
  /\ Owner' = IF user' = "closed" THEN "closed" ELSE IF user' = "gone" THEN "left" ELSE "here"
BY DEF Owner

LEMMA WaitingIs ==
  \A j : /\ j \in Waiting <=> j \in InHand \/ \E v \in Workers : j \in Held(v)
         /\ j \in Waiting' <=> j \in InHand' \/ \E v \in Workers : j \in Held(v)'
BY DEF Waiting

LEMMA DeadIs ==
  /\ \A v : v \in Dead <=> v \in Workers /\ wpc[v] = "panicked"
  /\ \A v : v \in Dead' <=> v \in Workers /\ wpc'[v] = "panicked"
BY DEF Dead

LEMMA LaneOfHeld ==
  ASSUME NEW w \in Workers
  PROVE  IInv => \A j \in Held(w) : /\ j \in Jobs /\ Pool!Lane(j) = w
                                    /\ j \notin InHand
BY DEF IInv, HeldInv, HeldOK, TypeOK, Lane, Pool!Lane, InHand, Jobs

\* A dead worker, and one that has left, has nothing.
LEMMA EndedHoldsNothing ==
  ASSUME NEW w \in Workers
  PROVE  IInv /\ ~Alive(w) => Held(w) = {}
BY RangeOfEmpty DEF IInv, EndedInv, EndedOK, Alive, Held

\* What a worker runs is the oldest job of its lane.
LEMMA RunningIsFirst ==
  ASSUME NEW w \in Workers
  PROVE  IInv /\ wpc[w] = "run"
           => /\ job[w] \in Held(w) /\ job[w] \in Waiting
              /\ Pool!Lane(job[w]) = w /\ Pool!First(job[w])
<1> SUFFICES ASSUME IInv, wpc[w] = "run"
             PROVE  /\ job[w] \in Held(w) /\ job[w] \in Waiting
                    /\ Pool!Lane(job[w]) = w /\ Pool!First(job[w])
  OBVIOUS
<1>1. job[w] \in Held(w)
  BY DEF Held
<1>j. job[w] \in Jobs
  BY DEF IInv, OrderInv, OrderOK
<1>2. job[w] \in Waiting /\ Pool!Lane(job[w]) = w
  BY <1>1, WaitingIs, LaneOfHeld
<1>3. ASSUME NEW i \in Waiting, Pool!Lane(i) = w PROVE job[w] <= i
  <2>1. CASE i \in InHand
    <3>1. user = "send" /\ i = submitted
      BY <2>1 DEF InHand
    <3>2. job[w] \in Jobs /\ job[w] < submitted /\ submitted \in Nat
      BY <1>1, <3>1 DEF IInv, HeldInv, HeldOK, TypeOK
    <3> QED
      BY <3>1, <3>2 DEF Jobs
  <2>2. CASE i \notin InHand
    <3>0. PICK v \in Workers : i \in Held(v)
      BY <2>2, WaitingIs
    <3>1. i \in Held(w) /\ i \in Jobs
      BY <1>3, <3>0, LaneOfHeld
    <3>2. \A j \in Range(queue[w]) : job[w] < j
      BY DEF IInv, OrderInv, OrderOK
    <3>3. i \in Range(queue[w]) \/ i = job[w]
      BY <3>1 DEF Held
    <3> QED
      BY <3>1, <3>2, <3>3, <1>j DEF Jobs
  <2> QED
    BY <2>1, <2>2
<1> QED
  BY <1>1, <1>2, <1>3 DEF Pool!First

LEMMA RefinesInit == Init => Pool!Init
<1> SUFFICES ASSUME Init PROVE Pool!Init
  OBVIOUS
<1>1. \A w \in Workers : queue[w] = <<>> /\ wpc[w] = "recv"
  BY DEF Init
<1>2. \A w \in Workers : Held(w) = {}
  BY <1>1, RangeOfEmpty DEF Held
<1>3. Waiting = {}
  BY <1>2, WaitingIs DEF Init, InHand
<1>4. Dead = {} /\ Owner = "here"
  BY <1>1, DeadIs, OwnerIs DEF Init
<1> QED
  BY <1>3, <1>4 DEF Init, Pool!Init

-----------------------------------------------------------------------------
(* The user's steps *)

LEMMA SameHeldSameWaiting ==
  (\A v \in Workers : Held(v)' = Held(v)) /\ InHand' = InHand => Waiting' = Waiting
BY WaitingIs

LEMMA RefinesEnqueue == IInv /\ Enqueue => Pool!Submit
<1> SUFFICES ASSUME IInv, Enqueue PROVE Pool!Submit
  OBVIOUS
<1>1. InHand = {} /\ InHand' = {submitted + 1}
  BY DEF Enqueue, InHand
<1>2. \A v \in Workers : Held(v)' = Held(v)
  BY HeldSame DEF Enqueue
<1>3. Waiting' = Waiting \cup {submitted + 1}
  BY <1>1, <1>2, WaitingIs
<1>4. Dead' = Dead /\ Owner = "here" /\ Owner' = "here"
  BY DeadIs, OwnerIs DEF Enqueue, workerVars
<1> QED
  BY <1>3, <1>4 DEF Enqueue, Pool!Submit

LEMMA RefinesSend == IInv /\ Send => UNCHANGED Pool!vars
<1> SUFFICES ASSUME IInv, Send PROVE UNCHANGED Pool!vars
  OBVIOUS
<1>1. InHand = {submitted} /\ InHand' = {}
  BY DEF Send, InHand
<1>2. /\ target \in Workers
      /\ \A v \in Workers :
           Held(v)' = Held(v) \cup (IF v = target THEN {submitted} ELSE {})
  BY HeldAfterSend DEF IInv, TypeOK
<1>3. ASSUME NEW j PROVE j \in Waiting' <=> j \in Waiting
  BY <1>1, <1>2, WaitingIs
<1>4. Dead' = Dead /\ Owner = Owner'
  BY DeadIs, OwnerIs DEF Send
<1> QED
  BY <1>3, <1>4 DEF Send, callVars, Pool!vars

LEMMA RefinesSendToDead == IInv /\ SendToDead => Pool!Leave
<1> SUFFICES ASSUME IInv, SendToDead PROVE Pool!Leave
  OBVIOUS
<1>1. InHand = {submitted} /\ InHand' = {}
  BY DEF SendToDead, InHand
<1>2. \A v \in Workers : Held(v)' = Held(v)
  BY HeldSame DEF SendToDead
<1>3. target \in Dead /\ Pool!Lane(submitted) = target
  <2>1. target \in Workers /\ wpc[target] # "exited"
    BY DEF IInv, TypeOK, EndedInv, EndedOK, SendersDropped, SendToDead
  <2>2. wpc[target] = "panicked"
    BY <2>1 DEF IInv, TypeOK, SendToDead, Alive
  <2> QED
    BY <2>1, <2>2, DeadIs DEF IInv, CounterInv, SendToDead, Lane, Pool!Lane
<1>4. ASSUME NEW v \in Workers, NEW j \in Held(v) PROVE Pool!Lane(j) = v /\ v \notin Dead
  <2>1. v \notin Dead
    BY EndedHoldsNothing, DeadIs DEF Alive
  <2> QED
    BY <2>1, LaneOfHeld
<1>5. ASSUME NEW j PROVE j \in Waiting' <=> j \in Waiting /\ Pool!Lane(j) \notin Dead
  <2>1. CASE j \in InHand
    <3>1. j = submitted /\ j \notin InHand'
      BY <1>1, <2>1
    <3>2. ~\E v \in Workers : j \in Held(v)
      BY <2>1, LaneOfHeld
    <3> QED
      BY <1>2, <1>3, <3>1, <3>2, WaitingIs
  <2>2. CASE j \notin InHand
    BY <1>1, <1>2, <1>4, <2>2, WaitingIs
  <2> QED
    BY <2>1, <2>2
<1>6. Waiting' = {j \in Waiting : Pool!Lane(j) \notin Dead}
  BY <1>5
<1>7. Dead' = Dead /\ Owner = "here" /\ Owner' = "left"
  BY DeadIs, OwnerIs DEF SendToDead, workerVars
<1> QED
  BY <1>6, <1>7 DEF SendToDead, callVars, Pool!Leave

\* The other ways of leaving lose no job.
LEMMA RefinesLeaving == IInv /\ (ReceiveFromDead \/ Abandon) => Pool!Leave
<1> SUFFICES ASSUME IInv, ReceiveFromDead \/ Abandon PROVE Pool!Leave
  OBVIOUS
<1>1. InHand' = InHand
  BY DEF ReceiveFromDead, Abandon, InHand
<1>2. Waiting' = Waiting
  BY <1>1, HeldSame, SameHeldSameWaiting DEF ReceiveFromDead, Abandon
<1>3. Dead' = Dead /\ Owner = "here" /\ Owner' = "left"
  BY DeadIs, OwnerIs DEF ReceiveFromDead, Abandon, workerVars
<1> QED
  BY <1>2, <1>3 DEF ReceiveFromDead, Abandon, callVars, Pool!Leave

LEMMA RefinesReceive == IInv /\ Receive => Pool!Take
<1> SUFFICES ASSUME IInv, Receive PROVE Pool!Take
  OBVIOUS
<1>1. InHand' = InHand
  BY DEF Receive, InHand
<1>2. Waiting' = Waiting
  BY <1>1, HeldSame, SameHeldSameWaiting DEF Receive
<1>3. Dead' = Dead /\ Owner = "here" /\ Owner' = "here"
  BY DeadIs, OwnerIs DEF Receive, workerVars
<1> QED
  BY <1>2, <1>3 DEF Receive, callVars, Pool!Take

LEMMA RefinesCalling == IInv /\ (NextResult \/ Close) => UNCHANGED Pool!vars
<1> SUFFICES ASSUME IInv, NextResult \/ Close PROVE UNCHANGED Pool!vars
  OBVIOUS
<1>1. InHand' = InHand
  BY DEF NextResult, Close, InHand
<1>2. Waiting' = Waiting
  BY <1>1, HeldSame, SameHeldSameWaiting DEF NextResult, Close
<1>3. Dead' = Dead /\ Owner' = Owner
  BY DeadIs, OwnerIs DEF NextResult, Close, workerVars
<1> QED
  BY <1>2, <1>3 DEF NextResult, Close, callVars, Pool!vars

LEMMA RefinesJoin == IInv /\ Join => Pool!Close \/ Pool!Leave \/ UNCHANGED Pool!vars
<1> SUFFICES ASSUME IInv, Join PROVE Pool!Close \/ Pool!Leave \/ UNCHANGED Pool!vars
  OBVIOUS
<1> USE SizeAssumption
<1>1. InHand = {} /\ InHand' = {}
  BY DEF Join, InHand
<1>2. Waiting' = Waiting
  BY <1>1, HeldSame, SameHeldSameWaiting DEF Join
<1>3. Dead' = Dead /\ Owner = "here" /\ UNCHANGED <<submitted, results, taken>>
  BY DeadIs, OwnerIs DEF Join, workerVars, callVars
<1>4. CASE wpc[joined] = "exited" /\ joined + 1 = N /\ user' = "closed"
  <2>1. \A v \in Workers : wpc[v] = "exited"
    <3>1. \A v \in Workers : v < joined \/ v = joined
      BY <1>4 DEF IInv, TypeOK, Workers
    <3> QED
      BY <1>4, <3>1 DEF IInv, JoinInv
  <2>2. \A v \in Workers : Held(v) = {}
    BY <2>1, EndedHoldsNothing DEF Alive
  <2>3. Waiting = {} /\ Dead = {} /\ Owner' = "closed"
    BY <1>1, <1>4, <2>1, <2>2, WaitingIs, DeadIs, OwnerIs
  <2> QED
    BY <1>2, <1>3, <2>3 DEF Pool!Close
<1>5. CASE user' = "join"
  BY <1>2, <1>3, <1>5, OwnerIs DEF Pool!vars
<1>6. CASE user' = "gone"
  BY <1>2, <1>3, <1>6, OwnerIs DEF Pool!Leave
<1> QED
  BY <1>4, <1>5, <1>6 DEF Join

-----------------------------------------------------------------------------
(* A worker's steps *)

LEMMA RefinesTake ==
  ASSUME NEW w \in Workers
  PROVE  IInv /\ (TakeJob(w) \/ Exit(w)) => UNCHANGED Pool!vars
<1> SUFFICES ASSUME IInv, TakeJob(w) \/ Exit(w) PROVE UNCHANGED Pool!vars
  OBVIOUS
<1>1. \A v \in Workers : Held(v)' = Held(v)
  BY HeldAfterTake, HeldByOthers DEF IInv, WorkerStep
<1>2. InHand' = InHand
  BY DEF TakeJob, Exit, callVars, InHand
<1>3. Waiting' = Waiting
  BY <1>1, <1>2, SameHeldSameWaiting
<1>4. wpc[w] # "panicked" /\ wpc'[w] # "panicked"
  BY DEF IInv, TypeOK, TakeJob, Exit
<1>5. \A v \in Workers \ {w} : wpc'[v] = wpc[v]
  BY OthersSame DEF IInv, WorkerStep
<1>6. Dead' = Dead /\ Owner' = Owner
  BY <1>4, <1>5, DeadIs, OwnerIs DEF TakeJob, Exit
<1> QED
  BY <1>3, <1>6 DEF TakeJob, Exit, callVars, Pool!vars

LEMMA RefinesFinish ==
  ASSUME NEW w \in Workers
  PROVE  IInv /\ Finish(w) => job[w] \in Waiting /\ Pool!Complete(job[w])
<1> SUFFICES ASSUME IInv, Finish(w) PROVE job[w] \in Waiting /\ Pool!Complete(job[w])
  OBVIOUS
<1> DEFINE j == job[w]
<1>1. /\ j \in Held(w) /\ j \in Waiting /\ Pool!Lane(j) = w /\ Pool!First(j)
  BY RunningIsFirst DEF Finish
<1>2. wpc[w] # "panicked" /\ wpc'[w] # "panicked"
  BY DEF IInv, TypeOK, Finish
<1>3. \A v \in Workers \ {w} : wpc'[v] = wpc[v]
  BY OthersSame DEF IInv, WorkerStep
<1>4. InHand' = InHand
  BY DEF Finish, callVars, InHand
<1>5. /\ Held(w)' = Held(w) \ {j}
      /\ \A v \in Workers \ {w} : Held(v)' = Held(v) /\ j \notin Held(v)
  BY <1>1, HeldAfterFinish, HeldByOthers, LaneOfHeld DEF IInv, WorkerStep
<1>6. j \notin InHand
  BY <1>1, LaneOfHeld
<1>7. results' = Append(results, j)
  BY DEF Finish
<1> HIDE DEF j
<1>8. ASSUME NEW i PROVE i \in Waiting' <=> i \in Waiting \ {j}
  BY <1>4, <1>5, <1>6, WaitingIs
<1>9. Dead' = Dead /\ Owner' = Owner /\ w \notin Dead
  BY <1>2, <1>3, DeadIs, OwnerIs DEF Finish
<1>10. Pool!Complete(j)
  BY <1>1, <1>7, <1>8, <1>9 DEF Finish, callVars, Pool!Complete
<1> QED
  BY <1>1, <1>10 DEF j

LEMMA RefinesDeath ==
  ASSUME NEW w \in Workers
  PROVE  IInv /\ (FinishUnheard(w) \/ PanicJob(w))
           => job[w] \in Waiting /\ Pool!Break(job[w])
<1> SUFFICES ASSUME IInv, FinishUnheard(w) \/ PanicJob(w)
             PROVE  job[w] \in Waiting /\ Pool!Break(job[w])
  OBVIOUS
<1> DEFINE j == job[w]
           S == Held(w)
<1>1. /\ j \in S /\ j \in Waiting /\ Pool!Lane(j) = w /\ Pool!First(j)
  BY RunningIsFirst DEF FinishUnheard, PanicJob
<1>2. /\ wpc'[w] = "panicked" /\ UNCHANGED <<submitted, user, results, taken>>
  BY DEF IInv, TypeOK, FinishUnheard, PanicJob, Die, callVars
<1>3. \A v \in Workers \ {w} : wpc'[v] = wpc[v]
  BY OthersSame DEF IInv, WorkerStep
<1>4. InHand' = InHand /\ Owner' = Owner
  BY <1>2, OwnerIs DEF InHand
<1>5. /\ Held(w)' = {}
      /\ \A v \in Workers \ {w} : Held(v)' = Held(v)
  BY HeldAfterDeath, HeldByOthers DEF IInv, WorkerStep
<1>6. /\ \A i \in S : i \in Waiting /\ i \notin InHand /\ Pool!Lane(i) = w
      /\ \A v \in Workers \ {w} : \A i \in Held(v) : i \notin S
  BY LaneOfHeld, WaitingIs
<1>7. j \in Panicking \/ Owner = "left"
  BY OwnerIs DEF FinishUnheard, PanicJob
<1> HIDE DEF j, S
<1>8. ASSUME NEW i PROVE i \in Waiting' <=> i \in Waiting \ S
  BY <1>4, <1>5, <1>6, WaitingIs DEF S
<1>9. Dead' = Dead \cup {Pool!Lane(j)}
  BY <1>1, <1>2, <1>3, DeadIs
<1>10. /\ S \in SUBSET {i \in Waiting : Pool!Lane(i) = Pool!Lane(j)}
       /\ j \in S /\ Waiting' = Waiting \ S
  BY <1>1, <1>6, <1>8
<1>11. Pool!Break(j)
  BY <1>1, <1>2, <1>4, <1>7, <1>9, <1>10 DEF Pool!Break
<1> QED
  BY <1>1, <1>11 DEF j

-----------------------------------------------------------------------------
LEMMA RefinesNext == IInv /\ [Next]_vars => [Pool!Next]_(Pool!vars)
<1> SUFFICES ASSUME IInv, [Next]_vars PROVE [Pool!Next]_(Pool!vars)
  OBVIOUS
<1>1. CASE Enqueue \/ NextResult \/ Close \/ Abandon
  BY <1>1, RefinesEnqueue, RefinesCalling, RefinesLeaving DEF Pool!Next
<1>2. CASE CallStep
  BY <1>2, RefinesSend, RefinesSendToDead, RefinesReceive, RefinesLeaving, RefinesJoin
     DEF CallStep, Pool!Next
<1>3. ASSUME NEW w \in Workers, WorkerStep(w) PROVE [Pool!Next]_(Pool!vars)
  BY <1>3, RefinesTake, RefinesFinish, RefinesDeath DEF WorkerStep, Pool!Next
<1>4. CASE UNCHANGED vars
  <2>1. InHand' = InHand /\ Owner' = Owner /\ Dead' = Dead
    BY <1>4, OwnerIs, DeadIs DEF vars, workerVars, callVars, InHand
  <2>2. Waiting' = Waiting
    BY <1>4, <2>1, HeldSame, SameHeldSameWaiting DEF vars
  <2> QED
    BY <1>4, <2>1, <2>2 DEF vars, callVars, Pool!vars
<1> QED
  BY <1>1, <1>2, <1>3, <1>4 DEF Next, Idle

\* Any number of threads behind bounded channels is one pool of N lanes: no
\* job is lost, completed twice or overtaken in its lane by any interleaving
\* of the user and the workers, and a close that returns has completed all.
THEOREM Refinement == Spec => ImplementsPool
<1>1. Init => Pool!Init
  BY RefinesInit
<1>2. IInv /\ [Next]_vars => [Pool!Next]_(Pool!vars)
  BY RefinesNext
<1> QED
  BY <1>1, <1>2, Invariance, PTL DEF Spec, ImplementsPool, Pool!Spec

-----------------------------------------------------------------------------
(* What the pool promises, and hence the queue keeps *)

\* The jobs that were completed, in the order of their completion.
Done == taken \o results

\* The jobs of a lane complete in the order in which they were submitted, before
\* those that still wait; none completes twice.
CompletedInOrder ==
  /\ \A i, k \in DOMAIN Done : i < k /\ Lane(Done[i]) = Lane(Done[k]) => Done[i] < Done[k]
  /\ \A i \in DOMAIN Done : /\ Done[i] <= submitted
                            /\ \A j \in Waiting : Lane(Done[i]) = Lane(j) => Done[i] < j

\* While the user stays, a job is lost only behind a job of its lane that
\* panicked, or with it.
OnlyPanicsLose ==
  \A j \in 1 .. submitted :
    \/ j \in Waiting \/ (\E i \in DOMAIN Done : Done[i] = j) \/ user = "gone"
    \/ Lane(j) \in Dead /\ \E i \in Panicking : Lane(i) = Lane(j) /\ i <= j

\* When close has returned every job was completed.
CloseCompletesAll ==
  user = "closed" =>
    Waiting = {} /\ Dead = {} /\ \A j \in 1 .. submitted : \E i \in DOMAIN Done : Done[i] = j

PoolInv == CompletedInOrder /\ OnlyPanicsLose /\ CloseCompletesAll

\* Reading a result leaves Done as it is, completing a job extends it.
LEMMA DoneAfterTake ==
  ASSUME NEW S, NEW s \in Seq(S), NEW t \in Seq(S), t # <<>>
  PROVE  Append(s, Head(t)) \o Tail(t) = s \o t
OBVIOUS

LEMMA DoneAfterComplete ==
  ASSUME NEW S, NEW s \in Seq(S), NEW t \in Seq(S), NEW x \in S
  PROVE  s \o Append(t, x) = Append(s \o t, x)
OBVIOUS

\* What waits has been submitted.
LEMMA WaitingSubmitted == IInv => Waiting \subseteq 1 .. submitted
<1> SUFFICES ASSUME IInv, NEW j \in Waiting PROVE j \in 1 .. submitted
  OBVIOUS
<1>1. submitted \in Nat
  BY DEF IInv, TypeOK
<1>2. CASE j \in InHand
  BY <1>1, <1>2 DEF InHand, IInv, CounterInv
<1>3. ASSUME NEW w \in Workers, j \in Held(w) PROVE j \in 1 .. submitted
  BY <1>1, <1>3 DEF IInv, HeldInv, HeldOK, Jobs
<1> QED
  BY <1>2, <1>3, WaitingIs

\* PoolInv is preserved by every step of the pool.
LEMMA PoolStep == IInv /\ IInv' /\ PoolInv /\ [Pool!Next]_(Pool!vars) => PoolInv'
<1> SUFFICES ASSUME IInv, IInv', PoolInv, [Pool!Next]_(Pool!vars) PROVE PoolInv'
  OBVIOUS
<1> DEFINE D == Done
           U == Jobs
<1>a. /\ taken \in Seq(U) /\ results \in Seq(U) /\ submitted \in Nat /\ submitted' \in Nat
      /\ Waiting \subseteq 1 .. submitted /\ Waiting' \subseteq 1 .. submitted'
      /\ D \in Seq(U) /\ U \subseteq Nat
  <2>1. taken \o results \in Seq(Jobs)
    BY DEF IInv, TypeOK
  <2>2. Waiting \subseteq 1 .. submitted /\ (Waiting \subseteq 1 .. submitted)'
    BY WaitingSubmitted, PTL
  <2> QED
    BY <2>1, <2>2 DEF IInv, TypeOK, Jobs, Done
<1>b. \A j : Pool!Lane(j) = Lane(j)
  BY DEF Pool!Lane, Lane
<1>c. /\ user = "closed" <=> Owner = "closed"
      /\ user = "gone" <=> Owner = "left"
      /\ user' = "closed" <=> Owner' = "closed"
      /\ user' = "gone" <=> Owner' = "left"
  BY OwnerIs
<1>d. DOMAIN D = 1 .. Len(D) /\ Len(D) \in Nat /\ \A i \in DOMAIN D : D[i] \in U
  BY <1>a
<1>e. ASSUME Done' = D, submitted' = submitted, Waiting' \subseteq Waiting
      PROVE  CompletedInOrder'
  BY <1>e DEF PoolInv, CompletedInOrder
<1> HIDE DEF D, U
<1>1. CASE Pool!Submit
  <2>1. /\ Owner = "here" /\ Owner' = "here" /\ submitted' = submitted + 1 /\ Done' = D
        /\ Waiting' = Waiting \cup {submitted + 1} /\ Dead' = Dead
    BY <1>1 DEF Pool!Submit, Done, D
  <2>2. CompletedInOrder'
    BY <2>1, <1>a, <1>d DEF PoolInv, CompletedInOrder, D, U, Jobs
  <2>3. OnlyPanicsLose'
    BY <2>1, <1>a, <1>c DEF PoolInv, OnlyPanicsLose, D
  <2> QED
    BY <1>c, <2>1, <2>2, <2>3 DEF PoolInv, CloseCompletesAll
<1>2. CASE Pool!Take
  <2>1. /\ Owner = "here" /\ Owner' = "here" /\ submitted' = submitted
        /\ Waiting' = Waiting /\ Dead' = Dead
    BY <1>2 DEF Pool!Take
  <2>2. Done' = D
    <3>1. Done' = Append(taken, Head(results)) \o Tail(results) /\ results # <<>>
      BY <1>2 DEF Pool!Take, Done
    <3> QED
      BY <3>1, <1>a, DoneAfterTake DEF D, Done
  <2>3. OnlyPanicsLose'
    BY <2>1, <2>2, <1>c DEF PoolInv, OnlyPanicsLose, D
  <2> QED
    BY <1>c, <1>e, <2>1, <2>2, <2>3 DEF PoolInv, CloseCompletesAll
<1>3. CASE Pool!Leave
  <2>1. /\ Owner' = "left" /\ submitted' = submitted /\ Done' = D /\ Dead' = Dead
        /\ Waiting' \subseteq Waiting
    BY <1>3 DEF Pool!Leave, Done, D
  <2>2. OnlyPanicsLose'
    BY <2>1, <1>c DEF OnlyPanicsLose
  <2> QED
    BY <1>c, <1>e, <2>1, <2>2 DEF PoolInv, CloseCompletesAll
<1>4. CASE Pool!Close
  <2>1. /\ Owner = "here" /\ Owner' = "closed" /\ submitted' = submitted /\ Done' = D
        /\ Dead' = Dead /\ Waiting' = Waiting /\ Waiting = {} /\ Dead = {}
    BY <1>4 DEF Pool!Close, Done, D
  <2>2. \A j \in 1 .. submitted : \E i \in DOMAIN D : D[i] = j
    BY <2>1, <1>c DEF PoolInv, OnlyPanicsLose, D
  <2>3. OnlyPanicsLose'
    BY <2>1, <2>2 DEF OnlyPanicsLose, D
  <2> QED
    BY <1>c, <1>e, <2>1, <2>2, <2>3 DEF PoolInv, CloseCompletesAll, D
<1>5. ASSUME NEW j \in Waiting, Pool!Complete(j) PROVE PoolInv'
  <2>1. /\ Owner' = Owner /\ submitted' = submitted /\ Dead' = Dead /\ Waiting' = Waiting \ {j}
        /\ \A i \in Waiting : Lane(i) = Lane(j) => j <= i
    BY <1>5, <1>b DEF Pool!Complete, Pool!First
  <2>2. Done' = Append(D, j)
    <3>1. Done' = taken \o Append(results, j)
      BY <1>5 DEF Pool!Complete, Done
    <3>2. j \in U
      BY <1>a, SizeAssumption DEF IInv, TypeOK, Jobs, U
    <3> QED
      BY <3>1, <3>2, <1>a, DoneAfterComplete DEF D, Done
  <2>3. /\ DOMAIN Done' = 1 .. Len(D) + 1 /\ Done'[Len(D) + 1] = j
        /\ \A i \in DOMAIN D : i \in DOMAIN Done' /\ Done'[i] = D[i]
        /\ \A i \in DOMAIN Done' : i \in DOMAIN D \/ i = Len(D) + 1
    BY <2>2, <1>a, <1>d
  <2>4. /\ j \in 1 .. submitted /\ Waiting \subseteq Nat
        /\ \A i \in DOMAIN D : /\ D[i] <= submitted /\ D[i] \in Nat
                               /\ \A k \in Waiting : Lane(D[i]) = Lane(k) => D[i] < k
        /\ \A i, k \in DOMAIN D : i < k /\ Lane(D[i]) = Lane(D[k]) => D[i] < D[k]
    <3>1. j \in 1 .. submitted /\ Waiting \subseteq Nat /\ \A i \in DOMAIN D : D[i] \in Nat
      <4>1. 1 .. submitted \subseteq Nat
        BY <1>a
      <4> QED
        BY <4>1, <1>5, <1>a, <1>d
    <3> QED
      BY <3>1 DEF PoolInv, CompletedInOrder, D
  <2>5. ASSUME NEW i \in DOMAIN Done', NEW k \in DOMAIN Done', i < k, Lane(Done'[i]) = Lane(Done'[k])
        PROVE  Done'[i] < Done'[k]
    <3>1. i \in DOMAIN D
      BY <2>3, <2>5, <1>d
    <3> QED
      BY <2>3, <2>4, <2>5, <3>1
  <2>6. ASSUME NEW i \in DOMAIN Done'
        PROVE  /\ Done'[i] <= submitted'
               /\ \A k \in Waiting' : Lane(Done'[i]) = Lane(k) => Done'[i] < k
    <3>1. CASE i \in DOMAIN D
      BY <2>1, <2>3, <2>4, <3>1
    <3>2. CASE i = Len(D) + 1
      BY <2>1, <2>3, <2>4, <1>a, <3>2
    <3> QED
      BY <2>3, <3>1, <3>2
  <2>7. CompletedInOrder'
    BY <2>5, <2>6 DEF CompletedInOrder
  <2>8. OnlyPanicsLose'
    <3>1. ASSUME NEW m \in 1 .. submitted, m \in Waiting \/ \E i \in DOMAIN D : D[i] = m
          PROVE  m \in Waiting' \/ \E i \in DOMAIN Done' : Done'[i] = m
      <4>1. Len(D) + 1 \in DOMAIN Done'
        BY <2>3, <1>d
      <4> QED
        BY <3>1, <4>1, <2>1, <2>3
    <3> QED
      BY <2>1, <1>c, <3>1 DEF PoolInv, OnlyPanicsLose, D
  <2>9. CloseCompletesAll'
    BY <2>1, <1>c, <1>5 DEF PoolInv, CloseCompletesAll
  <2> QED
    BY <2>7, <2>8, <2>9 DEF PoolInv
<1>6. ASSUME NEW j \in Waiting, Pool!Break(j) PROVE PoolInv'
  <2>1. /\ Owner' = Owner /\ submitted' = submitted /\ Done' = D /\ Dead' = Dead \cup {Lane(j)}
        /\ j \in Panicking \/ Owner = "left"
        /\ \A i \in Waiting : Lane(i) = Lane(j) => j <= i
    BY <1>6, <1>b DEF Pool!Break, Pool!First, Done, D
  <2>2. /\ Waiting' \subseteq Waiting
        /\ \A i \in Waiting : i \in Waiting' \/ Lane(i) = Lane(j)
    BY <1>6, <1>b DEF Pool!Break
  <2>3. OnlyPanicsLose'
    <3>1. ASSUME NEW m \in Waiting, m \notin Waiting', Owner # "left"
          PROVE  Lane(m) \in Dead' /\ \E i \in Panicking : Lane(i) = Lane(m) /\ i <= m
      BY <2>1, <2>2, <3>1
    <3> QED
      BY <2>1, <2>2, <3>1, <1>c DEF PoolInv, OnlyPanicsLose, D
  <2>4. CloseCompletesAll'
    BY <2>1, <1>c, <1>6 DEF PoolInv, CloseCompletesAll
  <2> QED
    BY <1>e, <2>1, <2>2, <2>3, <2>4 DEF PoolInv
<1>7. CASE UNCHANGED Pool!vars
  <2>1. Owner' = Owner /\ submitted' = submitted /\ Done' = D /\ Dead' = Dead /\ Waiting' = Waiting
    BY <1>7 DEF Pool!vars, Done, D
  <2>2. OnlyPanicsLose'
    BY <2>1, <1>c DEF PoolInv, OnlyPanicsLose, D
  <2> QED
    BY <1>c, <1>e, <2>1, <2>2 DEF PoolInv, CloseCompletesAll, D
<1> QED
  BY <1>1, <1>2, <1>3, <1>4, <1>5, <1>6, <1>7 DEF Pool!Next

LEMMA PoolInit == Init => PoolInv
<1> SUFFICES ASSUME Init PROVE PoolInv
  OBVIOUS
<1>1. Done = <<>> /\ DOMAIN Done = {}
  BY DEF Init, Done
<1>2. 1 .. submitted = {}
  BY DEF Init
<1> QED
  BY <1>1, <1>2 DEF Init, PoolInv, CompletedInOrder, OnlyPanicsLose, CloseCompletesAll

LEMMA PoolInvariance == Spec => []PoolInv
<1>1. IInv /\ IInv' /\ PoolInv /\ [Next]_vars => PoolInv'
  BY PoolStep, RefinesNext
<1> QED
  BY PoolInit, <1>1, Invariance, PTL DEF Spec

\* The results of a worker's jobs come in the order of its jobs, each of them
\* once: no interleaving of the workers and the user lets a job overtake one of
\* its lane or complete it again (worker_queue.rs deals the jobs in turn, and
\* each worker takes from the front of its own channel).
THEOREM JobsCompleteInOrder == Spec => []CompletedInOrder
BY PoolInvariance, PTL DEF PoolInv

\* Only a panic loses jobs, that of the job itself or of an earlier one of its
\* worker: full channels and other workers' panics never do.
THEOREM NoJobIsLost == Spec => []OnlyPanicsLose
BY PoolInvariance, PTL DEF PoolInv

\* A close that returns has seen all jobs through, those that still lay in the
\* channels when the senders were dropped included.
THEOREM CloseReturnsLast == Spec => []CloseCompletesAll
BY PoolInvariance, PTL DEF PoolInv

-----------------------------------------------------------------------------
(* Whoever is in a call is not left waiting *)

\* A worker goes on, and a call returns or panics: WorkerStep(w) for a job that
\* returns, and CallStep, are possible.
CanWork(w) ==
  \/ wpc[w] = "run" /\ job[w] \notin Endless
  \/ wpc[w] = "recv" /\ (queue[w] # <<>> \/ SendersDropped)
CanReturn ==
  \/ user = "send" /\ (HasRoom(target) \/ ~Alive(target))
  \/ user = "receive" /\ (results # <<>> \/ \A w \in Workers : ~Alive(w))
  \/ user = "join" /\ ~Alive(joined)

\* The preconditions are those of CallsReturn and CloseEnds.
MayReturn ==
  \/ user = "send" /\ \A i \in Endless : Lane(i) = target => i >= submitted
  \/ user = "receive" /\ Owed # {}
  \/ user = "join" /\ Waiting \cap Endless = {}
CallsNeverStuck == MayReturn => CanReturn \/ \E w \in Workers : CanWork(w)

LEMMA CallsMove == IInv => CallsNeverStuck
<1> SUFFICES ASSUME IInv, MayReturn, ~CanReturn PROVE \E w \in Workers : CanWork(w)
  BY DEF CallsNeverStuck
<1>a. /\ queue \in [Workers -> Seq(Jobs)] /\ target \in Workers /\ QueueSize \in Nat
      /\ wpc \in [Workers -> {"recv", "run", "exited", "panicked"}]
      /\ joined \in 0 .. N /\ N \in Nat
  BY SizeAssumption DEF IInv, TypeOK
<1>1. CASE user = "send"
  <2>1. Alive(target) /\ ~HasRoom(target)
    BY <1>1 DEF CanReturn
  <2>2. wpc[target] = "run" => job[target] \notin Endless
    <3>1. wpc[target] = "run" => job[target] \in Held(target)
      BY DEF Held
    <3>2. \A j \in Held(target) : j \in Jobs /\ j < submitted /\ Lane(j) = target
      BY <1>1, <1>a DEF IInv, HeldInv, HeldOK
    <3>3. \A i \in Endless : Lane(i) = target => i >= submitted
      BY <1>1 DEF MayReturn
    <3>4. submitted \in Nat
      BY DEF IInv, TypeOK
    <3> QED
      BY <3>1, <3>2, <3>3, <3>4 DEF Jobs
  <2>3. wpc[target] = "recv" => queue[target] # <<>>
    <3>1. queue[target] \in Seq(Jobs)
      BY <1>a
    <3>2. \A q \in Seq(Jobs) : q = <<>> => Len(q) = 0
      OBVIOUS
    <3> QED
      BY <1>a, <2>1, <3>1, <3>2 DEF HasRoom
  <2> QED
    BY <1>a, <2>1, <2>2, <2>3 DEF Alive, CanWork
<1>2. CASE user = "receive"
  <2>1. results = <<>> /\ Owed # {}
    BY <1>2 DEF CanReturn, MayReturn
  <2>2. PICK j \in Waiting : Safe(j)
    BY <2>1, RangeOfEmpty DEF Owed
  <2>3. PICK w \in Workers : j \in Held(w)
    BY <1>2, <2>2, WaitingIs DEF InHand
  <2>4. Alive(w)
    BY <2>3, EndedHoldsNothing
  <2>5. CASE wpc[w] = "run"
    <3>1. /\ job[w] \in Jobs /\ j \in Jobs /\ Pool!Lane(j) = w /\ Pool!Lane(job[w]) = w
          /\ job[w] <= j
      BY <2>2, <2>3, <2>5, RunningIsFirst, LaneOfHeld DEF Pool!First
    <3>2. Lane(job[w]) = Lane(j)
      BY <3>1 DEF Lane, Pool!Lane
    <3>3. job[w] \notin Endless
      BY <2>2, <3>1, <3>2 DEF Safe, Jobs
    <3> QED
      BY <2>5, <3>3 DEF CanWork
  <2>6. CASE wpc[w] = "recv"
    <3>1. queue[w] # <<>>
      BY <2>3, <2>6, RangeOfEmpty DEF Held
    <3> QED
      BY <2>6, <3>1 DEF CanWork
  <2> QED
    BY <2>4, <2>5, <2>6 DEF Alive
<1>3. CASE user = "join"
  <2>1. joined \in Workers /\ Alive(joined) /\ Waiting \cap Endless = {}
    BY <1>3, <1>a DEF CanReturn, MayReturn, IInv, JoinInv, Workers
  <2>2. wpc[joined] = "run" => job[joined] \notin Endless
    BY <2>1, RunningIsFirst
  <2> QED
    BY <1>3, <2>1, <2>2 DEF Alive, CanWork, SendersDropped
<1> QED
  BY <1>1, <1>2, <1>3 DEF MayReturn

\* A user in enqueue, next_result or close that some job or worker still owes
\* an answer never waits for a system that waits too: whichever channels are
\* full, jobs panicked and workers left, one of the threads can go on.
THEOREM NobodyWaitsInVain == Spec => []CallsNeverStuck
BY CallsMove, Invariance, PTL
=============================================================================
