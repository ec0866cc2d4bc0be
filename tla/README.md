# Verification of the concurrent programs of the Rust course

The repository holds the exercises of a Rust course, one directory per lesson, with their solutions.
Most are small sequential functions. The programs with behaviour that tests hardly reach are the
concurrent ones: the job queue and the assembly pipeline of lesson 07 and four generations of one
chat server, with threads (08), with epoll (09), with async tasks on one thread (10) and with async
tasks on several threads (10_parallel). This directory models all six in TLA+, checks the models with
TLC and proves the results that hold for every size with TLAPS.

## Inventory

| Component | Source | State | Operations | What is hard | What makes it correct |
|---|---|---|---|---|---|
| Threaded chat server | `lessons/08/exercises/src/server.rs` (+ `reader.rs`, `writer.rs`, `messages.rs`) | map name -> writer behind a RwLock, a Mutex per writer, handles, a termination flag, sockets | accept, reject, join, five requests, leave, drop | locks taken in several orders, blocking I/O under locks, clients that fail or stall, shutdown of blocked threads | frames never interleave; at most `max_clients` are served; Welcome comes first; the map is what is connected; every request completes; drop shuts everyone |
| Job queue | `lessons/07/exercises/src/worker_queue.rs` | a bounded channel per worker, one results channel, a round-robin counter | enqueue, next_result, close | close against queued jobs, panics, full channels | round-robin, order per worker, nothing lost or done twice, calls return |
| Assembly pipeline | `lessons/07/exercises/src/factorio.rs` | threads connected by bounded channels | map, filter, filter_map, fork_join, send, receive, close | ends dropped in any order, panics behind full channels, rendezvous channels, lines that run ahead | output order, joins of one item only, termination, no deadlock by backpressure |
| Epoll chat server | `lessons/09/exercises/src/server.rs` | one thread; clients by token, buffers, rejected clients | readiness events, shutdown | buffered messages, edge between readiness and buffered data, failing writes | as 08, on one thread |
| Async chat server | `lessons/10/exercises/src/server.rs` | tasks on one thread, map name -> channel to the client's task | accept, join, requests, forwarding, timeout, shutdown | state read before an `.await` and used after it, entries of clients that are gone | entries belong to their clients; whoever behaves is served until it leaves; nobody waits for ever |
| Parallel async chat server | `lessons/10_parallel/exercises/src/server.rs` | tasks on many threads, map name -> writer behind an async RwLock | the same | guards held across `.await`, a fair lock, as well as the above | entries belong to their clients; only namesakes cut each other off; the lock becomes free |
| Test harness | `lib.rs` of 09, 10, 10_parallel | the clients of a test, what they have read | connect, send, expect, close, sleep, run_test | a test passes under the schedule it happens to get | every test passes under every schedule |
| Framing | `reader.rs`, `writer.rs` of 08-10 | bytes of a partial frame | read, write | partial reads, frames larger than the limit | every frame is read once, in order |
| Parallel slice sum | `lessons/07/exercises/tests/01_parallel_sum.rs` | none (scoped threads) | sum | uneven chunks | equals the sum |
| Sorting and merging | `lessons/03/exercises/src/{in_place_mergesort,merge_slices}.rs` | none | sort, merge | boundaries | sorted permutation |
| Assembly interpreter | `archive/2023/projects/assembly-interpret` | registers, memory, program counter | instructions | jumps, overflow | - |
| The rest | lessons 01-06, other parts of the archive | none or little | - | - | covered by their own tests |

How the parts interact: the components are separate programs; they share no state. Inside a chat
server the acceptor, the handlers and whoever ends the server interact through the client map, the
sockets and the termination flag or oneshot channel. Inside the job queue and the pipeline threads
interact through channels only, whose two ends live and die with their owners. The chat servers are
composed with the test harness of their lesson: the tests are the clients, the servers the rest.

`PROJECT.json` lists every component with its status and every hazard at its line.

## Modules

| Module | What it is |
|---|---|
| `ChatThreads`, `MCChatThreads`, `ChatThreads_proofs`, `ChatThreadsPolite_proofs` | the threaded chat server; what its clients may ask in the TLC runs; its inductive invariant and theorems; what holds besides while its clients behave, and while messages go one way |
| `JobPool` | what the job queue promises: lanes, order, nothing lost |
| `WorkerQueue`, `MCWorkerQueue`, `WorkerQueue_proofs` | the job queue, which implements `JobPool`; the module TLC runs it from; the proof that it does, and what follows |
| `OrderedPipe` | what the pipeline promises: an ordered filter |
| `Factorio`, `MCFactorio`, `Factorio_proofs` | a pipeline as a network of threads and channels, which implements `OrderedPipe`; the networks that `new`, `filter_map` and `fork_join` build; proofs for every such network: it implements `OrderedPipe` and never gets stuck |
| `ChatEpoll`, `MCChatEpoll`, `ChatEpoll_proofs` | the poll-based chat server; what its clients send in the TLC runs; its inductive invariant and theorems |
| `ChatTests` | the tests of the chat servers, transcribed as scripts |
| `ChatHarness`, `ChatHarness_proofs` | the clients and the test that runs, a machine that executes scripts; what holds of it beside any server |
| `ChatEpollTests`, `MCChatEpollTests` | `ChatEpoll` composed with the harness; the tests of lesson 09 |
| `ChatAsync`, `MCChatAsync`, `ChatAsync_proofs` | the async chat server with the harness; the tests of lesson 10 and a free test; its inductive invariant and theorems |
| `ChatParallel`, `MCChatParallel`, `ChatParallel_proofs` | the same for 10_parallel |

### ChatThreads

`pc[c]` is where the handler thread of connection `c` is, by the statement it is about to finish;
`acc` is the acceptor and `main` the thread that drops the server. `clients` is the HashMap (a name
is mapped to the connection whose writer is stored), `readers` the holders of the RwLock's read side,
`mutex[c]` the holder of the Mutex around `c`'s writer. The write side is taken, used and released
within one statement (`server.rs:139`, `240`), hence in one step, guarded by `readers = {}`. Writing a
frame is not a step: a thread is mid-frame as long as its pc is `write` (or `welcome`, `taken`,
`unexpected`, before the writer is shared), because `MessageWriter::write` makes two writes.

The actions follow the source statement by statement: `Accept`, `SeeTermination`, `Spawn`, `Full`,
`Reject` are the acceptor's loop; `ReadJoin` ... `Insert` are `join_client`; `Receive`, `Lookup`,
`LockSender`, `LockWriter`, `FinishWrite`, `WriteError`, `Eof`, `ReadError`, `Leave` are
`handle_joined` with its five requests; `BeginDrop` ... `JoinHandlers` are `Drop::drop`. The reaping of
finished threads is part of `Spawn` and `Full`.

The clients are the environment. A client may close its sending side at any time; one in `Faulty` may
be reset or send a frame that cannot be read; one in `Slow` may stop reading, which blocks whoever
writes to it. A write after a reset may succeed (the kernel buffers it) or fail.

Abstractions: the text of messages, the names in a UserList and the distinction between error texts
are left out; the readers of the RwLock are not held up by waiting writers, which allows more
interleavings than the standard library does; `accept` itself does not fail.

### WorkerQueue and JobPool

`queue[w]` and `results` are the channels, `wpc[w]` and `job[w]` worker `w`, `user` the single thread
that may own the queue (it holds a `Receiver`, which is not `Sync`). With `QueueSize = 0` a send is a
hand-off to a worker that waits. When a worker panics its receiver is dropped with all that is queued.
A user whose call panics unwinds and drops the queue (`user = "gone"`), as does one that never
closes it.

`JobPool` knows lanes, waiting jobs and results. `WorkerQueue` implements it with the jobs in the
user's hand, in the channels and in the workers as the waiting ones (`Pool == INSTANCE ...`).

### Factorio and OrderedPipe

Every thread of a pipeline does the same: it receives from its inputs in turn, works, sends to its
outputs in turn, and ends when a channel it needs has lost its other end. So one `NodeStep` describes
the forwarder of `new`, `filter_map` (to which `map` and `filter` reduce), the lines, the distributer
and the gatherer of `fork_join`; the constants `In` and `Out` say how they are connected, and
`MCFactorio` has one that the builder makes. A value derived from item `i` is `i`; a gatherer that
joins values of different items makes `Mixed`. A rendezvous (`QueueSize = 0`) lets a send through only
when the receiver waits for that channel. Ends are separate actors (`producer`, `consumer`, `owner`),
since the builder hands out three independent objects.

`OrderedPipe` has only what was sent and received: the next item to come out is the next one that is
not discarded, and nothing comes out after an item that makes a function panic. That item must be one
that no filter discards: a discarded one may never reach the function that panics on it.

`IsPipeline(path)` says that a network is what calls of the builder make: `path` is the way of the items
through the forwarder, the filters and, of each `fork_join`, the distributer, the first line and the
gatherer, each behind the last; every other thread is a line that delivers to a gatherer on the way.
`MCFactorio` has TLC check it for the networks of both runs (`PathAssumption`). A `fork_join` of no lines
is left out, since its gatherer has nothing to wait for and emits the join of nothing for ever.

### ChatEpoll

The poller thread goes round: `Wait` takes the sockets that are ready (or none, after 100 ms) as
`events`, `HandleEvent` handles them in any order, `NextRound` is the clean-up and the test of the flag.
`inbox[c]` is what the socket holds and `buffer[c]` what the reader has loaded from it; epoll sees the
former only (`Ready`). A `recv` that finds no frame in its buffer loads what the socket has, up to the
buffer's size (`BufferFrames`; 256-byte frames in a buffer of 1024 make it at least four, two are enough
to leave one behind). `gone` are the clients with `connected = false`, `writers` is the map of writers by
name, `rejected` the refused clients, who stay for good.

A client closes its sending side whenever it likes; one in `Faulty` may be reset, after which writes to
it fail, as does the `shutdown` of its socket (on Linux with ENOTCONN), which panics. A thread that ends
drops the server and closes all sockets (`Stop`). Writes do not block, as lib.rs:16-17 lets one assume.
A connection is identified by its client; reuse of descriptors adds nothing, since a descriptor is closed
only when no map has the client any more. Partial frames are left out: here a readiness event brings at
least one whole frame, the end of file or an error.

### ChatTests and ChatHarness

`ChatTests` has the tests of `lib.rs` as data. A test is the limit of its server and a sequence of
blocks; the scripts in a block are the threads of the test, and the next block starts when all have
ended. A step of a script is a call of `Client`: connect, send, expect, recv, close, check that the
connection is closed, sleep; or an assertion of the test. `ChatHarness` executes one of them, chosen in
the initial state. A send on a connection the server has closed may succeed or fail. `verdict` is what
becomes of the test: "failed" when an assertion fails or the server ends with an error or a panic,
"passed" when the body returned, its clients were dropped, the server was told to stop and did.

Time. While a test sleeps the server gets done what it has to do (`DoSleep` needs the server to be
`Quiet`); the two seconds for the Join may pass when all scripts sleep as long or wait for what does not
come (`Waiting`).

A free test is none of the repository's. Its clients choose what they send and how they leave, read
nothing unless the step says so and may stop anywhere; timers may fire at any time and the server may be
told to stop at any time. It is what the properties other than `TestsPass` are mostly about.

`ChatEpollTests` puts `ChatEpoll` under the same harness: its clients take the place of `ClientStep`, and
`replies` spells out the frames of which `ChatEpoll` has the kinds only. It adds that closing a socket
with unread replies resets the connection.

### ChatAsync

`task[c]` is where `handle_client(c)` waits: for the Join (`joining`), for the Welcome to be written
(`greeting`), for the next thing of its `select!` (`serving`). `clients` is the map, `chan[c]` the
unbounded channel from other tasks, whose sender is in the map and whose receiver is in the task.
All that a task does between two awaits at which it really may wait is one step. Writes to a client
that has closed its socket are lost or fail. The end of `run_server`, told or not, drops every task and
closes every connection (`Return`).

The actions are `Accept` (with the limit, which is compared before the new task counts), `JoinNext` and
`ShutDown` of `run_server`'s `select!`; `ReadJoin`, `JoinEnded`, `JoinTimeout` and `Greet` of
`join_client`; `ReadRequest`, `Forward` and `Abandon` of the loop.

### ChatParallel

The map holds writers, so that a task writes to other clients itself, under a guard of the RwLock that it
keeps until everybody has been written to, one after the other in the order in which it walks the
map (`todo`, any order): it waits for a client that does not read even if those behind it would. Tokio's RwLock admits tasks in the order in which they ask:
`lockq` is the queue, `readers` the tasks let in to read. Every access to the map is two steps, `Ask`
and what follows when the task is `IsFirst`: `CheckName`, `AskToInsert`/`Insert`, `Enter` (then one
`Write` per recipient) and `RemoveName`. `closed` follows the ownership of the writer: it is in the task
until `Insert` moves it to the map, and replacing or removing an entry closes its connection.

The tests in `Threaded` run on several threads; in the others a task is interrupted only where it has to
wait (`Yielded`). A client in `Mute` reads nothing, and its socket has room for `Room` frames.

## Runs

| Run | Instance | What it shows |
|---|---|---|
| `threads_safety` | 3 connections, 2 names free for all, 2 slots, one faulty, one that may stop reading, drop | interleaving, limit, Welcome first, drop shuts everyone |
| `threads_polite` | 3 connections with names of their own, 2 slots, no faults, direct messages one way | the map is the joined handlers; replies go to the requester; no deadlock; requests complete; handlers end |
| `threads_mutual` (violation) | 2 clients that message each other | deadlock of the two writers' Mutexes |
| `queue` | 2 workers, channels of 1, 6 jobs, 2 may panic, 1 may not return | implements `JobPool`; workers do not hold each other up; calls return; close ends |
| `pipe` | filter + fork_join(2), rendezvous, 6 items, a line and the filter panic | implements `OrderedPipe`, joins are aligned, no deadlock; threads end, sends return, items arrive |
| `epoll` | 3 clients, 2 slots, 2 names, one faulty, drop | writers belong to their clients, messages after Welcome, nobody in good standing is cut off, nobody starves, drop ends |
| `epoll_tests` | 15 tests of lesson 09 | each passes under every schedule |
| `epoll_hasty` (violation) | its 3 tests that send before they have read | a request stays in the reader's buffer |
| `async` | 22 tests of lesson 10 and a free test | entries belong to their clients, who behaves is served, nobody waits for ever, the gone make room, the tests pass |
| `async_limit` (violation) | the 2 tests of the limit of lesson 10 | one client more than `max_clients` is connected |
| `parallel` | 23 tests of lesson 10_parallel and a free test on several threads with a client that does not read | entries belong to their clients, only namesakes cut each other off, the lock becomes free, the tests pass |
| `parallel_spam` (violation) | `dm_spam`, which runs on four threads | a message overtakes the registration of its recipient |

Bounds. Three connections are the fewest for which the limit, a name clash and a third party's
broadcast meet; a connection's requests are independent of each other but for the locks they take, so
one suffices. Six jobs on two workers fill every channel, go round twice and leave jobs behind a
panicking one. In `pipe` one item is discarded, one comes out, the next makes a line panic and the
one after that the filter; the fifth fills the forwarder, so that the sixth really blocks. The channels
are rendezvous, the bound with which the threads depend on each other most; a line may still be
an item ahead of the other. For channels with room the safety properties are the theorems of
`Factorio_proofs`, which hold for every `QueueSize`.

In `epoll` one client sends two frames, one sends one and one only connects and leaves: every kind of
reply, clash, refusal and reset occurs, and two frames can meet in one buffer.

The tests are run with three clients and the loops in them cut down: `SpamCount` 2 for 10000 messages,
`HerdSize` 3 for 50 clients at a `HerdLimit` of 2 for 5, `Npcs` 2 for 5. Two messages are enough to meet
in a buffer, to overtake a registration or to find a connection closed; three clients at a limit of two
are the first that do not fit. A limit of 10 in a test (`broadcast`) stays 10. In the free test of
`async` the limit is 1 and the server takes two clients and refuses the third (see findings); two of
three clients may use one name, one disappears, one closes its sending side. In that of `parallel` one client does
not read (`Room` = 1: the Welcome fits, nothing else does), another writes to it, and a third, which
disappears, may have its name; under three names all are served at once, and a broadcast may reach the
one that does not read before or after the one that does.

Deadlock is checked in `threads_polite` and in the run of the pipeline. It is not where the system may
stop for good: a server of lesson 08 that is dropped with a joined client, the queue's `next_result`
after a panic, servers and tests that have ended, and the violation runs.

Fairness. Threads that can take a step are scheduled (weak fairness of each thread's steps; of the
threads of a pipeline only that some one runs, since each has as much to do as it is sent), an executor
polls every task that is ready and `select!` takes every branch that stays ready (it chooses at random);
a test goes on while it can. What a client, a user or a job does is not fair, and timers of free tests
are not, except as part of a task that can do nothing else; the pipeline's consumer goes on
receiving (`EagerSpec`) in the run that needs somebody to empty the pipeline, and a job in `Endless` may
never return. Mutexes are free again as soon as their holder moves on, the async lock is a queue, and
each thread asks a bounded number of times, so weak fairness is enough.

### Tests that are not run

A test is left out of a passing run when the server does not pass it under every schedule, or at all.

* Lesson 09: `dm_spam`, `dm_spam_2` and `broadcast_empty` are the run `epoll_hasty`. `max_clientsey` and
  `max_clients_herd` expect a refused client to be told at once and let go, and it is neither;
  `join_timeout` expects a timeout that is not in the code. In `duplicated_username` and
  `error_then_disconnect` a client closes its socket with a reply unread, which resets the connection,
  and the poller may panic on it. `broadcast` sends a second request before it reads the answer, as the
  three above do. `drop_clients_on_shutdown` looks at sockets after the server is gone.
* Lesson 10: `max_clients` and `max_clients_herd` fail, since the server takes one client too many; they
  are the run `async_limit`.
* Lessons 10 and 10_parallel: in `list_users_reconnect` a client joins under the name of one that has just
  closed its connection; whether the server has seen that by then is a matter of luck. In 10_parallel
  `dm_spam` is the run `parallel_spam`.
* Lesson 08: the threaded server is not composed with the harness; its runs have free clients only.

## Findings

Every violation run is a disagreement between the code and its documentation or tests, listed with
quotes in `PROJECT.json`: the lock-order deadlock of two direct messages (08), the frame that the
poll-based server leaves in its buffer (09), the limit that is off by one (10, `AtMostMaxClients`), and
the Welcome that is sent before the client is in the map (10_parallel).

The models have more of the kind without a run of its own, because an action or an excluded test says it
already.

* 08: a name is tested and inserted under two locks, so that two clients are served under one name
  (`CheckName`, `Insert`); a handler that ends with an error leaves its name in the map (`WriteError`,
  `ReadError`); drop with a joined client waits for a handler that needs the lock drop holds
  (`JoinHandlers`, `Leave`); a refused client that resets ends the acceptor (`Reject`).
* 09: a taken name is refused and taken over all the same (`Register`); refused clients are told only
  when they send something, again on every round, and are never let go (`Refuse`); a refused client that
  cannot be written to, or any client that resets its connection, ends the whole server (`Refuse`,
  `NextRound`); the two-second limit for the Join is not implemented.
* 10: a message that cannot be forwarded leaves the name in the map, and whoever writes to it is
  disconnected (`Forward`, `DirectMessage`).
* 10 and 10_parallel: a refused client that is gone ends the server (`Accept`, 10 server.rs:47,
  10_parallel server.rs:45); the three-second timeout of lib.rs:63-66 is not implemented; a frame of
  1024 bytes without a newline meets an assertion (reader.rs:36).
* 10_parallel: replies go through the map, to whoever has the name by then (`Audience`); a client that
  does not read stops everybody who wants the lock, and those whom a broadcast was to reach after it
  (`NothingHangs` and `LockMoves` say so).

## Proofs

`ChatThreads_proofs` proves, for any number of connections, names and requests and any choice of
faulty and slow clients, that `IInv` is invariant and that it implies `TypeOK`, `NoInterleaving`,
`AtMostMaxClients`, `WelcomeFirst` and `RegisteredAreShut`. None of these is inductive by itself:

* `NoInterleaving` needs that whoever is at `write` holds the Mutex of the writer it aims at
  (`MutexInv`), and that nobody aims at a client before it is welcomed (`TargetInv`), because before
  that the handler writes without any lock;
* `WelcomeFirst` needs the same `TargetInv` and, for each pc, whether the client has its Welcome
  (`HandlerInv`);
* `AtMostMaxClients` needs that every live handler's handle is kept (`LiveInv`) and bounds the
  handles instead;
* `RegisteredAreShut` needs that the dropping thread holds the read side during its walk and that its
  to-do set and what is already shut cover the map;
* `TypeOK` needs that Drop's own wake-up connection is only ever seen with the flag set, so that it is
  neither served nor refused (`FreshInv`, `AcceptorInv`).

The assumptions are those `ChatThreads` states: the connections are a finite set, the special values
are distinct from them, and clients ask for requests of the protocol.

`ChatThreadsPolite_proofs` adds to `IInv` what holds while clients behave. Without faults only Drop shuts a
connection (`CalmInv`), so that the acceptor, which an error would end, goes on: `AcceptsUntilDropped`.
If, moreover, nobody drops the server and no two clients may use the same name (`Polite`), a handler past
its Join uses a name of its client (`NamesInv`) and the map has exactly the joined handlers under these
names (`MirrorInv`), hence `MapMirrorsHandlers`. `RepliesReachRequester` needs whom a handler aims at: the
sender of the request unless the request is a message, in which case the map, which it holds for reading,
keeps its recipient (`AskInv`); and who caused each frame sent so far (`ReplyInv`). These preconditions are
necessary: see the hazards at `server.rs:95`, `131` and `162`.

`OneWayMessagesNeverDeadlock`, in the same module, is about the order in which `handle_client` locks
(`server.rs:199-214`): the map for reading, the sender's writer, the recipient's. It needs none of the
assumptions above, only `OneWay`: the relation "who is called m may write to n" has no infinite chain
(for finitely many names: no cycle). Then, of the threads that hold a lock, one does not wait for another.
`LockInv` says which locks each pc holds: a handler that waits for a `Mutex` holds the map, and at most its
own writer, as the sender of a message; Drop walks the map under its read guard and holds no `Mutex` between
steps. So whoever waits for the map waits for one that waits for a `Mutex`, whose holder, if it waits too, is
the sender of a message (`HeldBySender`) and waits for the writer of its recipient; along that chain the
names descend in `MayWriteTo` (`LocksMove`). The run `threads_mutual` shows that the condition is needed.
Two waits are not part of it: a thread in the middle of a write to a client that does not read (`write` is
not a lock), and Drop once it joins the handlers with the read guard in its hand (`server.rs:258-273`), which the
hazard there records.

`WorkerQueue_proofs` proves for any number of workers, jobs and bounds that the queue implements
`JobPool`. Its invariant says where a job can be: in the lane of its number, in increasing order within
a worker, never in a worker that has ended; and that close has joined only workers that exited, with
empty channels. The round-robin counter is `submitted % N`, which needs a lemma on `%`.

What the pool promises is then proved as invariants of its steps (`PoolStep`) and holds of the queue by
the refinement: the jobs of a lane complete in order and once (`CompletedInOrder`); a job is lost only
behind a panic of its own lane, while the user stays (`OnlyPanicsLose`); and a close that returned has
completed every job (`CloseCompletesAll`). The last two need each other: a lost job marks its lane as
dead, and close joins no dead lane. `NobodyWaitsInVain` is the safety half of `CallsReturn` and
`CloseEnds` under their preconditions: `CanReturn` and `CanWork` spell out, without `ENABLED`, when the
call and a worker can go on. It rests on the order within a lane: what a worker runs is the oldest job of
its lane, so a job that is not safe is never in front of one that is.

`Factorio_proofs` proves `TypeOK` and `GatherAligned` for every network in which a channel has one sender
and one receiver (`EndsAssumption`) and a thread with several inputs is the gatherer of a `fork_join`
(`GathererAssumption`), for any numbers of lines and items, any size of the queues, and panics anywhere.
`GatherAligned` follows from what is on its way through each line, from the gatherer back to the
distributer: `Way` is what the gatherer has taken, what is in the line's output channel, in the line and
in its input channel, and what the distributer has yet to send to it. While everybody runs, all lines
carry the same sequence `w`; a line that has ended, or each of them once the distributer has, carries a
prefix of it (`JoinInv`). Moving a value along a line changes nothing; new work of the distributer is
appended to `w`; the gatherer takes the head from all lines at once; and whatever ends only shortens a
line. What the gatherer holds are therefore heads of the same sequence. `GoodInv` adds that `Mixed` is
never a value on its way.

`PipelineIsOrderedPipe` is the refinement, for every network with `IsPipeline(path)` for some `path`. The
items are at places (`At`) in a row: with the producer, at each thread of the way together with the channel
in front of it, in the output channel, with the consumer. `FlowAll` says of the places that items further
on are smaller (`Ordered`) and sorted within a place (`Lined`); that what is ahead of an item is at its
place or further on, unless discarded, as long as everything ahead of it is alive (`NoneLost`), so that a
panic cuts the row off and loses nothing before it; and that an item has passed the functions of all
threads behind it (`Clean`), those of the lines beside the way included. The latter is where
`GatherAligned` comes in: an item that the first line delivers gets past the gatherer only with the
results of its sisters, which `PassInv` says have passed their lines. A step moves an item to the next
place (`HandOver`), discards it, or ends a thread; what the consumer takes is then the next item of the
ordered pipe (`ReceivesDue`).

`PipelineNeverStuck` is the safety half of `ThreadsEnd` and `SendReturns`, for the same networks:
`NeverStuck` spells out when a thread, the producer or the consumer is `Blocked`, without `ENABLED`, and
says that all of them are blocked or gone only if both ends have been dropped and every thread has
ended. A thread that waits for an empty channel waits for somebody who does not send there, and one that
sends waits for somebody who receives elsewhere. So the last thread of the way that sends, should there be
one, is or feeds a line whose gatherer waits for another line; that line carries at most one result
(`ShortWay`), the blocked one at least two (`LongWay`), but `JoinInv` says they carry the same. Then the
first thread of the way that waits would wait for nobody. This needs that a thread with several outputs
is a distributer (`DistributerAssumption`). "First" and "last" come from the well-foundedness of the
naturals as a statement about sets (`Least`, `Greatest`), where an induction theorem would need an
operator as its parameter.

`ChatEpoll_proofs` proves `TypeOK`, `WritersBelong`, `MessagesAfterWelcome` and the action property
`LeavesOnlyWhenDone` for any number of clients, any scripts, limit and size of the buffer. The invariant
adds that a connection is in one place (backlog, served or refused, `QueueInv`), that an event stays true
until it is handled (`EventsInv`), that the owner of a writer has its Welcome unless it was reset
(`WelcomeInv`), that only frames of a client's script are ever on their way (`ScriptInv`), and the reason
for which a client is in `gone` (`GoneInv`), which stays a reason until the cleanup. What the handlers of
the five requests have in common is one lemma per handler about `Effect`.

`ChatHarness_proofs` has what both async servers need of the harness, for any tests: `NetType`, the types
of the network; `BacklogInv`, that no connection waits twice and only those wait that exist; and
`Onward`, that clients only open, then leave, and that a request on its way stays. One lemma says that
every step of a script keeps these and touches nothing of the server. It also states what both servers promise of
what a client hears (`WelcomeFirst`): its Welcome first and once, or one Error with which it is cut off;
`Hears` says what one more reply does to that.

`ChatAsync_proofs` proves `TypeOK`, `EntriesBelong` and `ServedUntilItLeaves` for any clients, names
and tests. The invariant is `NetType` and `BacklogInv` with the types of the tasks, `LimitInv`,
`StartInv` (a connection that waits has no task yet), `NameInv` (a task that greets or serves knows its
name) and `EntryInv`, which says more
than `EntriesBelong`: an entry whose task is not serving belongs to a client that has dropped its
connection, for which it needs that a connection, once dropped, stays so.

That no channel fills up once its task has ended (part of `TypeOK`) needs that every step that puts a
message into one finds the task serving: the map may have an entry of a client that is gone, and then the
send fails. `OneTooMany` is how far the finding of `async_limit` goes: the tasks that `join_next` has not
taken exceed `max_clients` by one at most (`LimitInv`).

`WelcomeComesFirst`, here and in the next module, needs for every client what its task has told it
(`FramesOK`): nothing while it waits or joins, its Welcome once it is served, unless it was gone by then, in
which case it hears nothing more. In `ChatAsync` a client's own task is the only one that writes to it, and
what others put into its channel is never a Welcome (`ChanInv`). In `ChatParallel` all tasks write to all
clients; `WritesReachTheMap` and `EntriesBelong` together say that these have been greeted, and `LockInv`
that a task that writes still holds the guard they speak of. With `WelcomeFirst` of `ChatThreads` and
`MessagesAfterWelcome` of `ChatEpoll` all four servers are shown to greet before they forward anything.

`ChatParallel_proofs` proves `TypeOK`, `EntriesBelong`, `CutOffByNamesakes` and `WritesReachTheMap`
(whoever a task has yet to write to is in the map while the task holds the guard), for any clients, names,
tests, room and set of silent clients. The invariant adds what a task has read by the time it needs it
(`ReadInv`: a task past its Join knows its name, one that answers has a request) to `LimitInv` and
`StartInv` as above. `WritesReachTheMap` needs that the map is changed only while nobody holds a guard;
`CutOffByNamesakes` follows from `EntriesBelong`, since the entry that a task replaces or removes has the
task's own name. `LockInv` is about the lock: the line of the `RwLock` has exactly the tasks that wait
for it, each once; the readers are the tasks that write, and those have somebody to write to; on one thread
at most one task is in the middle of a request. Hence `GuardsAreDropped`, that nobody asks for the lock
while it holds it (the lock is fair, so that a second read would wait behind a writer who waits for the
first), and `LockIsPassedOn`, the safety half of `NothingHangs`: some task `Passes`, unless every task
that holds the guard has come to a client that does not read and the first in the line wants to write to
the map. That others of its audience would read does not help a task that has come to such a client.

Only model-checked:

* liveness: `RequestCompletes`, `HandlerEnds`, `CallsReturn`, `CloseEnds`, `OthersProgress`, `ThreadsEnd`,
  `SendReturns`, `ItemsArrive`, `NextFrameHandled`, `HalfClosedLeave`, `DropEnds`, `AnsweredInTheEnd`,
  `TheGoneMakeRoom`, `NothingHangs`, `TestsPass`; properties under fairness and `ENABLED` are beyond the
  prover, as are induction over data and recursive operators, which nothing here needs;

## Not modelled

* Lengths of frames in bytes, partial frames and JSON: a reader that gets half a frame waits for the
  rest, in every server; the models have what depends on it, two writes per frame in 08 and the buffer
  that epoll does not see in 09.
* The parallel slice sum, sorting, merging and ciphers are pure functions; the remaining exercises of
  lessons 01-06 are sequential, small and enumerated by their tests.
* The archive's chat projects are earlier drafts of the servers above, its interpreters are sequential,
  and the shell is I/O. The binaries of lesson 09 are prototypes that nothing uses.

Open: the threaded server under its own tests.
