# iocoro in TLA+

TLA+ modules for [iocoro](../src), a header-only C++20 library of coroutine
based asynchronous I/O. They model the reactor and everything that runs beside
it: who may touch what from which thread, in which order, and what is promised
to a coroutine that waits. TLC checks the modules on small instances; TLAPS
proves the safety properties of the registries, the timers, the event loop, the
executors, the awaiters, the coroutines and the sockets for instances of any
size. The reactor with its backends, the sequential algorithms and all liveness
are checked by TLC alone.

Contents: [the system](#the-system), [modules](#modules-and-code),
[runs](#runs), [fairness](#fairness), [proofs](#proofs),
[where code and documentation disagree](#where-code-and-documentation-disagree),
[properties with a condition](#properties-with-a-condition),
[what is not modelled](#what-is-not-modelled), [plan](#plan),
[running it](#running-it).

## The system

Paths are relative to `src/include/iocoro/`.

An `io_context` is driven by one **reactor thread**, the one inside `run()`,
`run_one()` or `run_for()`. Any thread may post to it. The loop executes posted
callbacks, calls expired timers and blocks in a **backend** (`epoll_wait` or
io_uring) until a descriptor is ready, a timer is due or somebody writes to the
wakeup eventfd. Two registries that only the reactor thread touches say whom to
call: `fd_registry` for readiness, `timer_registry` for time. Both hold
**reactor ops**, one per waiting coroutine, with two callbacks of which exactly
one must be called exactly once.

Sockets sit on top. A `socket_impl_base` owns a reference-counted
`fd_resource`; coroutines wait for its readiness while other threads cancel,
close, release or reopen it. `stream_socket_impl`, `datagram_socket_impl` and
`acceptor_impl` add a connection state and one operation of each kind at a
time.

Coroutines await each other in a stack, each promise bound to an executor and
chained to the stop token of the one below. Beside the reactor are the executors
(`thread_pool`, `strand`) and what runs coroutines side by side (`co_spawn`,
`when_all`, `when_any`, `when_any_cancel_join`, `with_timeout`), and awaiters
that other threads complete (`condition_event`, `steady_timer`, `resolver`).
Stream algorithms, type-erased holders and endpoints are sequential.

### Inventory

| component | state | operations | what is hard | properties |
|---|---|---|---|---|
| `detail/reactor_types.hpp` | a reactor op and its vtable | `on_complete`, `on_abort` | called once, by one of five paths | one callback, exactly once |
| `detail/fd_registry.hpp` | per descriptor: tracked, two slots with op, token, latch; `active_count_` | track, register, cancel, take ready, deregister, drain | stale handles, edges before waiters, reused numbers | count exact, no waiter beside a latch, token identifies op |
| `detail/timer_registry.hpp` | nodes, heap, free list, tokens | add, cancel, next timeout, process expired, drain | lazy cancellation, recycling under running callbacks, rounding | nodes partitioned, order, never early, no oversleep, all end |
| `impl/io_context_impl.ipp`, `detail/posted_queue.hpp`, `detail/wake_state.hpp` | posted queue and counter, wake state, eventfd, stop flag, guards | run, post, stop, restart, guards, wakeup, failure handler | wakeups racing the decision to block; throwing callbacks; self-posting callbacks | order, nothing lost, one token, a notified post runs |
| `remove_fd_sync` (same file) | claim and done flags, condition variable | removal by callback, by fallback, directly | the loop ends or restarts while a caller waits | removed once, return means removed |
| `impl/backends/epoll.ipp`, `uring.ipp` | kernel registrations, generations, pending requests | add_fd, remove_fd, wait | number reuse, edges, one-shot polls re-armed out of order | right file, no lost edge, one request |
| `detail/socket/` base and `fd_resource` | resource pointer, closing flag, in-flight count, handles, cancel epochs | open, assign, cancel, close, release, wait | close between registering a wait and storing its handle | never taken away, cancel reaches waits |
| stream, datagram, acceptor | connection state, shutdown flags, op states | connect, read, write, send, receive, accept, bind, listen, cancels, shutdown, close | state stored after a close reset it; two operations in one slot | state owned, close resets |
| `thread_pool.hpp` | queue, condition variable, waiting count, guards, state | post, stop, join, guards | notification between predicate and sleep | accepted tasks run, no sleep on work |
| `strand.hpp` | queue, active flag, scheduled drains | post, drain, reschedule | a drain that ends beside one that starts | never concurrent, every task runs |
| `when_*.hpp`, `with_timeout.hpp` | remaining count, waiter, first index, results | run, publish, complete, collect, stop the loser, map the result | completion racing suspension and collection; timer racing operation and stop | resumed once, right results, loser joined |
| `condition_event.hpp` | pending notifications, waiters, done flags | notify, wait, stop, destroy | four parties complete one waiter | resumed once, nothing forgotten |
| `steady_timer.hpp`, `detail/operation_awaiter.hpp` | expiry, closed flag, handle, stop callback | async_wait, cancel, expires_at, destroy, stop | expiry copied before it is registered; completion before await_suspend returns | one pending wait, requests end waits |
| `awaitable.hpp`, `detail/awaitable_promise.hpp` | executor, continuation, stop source | await, return, throw, switch executor, request stop | a child that ends on another executor; a stop while the stack grows | one active coroutine, where it is bound, stop passes down |
| `co_spawn.hpp`, `detail/spawn.hpp` | completion, shared result state | spawn, complete, join | completion racing the joiner; a completion that throws | called once with the result, joiner returns |
| `ip/resolver.hpp` | done flag, result, stop callback | resolve, answer, stop | answer racing a stop | resumed once, returns |
| `io/read.hpp`, `write.hpp`, `read_until.hpp` | a buffer position, a search position | loops over `read_some`/`write_some` | short transfers, a delimiter across reads, old bytes in the buffer | first occurrence, whole buffer in order |
| `detail/any_executor_storage.hpp`, `unique_function.hpp` | inline storage, pointer, vtable | construct, copy, move, assign, destroy | lifetimes by hand, pointer into oneself | destroyed once, right value |
| `ip/endpoint`, `local/endpoint` | a sockaddr and its length | to and from text and sockaddr | lengths and terminators, byte order, colons | survive any conversion |
| options, facades, buffers, results | values | forwarding | nothing concurrent | none |

`PROJECT.json` lists the components with their status, and the hazards at the
line where they bite, with the properties that cover them or the reason that
none does.

## Modules and code

One step of a model is one access to state that another thread can see: a
critical section, an atomic read-modify-write, a system call. Code that only
the reactor thread touches takes one step per operation. Each definition keeps
the name of the function it stands for where there is one; `PROJECT.json` maps
definitions to lines. Variables called histories in the modules exist for the
properties; a guard reads one only to use each op, task or waiter once.

**`ReactorOp`** is the abstract specification of a registry: an op is armed at
most once; one of its callbacks is called, once; the registry lets go of it in
that step. It says nothing about slots, tokens or heaps.

**`FdRegistry`** (`detail/fd_registry.hpp` and the calls of `io_context_impl`
on it). A slot is a record `[op, token, ready]`. `RegisterReadyNow` and
`RegisterWaiter` are the outcomes of `register_*` that complete at once or
store the op; a waiter that is replaced is aborted in the same step, as the
caller does. `CancelFdEvent` takes any handle ever given out, however old.
`ProcessEvent` delivers any set of kinds, with or without an error. It refines
`ReactorOp` with `armed` the set of ops in slots.

**`TimerRegistry`** (`detail/timer_registry.hpp`). Nodes, heap, free stack and
tokens, and a reactor thread that goes round `awake`, `scan`, `call`, `wait`,
`asleep`. `Scan` is one iteration of the first loop of `process_expired`, so the
clock may move between two of them as `steady_clock::now()` does. The heap is a
set, because `std::pop_heap` only promises a least element. A remaining time is
cut to milliseconds of `TicksPerMs` ticks. The
milliseconds go through `ToInt`, the `int` of `epoll_wait`, with `IntLimit` in
place of 2^31. It refines `ReactorOp` with `armed` the ops in nodes and in the
list of ops about to be called.

**`SteadyTimer`** (`steady_timer.hpp`, `detail/operation_awaiter.hpp`): each
critical section of `shared_state::mtx`, each access to a stop token and each
task of the reactor is a step. A wait stands for its op and for its handle;
that a handle names one timer is what `TimerRegistry` shows. `queue` holds the
cancels posted to the reactor by other threads.

**`EventLoop`** (`run`, `run_one`, `run_for`, `process_*`, `next_wait`,
`wakeup`, `stop`, `restart`, the failure handler; `posted_queue`; `wake_state`;
the eventfd). `pc` follows the reactor thread through one iteration. A foreign
thread that posts or stops goes on to `notify` (the compare-and-swap of
`wake_state`) and `write` (the eventfd, which may fail). Timers are reduced to
the state of the earliest one, descriptors to events that end a wait.
`Reposters` are callbacks that post themselves again each time they run.

**`RemoveFdSync`** (`remove_fd_sync`): the posted callback, the caller's
condition variable (notified without the mutex, and subject to spurious
wakeups), the fallback, and runs of the loop that begin and end meanwhile.

**`Backend`**, **`EpollBackend`**, **`UringBackend`**, composed in
**`Backends`**: one descriptor number that successive files use. `Backend` has
the owner of the number and the kernel's view of a file; the other two have
`add_fd`, `remove_fd` and `wait` of each implementation. The choice of backend
is made in `Init`. In `UringBackend` the table entry, the two pending lists, the
lists a flush has taken, the polls in the kernel and the completion queue are
separate, because requests overtake each other between them; generations are
taken modulo `GenLimit`, the 2^30 of `pack_fd`.

**`Reactor`** puts `io_context_impl` between `EpollBackend` and one slot of
`fd_registry`. The owner of the number is on the reactor thread (`foreign` is
false) or elsewhere; then `track`, `cancel` and the removal are callbacks it
posts. The reactor thread goes round `posted`, `wait` and `dispatch`;
`Interrupted` is a wait that returns with `EINTR` and the previous events still
in `vector`. A reader tries, finds nothing, registers on the reactor thread and
is resumed.

**`SocketBase`** (`socket_impl_base`, `fd_resource`), **`SocketOps`** (what the
three socket classes share), **`StreamSocket`**, **`DatagramSocket`**,
**`Acceptor`**, composed in **`Sockets`**. Coroutines have a program counter
`opc` for the operation and `wpc` for the wait inside it; threads that call
other members have `tpc`. `SocketBase` stands on its own as class `base`; an
action of it is lifted into the composition with `OfBase`. The registry under
the sockets is reduced to one slot per resource and direction.

**`Executor`** is the abstract specification of an executor: a task is taken in
line or refused, tasks start in the order of acceptance, and each runs once.
**`Strand`** (`strand.hpp`) over a base executor that is a bag of scheduled
drains, and **`ThreadPool`** (`thread_pool.hpp`, `impl/thread_pool.ipp`), implement
it. In the pool, evaluating the predicate of `cv.wait` and falling asleep are two
steps, with the mutex held between them, because the guard counter changes
without the mutex.

**`When`** (`when_all`, `when_any`, `when_any_cancel_join` and their shared
states; `kind` tells the calls and the three overloads of `when_any` apart, which
differ in what they make of a result that is not there: `Unpublished`), extended
by **`WithTimeout`** (the operation is runner `First`, the wait
of the timer runner `Timer`), **`ConditionEvent`** (`condition_event.hpp`) and
**`Resolver`** (`ip/resolver.hpp`), access by access. In these and in
`SteadyTimer`, `Init` chooses whether the coroutines share one thread (`serial`)
or run on several: some promises hold only in the first case, and the
properties say which.

**`Coroutine`** (`awaitable.hpp`, `detail/awaitable_promise.hpp`,
`detail/executor_guard.hpp`): a stack of coroutines, the executor each promise is
bound to, the executor that is current on the thread, and the stop sources with
the callbacks that chain them. **`CoSpawn`** (`co_spawn.hpp`, `detail/spawn.hpp`)
extends it with the entry coroutine, its completion and the state a joiner
shares with it.

**`StreamAlgorithms`** (`io/`): a call with its arguments and a buffer, and a
stream that moves any number of bytes, none, or fails; `Ends` is the reference
`async_read_until` is compared with. **`TypeErasure`**
(`detail/any_executor_storage.hpp`, `detail/unique_function.hpp`): constructions,
copies, moves and destructions on holders with an inline cell and a heap.
**`Endpoints`** (`ip/`, `local/endpoint.hpp`): texts are sequences of words and
punctuation, a sockaddr is a record with its length in bytes; ports pass
through `htons`.

**`FdRegistryProofs`**, **`TimerProofs`**, **`EventLoopProofs`**,
**`ExecutorProofs`**, **`AwaiterProofs`**, **`CoroutineProofs`** and
**`SocketProofs`** hold the theorems. The `MC*` modules declare model
values and bounds for TLC. Where several independent modules share a run,
`layer` (or a similar guard) chooses in `Init` which of them a behaviour is
about; the variables of the others keep their initial values.

### How the modules fit together

    ReactorOp   <-- implemented by --  FdRegistry, TimerRegistry
    Executor    <-- implemented by --  Strand, ThreadPool
    Reactor     = Backends + io_context_impl + one slot of fd_registry
    Sockets     = SocketBase + SocketOps + the three socket classes
    CoSpawn     = Coroutine + completion;  WithTimeout = When + the timer's result

These are formal. In the following, one module takes as an assumption what
another shows: `Sockets` takes from `FdRegistry` that a handle names one op
(`TokenIdentifiesOp`) and `SteadyTimer` from `TimerRegistry` that it names one
timer (`TokenIdentifiesTimer`); `EventLoop` takes from `TimerRegistry` that the
timeout does not exceed the earliest deadline (`NoOversleep`); `WithTimeout`
takes from `SteadyTimer` how a wait ends and from `Coroutine` that a stop
reaches both runners (`StopPasses`); `Resolver` takes from `Executor` that the
pool runs what it accepts once; `Reactor` takes the loop to be running, which
`RemoveFdSync` does not.

## Runs

| run | instance | states | properties |
|---|---|---|---|
| `sequential` | 2 descriptors, 3 ops (symmetric); buffers of 4 bytes, delimiters of 3; 3 holders, 4 values; all forms of endpoint | 81,558 | `IInv` (`TypeOK`, `ActiveCountExact`, `NoWaiterOnLatchedSlot`, `UntrackedIsClean`, `TokenIdentifiesOp`, `HandlesArePast`, `HeldOnce`, `HeldUncalled`), `ImplementsReactorOp`, `StreamsExact` (`UntilReturnsFirst`, `TransfersWhole`), `ErasedLifetimes` (`DestroyedOnce`, `HoldsWhatWasPut`), `EndpointsSurvive` (with `TextAccepted`) |
| `timers` | registry: 2 ops, 4 instants, tokens to 3, 2 ticks per ms, ints below 2; steady_timer: 2 waits, 1 caller, 2 calls | 159,372 | `TimersConsistent` (`NodesConsistent`, `ResumedOnce`, `FrameAlive`, `WaitPhases`, `CancellationsAsked`), `TimersOnTime` (`NeverEarly`, `ExpiryOrder`, `NoOversleep`, `ResultHasCause`), `OnePending`, `ImplementsReactorOp`, `EveryTimerOrWaitEnds` (`EveryTimerEnds`, `CancelledNodeSurfaces`, `RequestEndsWait`) |
| `timers_stale_expiry` | the same | violation | `RegisteredWithExpiry` |
| `event_loop` | 2 threads, 2 tasks, 1 reposter, 1 guard, failing writes | 291,341 | `QueueConsistent` (`TypeOK`, `PendingCountExact`, `BatchInProcess`, `NothingLost`, `RunsInOrder`), `WakeTokenUnique`, `NotifiedPostRuns`, `TimerNotStarved` |
| `event_loop_lost_post` | 1 thread, 1 task | violation | `PostedTaskRuns` |
| `reactor` | 3 files under one number, 4 events, generations modulo 4; the epoll reactor with one reader; 2 callers of `remove_fd_sync`, 2 runs | 126,824 | `ReactorConsistent` (`OneRequest`, `PollFollowsFile`, removed once, types), `EventReachesItsFile` (`EventsMatchFile`, `DispatchMatchesFile`), `NoEdgeLost` (`EdgeNotLost`, `ReadinessKeptIfTracked`), `ReturnMeansRemoved`, `ReactorServes` (`AddedIsWatched`, `ReaderServed`, `SleeperWoken`) |
| `reactor_untracked` | the same, 2 events | violation | `ReadinessKept` |
| `sockets` | 2 operations, 2 threads, 2 resources, 3 calls, 5 workloads, symmetry on threads | 888,645 | `GuardsConsistent` (`TypeOK`, `InflightExact`), `NeverTakenAway`, `CancelReachesWaits`, `OperationsExclude` (`NoSharedSlot`, `ConnectingIsOwned`), `CloseResets` |
| `executors` | 2 workers, 2 clients; strand: 4 tasks, 2 per drain; pool: 3 tasks, 1 guard | 63,668 | `ExecutorsConsistent` (`TasksConsistent` with `NoStrandedTask` and `TaskInOnePlace`; `PoolConsistent` with `WaitingExact`, `NoSleepOnWork`, `LeavesDrained` and `TaskInOnePlace`), `ExecutorsImplement`, `JoinRunsEverything`, `AcceptedTasksRun`, `WorkersExit` |
| `strand_concurrent` | 2 workers, 2 clients, 3 tasks, symmetry | violation | `NeverConcurrent` |
| `coroutines` | 3 runners, or a pair, five kinds of call; a stack of 3 coroutines, 2 executors | 179,883 | `CoroutinesConsistent` (`ParentConsistent`, `OneActive`, `RunsWhereBound`), `CallResults` (`AllResults`, `FirstResult`, `TimeoutResult`), `LoserJoined`, `ResultDelivered`, `StopPasses`, `CallsReturn` (`ParentReturns`, `TimeoutEnds`, `JoinerReturns`) |
| `awaiters` | 2 waiters, 2 notifications; 1 lookup | 253,870 | `AwaitersConsistent` (`WaitersConsistent` with `ResumedOnce` and `NeverForgotten`; `ResolvedOnce`, `OneWinner`), `NotificationsConserved` (with `NoSpuriousWakeup`), `AwaitedResult` (`ResultIsCompletion`, `ResultHasCause`), `AwaitsEnd` (`StopOrDestroyEndsWait`, `Returns`) |

The names in parentheses are the conjuncts of the property before them. What the
runs show:

- **Registries.** Whatever is registered, replaced, cancelled with an old handle,
  made ready, removed or drained, an op is called back exactly once and a stale
  handle touches nothing. Timers fire in order of expiry and never early, and a
  reactor that only its own timeout wakes still ends every timer.
- **Timers.** A `steady_timer` has one pending wait: any other is about to be
  cancelled by whoever took its handle. A cancel, an update, a later wait, the
  destructor and a stop request end the waits they find, also while
  `await_suspend` is still registering them.
- **Event loop.** The pending counter equals the queue through throwing
  callbacks and failing backends; no callback is lost or run twice. There is
  exactly one wake token whenever the wait window is claimed, so a claimed
  window ends the wait. Callbacks that repost themselves do not starve timers.
- **Reactor.** With epoll an event is never attributed to the wrong file, neither
  in `wait()` nor when it is dispatched later, because a removal of a running
  loop happens on the reactor thread; no edge is lost between the kernel and a
  reader of a tracked descriptor, so a reader that waits for data is served.
  With io_uring an armed entry has exactly one request under way, through every
  order of removal, re-adding and completion.
- **Sockets.** No descriptor is closed or given away under an operation; a wait
  that is being registered while another thread closes or cancels is not left
  behind; a socket that has been closed is as new.
- **Executors.** Both implement the abstract executor: accepted tasks start in
  order, once. The waiting count of the pool is exact, so notifying only
  waiting workers is enough; accepted tasks run before `join()` returns.
- **Coroutines.** One coroutine of a stack is active, and it runs where it is
  bound; a stop request reaches the whole stack, whenever it comes. Parents,
  joiners and waiters are resumed once, whatever races. A parent that was
  resumed, or shares its thread with the runners, gets the result that was
  decided; one that looked by itself from another thread may come too early for
  the result of `when_any`, and that is the only way to miss it. `with_timeout`
  reports `timed_out` only for a timer that expired.
- **Sequential parts.** `async_read_until` returns the first occurrence for every
  way its delimiter is split over reads; holders destroy each object once
  through any sequence of copies, moves and self-assignments; endpoints come
  back from text and sockaddr as they were, and only documented texts are
  accepted.

### Bounds

Every bound is a constant with a name. They were chosen so that the case each
property is about does occur:

- Three ops in `FdRegistry`: one waiting, one that replaces it, one that meets
  the slot again after a cancel with the first handle. Here, and for the other
  modules with proofs, the theorems remove the bound for the safety properties.
- Buffers of 4 bytes and delimiters of 3 over two byte values: a delimiter can
  arrive in three reads, overlap itself, end at the last byte, or be found in
  old bytes of the buffer if the search went too far.
- Three holders: a value can be copied to one and moved to another while the
  first is assigned to itself; two small and two big values can be told apart.
- Two ops in `TimerRegistry` share one node after it is recycled, or two nodes
  with equal or different expiries; half-millisecond ticks make rounding
  visible, and a wait of 2 ms no longer fits the `int`. A node's token rises by
  one per use and per drain; `MaxToken` bounds the drains.
- Two waits of a `steady_timer` and two calls of another thread: one wait
  replaces the other while a call holds its handle.
- Two foreign threads in `EventLoop` let two wakeups race for one window; two
  tasks are a batch that can throw in the middle.
- Three files in `Backends` and `Reactor`: the requests of one file can still be
  under way while the second is removed and the third added. Generations go past
  `GenLimit = 4` within the `MaxEvents = 4` events.
- Two operations and two threads in `Sockets`: each pair competes for one thing
  (a slot, an `op_state`, the connection state) while two calls such as `close`
  and `open` overlap. `MaxRes = 2` is the old and the new descriptor.
- Two workers and two clients in `Strand` and `ThreadPool`: one notification can
  be overtaken by another. `MaxDrain = 2` with four tasks makes a drain give way
  with work left.
- Three runners in `When`: a winner, the runner with index 0 and another loser
  can be three different ones. A pair is what `when_any_cancel_join` takes.
- Three coroutines on two executors: the middle one has a parent and a child,
  and either may be elsewhere.

Deadlock is checked in the `event_loop` runs. The other systems may stop: every
operation, task, waiter or call of the instance has been used up.

Each property has been checked against mutated forms of definitions (a dropped
guard, a missing reset, a swapped order) that it must reject, for properties
that join several parts usually one form in each of two parts; the mutated
forms stand in the modules just before the definitions they change and are
listed in `PROJECT.json`.

## Fairness

Fairness is only assumed of a thread that is inside the library, of the clock
and of kernel calls that return. No client is obliged to post, notify, stop or
close.

- `TimerRegistry`: weak fairness of the clock and of each reactor step, but not
  of `WakeEarly`: the reactor must not depend on anything but its timeout.
- `EventLoop`: weak fairness of the reactor thread, of the armed timer expiring,
  and of a thread that has to deliver a wakeup. A blocked wait is not fair:
  only a token or a timeout must end it.
- `RemoveFdSync`: weak fairness of the reactor and of each caller; runs need
  neither begin nor end, and a spurious wakeup need not come.
- `Backends`: weak fairness of the reactor thread, which keeps calling `wait()`;
  strong fairness of a wait that gets to its completions, and of handling one:
  a wait may end early for a timeout or a signal, but not every time, because
  the wakeup that `add_fd` and `remove_fd` write is itself a completion.
- `Reactor`: weak fairness of the reactor thread, of the backend's half of a
  removal and of the reader's executor; strong fairness of a wait that gets to
  the kernel's events, since signals interrupt some waits but not every one.
- `SteadyTimer`: weak fairness of coroutines that were resumed, of stop callbacks
  and posted cancels under way and of expired timers; the clock need not move.
- `Strand`: weak fairness of a client that has to schedule, and of drains (the
  base executor runs what it was given and tasks return).
- `ThreadPool`: strong fairness of taking the mutex, which other threads hold
  again and again; weak fairness of everything done while holding it, of tasks
  returning and of notifications.
- `When`, `WithTimeout`: weak fairness of posted coroutines. An awaitable need not
  end by itself; one that was asked to stop does.
- `CoSpawn`: weak fairness of the executors and of the entry coroutine; the
  user's coroutines need not end.
- `ConditionEvent`, `Resolver`: weak fairness of the disjunction of what coroutines,
  calls in progress and the pool's worker can do: somebody inside the library runs
  as long as somebody can. That is weaker than fairness of each of them, and
  enough, because each of them has a bounded number of steps left.

## Proofs

The theorems hold for every value of the constants that satisfies the named
assumptions, with no bound on the number of steps. Those that name a property of
a run state it of the specification that the run checks.

| module | theorem | states |
|---|---|---|
| `FdRegistryProofs` | `RegistryInvariant` | `IInv` |
| | `RegistryTypeOK`, `RegistryCountExact`, `RegistryNoLostEdge`, `RegistryUntrackedIsClean`, `RegistryTokens` | its parts `TypeOK` (`active_count_` is never decremented below zero), `ActiveCountExact`, `NoWaiterOnLatchedSlot`, `UntrackedIsClean`, `TokenIdentifiesOp` |
| | `RegistryImplementsReactorOp` | `ImplementsReactorOp` |
| `TimerProofs` | `NodesInvariant`, `OnTimeInvariant`, `NoOversleepInvariant`, `TimersImplementReactorOp` | `NodesConsistent`, `OnTime`, `NoOversleep` and `ImplementsReactorOp` of `TimerRegistry` |
| | `TimersInvariant`, `TimersOnTimeInvariant`, `OnePendingInvariant`, `TimersImplement` | `TimersConsistent`, `TimersOnTime`, `OnePending`, `ImplementsReactorOp` of the run `timers` |
| `EventLoopProofs` | `QueueInvariant`, `TokenInvariant` | `QueueConsistent`, `WakeTokenUnique` |
| `ExecutorProofs` | `StrandInvariant`, `StrandIsExecutor` | `TasksConsistent` and `ImplementsExecutor` of `Strand` |
| | `PoolInvariant`, `PoolIsExecutor`, `PoolJoin` | `PoolConsistent`, `ImplementsExecutor` and `JoinRunsEverything` of `ThreadPool` |
| | `ExecutorsInvariant`, `ExecutorsRefine`, `JoinedRanEverything` | `ExecutorsConsistent`, `ExecutorsImplement`, `JoinRunsEverything` of the run `executors` |
| `AwaiterProofs` | `AwaitersInvariant`, `NotificationsInvariant`, `AwaitedResultInvariant` | `AwaitersConsistent`, `NotificationsConserved`, `AwaitedResult` |
| `CoroutineProofs` | `CoroutinesConsistentInvariant`, `CallResultsInvariant`, `LoserJoinedInvariant`, `ResultDeliveredInvariant`, `StopPassesInvariant` | `CoroutinesConsistent`, `CallResults`, `LoserJoined`, `ResultDelivered`, `StopPasses` |
| `SocketProofs` | `GuardsConsistentInvariant`, `NeverTakenAwayInvariant`, `CancelReachesWaitsInvariant`, `OperationsExcludeInvariant`, `CloseResetsInvariant` | `GuardsConsistent`, `NeverTakenAway`, `CancelReachesWaits`, `OperationsExclude`, `CloseResets` |

**Assumptions.** `FdAssumption`, `TimerAssumption`, `WaitAssumption`,
`LoopAssumption`, `StrandAssumption`, `PoolAssumption`, `EventAssumption`,
`WhenAssumption`, `TimeoutAssumption`, `StackAssumption`, `SocketAssumption` and
`WorkloadAssumption`, each in the module that declares the constants, and each
evaluated by TLC in a run. They say that bounds are natural numbers, that what
is counted is finite, that a null value is not one of the values it stands
beside, and what the code requires: a pool has a worker, a millisecond has a
tick, `when_any_cancel_join` takes two awaitables, `with_timeout` makes the timer
the second one, the operations of a socket are of its class.

**The argument.** Each module has an inductive invariant, one lemma per action
that preserves it (or per shared step, cited by the actions that take it), and
short lemmas from the invariant to the properties. Where a run joins independent
parts, each part is proved by itself and a step of one leaves the other alone.
None of the properties is inductive as it stands:

- `FdRegistry`: `IInv`. `TokenIdentifiesOp` needs `HandlesArePast`: a new
  registration gets `next_token_`, which no handle given out so far carries. The
  exact count needs that what `take_ready`, `cancel` and `deregister` subtract is
  what they empty; the lemma `TakeOut` says so. The refinement needs `HeldOnce`
  and `HeldUncalled`: an op in two slots would be called and stay armed, and one
  that had been called would be called twice.
- `TimerProofs`: `Registry` for `timer_registry` (types, the partition of the
  nodes, which op and token a node has, `NeverEarly` and `ExpiryOrder`) and
  `Timer` for `steady_timer`. The partition needs to know that a node about to be
  recycled is in neither container. `NeverEarly` needs it of the ops in the list
  that `process_expired` is about to call. `OnePending` needs to
  know where a handle that was taken is: with a caller, with a newer wait or
  posted to the reactor.
- `EventLoopProofs`: the posted queue is inductive once the batch under way is
  taken with it, because a throwing callback puts the rest of the batch back;
  the wake token once the threads between their compare-and-swap and their write
  are counted.
- `ExecutorProofs`: `NoStrandedTask` of the strand and `NoSleepOnWork` of the
  pool need `TaskInOnePlace`; the pool also `MutexHeld`, who holds the mutex
  where, and that `waiting_workers` is the number of workers inside `cv.wait`.
  The refinements map what waits and what has started to those of `Executor`.
- `AwaiterProofs`: `Waits` says where a waiter of a `condition_event` is listed
  and which call or callback completes it; `Accounted` is an account of the
  notifications: none is delivered that was not given, and while the event lives
  each is pending or goes with a wait of its own.
- `CoroutineProofs`: `Joining` for the `when_` calls says where runner and parent
  are, what the winner has published, and what the parent has read; that a
  resumed parent finds the result comes from the winner being past `complete()`
  when `resumes` is 1. `TimeoutRuns` adds who asked the timer to stop. `Spawns`
  says of the stack which coroutine is bound where and which callbacks chain
  the stop sources.
- `SocketProofs`: `SocketInv` is `Guards` (the in-flight count is the number of
  guards, and a resource is not let go of before they have left), `Reached` (a
  wait that is not finished is in its slot, or whoever took it from there is about
  to cancel it) and `Owns` (one operation of each kind, and what is closed is as
  new).

**Only model-checked.** Liveness under fairness, `ENABLED`, and what a recursive
definition computes for every input are outside what the installed provers can
do: `EveryTimerOrWaitEnds`, `NotifiedPostRuns`, `TimerNotStarved`,
`ReactorServes`, `AcceptedTasksRun`, `WorkersExit`, `CallsReturn` and `AwaitsEnd`
stay with TLC. Not proved so far are `StreamsExact`, `ErasedLifetimes`,
`EndpointsSurvive`, and the safety properties of the run `reactor`:
`ReactorConsistent`, `EventReachesItsFile`, `NoEdgeLost` and
`ReturnMeansRemoved`.

## Where code and documentation disagree

Four runs expect a violation: the property states what the repository says, and
the counterexample is a behaviour of the code.

1. **A post can be left behind a blocked reactor** (`event_loop_lost_post`).
   `process_events` calls `prepare_wait` after `run()` has looked at the posted
   queue for the last time. A post that comes in between finds the wake state
   `running` and writes no wakeup; the reactor then blocks with the callback
   queued until something else wakes it. `io_context.hpp:31` says that `post()`
   is safe from any thread, and `detail/io_context_impl.hpp:103` that the
   callback "executes on the next event-loop iteration". What does hold is
   `NotifiedPostRuns`: a post that finds the window open is run.
2. **Two tasks of a strand can run at once** (`strand_concurrent`). `pop_one`
   finds the queue empty and clears `active`; a post then schedules a second
   drain; the first drain goes on to `should_schedule_drain`, finds that task
   and schedules a third. `strand.hpp:18` says that tasks "are never executed
   concurrently with each other". What does hold is `TaskInOnePlace`: no task
   is run twice or lost.
3. **A wait can be registered with an expiry that was replaced**
   (`timers_stale_expiry`). `async_wait` copies the expiry under the mutex,
   releases it, and `register_timer` takes it again. An `expires_at` in between
   finds no handle to cancel, and the timer of the old expiry is registered.
   The comment at `steady_timer.hpp:82` says that taking the snapshot on the
   reactor thread avoids this. What does hold is `OnePending`: a later call
   finds that wait's handle.
4. **An edge can be dropped before `track()` has run** (`reactor_untracked`).
   `add_fd` on a foreign thread makes the descriptor known to epoll and posts
   `track()`. An edge in between meets an untracked slot, which `take_ready`
   ignores; a reader that has already found nothing to read then waits for an
   edge that was used up. `detail/fd_registry.hpp:115` says that readiness before
   the waiter is latched. What does hold is `ReadinessKeptIfTracked`.

Two more disagreements have no run of their own. In the first the behaviour is
part of a property's statement; in the second the documentation says less than
the code keeps.

5. **`when_any` may return before it has a result** (`FirstResult`). A runner
   counts itself as done (`try_complete`) before it publishes. A parent on
   another thread that sees `is_done()` in `await_ready` or at the start of
   `await_suspend` does not suspend, and may collect in between. For a vector of
   tasks without values (`when_any.hpp:211`) it then returns the initial
   `completed_index` 0 as a success, although another task may have won, or the
   winner may have thrown and its exception is dropped; the list overload takes
   `std::get<1>` of a variant that still holds `monostate` (`when_any.hpp:79`) and
   throws `bad_variant_access` before it gets to its `IOCORO_ENSURE`; the others
   end in an `IOCORO_ENSURE`. The documentation of `when_any` says that it
   "Returns the index and value of the first completed task" and that if "the
   first task throws, when_any rethrows the exception". `FirstResult` says that
   this is the only exception: the result is the winner's whenever all run on
   one thread or the parent was resumed by `complete()`.
6. **A comment on `close()` is stale.** `detail/socket/stream_socket_impl.hpp:127`
   says that pending operations "may still be accessing the fd when it is closed"
   and that this "can result in operations receiving EBADF". But
   `close()` only lets go of its reference: the descriptor stays open while an
   operation holds its `fd_resource` (`fd_resource.hpp:19`), and `NeverTakenAway`
   shows that no operation waits or makes a call on a closed descriptor.

## Properties with a condition

These hold only with the condition that is part of their statement. Each
condition is a behaviour of the code, and without it TLC finds a
counterexample.

| property | condition |
|---|---|
| `ReturnMeansRemoved` | not when the loop ended and a later run has just claimed the removal |
| `SleeperWoken` | about callers already asleep: the notification does not take the mutex |
| `WorkersExit` | no guard was ever taken: the last one is dropped and notified without the mutex |
| `LeavesDrained` | without the guard count of the assertion in `worker_loop` |
| `FirstResult` | one thread, or a parent that `complete()` resumed: otherwise there may be no result yet, since the winner counts itself done before it publishes. Then the call returns index 0 (vector without values), throws `bad_variant_access` (list) or aborts |
| `ResultIsCompletion`, `NoSpuriousWakeup` | coroutines on one thread: `did_suspend` is stored after the resumption may have been posted |
| `NotificationsConserved` | one notification may be lost with each wait that a stop request ended |
| `CloseResets` | no success was stored after the close began |
| `CancelReachesWaits` | `cancel()` only reaches waits whose handle is stored |
| `NoSharedSlot` | not on a resource that is closing |
| `EventsMatchFile` | epoll only: io_uring may report one event of the previous file |
| `OneRequest` | the generation fits the 30 bits of `pack_fd` |
| `PollFollowsFile`, `AddedIsWatched` | the same, and no flush submitted a removal ahead of the add it cancels |
| `ReadinessKeptIfTracked`, `ReaderServed` | no event came before the posted `track()` had run |
| `DispatchMatchesFile` | no interrupted wait left old events in the vector: after `EINTR` they are dispatched again |
| `NoOversleep`, `EveryTimerEnds` | no timeout exceeded the `int` of `epoll_wait` |
| `FrameAlive`, the last part of `ResolvedOnce` | coroutines on one thread: elsewhere a coroutine may go on, and free its frame, before `await_suspend` has returned |
| `RunsWhereBound` | not after `on()`, nor for a coroutine started or resumed by one that was elsewhere |
| `Returns` (resolver) | the pool accepted the job or a stop is requested: a stopped pool drops it, and the lookup never returns |
| `TimerNotStarved` | not inside the failure handler, whose drain loop has no bound |
| `NotifiedPostRuns` | unless the write to the eventfd fails |
| `RunsInOrder` | no callback threw: the rest of its batch goes behind what was posted meanwhile (it takes three tasks to see this) |

## What is not modelled

- **Memory reclamation and coroutine frames.** Lifetimes appear where the code
  counts or ends them by hand (`fd_resource`, guards, the type-erased holders,
  the frame during `await_suspend`); frames are otherwise not reclaimed.
- **The C++ memory model.** Atomics are sequentially consistent here. A data race
  on plain fields (`first_ep` in `when_any_cancel_join`, a registry touched by
  `remove_fd` on a foreign thread) is not given torn values.
- **Widths**, except the generation of `pack_fd`, the `int` of `epoll_wait` and
  ports.
- **Data**: options, error codes beyond those the code tells apart, and the digits
  of addresses, which libc converts. bind and the socket options change no state
  of the stream socket or the acceptor.
- **Resource exhaustion**: a ring without free entries, failing allocations, the
  growth of tables. A system call may fail where the code handles it.
- **Races without a property.** The models of `Sockets` and `RemoveFdSync` contain
  a `listen` that falls inside `open`, two binds that both pass the check, an
  `assign` that replaces the resource of another, and a caller that removes its
  descriptor on its own thread while a run begins; no promise is stated about
  them, because the documentation makes none.
- **`Reactor` with io_uring**: `UringBackend` is checked by itself; under
  `io_context_impl` only the edge-triggered backend is, whose events are not
  repeated.
- **Parts that stay out.** The public facades forward to the implementation
  classes; buffers, results, error codes, socket options and protocol tags are
  values without a protocol; moving a `condition_event` moves a pointer.

## Plan

The parts of the library with a protocol have a module, and seven of the eight
passing runs have proofs of some of their invariants. What is left to prove: the
invariants of the run `reactor`, beginning with `ReturnMeansRemoved` of
`RemoveFdSync`, then `DispatchMatchesFile` and `ReadinessKeptIfTracked` of
`Reactor`, and `OneRequest` of `UringBackend`, whose inductive invariant has to
follow a request through five places; and `DestroyedOnce` of `TypeErasure`.

## Running it

    tlc -workers 2 -config MCEventLoop.cfg MCEventLoop      # any run
    tlapm SocketProofs.tla                                  # the proofs of one module

The passing runs take half a minute (`sequential`) to three minutes (`timers`);
those that expect a violation take seconds. From nothing the proofs take one to
six minutes per module, `TimerProofs` and `SocketProofs` a quarter of an hour and
more.
