----------------------------- MODULE ThreadPool -----------------------------
(***************************************************************************)
(* thread_pool.hpp and impl/thread_pool.ipp: workers on one condition      *)
(* variable, clients that post and hold work guards, one thread that stops *)
(* and joins the pool.                                                     *)
(*                                                                         *)
(* A critical section of cv_mutex is one step, except in the worker loop:  *)
(* the predicate of cv.wait reads the guard counter, which changes without *)
(* the mutex, so evaluating the predicate is one step, and falling asleep  *)
(* or leaving the loop on its outcome another, the mutex held in between.  *)
(*                                                                         *)
(* dispatch() on a worker is an inline call, elsewhere it is post().  What *)
(* a task does (post, take a guard) is done by a client while the task     *)
(* runs; an exception is swallowed by the worker and ends the task.        *)
(***************************************************************************)
EXTENDS Naturals, Sequences, FiniteSets

CONSTANTS Workers, Clients, Tasks, NoTask,
          MaxGuards   \* bound: work guards alive at once

VARIABLES
  state,    \* "running", "draining" or "stopped"
  queue,
  waiting,  \* waiting_workers
  guards,   \* work_guard.count()
  owner,    \* the workers that hold cv_mutex across a step: at most one
  wpc,      \* worker -> "top", "blocking", "asleep", "woken", "run", "leaving", "done"
  running,  \* worker -> its task
  cpc,      \* client -> "idle", "notify_one", "notify_all"
  jpc,      \* the joining thread: "idle", "notify", "join", "returned"
  accepted, finished, \* histories: tasks the pool took / that returned
  guarded   \* history: a work guard was taken

vars == <<state, queue, waiting, guards, owner, wpc, running, cpc, jpc, accepted, finished, guarded>>

Init == /\ state = "running" /\ queue = <<>> /\ waiting = 0 /\ guards = 0 /\ owner = {}
        /\ wpc = [w \in Workers |-> "top"]
        /\ running = [w \in Workers |-> NoTask]
        /\ cpc = [c \in Clients |-> "idle"]
        /\ jpc = "idle" /\ accepted = {} /\ finished = {} /\ guarded = FALSE

-----------------------------------------------------------------------------
\* The cv predicate of worker_loop.
Ready == queue # <<>> \/ (state = "draining" /\ guards = 0)

\* notify_one and notify_all wake workers that are asleep now, and no others.
Asleep == {w \in Workers : wpc[w] = "asleep"}
WakeOne == \/ Asleep = {} /\ UNCHANGED wpc
           \/ \E w \in Asleep : wpc' = [wpc EXCEPT ![w] = "woken"]
WakeAll == wpc' = [w \in Workers |-> IF wpc[w] = "asleep" THEN "woken" ELSE wpc[w]]

\* The predicate has been evaluated: take a task, go on to leave the loop, or
\* go on to sleep.
Proceed(w) ==
  \/ /\ queue # <<>>
     /\ running' = [running EXCEPT ![w] = Head(queue)]
     /\ queue' = Tail(queue)
     /\ wpc' = [wpc EXCEPT ![w] = "run"]
     /\ UNCHANGED owner
  \/ /\ queue = <<>>
     /\ wpc' = [wpc EXCEPT ![w] = IF Ready THEN "leaving" ELSE "blocking"]
     /\ owner' = {w}
     /\ UNCHANGED <<running, queue>>

\* waiting_workers goes up for cv.wait and down when it returns.
CountWoken(w) == waiting - 1
CountReturn(w) == IF Ready THEN waiting - 1 ELSE waiting

\* The top of the loop: lock, evaluate the predicate.
Lock(w) ==
  /\ wpc[w] = "top" /\ owner = {}
  /\ waiting' = IF Ready THEN waiting ELSE waiting + 1
  /\ Proceed(w)
  /\ UNCHANGED <<state, guards, cpc, jpc, accepted, finished, guarded>>

\* cv.wait releases the mutex and sleeps, in one step.
Sleep(w) ==
  /\ wpc[w] = "blocking"
  /\ wpc' = [wpc EXCEPT ![w] = "asleep"]
  /\ owner' = {}
  /\ UNCHANGED <<state, queue, waiting, guards, running, cpc, jpc, accepted, finished, guarded>>

\* cv.wait may also wake without a notification.
WakeSpuriously(w) ==
  /\ wpc[w] = "asleep"
  /\ wpc' = [wpc EXCEPT ![w] = "woken"]
  /\ UNCHANGED <<state, queue, waiting, guards, owner, running, cpc, jpc, accepted, finished, guarded>>

\* A woken worker locks again and evaluates the predicate again.
Relock(w) ==
  /\ wpc[w] = "woken" /\ owner = {}
  /\ waiting' = CountReturn(w)
  /\ Proceed(w)
  /\ UNCHANGED <<state, guards, cpc, jpc, accepted, finished, guarded>>

\* "if (state->queue.empty()) break".
Exit(w) ==
  /\ wpc[w] = "leaving"
  /\ wpc' = [wpc EXCEPT ![w] = "done"]
  /\ owner' = {}
  /\ UNCHANGED <<state, queue, waiting, guards, running, cpc, jpc, accepted, finished, guarded>>

\* The task returns or throws.
EndTask(w) ==
  /\ wpc[w] = "run"
  /\ wpc' = [wpc EXCEPT ![w] = "top"]
  /\ running' = [running EXCEPT ![w] = NoTask]
  /\ finished' = finished \cup {running[w]}
  /\ UNCHANGED <<state, queue, waiting, guards, owner, cpc, jpc, accepted, guarded>>

-----------------------------------------------------------------------------
\* executor_type::post: refused unless the pool is running; the notification
\* is decided under the mutex and sent after it.
AcceptAlways == TRUE
Accepts == state = "running"
NotifyBusy == waiting = 0
ShouldNotify == waiting > 0

Post(c, f) ==
  /\ cpc[c] = "idle" /\ owner = {} /\ f \notin accepted
  /\ Accepts
  /\ queue' = Append(queue, f)
  /\ accepted' = accepted \cup {f}
  /\ cpc' = [cpc EXCEPT ![c] = IF ShouldNotify THEN "notify_one" ELSE "idle"]
  /\ UNCHANGED <<state, waiting, guards, owner, wpc, running, jpc, finished, guarded>>

NotifyOne(c) ==
  /\ cpc[c] = "notify_one"
  /\ cpc' = [cpc EXCEPT ![c] = "idle"]
  /\ WakeOne
  /\ UNCHANGED <<state, queue, waiting, guards, owner, running, jpc, accepted, finished, guarded>>

\* Work guards: an atomic counter, and a notification without the mutex.
AddGuard(c) ==
  /\ cpc[c] = "idle" /\ guards < MaxGuards
  /\ guards' = guards + 1 /\ guarded' = TRUE
  /\ UNCHANGED <<state, queue, waiting, owner, wpc, running, cpc, jpc, accepted, finished>>

RemoveGuard(c) ==
  /\ cpc[c] = "idle" /\ guards > 0
  /\ guards' = guards - 1
  /\ cpc' = [cpc EXCEPT ![c] = IF guards = 1 THEN "notify_all" ELSE "idle"]
  /\ UNCHANGED <<state, queue, waiting, owner, wpc, running, jpc, accepted, finished, guarded>>

NotifyAll(c) ==
  /\ cpc[c] = "notify_all"
  /\ cpc' = [cpc EXCEPT ![c] = "idle"]
  /\ WakeAll
  /\ UNCHANGED <<state, queue, waiting, guards, owner, running, jpc, accepted, finished, guarded>>

-----------------------------------------------------------------------------
\* stop(), which join() calls first.
Stop ==
  /\ jpc = "idle" /\ owner = {}
  /\ state' = "draining"
  /\ jpc' = "notify"
  /\ UNCHANGED <<queue, waiting, guards, owner, wpc, running, cpc, accepted, finished, guarded>>

StopNotifies ==
  /\ jpc = "notify"
  /\ WakeAll
  /\ jpc' = "join"
  /\ UNCHANGED <<state, queue, waiting, guards, owner, running, cpc, accepted, finished, guarded>>

\* All threads are joined.
JoinReturns ==
  /\ jpc = "join" /\ owner = {}
  /\ \A w \in Workers : wpc[w] = "done"
  /\ state' = "stopped"
  /\ jpc' = "returned"
  /\ UNCHANGED <<queue, waiting, guards, owner, wpc, running, cpc, accepted, finished, guarded>>

Worker(w) == Lock(w) \/ Sleep(w) \/ WakeSpuriously(w) \/ Relock(w) \/ Exit(w) \/ EndTask(w)

Next == \/ \E w \in Workers : Worker(w)
        \/ \E c \in Clients : \/ NotifyOne(c) \/ NotifyAll(c) \/ AddGuard(c) \/ RemoveGuard(c)
                              \/ \E f \in Tasks : Post(c, f)
        \/ Stop \/ StopNotifies \/ JoinReturns

\* Threads keep running, the mutex is handed to every thread that waits for it
\* often enough, and tasks return.  Nothing is sure to wake a sleeping worker
\* but a notification, and nobody is obliged to post or to drop a guard.
Fairness == /\ \A w \in Workers : SF_vars(Lock(w) \/ Relock(w)) /\ WF_vars(Sleep(w) \/ Exit(w) \/ EndTask(w))
            /\ \A c \in Clients : WF_vars(NotifyOne(c) \/ NotifyAll(c))
            /\ WF_vars(StopNotifies) /\ SF_vars(JoinReturns)

Spec == Init /\ [][Next]_vars
FairSpec == Spec /\ Fairness

-----------------------------------------------------------------------------
\* Every variable stays in its range.
TypeOK == /\ state \in {"running", "draining", "stopped"}
          /\ queue \in Seq(Tasks) /\ waiting \in Nat /\ guards \in 0..MaxGuards
          /\ owner \in SUBSET Workers /\ Cardinality(owner) <= 1
          /\ wpc \in [Workers -> {"top", "blocking", "asleep", "woken", "run", "leaving", "done"}]
          /\ running \in [Workers -> Tasks \cup {NoTask}]
          /\ cpc \in [Clients -> {"idle", "notify_one", "notify_all"}]
          /\ jpc \in {"idle", "notify", "join", "returned"}
          /\ accepted \subseteq Tasks /\ finished \subseteq Tasks /\ guarded \in BOOLEAN

\* waiting_workers counts the workers inside cv.wait, those that were notified
\* and have not locked the mutex yet included.
WaitingExact ==
  waiting = Cardinality({w \in Workers : wpc[w] \in {"blocking", "asleep", "woken"}})

\* A task is never left in the queue with every worker asleep and no
\* notification on its way, however posts, wakeups and running tasks
\* interleave.
NoSleepOnWork ==
  queue # <<>> => \/ \E w \in Workers : wpc[w] \in {"top", "woken", "run"}
                  \/ \E c \in Clients : cpc[c] = "notify_one"

\* A worker leaves only while the pool is draining, and with its queue empty,
\* as the assertion in worker_loop has it.  (The count of guards that the
\* assertion also names may have risen again since the predicate.)
LeavesDrained ==
  \A w \in Workers : wpc[w] \in {"leaving", "done"} => state # "running" /\ queue = <<>>

\* cv_mutex is held across a step by one worker, which has just evaluated the
\* predicate; nothing was queued since.
MutexHeld ==
  /\ \A w \in Workers : w \in owner <=> wpc[w] \in {"blocking", "leaving"}
  /\ \A v, w \in owner : v = w
  /\ owner # {} => queue = <<>>

\* A task the pool took is in one place: in the queue once, with one worker, or
\* returned; and a worker has one while it is in the call of it.
Queued == {queue[i] : i \in DOMAIN queue}
InProgress == {running[w] : w \in Workers} \ {NoTask}
TaskInOnePlace ==
  /\ accepted = Queued \cup InProgress \cup finished
  /\ Queued \cap InProgress = {} /\ finished \cap (Queued \cup InProgress) = {}
  /\ \A i, j \in DOMAIN queue : queue[i] = queue[j] => i = j
  /\ \A v, w \in Workers : running[v] # NoTask /\ running[v] = running[w] => v = w
  /\ \A w \in Workers : wpc[w] = "run" <=> running[w] # NoTask

\* join() returns after every worker has left.
JoinedAll == jpc = "returned" => \A w \in Workers : wpc[w] = "done"

\* The bookkeeping of the pool: types and what is above.
PoolConsistent == /\ TypeOK /\ WaitingExact /\ NoSleepOnWork /\ LeavesDrained
                  /\ MutexHeld /\ TaskInOnePlace /\ JoinedAll

\* "Prevents new tasks from being posted", and lets the accepted ones run: once
\* join() has returned, every task the pool accepted has been run.
JoinRunsEverything == jpc = "returned" => queue = <<>> /\ finished = accepted

\* Every task the pool accepted is run, whether stop() comes or not and
\* whatever guards are taken and dropped.
AcceptedTaskRuns == \A f \in Tasks : f \in accepted ~> f \in finished

\* The pool is an executor: what it accepts starts in the order it was accepted
\* and runs once.
EX == INSTANCE Executor WITH line <- queue, started <- InProgress, ended <- finished
ImplementsExecutor == EX!Spec

\* Workers exit once the pool is stopped and its queue empty, and join()
\* returns, if no work guard was ever taken.  (The last guard is dropped and
\* notified without the mutex, between the predicate and the sleep of a worker
\* if it so happens, and then join() need not return.)
WorkersExit == (jpc = "join" /\ ~guarded) ~> (jpc = "returned" \/ guarded)
=============================================================================
