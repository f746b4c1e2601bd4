------------------------------- MODULE Strand -------------------------------
(***************************************************************************)
(* strand.hpp: tasks posted to a strand_executor over a base executor with *)
(* several threads.  The base executor is a bag of scheduled drains that   *)
(* its workers take in any order (what strand.hpp needs of base.post).     *)
(* One step is one critical section of state::m or one base.post; a task   *)
(* is running from the pop that takes it to its return.                    *)
(*                                                                         *)
(* dispatch() differs from post() only on a thread that already runs the   *)
(* strand, where it is an inline call and so part of the running task.  A  *)
(* task that posts to its own strand is a client whose steps fall between  *)
(* the pop and the return of the task.                                     *)
(***************************************************************************)
EXTENDS Naturals, Sequences, FiniteSets

CONSTANTS Workers,   \* threads of the base executor
          Clients,   \* threads that post
          Tasks,     \* each posted at most once
          NoTask,
          MaxDrain   \* max_drain_per_tick

ASSUME StrandAssumption == /\ IsFiniteSet(Workers) /\ IsFiniteSet(Clients)
                           /\ NoTask \notin Tasks
                           /\ MaxDrain \in Nat \ {0}

VARIABLES
  tasks,     \* state::tasks
  active,    \* state::active
  scheduled, \* number of drains in the queue of the base executor
  wpc,       \* worker -> "idle", "pop", "run", "check", "resched"
  running,   \* worker -> the task it runs
  n,         \* worker -> tasks run in this drain
  cpc,       \* client -> "idle", "schedule"
  posted, finished \* histories: tasks ever enqueued / returned

vars == <<tasks, active, scheduled, wpc, running, n, cpc, posted, finished>>

Init == /\ tasks = <<>> /\ active = FALSE /\ scheduled = 0
        /\ wpc = [w \in Workers |-> "idle"]
        /\ running = [w \in Workers |-> NoTask]
        /\ n = [w \in Workers |-> 0]
        /\ cpc = [c \in Clients |-> "idle"]
        /\ posted = {} /\ finished = {}

-----------------------------------------------------------------------------
\* enqueue, under the lock; the caller schedules a drain if none was active.
Post(c, f) ==
  /\ cpc[c] = "idle" /\ f \notin posted
  /\ tasks' = Append(tasks, f) /\ active' = TRUE
  /\ posted' = posted \cup {f}
  /\ cpc' = [cpc EXCEPT ![c] = IF active THEN "idle" ELSE "schedule"]
  /\ UNCHANGED <<scheduled, wpc, running, n, finished>>

\* base.post of the drain.
Schedule(c) ==
  /\ cpc[c] = "schedule"
  /\ cpc' = [cpc EXCEPT ![c] = "idle"]
  /\ scheduled' = scheduled + 1
  /\ UNCHANGED <<tasks, active, wpc, running, n, posted, finished>>

-----------------------------------------------------------------------------
\* drain: a worker of the base executor takes it up.
StartDrain(w) ==
  /\ wpc[w] = "idle" /\ scheduled > 0
  /\ scheduled' = scheduled - 1
  /\ wpc' = [wpc EXCEPT ![w] = "pop"]
  /\ n' = [n EXCEPT ![w] = 0]
  /\ UNCHANGED <<tasks, active, running, cpc, posted, finished>>

\* pop_one, unless the loop has run max_drain_per_tick tasks.
LimitReached(w) == n[w] = MaxDrain
PopBack == SubSeq(tasks, 1, Len(tasks) - 1)
PopRest == Tail(tasks)

PopTask(w) ==
  /\ wpc[w] = "pop" /\ ~LimitReached(w) /\ tasks # <<>>
  /\ running' = [running EXCEPT ![w] = Head(tasks)]
  /\ tasks' = PopRest
  /\ wpc' = [wpc EXCEPT ![w] = "run"]
  /\ UNCHANGED <<active, scheduled, n, cpc, posted, finished>>

PopNothing(w) ==
  /\ wpc[w] = "pop" /\ ~LimitReached(w) /\ tasks = <<>>
  /\ active' = FALSE
  /\ wpc' = [wpc EXCEPT ![w] = "check"]
  /\ UNCHANGED <<tasks, scheduled, running, n, cpc, posted, finished>>

PopLimit(w) ==
  /\ wpc[w] = "pop" /\ LimitReached(w)
  /\ wpc' = [wpc EXCEPT ![w] = "check"]
  /\ UNCHANGED <<tasks, active, scheduled, running, n, cpc, posted, finished>>

TaskReturns(w) ==
  /\ wpc[w] = "run"
  /\ finished' = finished \cup {running[w]}
  /\ running' = [running EXCEPT ![w] = NoTask]
  /\ n' = [n EXCEPT ![w] = @ + 1]
  /\ wpc' = [wpc EXCEPT ![w] = "pop"]
  /\ UNCHANGED <<tasks, active, scheduled, cpc, posted>>

\* The catch block makes the same check, then the exception leaves drain.
ThrowLeaves(w) == "idle"
ThrowChecks(w) == "check"

TaskThrows(w) ==
  /\ wpc[w] = "run"
  /\ finished' = finished \cup {running[w]}
  /\ running' = [running EXCEPT ![w] = NoTask]
  /\ wpc' = [wpc EXCEPT ![w] = ThrowChecks(w)]
  /\ UNCHANGED <<tasks, active, scheduled, n, cpc, posted>>

\* should_schedule_drain, then base.post of another drain.
CheckEmpty(w) ==
  /\ wpc[w] = "check" /\ tasks = <<>>
  /\ active' = FALSE
  /\ wpc' = [wpc EXCEPT ![w] = "idle"]
  /\ UNCHANGED <<tasks, scheduled, running, n, cpc, posted, finished>>

NeverAgain(w) == "idle"
Again(w) == "resched"

CheckMore(w) ==
  /\ wpc[w] = "check" /\ tasks # <<>>
  /\ wpc' = [wpc EXCEPT ![w] = Again(w)]
  /\ UNCHANGED <<tasks, active, scheduled, running, n, cpc, posted, finished>>

Reschedule(w) ==
  /\ wpc[w] = "resched"
  /\ scheduled' = scheduled + 1
  /\ wpc' = [wpc EXCEPT ![w] = "idle"]
  /\ UNCHANGED <<tasks, active, running, n, cpc, posted, finished>>

Drain(w) == \/ StartDrain(w) \/ PopTask(w) \/ PopNothing(w) \/ PopLimit(w) \/ TaskReturns(w)
            \/ CheckEmpty(w) \/ CheckMore(w) \/ Reschedule(w)

Next == \/ \E c \in Clients : Schedule(c) \/ \E f \in Tasks : Post(c, f)
        \/ \E w \in Workers : Drain(w) \/ TaskThrows(w)

\* The base executor runs what it was given, and tasks return.
Fairness == /\ \A c \in Clients : WF_vars(Schedule(c))
            /\ \A w \in Workers : WF_vars(Drain(w))

Spec == Init /\ [][Next]_vars
FairSpec == Spec /\ Fairness

-----------------------------------------------------------------------------
\* Every variable stays in its range.
TypeOK == /\ tasks \in Seq(Tasks) /\ active \in BOOLEAN /\ scheduled \in Nat
          /\ wpc \in [Workers -> {"idle", "pop", "run", "check", "resched"}]
          /\ running \in [Workers -> Tasks \cup {NoTask}]
          /\ n \in [Workers -> 0..MaxDrain]
          /\ cpc \in [Clients -> {"idle", "schedule"}]
          /\ posted \subseteq Tasks /\ finished \subseteq Tasks

\* The drains that exist: to be scheduled, scheduled or running.
Draining == \/ scheduled > 0
            \/ \E c \in Clients : cpc[c] = "schedule"
            \/ \E w \in Workers : wpc[w] # "idle"

\* A queued task always has a drain that will see it: tasks wait only while
\* active is set, and active is never left set without a drain, not when one
\* finds the queue empty, not when one gives way after max_drain_per_tick tasks,
\* and not when its task threw.
NoStrandedTask == (tasks # <<>> => active) /\ (active => Draining)

\* A posted task is in one place: in the queue once, with one worker, or
\* returned, however many drains there are.
InProgress == {running[w] : w \in Workers} \ {NoTask}
Queued == {tasks[i] : i \in DOMAIN tasks}
TaskInOnePlace ==
  /\ posted = Queued \cup InProgress \cup finished
  /\ Queued \cap InProgress = {} /\ finished \cap (Queued \cup InProgress) = {}
  /\ \A i, j \in DOMAIN tasks : tasks[i] = tasks[j] => i = j
  /\ \A v, w \in Workers : running[v] # NoTask /\ running[v] = running[w] => v = w

\* A worker has a task while it is in the call of it, and a drain makes that
\* call at most max_drain_per_tick times.
WorkerHasTask == \A w \in Workers : /\ wpc[w] = "run" <=> running[w] # NoTask
                                    /\ wpc[w] = "run" => n[w] < MaxDrain

\* The bookkeeping of the strand: types, no task without a drain, and each in
\* one place.
TasksConsistent == TypeOK /\ NoStrandedTask /\ TaskInOnePlace /\ WorkerHasTask

\* The strand is an executor: tasks start in the order they were posted, no two
\* drains take the same task, and none loses one.
EX == INSTANCE Executor WITH line <- tasks, started <- InProgress, ended <- finished
ImplementsExecutor == EX!Spec

\* Every posted task runs to its end.
EveryTaskRuns == \A f \in Tasks : f \in posted ~> f \in finished

\* "tasks submitted through the strand are never executed concurrently with
\* each other, even if the underlying executor is multi-threaded".
NeverConcurrent == \A v, w \in Workers : wpc[v] = "run" /\ wpc[w] = "run" => v = w
=============================================================================
