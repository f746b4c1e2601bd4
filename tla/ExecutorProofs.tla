--------------------------- MODULE ExecutorProofs ---------------------------
(***************************************************************************)
(* The strand and the thread pool for every number of threads and tasks:   *)
(* the bookkeeping of each is an invariant, each implements Executor, and  *)
(* so do the two beside each other.  The first part is about task queues   *)
(* in general and serves both.                                             *)
(***************************************************************************)
EXTENDS MCExecutors, TLAPS

-----------------------------------------------------------------------------
\* What the two queues need of sequences: the elements of one, and that none
\* occurs twice.
Elems(s) == {s[i] : i \in DOMAIN s}
OneEach(s) == \A i, j \in DOMAIN s : s[i] = s[j] => i = j

USE Zenon

\* push_back adds one element.
LEMMA AppendElems ==
  ASSUME NEW S, NEW s \in Seq(S), NEW f \in S
  PROVE  /\ Append(s, f) \in Seq(S)
         /\ Elems(Append(s, f)) = Elems(s) \cup {f}
         /\ OneEach(s) /\ f \notin Elems(s) => OneEach(Append(s, f))
<1> DEFINE t == Append(s, f)
<1>1. /\ t \in Seq(S) /\ Len(t) = Len(s) + 1 /\ DOMAIN t = 1..Len(t) /\ DOMAIN s = 1..Len(s)
      /\ Len(s) \in Nat /\ t[Len(t)] = f
      /\ \A i \in 1..Len(s) : t[i] = s[i]
  BY SMT
<1> HIDE DEF t
<1>2. \A i \in DOMAIN t : i \in DOMAIN s \/ i = Len(t) BY <1>1, SMT
<1>3. DOMAIN s \subseteq DOMAIN t /\ Len(t) \in DOMAIN t BY <1>1, SMT
<1>4. Elems(t) = Elems(s) \cup {f} BY <1>1, <1>2, <1>3 DEF Elems
<1>5. OneEach(s) /\ f \notin Elems(s) => OneEach(t) BY <1>1, <1>2 DEF Elems, OneEach
<1> QED BY <1>1, <1>4, <1>5 DEF t

\* front and pop_front split the elements.
LEMMA TailElems ==
  ASSUME NEW S, NEW s \in Seq(S), s # <<>>
  PROVE  /\ Tail(s) \in Seq(S) /\ Head(s) \in S
         /\ Elems(s) = Elems(Tail(s)) \cup {Head(s)}
         /\ OneEach(s) => OneEach(Tail(s)) /\ Head(s) \notin Elems(Tail(s))
<1> DEFINE t == Tail(s)
<1>1. /\ t \in Seq(S) /\ Len(t) = Len(s) - 1 /\ DOMAIN t = 1..Len(t) /\ DOMAIN s = 1..Len(s)
      /\ Len(s) \in Nat /\ Len(s) > 0 /\ Head(s) = s[1]
      /\ \A i \in 1..Len(t) : t[i] = s[i + 1]
  BY SMT
<1> HIDE DEF t
<1>2. \A i \in DOMAIN t : i + 1 \in DOMAIN s /\ t[i] = s[i + 1] BY <1>1, SMT
<1>3. \A i \in DOMAIN s : i = 1 \/ (i - 1 \in DOMAIN t /\ s[i] = t[i - 1]) BY <1>1, SMT
<1>4. 1 \in DOMAIN s BY <1>1, SMT
<1>5. Elems(s) = Elems(t) \cup {Head(s)} BY <1>1, <1>2, <1>3, <1>4, SMT DEF Elems
<1>6. ASSUME OneEach(s) PROVE OneEach(t) /\ Head(s) \notin Elems(t)
  <2>1. OneEach(t) BY <1>1, <1>2, <1>6, SMT DEF OneEach
  <2>2. Head(s) \notin Elems(t) BY <1>1, <1>2, <1>4, <1>6, SMT DEF OneEach, Elems
  <2> QED BY <2>1, <2>2
<1>7. Head(s) \in S BY <1>1, <1>4, SMT
<1> QED BY <1>1, <1>5, <1>6, <1>7 DEF t

-----------------------------------------------------------------------------
\* The tasks that workers hold, and where the tasks of an executor are: queue
\* q, workers r, ended d, and a all that were taken.  TaskInOnePlace of either
\* module is this.
Held(r) == {r[w] : w \in Workers} \ {NoTask}
OneHolder(r) == \A v, w \in Workers : r[v] # NoTask /\ r[v] = r[w] => v = w
OnePlace(q, r, d, a) ==
  /\ a = Elems(q) \cup Held(r) \cup d
  /\ Elems(q) \cap Held(r) = {} /\ d \cap (Elems(q) \cup Held(r)) = {}
  /\ OneEach(q) /\ OneHolder(r)

Typed(q, r, T) == NoTask \notin T /\ q \in Seq(T) /\ r \in [Workers -> T \cup {NoTask}]

\* A task that was not taken before goes to the end of the queue.
LEMMA QueueTask ==
  ASSUME NEW T, NEW q, NEW r, Typed(q, r, T), NEW d, NEW a, OnePlace(q, r, d, a),
         NEW f \in T, f \notin a
  PROVE  Typed(Append(q, f), r, T) /\ OnePlace(Append(q, f), r, d, a \cup {f})
<1>1. /\ Append(q, f) \in Seq(T)
      /\ Elems(Append(q, f)) = Elems(q) \cup {f}
      /\ OneEach(q) /\ f \notin Elems(q) => OneEach(Append(q, f))
  BY AppendElems DEF Typed
<1> QED BY <1>1 DEF OnePlace, Typed

\* A worker without a task takes the first one.
LEMMA TakeTask ==
  ASSUME NEW T, NEW q, NEW r, Typed(q, r, T), NEW d, NEW a, OnePlace(q, r, d, a),
         NEW w \in Workers, q # <<>>, r[w] = NoTask
  PROVE  LET r2 == [r EXCEPT ![w] = Head(q)]
         IN  /\ Typed(Tail(q), r2, T) /\ OnePlace(Tail(q), r2, d, a)
             /\ Held(r2) = Held(r) \cup {Head(q)} /\ Head(q) \in T
<1> DEFINE f == Head(q)
           r2 == [r EXCEPT ![w] = f]
<1>1. /\ f \in T /\ Elems(q) = Elems(Tail(q)) \cup {f} /\ Tail(q) \in Seq(T)
      /\ OneEach(Tail(q)) /\ f \notin Elems(Tail(q))
  BY TailElems DEF OnePlace, Typed
<1> HIDE DEF f
<1>2. /\ r2 \in [Workers -> T \cup {NoTask}] /\ r2[w] = f
      /\ \A v \in Workers : v # w => r2[v] = r[v]
  BY <1>1 DEF Typed
<1> HIDE DEF r2
<1>3. Held(r2) = Held(r) \cup {f} BY <1>1, <1>2, SMT DEF Held, Typed
<1>4. f \notin Held(r) BY <1>1 DEF OnePlace
<1>5. OneHolder(r2) BY <1>2, <1>4 DEF OnePlace, OneHolder, Held
<1>6. OnePlace(Tail(q), r2, d, a) BY <1>1, <1>3, <1>4, <1>5 DEF OnePlace
<1> QED BY <1>1, <1>2, <1>3, <1>6 DEF f, r2, Typed

\* The task of a worker ends.
Freed(r, w) == [r EXCEPT ![w] = NoTask]
LEMMA EndOfTask ==
  ASSUME NEW T, NEW q, NEW r, Typed(q, r, T), NEW d, NEW a, OnePlace(q, r, d, a),
         NEW w \in Workers, NEW f, r[w] = f, f # NoTask
  PROVE  LET r2 == Freed(r, w)
         IN  /\ Typed(q, r2, T) /\ OnePlace(q, r2, d \cup {f}, a)
             /\ f \in T /\ f \in Held(r) /\ Held(r2) = Held(r) \ {f}
<1> DEFINE r2 == [r EXCEPT ![w] = NoTask]
<1>1. /\ r2 \in [Workers -> T \cup {NoTask}] /\ r2[w] = NoTask /\ r[w] \in T
      /\ \A v \in Workers : v # w => r2[v] = r[v]
  BY DEF Typed
<1> HIDE DEF r2
<1>2. r[w] \in Held(r) BY DEF Held
<1>3. Held(r2) = Held(r) \ {r[w]} BY <1>1, SMT DEF Held, OnePlace, OneHolder
<1>4. OneHolder(r2) BY <1>1 DEF OnePlace, OneHolder
<1>5. OnePlace(q, r2, d \cup {r[w]}, a) BY <1>2, <1>3, <1>4 DEF OnePlace
<1> QED BY <1>1, <1>2, <1>3, <1>5 DEF r2, Typed, Freed

-----------------------------------------------------------------------------
\* The strand.

LEMMA StrandPlaces ==
  ASSUME TypeOK, TaskInOnePlace
  PROVE  Typed(tasks, running, Tasks) /\ OnePlace(tasks, running, finished, posted)
BY StrandAssumption DEF TypeOK, TaskInOnePlace, Typed, OnePlace, Queued, InProgress, Elems, Held,
                        OneEach, OneHolder

LEMMA StrandPlacesPrime ==
  ASSUME Typed(tasks', running', Tasks), OnePlace(tasks', running', finished', posted')
  PROVE  /\ TaskInOnePlace' /\ InProgress' = Held(running')
         /\ tasks' \in Seq(Tasks) /\ running' \in [Workers -> Tasks \cup {NoTask}]
BY DEF TaskInOnePlace, Typed, OnePlace, Queued, InProgress, Elems, Held, OneEach, OneHolder

\* Initially there is no task, no drain and no worker at work.
LEMMA StrandInit == Init => TasksConsistent /\ EX!Init
<1> SUFFICES ASSUME Init PROVE TasksConsistent /\ EX!Init OBVIOUS
<1>1. TypeOK
  <2>1. tasks \in Seq(Tasks) BY SMT DEF Init
  <2>2. 0 \in 0..MaxDrain BY StrandAssumption, SMT
  <2>3. n \in [Workers -> 0..MaxDrain] BY <2>2 DEF Init
  <2> QED BY <2>1, <2>3 DEF Init, TypeOK
<1>2. InProgress = {} /\ Queued = {} BY SMT DEF Init, InProgress, Queued
<1>3. TaskInOnePlace BY <1>2, SMT DEF Init, TaskInOnePlace
<1>4. NoStrandedTask BY DEF Init, NoStrandedTask
<1>5. WorkerHasTask BY DEF Init, WorkerHasTask
<1> QED BY <1>1, <1>2, <1>3, <1>4, <1>5 DEF TasksConsistent, Init, EX!Init

\* post: the task is accepted, and whoever finds the strand inactive schedules.
LEMMA StrandPost ==
  ASSUME TasksConsistent, NEW c \in Clients, NEW f \in Tasks, Post(c, f)
  PROVE  TasksConsistent' /\ EX!Accept(f)
<1>1. TaskInOnePlace' /\ tasks' \in Seq(Tasks)
  <2>1. Typed(tasks, running, Tasks) /\ OnePlace(tasks, running, finished, posted)
    BY StrandPlaces DEF TasksConsistent
  <2>2. /\ Typed(Append(tasks, f), running, Tasks)
        /\ OnePlace(Append(tasks, f), running, finished, posted \cup {f})
    BY <2>1, QueueTask DEF Post
  <2> QED BY <2>2, StrandPlacesPrime DEF Post
<1>2. TypeOK'
  <2>1. cpc' \in [Clients -> {"idle", "schedule"}] BY DEF TasksConsistent, TypeOK, Post
  <2> QED BY <1>1, <2>1 DEF TasksConsistent, TypeOK, Post
<1>3. NoStrandedTask'
  <2>1. CASE active BY <2>1 DEF TasksConsistent, TypeOK, NoStrandedTask, Draining, Post
  <2>2. CASE ~active
    <3>1. cpc'[c] = "schedule" BY <2>2 DEF TasksConsistent, TypeOK, Post
    <3> QED BY <3>1 DEF NoStrandedTask, Draining, Post
  <2> QED BY <2>1, <2>2
<1>4. WorkerHasTask' BY DEF TasksConsistent, WorkerHasTask, Post
<1>5. EX!Accept(f)
  <2>1. EX!Known = posted BY DEF EX!Known, TasksConsistent, TaskInOnePlace, Queued
  <2>2. InProgress' = InProgress BY DEF InProgress, Post
  <2> QED BY <2>1, <2>2 DEF EX!Accept, Post
<1> QED BY <1>1, <1>2, <1>3, <1>4, <1>5 DEF TasksConsistent

\* pop_one: the worker takes the first task, and no other worker has it.
LEMMA StrandPop ==
  ASSUME TasksConsistent, NEW w \in Workers, PopTask(w)
  PROVE  TasksConsistent' /\ EX!Start
<1>1. /\ tasks # <<>> /\ running[w] = NoTask /\ n[w] # MaxDrain
      /\ running' = [running EXCEPT ![w] = Head(tasks)] /\ tasks' = Tail(tasks)
      /\ wpc' = [wpc EXCEPT ![w] = "run"]
      /\ UNCHANGED <<active, scheduled, n, cpc, posted, finished>>
  BY DEF TasksConsistent, WorkerHasTask, PopTask, PopRest, LimitReached
<1>2. Typed(tasks, running, Tasks) /\ OnePlace(tasks, running, finished, posted)
  BY StrandPlaces DEF TasksConsistent
<1>3. /\ Typed(tasks', running', Tasks) /\ OnePlace(tasks', running', finished', posted')
      /\ Held(running') = Held(running) \cup {Head(tasks)} /\ Head(tasks) \in Tasks
  BY <1>1, <1>2, TakeTask
<1>4. /\ TaskInOnePlace' /\ InProgress' = Held(running')
      /\ tasks' \in Seq(Tasks) /\ running' \in [Workers -> Tasks \cup {NoTask}]
  BY <1>3, StrandPlacesPrime
<1>5. TypeOK' BY <1>1, <1>4 DEF TasksConsistent, TypeOK
<1>6. wpc'[w] = "run" /\ \A v \in Workers : v # w => wpc'[v] = wpc[v]
  BY <1>1 DEF TasksConsistent, TypeOK
<1>7. NoStrandedTask'
  <2>1. active BY <1>1 DEF TasksConsistent, NoStrandedTask
  <2>2. Draining' BY <1>6 DEF Draining
  <2> QED BY <2>1, <2>2, <1>1 DEF NoStrandedTask
<1>8. WorkerHasTask'
  <2>1. n[w] < MaxDrain BY <1>1, StrandAssumption, SMT DEF TasksConsistent, TypeOK
  <2>2. running'[w] # NoTask /\ \A v \in Workers : v # w => running'[v] = running[v]
    BY <1>1, <1>2, <1>3 DEF Typed
  <2> QED BY <1>1, <1>6, <2>1, <2>2 DEF TasksConsistent, WorkerHasTask
<1>9. EX!Start BY <1>1, <1>3, <1>4 DEF EX!Start, InProgress, Held
<1> QED BY <1>4, <1>5, <1>7, <1>8, <1>9 DEF TasksConsistent

\* A task that returns or throws has ended.
LEMMA StrandEnd ==
  ASSUME TasksConsistent, NEW w \in Workers, TaskReturns(w) \/ TaskThrows(w)
  PROVE  TasksConsistent' /\ EX!End(running[w])
<1>1. /\ running[w] # NoTask /\ wpc[w] = "run" /\ n[w] < MaxDrain
      /\ running' = [running EXCEPT ![w] = NoTask] /\ finished' = finished \cup {running[w]}
      /\ UNCHANGED <<tasks, active, scheduled, cpc, posted>>
  BY DEF TasksConsistent, WorkerHasTask, TaskReturns, TaskThrows
<1>2. Typed(tasks, running, Tasks) /\ OnePlace(tasks, running, finished, posted)
  BY StrandPlaces DEF TasksConsistent
<1>3. /\ Typed(tasks', running', Tasks) /\ OnePlace(tasks', running', finished', posted')
      /\ running[w] \in Tasks /\ running[w] \in Held(running)
      /\ Held(running') = Held(running) \ {running[w]}
  <2> DEFINE r2 == Freed(running, w)
  <2>1. /\ Typed(tasks, r2, Tasks) /\ OnePlace(tasks, r2, finished \cup {running[w]}, posted)
        /\ running[w] \in Tasks /\ running[w] \in Held(running)
        /\ Held(r2) = Held(running) \ {running[w]}
    <3>1. running[w] # NoTask BY <1>1
    <3> QED BY <1>2, <3>1, EndOfTask, SMT
  <2> QED BY <1>1, <2>1 DEF Freed
<1>4. /\ TaskInOnePlace' /\ InProgress' = Held(running')
      /\ tasks' \in Seq(Tasks) /\ running' \in [Workers -> Tasks \cup {NoTask}]
  BY <1>3, StrandPlacesPrime
<1>5. \/ n' = n /\ wpc' = [wpc EXCEPT ![w] = "check"]
      \/ n' = [n EXCEPT ![w] = n[w] + 1] /\ wpc' = [wpc EXCEPT ![w] = "pop"]
  BY DEF TaskReturns, TaskThrows, ThrowChecks
<1>6. n' \in [Workers -> 0..MaxDrain] /\ \A v \in Workers : v # w => n'[v] = n[v]
  BY <1>1, <1>5, StrandAssumption, SMT DEF TasksConsistent, TypeOK
<1>7. /\ wpc' \in [Workers -> {"idle", "pop", "run", "check", "resched"}]
      /\ wpc'[w] \in {"check", "pop"} /\ \A v \in Workers : v # w => wpc'[v] = wpc[v]
  BY <1>5 DEF TasksConsistent, TypeOK
<1>8. TypeOK' BY <1>1, <1>3, <1>4, <1>6, <1>7 DEF TasksConsistent, TypeOK
<1>9. NoStrandedTask'
  <2>1. Draining' BY <1>7 DEF Draining
  <2> QED BY <1>1, <2>1 DEF TasksConsistent, NoStrandedTask
<1>10. WorkerHasTask'
  <2>1. running'[w] = NoTask /\ \A v \in Workers : v # w => running'[v] = running[v]
    BY <1>1, <1>2 DEF Typed
  <2> QED BY <1>6, <1>7, <2>1 DEF TasksConsistent, WorkerHasTask
<1>11. EX!End(running[w]) BY <1>1, <1>3, <1>4 DEF EX!End, InProgress, Held
<1> QED BY <1>4, <1>8, <1>9, <1>10, <1>11 DEF TasksConsistent

\* The other steps move drains about: none of them leaves active set and no
\* drain behind.
LEMMA StrandDrains ==
  ASSUME TasksConsistent,
         \/ \E c \in Clients : Schedule(c)
         \/ \E w \in Workers : \/ StartDrain(w) \/ PopNothing(w) \/ PopLimit(w)
                               \/ CheckEmpty(w) \/ CheckMore(w) \/ Reschedule(w)
  PROVE  TasksConsistent' /\ UNCHANGED EX!vars
<1>1. UNCHANGED <<tasks, running, posted, finished>>
  BY DEF Schedule, StartDrain, PopNothing, PopLimit, CheckEmpty, CheckMore, Reschedule
<1>2. TaskInOnePlace' BY <1>1, SMT DEF TasksConsistent, TaskInOnePlace, Queued, InProgress
<1>3. UNCHANGED EX!vars BY <1>1 DEF EX!vars, InProgress
<1> SUFFICES (TypeOK /\ NoStrandedTask /\ WorkerHasTask)' BY <1>2, <1>3 DEF TasksConsistent
<1>4. CASE \E c \in Clients : Schedule(c)
  BY <1>4, SMT DEF TasksConsistent, TypeOK, NoStrandedTask, Draining, WorkerHasTask, Schedule
<1>5. ASSUME NEW w \in Workers, StartDrain(w)
      PROVE  (TypeOK /\ NoStrandedTask /\ WorkerHasTask)'
  <2>1. TypeOK' BY <1>5, StrandAssumption, SMT DEF TasksConsistent, TypeOK, StartDrain
  <2>2. NoStrandedTask'
    BY <1>5 DEF TasksConsistent, TypeOK, NoStrandedTask, Draining, StartDrain
  <2>3. WorkerHasTask' BY <1>5 DEF TasksConsistent, TypeOK, WorkerHasTask, StartDrain
  <2> QED BY <2>1, <2>2, <2>3
<1>6. ASSUME NEW w \in Workers, PopNothing(w) \/ CheckEmpty(w)
      PROVE  (TypeOK /\ NoStrandedTask /\ WorkerHasTask)'
  <2>1. TypeOK' BY <1>6 DEF TasksConsistent, TypeOK, PopNothing, CheckEmpty
  <2>2. NoStrandedTask' BY <1>6 DEF NoStrandedTask, PopNothing, CheckEmpty
  <2>3. WorkerHasTask' BY <1>6 DEF TasksConsistent, TypeOK, WorkerHasTask, PopNothing, CheckEmpty
  <2> QED BY <2>1, <2>2, <2>3
<1>7. ASSUME NEW w \in Workers, PopLimit(w) \/ CheckMore(w)
      PROVE  (TypeOK /\ NoStrandedTask /\ WorkerHasTask)'
  <2>1. TypeOK' BY <1>7 DEF TasksConsistent, TypeOK, PopLimit, CheckMore, Again
  <2>2. NoStrandedTask'
    BY <1>7 DEF TasksConsistent, TypeOK, NoStrandedTask, Draining, PopLimit, CheckMore, Again
  <2>3. WorkerHasTask' BY <1>7 DEF TasksConsistent, TypeOK, WorkerHasTask, PopLimit, CheckMore, Again
  <2> QED BY <2>1, <2>2, <2>3
<1>8. ASSUME NEW w \in Workers, Reschedule(w)
      PROVE  (TypeOK /\ NoStrandedTask /\ WorkerHasTask)'
  <2>1. TypeOK' BY <1>8, SMT DEF TasksConsistent, TypeOK, Reschedule
  <2>2. NoStrandedTask'
    BY <1>8, SMT DEF TasksConsistent, TypeOK, NoStrandedTask, Draining, Reschedule
  <2>3. WorkerHasTask' BY <1>8 DEF TasksConsistent, TypeOK, WorkerHasTask, Reschedule
  <2> QED BY <2>1, <2>2, <2>3
<1> QED BY <1>4, <1>5, <1>6, <1>7, <1>8

\* Every step of the strand keeps its bookkeeping and is a step of an executor,
\* or changes nothing an executor shows.
LEMMA StrandStep == TasksConsistent /\ [Next]_vars => TasksConsistent' /\ [EX!Next]_(EX!vars)
<1> SUFFICES ASSUME TasksConsistent, [Next]_vars PROVE TasksConsistent' /\ [EX!Next]_(EX!vars)
  OBVIOUS
<1>1. CASE \E c \in Clients, f \in Tasks : Post(c, f)
  BY <1>1, StrandPost DEF EX!Next
<1>2. CASE \E w \in Workers : PopTask(w)
  BY <1>2, StrandPop DEF EX!Next
<1>3. CASE \E w \in Workers : TaskReturns(w) \/ TaskThrows(w)
  <2>1. PICK w \in Workers : TaskReturns(w) \/ TaskThrows(w) BY <1>3
  <2>2. running[w] \in Tasks
    BY <2>1 DEF TasksConsistent, TypeOK, WorkerHasTask, TaskReturns, TaskThrows
  <2> QED BY <2>1, <2>2, StrandEnd DEF EX!Next
<1>4. CASE \/ \E c \in Clients : Schedule(c)
           \/ \E w \in Workers : \/ StartDrain(w) \/ PopNothing(w) \/ PopLimit(w)
                                 \/ CheckEmpty(w) \/ CheckMore(w) \/ Reschedule(w)
  BY <1>4, StrandDrains
<1>5. CASE UNCHANGED vars
  <2>1. UNCHANGED EX!vars BY <1>5 DEF vars, EX!vars, InProgress
  <2>2. TypeOK' BY <1>5 DEF vars, TasksConsistent, TypeOK
  <2>3. NoStrandedTask' BY <1>5 DEF vars, TasksConsistent, NoStrandedTask, Draining
  <2>4. TaskInOnePlace' BY <1>5, SMT DEF vars, TasksConsistent, TaskInOnePlace, Queued, InProgress
  <2>5. WorkerHasTask' BY <1>5 DEF vars, TasksConsistent, WorkerHasTask
  <2> QED BY <2>1, <2>2, <2>3, <2>4, <2>5 DEF TasksConsistent
<1> QED BY <1>1, <1>2, <1>3, <1>4, <1>5 DEF Next, Drain

\* strand.hpp, with any number of workers, clients and tasks: a queued task has
\* a drain, and every posted task is in one place.
THEOREM StrandInvariant == Spec => []TasksConsistent
BY StrandInit, StrandStep, PTL DEF Spec

\* strand.hpp is an executor: tasks start in the order they were posted, no two
\* drains take the same one, and none is lost.
THEOREM StrandIsExecutor == Spec => ImplementsExecutor
BY StrandInit, StrandStep, PTL DEF Spec, ImplementsExecutor, EX!Spec

-----------------------------------------------------------------------------
\* The thread pool.

\* The workers inside cv.wait, of which waiting_workers keeps the number.
InWait(p) == {w \in Workers : p[w] \in {"blocking", "asleep", "woken"}}

\* What the pool's proof uses of the sizes of sets of workers; SizesHold, below,
\* has it from FiniteSetTheorems.
Sizes == /\ TP!Cardinality({}) = 0
         /\ \A S \in SUBSET Workers : TP!Cardinality(S) \in Nat /\ (TP!Cardinality(S) = 0 => S = {})
         /\ \A S \in SUBSET Workers, w \in Workers : w \notin S =>
              TP!Cardinality(S \cup {w}) = TP!Cardinality(S) + 1

LEMMA PoolWaiting == TP!WaitingExact <=> waiting = TP!Cardinality(InWait(pwpc))
BY DEF TP!WaitingExact, InWait

LEMMA PoolWaitingPrime == TP!WaitingExact' <=> waiting' = TP!Cardinality(InWait(pwpc'))
BY DEF TP!WaitingExact, InWait

\* One worker enters cv.wait, leaves it, or does neither.
LEMMA CountWaiting ==
  ASSUME Sizes, NEW p, NEW p2, NEW w \in Workers, \A v \in Workers : v # w => p2[v] = p[v]
  PROVE  /\ TP!Cardinality(InWait(p)) \in Nat
         /\ w \notin InWait(p) /\ w \in InWait(p2) =>
              TP!Cardinality(InWait(p2)) = TP!Cardinality(InWait(p)) + 1
         /\ w \in InWait(p) /\ w \notin InWait(p2) =>
              /\ TP!Cardinality(InWait(p2)) = TP!Cardinality(InWait(p)) - 1
              /\ TP!Cardinality(InWait(p2)) \in Nat
         /\ (w \in InWait(p) <=> w \in InWait(p2)) => InWait(p2) = InWait(p)
<1>1. InWait(p) \in SUBSET Workers /\ InWait(p2) \in SUBSET Workers BY DEF InWait
<1>3. TP!Cardinality(InWait(p)) \in Nat /\ TP!Cardinality(InWait(p2)) \in Nat BY <1>1 DEF Sizes
<1>4. ASSUME w \notin InWait(p), w \in InWait(p2)
      PROVE  TP!Cardinality(InWait(p2)) = TP!Cardinality(InWait(p)) + 1
  <2>1. InWait(p2) = InWait(p) \cup {w} BY <1>4 DEF InWait
  <2> QED BY <1>1, <1>4, <2>1 DEF Sizes
<1>5. ASSUME w \in InWait(p), w \notin InWait(p2)
      PROVE  TP!Cardinality(InWait(p2)) = TP!Cardinality(InWait(p)) - 1
  <2>1. InWait(p) = InWait(p2) \cup {w} BY <1>5 DEF InWait
  <2>2. TP!Cardinality(InWait(p)) = TP!Cardinality(InWait(p2)) + 1 BY <1>1, <1>5, <2>1 DEF Sizes
  <2> QED BY <1>3, <2>2, SMT
<1>6. (w \in InWait(p) <=> w \in InWait(p2)) => InWait(p2) = InWait(p) BY DEF InWait
<1> QED BY <1>3, <1>4, <1>5, <1>6

LEMMA PoolPlaces ==
  ASSUME TP!PoolConsistent
  PROVE  Typed(queue, prunning, PoolTasks) /\ OnePlace(queue, prunning, pfinished, accepted)
BY PoolAssumption DEF TP!PoolConsistent, TP!TypeOK, TP!TaskInOnePlace, Typed, OnePlace, TP!Queued,
                      TP!InProgress, Elems, Held, OneEach, OneHolder

LEMMA PoolPlacesPrime ==
  ASSUME Typed(queue', prunning', PoolTasks),
         OnePlace(queue', prunning', pfinished', accepted'),
         \A w \in Workers : pwpc'[w] = "run" <=> prunning'[w] # NoTask
  PROVE  /\ TP!TaskInOnePlace' /\ TP!InProgress' = Held(prunning')
         /\ queue' \in Seq(PoolTasks) /\ prunning' \in [Workers -> PoolTasks \cup {NoTask}]
BY DEF TP!TaskInOnePlace, Typed, OnePlace, TP!Queued, TP!InProgress, Elems, Held, OneEach, OneHolder

\* No task moves.
LEMMA PoolPlacesKept ==
  ASSUME TP!PoolConsistent, UNCHANGED <<queue, prunning, accepted, pfinished>>,
         \A w \in Workers : pwpc'[w] = "run" <=> pwpc[w] = "run"
  PROVE  TP!TaskInOnePlace'
<1>1. TP!Queued' = TP!Queued /\ TP!InProgress' = TP!InProgress BY DEF TP!Queued, TP!InProgress
<1> QED BY <1>1 DEF TP!PoolConsistent, TP!TaskInOnePlace

\* One worker or none holds the mutex.
LEMMA MutexType ==
  ASSUME Sizes, NEW o, o = {} \/ \E w \in Workers : o = {w}
  PROVE  o \in SUBSET Workers /\ TP!Cardinality(o) <= 1
<1>1. \A w \in Workers : TP!Cardinality({} \cup {w}) = 0 + 1 /\ {} \cup {w} = {w} BY DEF Sizes
<1>2. TP!Cardinality(o) = 0 \/ TP!Cardinality(o) = 1 BY <1>1, SMT DEF Sizes
<1>3. o \in SUBSET Workers OBVIOUS
<1> QED BY <1>2, <1>3, SMT

\* Initially every worker is about to lock.
LEMMA PoolInit ==
  ASSUME Sizes, TP!Init
  PROVE  TP!PoolConsistent /\ TP!EX!Init
<1>1. queue \in Seq(PoolTasks) BY SMT DEF TP!Init
<1>2. guards \in 0..MaxGuards BY PoolAssumption, SMT DEF TP!Init
<1>3. owner \in SUBSET Workers /\ TP!Cardinality(owner) <= 1 BY MutexType DEF TP!Init
<1>4. TP!TypeOK BY <1>1, <1>2, <1>3 DEF TP!Init, TP!TypeOK
<1>5. InWait(pwpc) = {} BY DEF TP!Init, InWait
<1>6. TP!WaitingExact
  <2>1. waiting = 0 BY DEF TP!Init
  <2> QED BY <1>5, <2>1, PoolWaiting DEF Sizes
<1>7. TP!InProgress = {} /\ TP!Queued = {} BY SMT DEF TP!Init, TP!InProgress, TP!Queued
<1>8. TP!TaskInOnePlace BY <1>7, SMT DEF TP!Init, TP!TaskInOnePlace
<1>9. TP!NoSleepOnWork /\ TP!LeavesDrained /\ TP!MutexHeld /\ TP!JoinedAll
  BY DEF TP!Init, TP!NoSleepOnWork, TP!LeavesDrained, TP!MutexHeld, TP!JoinedAll
<1> QED BY <1>4, <1>6, <1>7, <1>8, <1>9 DEF TP!PoolConsistent, TP!Init, TP!EX!Init

\* Steps that touch neither the queue nor a task nor the mutex: workers are
\* woken, at most, and the pool does not start again.
PoolStates == {"top", "blocking", "asleep", "woken", "run", "leaving", "done"}
WokenOnly == /\ pwpc' \in [Workers -> PoolStates]
             /\ \A w \in Workers : \/ pwpc'[w] = pwpc[w]
                                   \/ pwpc[w] = "asleep" /\ pwpc'[w] = "woken"

LEMMA PoolQuiet ==
  ASSUME TP!PoolConsistent, WokenOnly, UNCHANGED <<queue, waiting, owner, prunning, accepted, pfinished>>,
         state' \in {"running", "draining", "stopped"}, state' = state \/ state' # "running",
         guards' \in 0..MaxGuards, pcpc' \in [Clients -> {"idle", "notify_one", "notify_all"}],
         jpc' \in {"idle", "notify", "join", "returned"}, guarded' \in BOOLEAN,
         TP!NoSleepOnWork', TP!JoinedAll'
  PROVE  TP!PoolConsistent' /\ UNCHANGED TP!EX!vars
<1>1. TP!TypeOK' BY DEF TP!PoolConsistent, TP!TypeOK, WokenOnly, PoolStates
<1>2. InWait(pwpc') = InWait(pwpc) BY DEF InWait, WokenOnly
<1>3. TP!WaitingExact' BY <1>2, PoolWaiting, PoolWaitingPrime DEF TP!PoolConsistent
<1>4. TP!LeavesDrained' BY DEF TP!PoolConsistent, TP!LeavesDrained, WokenOnly
<1>5. TP!MutexHeld' BY DEF TP!PoolConsistent, TP!MutexHeld, WokenOnly
<1>6. TP!TaskInOnePlace' BY PoolPlacesKept DEF WokenOnly
<1>7. UNCHANGED TP!EX!vars BY DEF TP!EX!vars, TP!InProgress
<1> QED BY <1>1, <1>3, <1>4, <1>5, <1>6, <1>7 DEF TP!PoolConsistent

\* notify_one of a post: a task in the queue still has a worker that will see it.
LEMMA PoolNotifyOne ==
  ASSUME TP!PoolConsistent, NEW c \in Clients, TP!NotifyOne(c)
  PROVE  TP!PoolConsistent' /\ UNCHANGED TP!EX!vars
<1>1. /\ pcpc' \in [Clients -> {"idle", "notify_one", "notify_all"}]
      /\ UNCHANGED <<state, queue, waiting, guards, owner, prunning, jpc, accepted, pfinished, guarded>>
  BY DEF TP!PoolConsistent, TP!TypeOK, TP!NotifyOne
<1>2. WokenOnly
  BY DEF TP!PoolConsistent, TP!TypeOK, TP!NotifyOne, TP!WakeOne, TP!Asleep, WokenOnly, PoolStates
<1>3. TP!NoSleepOnWork'
  <2> SUFFICES ASSUME queue # <<>>
               PROVE  \E w \in Workers : pwpc'[w] \in {"top", "woken", "run"}
    BY <1>1 DEF TP!NoSleepOnWork
  <2>1. ASSUME TP!Asleep = {} PROVE \E w \in Workers : pwpc'[w] \in {"top", "woken", "run"}
    <3>1. PICK w \in Workers : TRUE BY PoolAssumption
    <3>2. pwpc[w] \in PoolStates \ {"asleep"}
      BY <2>1 DEF TP!PoolConsistent, TP!TypeOK, TP!Asleep, PoolStates
    <3>3. pwpc[w] \notin {"leaving", "done", "blocking"}
      BY DEF TP!PoolConsistent, TP!LeavesDrained, TP!MutexHeld
    <3> QED BY <1>2, <3>2, <3>3 DEF WokenOnly, PoolStates
  <2>2. ASSUME NEW w \in TP!Asleep, pwpc' = [pwpc EXCEPT ![w] = "woken"]
        PROVE  \E v \in Workers : pwpc'[v] \in {"top", "woken", "run"}
    BY <2>2 DEF TP!PoolConsistent, TP!TypeOK, TP!Asleep
  <2> QED BY <2>1, <2>2 DEF TP!NotifyOne, TP!WakeOne
<1>4. TP!JoinedAll' BY <1>1, <1>2 DEF TP!PoolConsistent, TP!JoinedAll, WokenOnly
<1> QED BY <1>1, <1>2, <1>3, <1>4, PoolQuiet DEF TP!PoolConsistent, TP!TypeOK

\* Guards, stop() and the wakeups that keep every notify_one under way.
LEMMA PoolSignals ==
  ASSUME TP!PoolConsistent,
         \/ \E c \in Clients : TP!NotifyAll(c) \/ TP!AddGuard(c) \/ TP!RemoveGuard(c)
         \/ \E w \in Workers : TP!WakeSpuriously(w)
         \/ TP!Stop \/ TP!StopNotifies \/ TP!JoinReturns
  PROVE  TP!PoolConsistent' /\ UNCHANGED TP!EX!vars
<1>1. UNCHANGED <<queue, waiting, owner, prunning, accepted, pfinished>>
  BY DEF TP!NotifyAll, TP!AddGuard, TP!RemoveGuard, TP!WakeSpuriously, TP!Stop, TP!StopNotifies,
         TP!JoinReturns
<1>2. WokenOnly
  BY DEF TP!PoolConsistent, TP!TypeOK, WokenOnly, PoolStates, TP!WakeAll, TP!NotifyAll, TP!AddGuard,
         TP!RemoveGuard, TP!WakeSpuriously, TP!Stop, TP!StopNotifies, TP!JoinReturns
<1>3. /\ state' \in {"running", "draining", "stopped"} /\ (state' = state \/ state' # "running")
      /\ jpc' \in {"idle", "notify", "join", "returned"} /\ guarded' \in BOOLEAN
  BY DEF TP!PoolConsistent, TP!TypeOK, TP!NotifyAll, TP!AddGuard, TP!RemoveGuard,
         TP!WakeSpuriously, TP!Stop, TP!StopNotifies, TP!JoinReturns
<1>4. guards' \in 0..MaxGuards
  BY PoolAssumption, SMT
     DEF TP!PoolConsistent, TP!TypeOK, TP!NotifyAll, TP!AddGuard, TP!RemoveGuard,
         TP!WakeSpuriously, TP!Stop, TP!StopNotifies, TP!JoinReturns
<1>5. /\ pcpc' \in [Clients -> {"idle", "notify_one", "notify_all"}]
      /\ \A c \in Clients : pcpc[c] = "notify_one" => pcpc'[c] = "notify_one"
  BY DEF TP!PoolConsistent, TP!TypeOK, TP!NotifyAll, TP!AddGuard, TP!RemoveGuard,
         TP!WakeSpuriously, TP!Stop, TP!StopNotifies, TP!JoinReturns
<1>6. TP!NoSleepOnWork' BY <1>1, <1>2, <1>5 DEF TP!PoolConsistent, TP!NoSleepOnWork, WokenOnly
<1>7. TP!JoinedAll'
  <2>1. jpc' = "returned" => jpc = "returned" \/ \A w \in Workers : pwpc[w] = "done"
    BY DEF TP!NotifyAll, TP!AddGuard, TP!RemoveGuard, TP!WakeSpuriously, TP!Stop, TP!StopNotifies,
           TP!JoinReturns
  <2> QED BY <1>2, <2>1 DEF TP!PoolConsistent, TP!JoinedAll, WokenOnly
<1> QED BY <1>1, <1>2, <1>3, <1>4, <1>5, <1>6, <1>7, PoolQuiet

\* A worker that finds a task takes the first one.
LEMMA PoolTakes ==
  ASSUME Sizes, TP!PoolConsistent, NEW w \in Workers, TP!Lock(w) \/ TP!Relock(w), queue # <<>>
  PROVE  TP!PoolConsistent' /\ TP!EX!Start
<1>1. /\ pwpc[w] \in {"top", "woken"} /\ owner = {}
      /\ prunning' = [prunning EXCEPT ![w] = Head(queue)] /\ queue' = Tail(queue)
      /\ pwpc' = [pwpc EXCEPT ![w] = "run"]
      /\ UNCHANGED <<owner, state, guards, pcpc, jpc, accepted, pfinished, guarded>>
      /\ waiting' = IF pwpc[w] = "woken" THEN waiting - 1 ELSE waiting
  BY DEF TP!Lock, TP!Relock, TP!Proceed, TP!CountReturn, TP!Ready
<1>2. /\ pwpc' \in [Workers -> PoolStates] /\ pwpc'[w] = "run"
      /\ \A v \in Workers : v # w => pwpc'[v] = pwpc[v]
  BY <1>1 DEF TP!PoolConsistent, TP!TypeOK, PoolStates
<1>3. Typed(queue, prunning, PoolTasks) /\ OnePlace(queue, prunning, pfinished, accepted)
  BY PoolPlaces
<1>4. prunning[w] = NoTask BY <1>1 DEF TP!PoolConsistent, TP!TaskInOnePlace
<1>5. /\ Typed(queue', prunning', PoolTasks)
      /\ OnePlace(queue', prunning', pfinished', accepted')
      /\ Held(prunning') = Held(prunning) \cup {Head(queue)} /\ Head(queue) \in PoolTasks
  BY <1>1, <1>3, <1>4, TakeTask
<1>6. \A v \in Workers : pwpc'[v] = "run" <=> prunning'[v] # NoTask
  <2>1. prunning'[w] # NoTask /\ \A v \in Workers : v # w => prunning'[v] = prunning[v]
    BY <1>1, <1>3, <1>5 DEF Typed
  <2> QED BY <1>2, <2>1 DEF TP!PoolConsistent, TP!TaskInOnePlace
<1>7. /\ TP!TaskInOnePlace' /\ TP!InProgress' = Held(prunning')
      /\ queue' \in Seq(PoolTasks) /\ prunning' \in [Workers -> PoolTasks \cup {NoTask}]
  BY <1>5, <1>6, PoolPlacesPrime
<1>8. waiting' \in Nat /\ TP!WaitingExact'
  <2>1. waiting = TP!Cardinality(InWait(pwpc)) BY PoolWaiting DEF TP!PoolConsistent
  <2>2. (w \in InWait(pwpc) <=> pwpc[w] = "woken") /\ w \notin InWait(pwpc')
    BY <1>1, <1>2 DEF InWait
  <2>3. /\ TP!Cardinality(InWait(pwpc)) \in Nat
        /\ w \notin InWait(pwpc) /\ w \in InWait(pwpc') =>
             TP!Cardinality(InWait(pwpc')) = TP!Cardinality(InWait(pwpc)) + 1
        /\ w \in InWait(pwpc) /\ w \notin InWait(pwpc') =>
             /\ TP!Cardinality(InWait(pwpc')) = TP!Cardinality(InWait(pwpc)) - 1
             /\ TP!Cardinality(InWait(pwpc')) \in Nat
        /\ (w \in InWait(pwpc) <=> w \in InWait(pwpc')) => InWait(pwpc') = InWait(pwpc)
    BY <1>2, CountWaiting
  <2>4. waiting' = TP!Cardinality(InWait(pwpc')) /\ waiting' \in Nat
    BY <1>1, <2>1, <2>2, <2>3
  <2> QED BY <2>4, PoolWaitingPrime
<1>9. TP!TypeOK' BY <1>1, <1>2, <1>7, <1>8 DEF TP!PoolConsistent, TP!TypeOK, PoolStates
<1>10. TP!NoSleepOnWork' BY <1>2 DEF TP!NoSleepOnWork
<1>11. TP!LeavesDrained'
  <2>1. \A v \in Workers : pwpc[v] \notin {"leaving", "done"}
    BY DEF TP!PoolConsistent, TP!LeavesDrained
  <2> QED BY <1>2, <2>1 DEF TP!LeavesDrained
<1>12. TP!MutexHeld' BY <1>1, <1>2 DEF TP!PoolConsistent, TP!MutexHeld
<1>13. TP!JoinedAll' BY <1>1 DEF TP!PoolConsistent, TP!JoinedAll
<1>14. TP!EX!Start BY <1>1, <1>5, <1>7 DEF TP!EX!Start, TP!InProgress, Held
<1> QED BY <1>7, <1>8, <1>9, <1>10, <1>11, <1>12, <1>13, <1>14 DEF TP!PoolConsistent

\* A worker that finds the queue empty keeps the mutex, to sleep or to leave.
LEMMA PoolDecides ==
  ASSUME Sizes, TP!PoolConsistent, NEW w \in Workers, TP!Lock(w) \/ TP!Relock(w), queue = <<>>
  PROVE  TP!PoolConsistent' /\ UNCHANGED TP!EX!vars
<1> DEFINE drained == state = "draining" /\ guards = 0
<1>1. /\ pwpc[w] \in {"top", "woken"} /\ owner = {}
      /\ pwpc' = [pwpc EXCEPT ![w] = IF drained THEN "leaving" ELSE "blocking"] /\ owner' = {w}
      /\ UNCHANGED <<queue, prunning, state, guards, pcpc, jpc, accepted, pfinished, guarded>>
      /\ pwpc[w] = "top" => waiting' = IF drained THEN waiting ELSE waiting + 1
      /\ pwpc[w] = "woken" => waiting' = IF drained THEN waiting - 1 ELSE waiting
  BY DEF TP!Lock, TP!Relock, TP!Proceed, TP!CountReturn, TP!Ready
<1>2. /\ pwpc' \in [Workers -> PoolStates]
      /\ pwpc'[w] = IF drained THEN "leaving" ELSE "blocking"
      /\ \A v \in Workers : v # w => pwpc'[v] = pwpc[v]
  BY <1>1 DEF TP!PoolConsistent, TP!TypeOK, PoolStates
<1> HIDE DEF drained
<1>3. waiting' \in Nat /\ TP!WaitingExact'
  <2>1. waiting = TP!Cardinality(InWait(pwpc)) BY PoolWaiting DEF TP!PoolConsistent
  <2>2. (w \in InWait(pwpc) <=> pwpc[w] = "woken") /\ (w \in InWait(pwpc') <=> ~drained)
    BY <1>1, <1>2 DEF InWait
  <2>3. /\ TP!Cardinality(InWait(pwpc)) \in Nat
        /\ w \notin InWait(pwpc) /\ w \in InWait(pwpc') =>
             TP!Cardinality(InWait(pwpc')) = TP!Cardinality(InWait(pwpc)) + 1
        /\ w \in InWait(pwpc) /\ w \notin InWait(pwpc') =>
             /\ TP!Cardinality(InWait(pwpc')) = TP!Cardinality(InWait(pwpc)) - 1
             /\ TP!Cardinality(InWait(pwpc')) \in Nat
        /\ (w \in InWait(pwpc) <=> w \in InWait(pwpc')) => InWait(pwpc') = InWait(pwpc)
    BY <1>2, CountWaiting
  <2>4. waiting' = TP!Cardinality(InWait(pwpc')) /\ waiting' \in Nat
    BY <1>1, <2>1, <2>2, <2>3, SMT
  <2> QED BY <2>4, PoolWaitingPrime
<1>4. TP!TypeOK'
  <2>1. owner' \in SUBSET Workers /\ TP!Cardinality(owner') <= 1 BY <1>1, MutexType
  <2> QED BY <1>1, <1>2, <1>3, <2>1 DEF TP!PoolConsistent, TP!TypeOK, PoolStates
<1>5. TP!NoSleepOnWork' BY <1>1 DEF TP!NoSleepOnWork
<1>6. TP!LeavesDrained' BY <1>1, <1>2 DEF drained, TP!PoolConsistent, TP!LeavesDrained
<1>7. TP!MutexHeld' BY <1>1, <1>2 DEF TP!PoolConsistent, TP!MutexHeld
<1>8. TP!TaskInOnePlace'
  <2>1. \A v \in Workers : pwpc'[v] = "run" <=> pwpc[v] = "run" BY <1>1, <1>2
  <2> QED BY <1>1, <2>1, PoolPlacesKept
<1>9. TP!JoinedAll' BY <1>1 DEF TP!PoolConsistent, TP!JoinedAll
<1>10. UNCHANGED TP!EX!vars BY <1>1 DEF TP!EX!vars, TP!InProgress
<1> QED BY <1>3, <1>4, <1>5, <1>6, <1>7, <1>8, <1>9, <1>10 DEF TP!PoolConsistent

\* cv.wait puts the worker to sleep, or the loop is left: the mutex is free.
LEMMA PoolReleases ==
  ASSUME Sizes, TP!PoolConsistent, NEW w \in Workers, TP!Sleep(w) \/ TP!Exit(w)
  PROVE  TP!PoolConsistent' /\ UNCHANGED TP!EX!vars
<1>1. /\ owner' = {}
      /\ UNCHANGED <<queue, waiting, prunning, state, guards, pcpc, jpc, accepted, pfinished, guarded>>
      /\ \/ pwpc[w] = "blocking" /\ pwpc' = [pwpc EXCEPT ![w] = "asleep"]
         \/ pwpc[w] = "leaving" /\ pwpc' = [pwpc EXCEPT ![w] = "done"]
  BY DEF TP!Sleep, TP!Exit
<1>2. /\ pwpc' \in [Workers -> PoolStates]
      /\ \/ pwpc[w] = "blocking" /\ pwpc'[w] = "asleep"
         \/ pwpc[w] = "leaving" /\ pwpc'[w] = "done"
      /\ \A v \in Workers : v # w => pwpc'[v] = pwpc[v]
  BY <1>1 DEF TP!PoolConsistent, TP!TypeOK, PoolStates
<1>3. owner = {w} BY <1>2 DEF TP!PoolConsistent, TP!TypeOK, TP!MutexHeld
<1>4. TP!WaitingExact'
  <2>1. InWait(pwpc') = InWait(pwpc) BY <1>2 DEF InWait
  <2> QED BY <1>1, <2>1, PoolWaiting, PoolWaitingPrime DEF TP!PoolConsistent
<1>5. TP!TypeOK'
  <2>1. owner' \in SUBSET Workers /\ TP!Cardinality(owner') <= 1 BY <1>1, MutexType
  <2> QED BY <1>1, <1>2, <2>1 DEF TP!PoolConsistent, TP!TypeOK, PoolStates
<1>6. TP!NoSleepOnWork' BY <1>1, <1>3 DEF TP!PoolConsistent, TP!MutexHeld, TP!NoSleepOnWork
<1>7. TP!LeavesDrained' BY <1>1, <1>2 DEF TP!PoolConsistent, TP!LeavesDrained
<1>8. TP!MutexHeld' BY <1>1, <1>2, <1>3 DEF TP!PoolConsistent, TP!MutexHeld
<1>9. TP!TaskInOnePlace'
  <2>1. \A v \in Workers : pwpc'[v] = "run" <=> pwpc[v] = "run" BY <1>1, <1>2
  <2> QED BY <1>1, <2>1, PoolPlacesKept
<1>10. TP!JoinedAll' BY <1>1, <1>2 DEF TP!PoolConsistent, TP!JoinedAll
<1>11. UNCHANGED TP!EX!vars BY <1>1 DEF TP!EX!vars, TP!InProgress
<1> QED BY <1>4, <1>5, <1>6, <1>7, <1>8, <1>9, <1>10, <1>11 DEF TP!PoolConsistent

\* The task of a worker returns or throws.
LEMMA PoolEnds ==
  ASSUME TP!PoolConsistent, NEW w \in Workers, TP!EndTask(w)
  PROVE  TP!PoolConsistent' /\ TP!EX!End(prunning[w]) /\ prunning[w] \in PoolTasks
<1>1. /\ pwpc[w] = "run" /\ prunning[w] # NoTask /\ pwpc' = [pwpc EXCEPT ![w] = "top"]
      /\ prunning' = [prunning EXCEPT ![w] = NoTask] /\ pfinished' = pfinished \cup {prunning[w]}
      /\ UNCHANGED <<state, queue, waiting, guards, owner, pcpc, jpc, accepted, guarded>>
  BY DEF TP!PoolConsistent, TP!TaskInOnePlace, TP!EndTask
<1>2. /\ pwpc' \in [Workers -> PoolStates] /\ pwpc'[w] = "top"
      /\ \A v \in Workers : v # w => pwpc'[v] = pwpc[v]
  BY <1>1 DEF TP!PoolConsistent, TP!TypeOK, PoolStates
<1>3. Typed(queue, prunning, PoolTasks) /\ OnePlace(queue, prunning, pfinished, accepted)
  BY PoolPlaces
<1>4. /\ Typed(queue', prunning', PoolTasks)
      /\ OnePlace(queue', prunning', pfinished', accepted')
      /\ prunning[w] \in PoolTasks /\ prunning[w] \in Held(prunning)
      /\ Held(prunning') = Held(prunning) \ {prunning[w]}
  <2> DEFINE r2 == Freed(prunning, w)
  <2>1. /\ Typed(queue, r2, PoolTasks)
        /\ OnePlace(queue, r2, pfinished \cup {prunning[w]}, accepted)
        /\ prunning[w] \in PoolTasks /\ prunning[w] \in Held(prunning)
        /\ Held(r2) = Held(prunning) \ {prunning[w]}
    <3>1. prunning[w] # NoTask BY <1>1
    <3> QED BY <1>3, <3>1, EndOfTask, SMT
  <2> QED BY <1>1, <2>1 DEF Freed
<1>5. \A v \in Workers : pwpc'[v] = "run" <=> prunning'[v] # NoTask
  <2>1. prunning'[w] = NoTask /\ \A v \in Workers : v # w => prunning'[v] = prunning[v]
    BY <1>1, <1>3 DEF Typed
  <2> QED BY <1>2, <2>1 DEF TP!PoolConsistent, TP!TaskInOnePlace
<1>6. /\ TP!TaskInOnePlace' /\ TP!InProgress' = Held(prunning')
      /\ queue' \in Seq(PoolTasks) /\ prunning' \in [Workers -> PoolTasks \cup {NoTask}]
  BY <1>4, <1>5, PoolPlacesPrime
<1>7. TP!WaitingExact'
  <2>1. InWait(pwpc') = InWait(pwpc) BY <1>1, <1>2 DEF InWait
  <2> QED BY <1>1, <2>1, PoolWaiting, PoolWaitingPrime DEF TP!PoolConsistent
<1>8. TP!TypeOK' BY <1>1, <1>2, <1>4, <1>6 DEF TP!PoolConsistent, TP!TypeOK, PoolStates
<1>9. TP!NoSleepOnWork' BY <1>2 DEF TP!NoSleepOnWork
<1>10. TP!LeavesDrained' BY <1>1, <1>2 DEF TP!PoolConsistent, TP!LeavesDrained
<1>11. TP!MutexHeld' BY <1>1, <1>2 DEF TP!PoolConsistent, TP!MutexHeld
<1>12. TP!JoinedAll' BY <1>1 DEF TP!PoolConsistent, TP!JoinedAll
<1>13. TP!EX!End(prunning[w]) BY <1>1, <1>4, <1>6 DEF TP!EX!End, TP!InProgress, Held
<1> QED BY <1>4, <1>6, <1>7, <1>8, <1>9, <1>10, <1>11, <1>12, <1>13 DEF TP!PoolConsistent

\* post: a worker is awake, or waiting_workers is not 0 and a notification
\* follows.
LEMMA PoolPosts ==
  ASSUME Sizes, TP!PoolConsistent, NEW c \in Clients, NEW f \in PoolTasks, TP!Post(c, f)
  PROVE  TP!PoolConsistent' /\ TP!EX!Accept(f)
<1>1. /\ owner = {} /\ f \notin accepted /\ state = "running"
      /\ queue' = Append(queue, f) /\ accepted' = accepted \cup {f}
      /\ pcpc' = [pcpc EXCEPT ![c] = IF waiting > 0 THEN "notify_one" ELSE "idle"]
      /\ UNCHANGED <<state, waiting, guards, owner, pwpc, prunning, jpc, pfinished, guarded>>
  BY DEF TP!Post, TP!Accepts, TP!ShouldNotify
<1>2. Typed(queue', prunning', PoolTasks) /\ OnePlace(queue', prunning', pfinished', accepted')
  <2>1. Typed(queue, prunning, PoolTasks) /\ OnePlace(queue, prunning, pfinished, accepted)
    BY PoolPlaces
  <2>2. /\ Typed(Append(queue, f), prunning, PoolTasks)
        /\ OnePlace(Append(queue, f), prunning, pfinished, accepted \cup {f})
    BY <1>1, <2>1, QueueTask
  <2> QED BY <1>1, <2>2
<1>3. TP!TaskInOnePlace' /\ queue' \in Seq(PoolTasks)
  <2>1. \A w \in Workers : pwpc'[w] = "run" <=> prunning'[w] # NoTask
    BY <1>1 DEF TP!PoolConsistent, TP!TaskInOnePlace
  <2> QED BY <1>2, <2>1, PoolPlacesPrime
<1>4. TP!TypeOK'
  <2>1. pcpc' \in [Clients -> {"idle", "notify_one", "notify_all"}]
    BY <1>1 DEF TP!PoolConsistent, TP!TypeOK
  <2> QED BY <1>1, <1>3, <2>1 DEF TP!PoolConsistent, TP!TypeOK
<1>5. TP!WaitingExact' BY <1>1, PoolWaiting, PoolWaitingPrime DEF TP!PoolConsistent
<1>6. TP!NoSleepOnWork'
  <2>1. CASE waiting > 0
    <3>1. pcpc'[c] = "notify_one" BY <1>1, <2>1 DEF TP!PoolConsistent, TP!TypeOK
    <3> QED BY <3>1 DEF TP!NoSleepOnWork
  <2>2. CASE ~(waiting > 0)
    <3>1. waiting = 0 BY <2>2, SMT DEF TP!PoolConsistent, TP!TypeOK
    <3>2. InWait(pwpc) = {}
      <4>1. InWait(pwpc) \in SUBSET Workers BY DEF InWait
      <4>2. TP!Cardinality(InWait(pwpc)) = 0 BY <3>1, PoolWaiting DEF TP!PoolConsistent
      <4> QED BY <4>1, <4>2 DEF Sizes
    <3>3. PICK w \in Workers : TRUE BY PoolAssumption
    <3>4. pwpc[w] \in PoolStates /\ pwpc[w] \notin {"leaving", "done", "blocking", "asleep", "woken"}
      BY <1>1, <3>2 DEF TP!PoolConsistent, TP!TypeOK, TP!LeavesDrained, InWait, PoolStates
    <3> QED BY <1>1, <3>4 DEF TP!NoSleepOnWork, PoolStates
  <2> QED BY <2>1, <2>2
<1>7. TP!LeavesDrained' BY <1>1 DEF TP!PoolConsistent, TP!LeavesDrained
<1>8. TP!MutexHeld' BY <1>1 DEF TP!PoolConsistent, TP!MutexHeld
<1>9. TP!JoinedAll' BY <1>1 DEF TP!PoolConsistent, TP!JoinedAll
<1>10. TP!EX!Accept(f)
  <2>1. TP!EX!Known = accepted BY DEF TP!EX!Known, TP!PoolConsistent, TP!TaskInOnePlace, TP!Queued
  <2>2. TP!InProgress' = TP!InProgress BY <1>1 DEF TP!InProgress
  <2> QED BY <1>1, <2>1, <2>2 DEF TP!EX!Accept
<1> QED BY <1>3, <1>4, <1>5, <1>6, <1>7, <1>8, <1>9, <1>10 DEF TP!PoolConsistent

\* Every step of the pool keeps its bookkeeping and is a step of an executor, or
\* changes nothing an executor shows.
LEMMA PoolStep ==
  ASSUME Sizes, TP!PoolConsistent, [TP!Next]_(TP!vars)
  PROVE  TP!PoolConsistent' /\ [TP!EX!Next]_(TP!EX!vars)
<1>1. CASE \E w \in Workers : (TP!Lock(w) \/ TP!Relock(w)) /\ queue # <<>>
  BY <1>1, PoolTakes DEF TP!EX!Next
<1>2. CASE \E w \in Workers : (TP!Lock(w) \/ TP!Relock(w)) /\ queue = <<>>
  BY <1>2, PoolDecides
<1>3. CASE \E w \in Workers : TP!Sleep(w) \/ TP!Exit(w)
  BY <1>3, PoolReleases
<1>4. CASE \E w \in Workers : TP!EndTask(w)
  BY <1>4, PoolEnds DEF TP!EX!Next
<1>5. CASE \E c \in Clients, f \in PoolTasks : TP!Post(c, f)
  BY <1>5, PoolPosts DEF TP!EX!Next
<1>6. CASE \E c \in Clients : TP!NotifyOne(c)
  BY <1>6, PoolNotifyOne
<1>7. CASE \/ \E c \in Clients : TP!NotifyAll(c) \/ TP!AddGuard(c) \/ TP!RemoveGuard(c)
           \/ \E w \in Workers : TP!WakeSpuriously(w)
           \/ TP!Stop \/ TP!StopNotifies \/ TP!JoinReturns
  BY <1>7, PoolSignals
<1>8. CASE UNCHANGED TP!vars
  <2>1. UNCHANGED <<state, queue, waiting, guards, owner, pwpc, prunning, pcpc, jpc, accepted,
                    pfinished, guarded>>
    BY <1>8 DEF TP!vars
  <2>2. WokenOnly BY <2>1 DEF WokenOnly, PoolStates, TP!PoolConsistent, TP!TypeOK
  <2>3. TP!NoSleepOnWork' BY <2>1 DEF TP!PoolConsistent, TP!NoSleepOnWork
  <2>4. TP!JoinedAll' BY <2>1 DEF TP!PoolConsistent, TP!JoinedAll
  <2> QED BY <2>1, <2>2, <2>3, <2>4, PoolQuiet DEF TP!PoolConsistent, TP!TypeOK
<1> QED BY <1>1, <1>2, <1>3, <1>4, <1>5, <1>6, <1>7, <1>8 DEF TP!Next, TP!Worker

\* join() returns after the last worker left, when no task is left anywhere.
LEMMA JoinedPool == TP!PoolConsistent => TP!JoinRunsEverything
<1> SUFFICES ASSUME TP!PoolConsistent, jpc = "returned" PROVE queue = <<>> /\ pfinished = accepted
  BY DEF TP!JoinRunsEverything
<1>1. \A w \in Workers : pwpc[w] = "done" BY DEF TP!PoolConsistent, TP!JoinedAll
<1>2. queue = <<>> BY <1>1, PoolAssumption DEF TP!PoolConsistent, TP!LeavesDrained
<1>3. TP!Queued = {} BY <1>2, SMT DEF TP!Queued
<1>4. TP!InProgress = {} BY <1>1 DEF TP!PoolConsistent, TP!TaskInOnePlace, TP!InProgress
<1> QED BY <1>2, <1>3, <1>4 DEF TP!PoolConsistent, TP!TaskInOnePlace

-----------------------------------------------------------------------------
\* The two beside each other, as they are model-checked.

LEMMA BothInit ==
  ASSUME Sizes, MCInit
  PROVE  TasksConsistent /\ EX!Init /\ TP!PoolConsistent /\ TP!EX!Init
<1> SUFFICES TP!PoolConsistent /\ TP!EX!Init BY StrandInit DEF MCInit
<1>1. CASE PoolRests
  <2>1. queue \in Seq(PoolTasks) BY <1>1, SMT DEF PoolRests
  <2>2. guards \in 0..MaxGuards BY <1>1, PoolAssumption, SMT DEF PoolRests
  <2>3. owner \in SUBSET Workers /\ TP!Cardinality(owner) <= 1 BY <1>1, MutexType DEF PoolRests
  <2>4. waiting = TP!Cardinality(Workers) /\ waiting \in Nat
    <3>1. \A S : TP!Cardinality(S) = Cardinality(S) BY DEF TP!Cardinality, Cardinality
    <3>2. waiting = Cardinality(Workers) BY <1>1 DEF PoolRests
    <3> QED BY <3>1, <3>2 DEF Sizes
  <2>5. TP!TypeOK BY <1>1, <2>1, <2>2, <2>3, <2>4 DEF PoolRests, TP!TypeOK
  <2>6. InWait(pwpc) = Workers BY <1>1 DEF PoolRests, InWait
  <2>7. TP!WaitingExact BY <2>4, <2>6, PoolWaiting
  <2>8. TP!InProgress = {} /\ TP!Queued = {} BY <1>1, SMT DEF PoolRests, TP!InProgress, TP!Queued
  <2>9. TP!TaskInOnePlace BY <1>1, <2>8, SMT DEF PoolRests, TP!TaskInOnePlace
  <2>10. TP!NoSleepOnWork /\ TP!LeavesDrained /\ TP!MutexHeld /\ TP!JoinedAll
    BY <1>1 DEF PoolRests, TP!NoSleepOnWork, TP!LeavesDrained, TP!MutexHeld, TP!JoinedAll
  <2> QED BY <1>1, <2>5, <2>7, <2>8, <2>9, <2>10 DEF TP!PoolConsistent, PoolRests, TP!EX!Init
<1> QED BY <1>1, PoolInit DEF MCInit

LEMMA BothStep == [MCNext]_<<layer, vars, poolVars>> => [Next]_vars /\ [TP!Next]_(TP!vars)
BY DEF MCNext, poolVars, TP!vars

-----------------------------------------------------------------------------
\* FiniteSetTheorems brings a Cardinality and an IsFiniteSet of its own, so
\* those of the model are put in terms of their definitions first.
Finite(S) == IsFiniteSet(S)

LEMMA FiniteForm ==
  ASSUME NEW S
  PROVE  Finite(S) <=> \E q \in Seq(S) : \A s \in S : \E k \in 1..Len(q) : q[k] = s
BY DEF Finite, IsFiniteSet

LEMMA FiniteWorkers == Finite(Workers)
BY StrandAssumption DEF Finite

LOCAL INSTANCE FiniteSetTheorems

LEMMA SizesHold == Sizes
<1>1. \A S : TP!Cardinality(S) = Cardinality(S) BY DEF TP!Cardinality, Cardinality
<1>2. IsFiniteSet(Workers) BY FiniteForm, FiniteWorkers DEF IsFiniteSet
<1>3. TP!Cardinality({}) = 0 BY <1>1, FS_EmptySet
<1>4. ASSUME NEW S \in SUBSET Workers
      PROVE  /\ TP!Cardinality(S) \in Nat /\ (TP!Cardinality(S) = 0 => S = {})
             /\ \A w : w \notin S => TP!Cardinality(S \cup {w}) = TP!Cardinality(S) + 1
  <2>1. IsFiniteSet(S) BY <1>2, FS_Subset
  <2>2. Cardinality(S) \in Nat /\ (Cardinality(S) = 0 => S = {}) BY <2>1, FS_CardinalityType, FS_EmptySet
  <2>3. \A w : w \notin S => Cardinality(S \cup {w}) = Cardinality(S) + 1 BY <2>1, FS_AddElement
  <2> QED BY <1>1, <2>2, <2>3
<1> QED BY <1>3, <1>4 DEF Sizes

LEMMA PoolStarts == TP!Init => TP!PoolConsistent /\ TP!EX!Init
BY PoolInit, SizesHold

LEMMA PoolMoves ==
  TP!PoolConsistent /\ [TP!Next]_(TP!vars) => TP!PoolConsistent' /\ [TP!EX!Next]_(TP!EX!vars)
BY PoolStep, SizesHold

LEMMA BothStart == MCInit => TasksConsistent /\ EX!Init /\ TP!PoolConsistent /\ TP!EX!Init
BY BothInit, SizesHold

\* thread_pool, with any number of workers, clients, tasks and guards:
\* waiting_workers is exact, no task waits with every worker asleep and no
\* notification coming, workers leave a drained pool, and every accepted task
\* is in one place.
THEOREM PoolInvariant == TP!Spec => []TP!PoolConsistent
BY PoolStarts, PoolMoves, PTL DEF TP!Spec

\* thread_pool is an executor: tasks start in the order they were accepted, no
\* two workers take the same one, and none is lost.
THEOREM PoolIsExecutor == TP!Spec => TP!ImplementsExecutor
BY PoolStarts, PoolMoves, PTL DEF TP!Spec, TP!ImplementsExecutor, TP!EX!Spec

\* join() returns only when the queue is empty and every task that post()
\* accepted has returned or thrown.
THEOREM PoolJoin == TP!Spec => []TP!JoinRunsEverything
BY PoolInvariant, JoinedPool, PTL

\* The invariant of the run for every number of threads, tasks and guards: types,
\* a task never waits without a drain or a worker that will see it, and a task
\* is in one place.
THEOREM ExecutorsInvariant == MCSpec => []ExecutorsConsistent
BY BothStart, BothStep, StrandStep, PoolMoves, PTL DEF MCSpec, ExecutorsConsistent

\* strand.hpp and thread_pool both implement Executor.
THEOREM ExecutorsRefine == MCSpec => ExecutorsImplement
<1>1. MCInit /\ [][MCNext]_<<layer, vars, poolVars>> => EX!Spec /\ TP!EX!Spec
  BY BothStart, BothStep, StrandStep, PoolMoves, PTL DEF EX!Spec, TP!EX!Spec
<1> QED BY <1>1, PTL DEF MCSpec, ExecutorsImplement, ImplementsExecutor, TP!ImplementsExecutor

\* join() returns only when every accepted task has run.
THEOREM JoinedRanEverything == MCSpec => []JoinRunsEverything
BY ExecutorsInvariant, JoinedPool, PTL DEF ExecutorsConsistent, JoinRunsEverything
=============================================================================
