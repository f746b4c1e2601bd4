----------------------------- MODULE EventLoop -----------------------------
(***************************************************************************)
(* The event loop of io_context_impl with posted_queue, wake_state and the *)
(* eventfd of the backend: one reactor thread inside run(), run_one() or   *)
(* run_for(), and foreign threads that post, stop, restart and hold work   *)
(* guards.  One step is one atomic access to shared state (a critical      *)
(* section, an atomic read-modify-write, a system call); has_work() and    *)
(* is_stopped() are read together, since each of their inputs is checked   *)
(* again before the loop acts on it.                                       *)
(*                                                                         *)
(* Timers are abstracted to the state of the earliest one (TimerRegistry   *)
(* has the detail), descriptors to the events that end a wait.  A          *)
(* registered descriptor keeps has_work() true as a work guard does, and   *)
(* guards stands for both.  A local of the loop is reset once nothing will *)
(* read it again.                                                          *)
(***************************************************************************)
EXTENDS Naturals, Sequences, FiniteSets

CONSTANTS Threads,      \* foreign threads
          Tasks,        \* callbacks posted once
          Reposters,    \* callbacks that post themselves again each time they run
          MaxGuards,    \* bound: work guards alive at once
          WriteMayFail  \* whether write(eventfd) may fail

ASSUME LoopAssumption == /\ IsFiniteSet(Threads)
                         /\ Tasks \cap Reposters = {}
                         /\ MaxGuards \in Nat
                         /\ WriteMayFail \in BOOLEAN

VARIABLES
  pc,        \* where the reactor thread is; "out" when it is not in run*()
  mode,      \* which of run, run_one, run_for it is in
  progress,  \* process() ran at least one callback in this call
  fatal,     \* inside the handler for a backend failure
  timeout,   \* the wait computed by next_wait: "inf", "finite" or "zero"
  queue,     \* posted_queue::queue_
  local,     \* the batch process() swapped out
  pending,   \* pending_count_
  stopped, guards, timer,
  phase,     \* wake_state::phase_
  eventfd,   \* counter of the eventfd
  fpc,       \* thread -> where it is in wakeup(): "idle", "notify", "write"
  order, executed, \* histories: one-shot callbacks in the order posted / run
  threw      \* history: a callback has thrown

loopVars == <<mode, fatal, timeout>>
queueVars == <<queue, local, pending, order, executed, threw>>
wakeVars == <<phase, eventfd, fpc>>
vars == <<pc, progress, loopVars, queueVars, wakeVars, stopped, guards, timer>>

Init == /\ pc = "out" /\ mode = "run" /\ progress = FALSE /\ fatal = FALSE /\ timeout = "inf"
        /\ queue = <<>> /\ local = <<>> /\ pending = 0 /\ order = <<>> /\ executed = <<>>
        /\ threw = FALSE
        /\ stopped = FALSE /\ guards = 0 /\ timer = "none"
        /\ phase = "running" /\ eventfd = 0 /\ fpc = [t \in Threads |-> "idle"]

-----------------------------------------------------------------------------
Elements(s) == {s[i] : i \in DOMAIN s}
has_work == guards > 0 \/ pending > 0 \/ timer # "none"
Go(p) == pc' = p

\* run(), run_one() and run_for() differ in what follows each stage.
RepeatPosted == IF pending > 0 THEN "swap" ELSE IF fatal THEN "drain_posted"
                ELSE IF mode # "run_one" THEN "check2" ELSE IF progress THEN "exit" ELSE "timers"
AfterPosted == IF fatal THEN "drain_posted"
               ELSE IF mode # "run_one" THEN "check2"
               ELSE IF progress THEN "exit" ELSE "timers"
AfterTimers(fired) == IF mode # "run_one" THEN "check3" ELSE IF fired THEN "exit" ELSE "wait"
AfterEvents == IF mode = "run_one" THEN "exit" ELSE "check1"

-----------------------------------------------------------------------------
\* posted_queue::post.
Enqueue(f) == Append(queue, f)

\* The reactor thread enters and leaves the loop.
Enter(m) == /\ pc = "out" /\ Go("check1") /\ mode' = m
            /\ UNCHANGED <<progress, fatal, timeout, queueVars, wakeVars, stopped, guards, timer>>

Leave == /\ pc = "exit" /\ Go("out") /\ mode' = "run"
         /\ UNCHANGED <<progress, fatal, timeout, queueVars, wakeVars, stopped, guards, timer>>

\* "if (is_stopped() || !has_work()) break", before each stage.
Check == /\ pc \in {"check1", "check2", "check3"}
         /\ Go(IF stopped \/ ~has_work THEN "exit"
               ELSE CASE pc = "check1" -> "swap" [] pc = "check2" -> "timers" [] OTHER -> "wait")
         /\ UNCHANGED <<progress, loopVars, queueVars, wakeVars, stopped, guards, timer>>

\* run_for(): the deadline has passed.
Deadline == /\ pc = "check1" /\ mode = "run_for" /\ Go("exit")
            /\ UNCHANGED <<progress, loopVars, queueVars, wakeVars, stopped, guards, timer>>

\* posted_queue::process: take the whole queue ...
Swap == /\ pc = "swap" /\ Go("tasks")
        /\ local' = queue /\ queue' = <<>> /\ progress' = FALSE
        /\ UNCHANGED <<loopVars, pending, order, executed, threw, wakeVars, stopped, guards, timer>>

BatchDone == /\ pc = "tasks" /\ local = <<>> /\ Go(AfterPosted) /\ progress' = FALSE
             /\ UNCHANGED <<loopVars, queueVars, wakeVars, stopped, guards, timer>>

\* ... and run it.  The count goes down before the callback is called.
CountKept == pending
CountTaken == pending - 1
Taken(f) == executed' = IF f \in Tasks THEN Append(executed, f) ELSE executed

\* A callback that returns may have posted (from the reactor thread, so
\* without a wakeup), armed a timer or stopped the loop.  In stop() the wakeup
\* finds the phase running or notified, or rolled back by a failed write.
TaskReturns ==
  /\ pc = "tasks" /\ local # <<>>
  /\ Taken(Head(local)) /\ local' = Tail(local) /\ progress' = TRUE
  /\ LET f == Head(local) IN
     \/ /\ f \in Reposters /\ queue' = Enqueue(f) /\ pending' = CountTaken + 1
        /\ UNCHANGED <<order, stopped, timer, phase, eventfd>>
     \/ /\ f \in Tasks /\ \E g \in Tasks \ Elements(order) :
             /\ queue' = Enqueue(g) /\ order' = Append(order, g) /\ pending' = CountTaken + 1
        /\ UNCHANGED <<stopped, timer, phase, eventfd>>
     \/ /\ f \in Tasks /\ timer = "none" /\ timer' = "armed" /\ pending' = CountTaken
        /\ UNCHANGED <<queue, order, stopped, phase, eventfd>>
     \/ /\ f \in Tasks /\ stopped' = TRUE /\ pending' = CountTaken
        /\ IF phase = "waiting" THEN phase' = "notified" /\ eventfd' = eventfd + 1
                                ELSE UNCHANGED <<phase, eventfd>>
        /\ UNCHANGED <<queue, order, timer>>
     \/ /\ f \in Tasks /\ pending' = CountTaken
        /\ UNCHANGED <<queue, order, stopped, timer, phase, eventfd>>
  /\ UNCHANGED <<pc, loopVars, threw, fpc, guards>>

\* A callback that throws: the rest of the batch goes to the back of queue_ and
\* the exception leaves run*(), or is swallowed by the failure handler.
DropBatch(rest) == queue
Requeue(rest) == queue \o rest

TaskThrows ==
  /\ pc = "tasks" /\ local # <<>> /\ Head(local) \in Tasks
  /\ Taken(Head(local)) /\ pending' = CountTaken /\ progress' = FALSE
  /\ queue' = Requeue(Tail(local)) /\ local' = <<>>
  /\ threw' = TRUE
  /\ Go(IF fatal THEN "drain_posted" ELSE "exit")
  /\ UNCHANGED <<loopVars, order, wakeVars, stopped, guards, timer>>

\* timers_.process_expired().
Timers == /\ pc = "timers"
          /\ timer' = IF timer = "expired" THEN "none" ELSE timer
          /\ Go(AfterTimers(timer = "expired"))
          /\ UNCHANGED <<progress, loopVars, queueVars, wakeVars, stopped, guards>>

\* next_wait, rounded down to milliseconds; run() and run_for() then look at
\* the queue once more, run_one() does not.
TimerWait == CASE timer = "none" -> IF mode = "run_for" THEN {"finite", "zero"} ELSE {"inf"}
               [] timer = "armed" -> {"finite", "zero"}
               [] OTHER -> {"zero"}
WaitChoices == IF mode # "run_one" /\ pending > 0 THEN {"zero"} ELSE TimerWait

ComputeWait == /\ pc = "wait" /\ timeout' \in WaitChoices
               /\ Go(IF timeout' = "zero" THEN "block" ELSE "prepare")
               /\ UNCHANGED <<progress, mode, fatal, queueVars, wakeVars, stopped, guards, timer>>

-----------------------------------------------------------------------------
\* wake_state on the reactor side.
BeginWait(p) == IF p = "running" THEN "waiting" ELSE p
ForgetToken(p) == "running"
FinishWait(p) == IF p = "waiting" THEN "running" ELSE p

\* prepare_wait, only before a wait that may block.
PrepareWait == /\ pc = "prepare" /\ Go("block") /\ phase' = BeginWait(phase)
               /\ UNCHANGED <<progress, loopVars, queueVars, eventfd, fpc, stopped, guards, timer>>

\* epoll_wait returns: because the eventfd is readable,
WaitEventfd == /\ pc = "block" /\ eventfd > 0 /\ Go("drain") /\ timeout' = "inf"
               /\ UNCHANGED <<progress, mode, fatal, queueVars, wakeVars, stopped, guards, timer>>
\* because its timeout ran out,
WaitTimeout == /\ pc = "block" /\ Go("finish") /\ timeout' = "inf"
               /\ timeout = "zero" \/ (timeout = "finite" /\ (timer = "expired" \/ mode = "run_for"))
               /\ UNCHANGED <<progress, mode, fatal, queueVars, wakeVars, stopped, guards, timer>>
\* for a descriptor or a signal,
WaitOther == /\ pc = "block" /\ Go("finish") /\ timeout' = "inf"
             /\ UNCHANGED <<progress, mode, fatal, queueVars, wakeVars, stopped, guards, timer>>
\* or it fails: the loop is stopped, timers are aborted, the queue is drained.
WaitThrows == /\ pc = "block" /\ Go("drain_posted") /\ fatal' = TRUE
              /\ phase' = FinishWait(phase) /\ stopped' = TRUE /\ timer' = "none" /\ timeout' = "inf"
              /\ UNCHANGED <<progress, mode, queueVars, eventfd, fpc, guards>>

\* drain_eventfd and consume_notification, two steps.
DrainEventfd == /\ pc = "drain" /\ Go("consume") /\ eventfd' = 0
                /\ UNCHANGED <<progress, loopVars, queueVars, phase, fpc, stopped, guards, timer>>
ConsumeNotification ==
  /\ pc = "consume" /\ Go("finish") /\ phase' = "running"
  /\ UNCHANGED <<progress, loopVars, queueVars, eventfd, fpc, stopped, guards, timer>>

\* The scope guard of wait(), then the ready descriptors are processed.
Finish == /\ pc = "finish" /\ Go(AfterEvents) /\ phase' = FinishWait(phase)
          /\ UNCHANGED <<progress, loopVars, queueVars, eventfd, fpc, stopped, guards, timer>>

\* "while (posted_.has_pending_tasks())" of the failure handler.
DrainPosted == /\ pc = "drain_posted"
               /\ IF pending > 0 THEN Go("swap") /\ UNCHANGED fatal
                                 ELSE Go(AfterEvents) /\ fatal' = FALSE
               /\ UNCHANGED <<progress, mode, timeout, queueVars, wakeVars, stopped, guards, timer>>

-----------------------------------------------------------------------------
\* Foreign threads: the state change, then wakeup().
Call(t) == fpc[t] = "idle" /\ fpc' = [fpc EXCEPT ![t] = "notify"]

Post(t, f) == /\ Call(t) /\ f \notin Elements(order) \cup Elements(queue) \cup Elements(local)
              /\ queue' = Enqueue(f) /\ pending' = pending + 1
              /\ order' = IF f \in Tasks THEN Append(order, f) ELSE order
              /\ UNCHANGED <<pc, progress, loopVars, local, executed, threw, phase, eventfd,
                             stopped, guards, timer>>

Stop(t) == /\ Call(t) /\ stopped' = TRUE
           /\ UNCHANGED <<pc, progress, loopVars, queueVars, phase, eventfd, guards, timer>>

Restart(t) == /\ fpc[t] = "idle" /\ stopped' = FALSE
              /\ UNCHANGED <<pc, progress, loopVars, queueVars, wakeVars, guards, timer>>

AddGuard(t) == /\ fpc[t] = "idle" /\ guards < MaxGuards /\ guards' = guards + 1
               /\ UNCHANGED <<pc, progress, loopVars, queueVars, wakeVars, stopped, timer>>

RemoveGuard(t) == /\ fpc[t] = "idle" /\ guards > 0 /\ guards' = guards - 1
                  /\ fpc' = [fpc EXCEPT ![t] = IF guards = 1 THEN "notify" ELSE "idle"]
                  /\ UNCHANGED <<pc, progress, loopVars, queueVars, phase, eventfd, stopped, timer>>

\* wake_state::notify: only the thread that moves waiting to notified writes.
NotifyClaims(t) == phase = "waiting"

Notify(t) ==
  /\ fpc[t] = "notify"
  /\ phase' = IF NotifyClaims(t) THEN "notified" ELSE phase
  /\ fpc' = [fpc EXCEPT ![t] = IF NotifyClaims(t) THEN "write" ELSE "idle"]
  /\ UNCHANGED <<pc, progress, loopVars, queueVars, eventfd, stopped, guards, timer>>

Unwritten == eventfd
Written == eventfd + 1
WriteEventfd(t) ==
  /\ fpc[t] = "write" /\ eventfd' = Written /\ fpc' = [fpc EXCEPT ![t] = "idle"]
  /\ UNCHANGED <<pc, progress, loopVars, queueVars, phase, stopped, guards, timer>>

WriteFails(t) ==
  /\ WriteMayFail
  /\ fpc[t] = "write" /\ phase' = "waiting" /\ fpc' = [fpc EXCEPT ![t] = "idle"]
  /\ UNCHANGED <<pc, progress, loopVars, queueVars, eventfd, stopped, guards, timer>>

TimerExpires == /\ timer = "armed" /\ timer' = "expired"
                /\ UNCHANGED <<pc, progress, loopVars, queueVars, wakeVars, stopped, guards>>

-----------------------------------------------------------------------------
\* What the reactor thread does by itself.  Events of descriptors and failures
\* of the backend come from outside and are owed to nobody.
Reactor == \/ Leave \/ Check \/ Swap \/ BatchDone \/ TaskReturns \/ Timers \/ ComputeWait
           \/ PrepareWait \/ WaitEventfd \/ WaitTimeout \/ DrainEventfd \/ ConsumeNotification
           \/ Finish \/ DrainPosted

Wakeup(t) == Notify(t) \/ WriteEventfd(t)

Next == \/ Reactor \/ TaskThrows \/ Deadline \/ WaitOther \/ WaitThrows \/ TimerExpires
        \/ \E m \in {"run", "run_one", "run_for"} : Enter(m)
        \/ \E t \in Threads : \/ Wakeup(t) \/ WriteFails(t)
                              \/ Stop(t) \/ Restart(t) \/ AddGuard(t) \/ RemoveGuard(t)
                              \/ \E f \in Tasks \cup Reposters : Post(t, f)

\* The threads that are inside the library keep running, and time passes.
Fairness == WF_vars(Reactor) /\ WF_vars(TimerExpires) /\ \A t \in Threads : WF_vars(Wakeup(t))

Spec == Init /\ [][Next]_vars
FairSpec == Spec /\ Fairness

-----------------------------------------------------------------------------
\* Every variable stays in its range.
TypeOK ==
  /\ pc \in {"out", "check1", "swap", "tasks", "check2", "timers", "check3", "wait", "prepare",
             "block", "drain", "consume", "finish", "drain_posted", "exit"}
  /\ mode \in {"run", "run_one", "run_for"}
  /\ progress \in BOOLEAN /\ fatal \in BOOLEAN /\ stopped \in BOOLEAN /\ threw \in BOOLEAN
  /\ timeout \in {"inf", "finite", "zero"} /\ timer \in {"none", "armed", "expired"}
  /\ queue \in Seq(Tasks \cup Reposters) /\ local \in Seq(Tasks \cup Reposters)
  /\ order \in Seq(Tasks) /\ executed \in Seq(Tasks)
  /\ pending \in Nat /\ guards \in Nat /\ eventfd \in Nat
  /\ phase \in {"running", "waiting", "notified"}
  /\ fpc \in [Threads -> {"idle", "notify", "write"}]

\* has_pending_tasks() and has_work() read an atomic counter instead of the
\* queue: it counts the callbacks that have not started, those of the batch
\* being run and those put back after an exception included.
PendingCountExact == pending = Len(queue) + Len(local)

\* The batch is only there while process() runs it.
BatchInProcess == local # <<>> => pc = "tasks"

\* A callback that was posted has been run, once, or still waits, once, also
\* when another one throws in the middle of a batch or the backend fails.
NoRepeats(s) == \A i, j \in DOMAIN s : s[i] = s[j] => i = j
Unstarted == local \o queue
NothingLost ==
  /\ NoRepeats(order) /\ NoRepeats(executed)
  /\ \A i, j \in DOMAIN Unstarted : Unstarted[i] \in Tasks /\ Unstarted[i] = Unstarted[j] => i = j
  /\ Elements(executed) \cap Elements(Unstarted) = {}
  /\ Elements(order) = Elements(executed) \cup (Elements(Unstarted) \cap Tasks)

\* As long as none threw, callbacks run in the order they were posted, whatever
\* threads post while a batch runs: those that ran were posted first, and the
\* others wait in the order in which they were posted.
PostedBefore(f, g) == \E i, j \in DOMAIN order : i < j /\ order[i] = f /\ order[j] = g
RunsInOrder ==
  ~threw => /\ \A i \in DOMAIN executed : i \in DOMAIN order /\ executed[i] = order[i]
            /\ \A i, j \in DOMAIN Unstarted :
                 i < j /\ Unstarted[i] \in Tasks /\ Unstarted[j] \in Tasks
                   => PostedBefore(Unstarted[i], Unstarted[j])

\* The posted queue: types, the counter, nothing lost, and the order.
QueueConsistent == TypeOK /\ PendingCountExact /\ BatchInProcess /\ NothingLost /\ RunsInOrder

\* The wake token of wake_state: while the phase is notified there is exactly
\* one token, held by a thread about to write the eventfd, by the eventfd, or
\* by the reactor between draining and consuming; otherwise there is none.  So
\* a reactor that blocks while notified is always about to be woken, no wakeup
\* is written twice, and a drain of the eventfd takes the one token.
Writers == {t \in Threads : fpc[t] = "write"}
WakeTokenUnique ==
  /\ Cardinality(Writers) + eventfd + (IF pc = "consume" THEN 1 ELSE 0)
       = (IF phase = "notified" THEN 1 ELSE 0)
  /\ pc = "drain" => eventfd = 1

\* A callback that was queued when a wakeup claimed the wait window is run,
\* unless the loop is stopped or left, or the write to the eventfd fails and the
\* window is given back.
NotifiedPostRuns ==
  \A f \in Tasks : (pc = "block" /\ phase = "notified" /\ f \in Elements(queue))
                   ~> (f \notin Elements(queue) \/ stopped \/ pc = "out" \/ phase = "waiting")

\* Callbacks that keep posting themselves do not starve an expired timer
\* (io_context_test posted_fairness_does_not_starve_expired_timer).  The
\* failure handler is exempt: its drain loop runs while anything is posted and
\* never looks at a timer that a callback arms meanwhile.
TimerNotStarved ==
  (timer = "expired" /\ pc # "out") ~> (timer # "expired" \/ pc = "out" \/ fatal)

\* dispatch_reactor: "enqueues via post() and executes on the next event-loop
\* iteration".  A callback posted while run() runs is run, unless the loop is
\* stopped or left.
PostedTaskRuns ==
  \A f \in Tasks : (f \in Elements(queue) /\ pc # "out" /\ mode = "run")
                   ~> (f \notin Elements(queue) \/ stopped \/ pc = "out")
=============================================================================
