------------------------------ MODULE MCTimers ------------------------------
(***************************************************************************)
(* The two layers of the timers, each against what the other promises it:  *)
(* timer_registry under the event loop, and steady_timer's waits over a    *)
(* registry that keeps the contract ReactorOp.  A behaviour is of one      *)
(* layer; the variables of the other keep their initial values.            *)
(***************************************************************************)
EXTENDS TimerRegistry

CONSTANTS o1, o2, w1, w2, c1, Waits, Callers, MaxCalls, LastTick, None

ASSUME WaitAssumption == None \notin Waits /\ MaxCalls \in Nat /\ LastTick \in Nat

VARIABLES layer, serial, clock, expiry, closed, handle, wpc, snapshot, old, waitDeadline, armed, done,
          ec, stopCb, stopped, resumes, res, taken, queue, calls, aimed

ST == INSTANCE SteadyTimer WITH MaxTime <- LastTick, now <- clock, pc <- wpc, deadline <- waitDeadline

waitVars == <<serial, clock, expiry, closed, handle, wpc, snapshot, old, waitDeadline, armed, done, ec,
              stopCb, stopped, resumes, res, taken, queue, calls, aimed>>
allVars == <<layer, vars, waitVars>>

\* A registry that has no timer left and sleeps: nothing more will happen in it.
Quiet == /\ nodes = <<>> /\ heap = {} /\ free = <<>> /\ activeCount = 0
         /\ pc = "asleep" /\ ready = <<>> /\ sleepUntil = Forever /\ wrapped = FALSE /\ now = MaxTime
         /\ handles = {} /\ deadline = [o \in Ops |-> 0]
         /\ onComplete = [o \in Ops |-> 0] /\ onAbort = [o \in Ops |-> 0]

MCInit == /\ ST!Init
          /\ \/ layer = "registry" /\ Init /\ serial
             \/ layer = "steady_timer" /\ Quiet
MCNext == \/ layer = "registry" /\ Next /\ UNCHANGED <<layer, waitVars>>
          \/ layer = "steady_timer" /\ ST!Next /\ UNCHANGED <<layer, vars>>
MCSpec == MCInit /\ [][MCNext]_allVars /\ Fairness /\ ST!Fairness

\* The bookkeeping of both layers: NodesConsistent, and the waits of
\* steady_timer are resumed exactly once and in time for await_suspend.
TimersConsistent == NodesConsistent /\ ST!WaitsConsistent

\* process_expired completes timers neither early nor out of order and the
\* reactor does not oversleep; a wait ends with ok only at its expiry and is
\* aborted only for a reason.
TimersOnTime == OnTime /\ NoOversleep /\ ST!ResultHasCause

\* "A timer with at most one pending wait at a time", whichever threads cancel,
\* update, replace and destroy.
OnePending == ST!OnePending

\* In a reactor woken by its own timeout alone every timer ends, and whatever
\* is to end a wait of a steady_timer ends it.
EveryTimerOrWaitEnds == EveryTimerEnds /\ ST!RequestEndsWait

\* The timer registered for a wait is that of the current expiry.
RegisteredWithExpiry == ST!RegisteredWithExpiry
=============================================================================
