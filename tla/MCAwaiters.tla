----------------------------- MODULE MCAwaiters -----------------------------
(***************************************************************************)
(* Two awaiters that a stop request races against a result from another    *)
(* thread: condition_event, with two waits and up to two notifications,    *)
(* and one async_resolve.  A behaviour is about one of them.               *)
(***************************************************************************)
EXTENDS ConditionEvent

CONSTANTS w1, w2

VARIABLES rserial, rapc, rdone, stored, rstopCb, rstopped, job, answer, resumes, seen

RS == INSTANCE Resolver WITH serial <- rserial, apc <- rapc, done <- rdone, stopCb <- rstopCb,
                             stopped <- rstopped

resolveVars == <<rserial, rapc, rdone, stored, rstopCb, rstopped, job, answer, resumes, seen>>

MCInit == Init /\ RS!Init /\ rserial = serial
MCNext == \/ ~rstopped /\ rapc = "start" /\ Next /\ UNCHANGED resolveVars
          \/ notifies = 0 /\ stopped = {} /\ ~destroyed /\ apc = All("start") /\ RS!Next /\ UNCHANGED vars
MCSpec == MCInit /\ [][MCNext]_<<vars, resolveVars>> /\ Fairness /\ RS!Fairness

\* Types; a coroutine that awaits either is resumed once, never forgotten and,
\* on one thread, not while await_suspend still runs.
AwaitersConsistent == WaitersConsistent /\ RS!TypeOK /\ RS!ResolvedOnce /\ RS!OneWinner

\* The wait ends with what its completion decided, the lookup with what
\* getaddrinfo answered or, if stop was requested, as aborted.
AwaitedResult == ResultIsCompletion /\ RS!ResultHasCause

\* A stop request or the destruction of the event ends a wait, and a lookup
\* that was handed to the pool, or is stopped, returns.
AwaitsEnd == StopOrDestroyEndsWait /\ RS!Returns
=============================================================================
