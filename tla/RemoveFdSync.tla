---------------------------- MODULE RemoveFdSync ----------------------------
(***************************************************************************)
(* io_context_impl::remove_fd_sync: a thread has a descriptor removed from *)
(* the registry and the backend, by the reactor when a loop is running, by *)
(* itself when none is, and waits on a condition variable that is notified *)
(* without its mutex.  Each thread removes its own descriptor; the event   *)
(* loop is reduced to the callbacks these threads post and to where run()  *)
(* begins and ends.  The mutex keeps only the removing threads apart, each *)
(* of which looks at its own flags, and is left out.                       *)
(***************************************************************************)
EXTENDS Naturals, FiniteSets

CONSTANTS Threads,   \* threads that call remove_fd_sync, once each
          MaxRuns    \* bound: runs of the event loop

VARIABLES running, runs,   \* running_, and the number of runs begun
          loop, cur,       \* the reactor thread, and whose callback it executes
          posted,          \* callbacks in the posted queue
          removed, done,   \* sync_remove_state, by thread
          removals,        \* completed calls of remove_fd_impl, by thread
          pc               \* remove_fd_sync, by thread

vars == <<running, runs, loop, cur, posted, removed, done, removals, pc>>

Init == /\ running = FALSE /\ runs = 0 /\ loop = "off" /\ cur = {} /\ posted = {}
        /\ removed = [t \in Threads |-> FALSE] /\ done = [t \in Threads |-> FALSE]
        /\ removals = [t \in Threads |-> 0] /\ pc = [t \in Threads |-> "idle"]

-----------------------------------------------------------------------------
Go(t, p) == pc' = [pc EXCEPT ![t] = p]
NotifyNobody == UNCHANGED pc
NotifyAll == pc' = [t \in Threads |-> IF pc[t] = "asleep" THEN "check" ELSE pc[t]]
Removes(t) == removals' = [removals EXCEPT ![t] = @ + 1]

\* removed.exchange(true): whether the caller is the one to remove.
ClaimAlways(t) == TRUE
Claims(t) == ~removed[t]

\* run(), run_one() or run_for() begins; it ends when stopped or out of work,
\* and notifies after it has cleared running_.
BeginRun == /\ loop = "off" /\ runs < MaxRuns
            /\ running' = TRUE /\ runs' = runs + 1 /\ loop' = "idle"
            /\ UNCHANGED <<cur, posted, removed, done, removals, pc>>

EndRun == /\ loop = "idle" /\ running' = FALSE /\ loop' = "ended"
          /\ UNCHANGED <<runs, cur, posted, removed, done, removals, pc>>

NotifyEnd == /\ loop = "ended" /\ loop' = "off" /\ NotifyAll
             /\ UNCHANGED <<running, runs, cur, posted, removed, done, removals>>

\* The callback remove_once: claim, remove, set done, notify.
BeginCallback(t) ==
  /\ loop = "idle" /\ t \in posted
  /\ posted' = posted \ {t} /\ cur' = {t}
  /\ removed' = [removed EXCEPT ![t] = TRUE]
  /\ loop' = IF Claims(t) THEN "remove" ELSE "done"
  /\ UNCHANGED <<running, runs, done, removals, pc>>

CallbackRemoves(t) == /\ loop = "remove" /\ t \in cur /\ Removes(t) /\ loop' = "done"
                      /\ UNCHANGED <<running, runs, cur, posted, removed, done, pc>>

CallbackDone(t) == /\ loop = "done" /\ t \in cur
                   /\ done' = [done EXCEPT ![t] = TRUE] /\ loop' = "notify"
                   /\ UNCHANGED <<running, runs, cur, posted, removed, removals, pc>>

CallbackNotifies == /\ loop = "notify" /\ NotifyAll /\ loop' = "idle" /\ cur' = {}
                    /\ UNCHANGED <<running, runs, posted, removed, done, removals>>

Reactor == \/ NotifyEnd \/ CallbackNotifies
           \/ \E t \in Threads : BeginCallback(t) \/ CallbackRemoves(t) \/ CallbackDone(t)

-----------------------------------------------------------------------------
\* remove_fd_sync.  A foreign thread trusts one look at running_.
Enter(t) == /\ pc[t] = "idle" /\ Go(t, IF running THEN "post" ELSE "direct")
            /\ UNCHANGED <<running, runs, loop, cur, posted, removed, done, removals>>

DirectRemove(t) == /\ pc[t] = "direct" /\ Removes(t) /\ Go(t, "returned")
                   /\ UNCHANGED <<running, runs, loop, cur, posted, removed, done>>

PostCallback(t) == /\ pc[t] = "post" /\ posted' = posted \cup {t} /\ Go(t, "check")
                   /\ UNCHANGED <<running, runs, loop, cur, removed, done, removals>>

\* cv.wait: the predicate, then to sleep.
Wakes(t) == done[t] \/ ~running
CheckPredicate(t) == /\ pc[t] = "check" /\ Go(t, IF Wakes(t) THEN "woken" ELSE "block")
                     /\ UNCHANGED <<running, runs, loop, cur, posted, removed, done, removals>>

Block(t) == /\ pc[t] = "block" /\ Go(t, "asleep")
            /\ UNCHANGED <<running, runs, loop, cur, posted, removed, done, removals>>

\* The wait may also end without a notification.
WakeSpuriously(t) == /\ pc[t] = "asleep" /\ Go(t, "check")
                     /\ UNCHANGED <<running, runs, loop, cur, posted, removed, done, removals>>

\* The loop ended first: the thread removes the descriptor itself unless the
\* callback has been claimed.
FallbackTrustsLoop(t) == FALSE
FallbackNeeded(t) == ~done[t]
Fallback(t) ==
  /\ pc[t] = "woken"
  /\ IF FallbackNeeded(t)
       THEN /\ Go(t, IF Claims(t) THEN "own" ELSE "finish")
            /\ removed' = [removed EXCEPT ![t] = TRUE]
       ELSE Go(t, "returned") /\ UNCHANGED removed
  /\ UNCHANGED <<running, runs, loop, cur, posted, done, removals>>

OwnRemove(t) == /\ pc[t] = "own" /\ Removes(t) /\ Go(t, "finish")
                /\ UNCHANGED <<running, runs, loop, cur, posted, removed, done>>

Finish(t) == /\ pc[t] = "finish" /\ done' = [done EXCEPT ![t] = TRUE] /\ Go(t, "returned")
             /\ UNCHANGED <<running, runs, loop, cur, posted, removed, removals>>

Step(t) == \/ DirectRemove(t) \/ PostCallback(t) \/ CheckPredicate(t) \/ Block(t) \/ Fallback(t)
           \/ OwnRemove(t) \/ Finish(t)

Next == BeginRun \/ EndRun \/ Reactor \/ \E t \in Threads : Enter(t) \/ WakeSpuriously(t) \/ Step(t)
Spec == Init /\ [][Next]_vars
\* The reactor thread and the callers run on; nothing promises that a run
\* begins or ends.
Fairness == WF_vars(Reactor) /\ \A t \in Threads : WF_vars(Step(t))
LiveSpec == Spec /\ Fairness

-----------------------------------------------------------------------------
\* Type invariant, and: no descriptor is removed twice, however the callback,
\* the fallback and a later run of the loop interleave.
TypeOK ==
  /\ running \in BOOLEAN /\ runs \in 0..MaxRuns
  /\ loop \in {"off", "idle", "remove", "done", "notify", "ended"}
  /\ cur \subseteq Threads /\ posted \subseteq Threads
  /\ removed \in [Threads -> BOOLEAN] /\ done \in [Threads -> BOOLEAN]
  /\ removals \in [Threads -> 0..1]
  /\ pc \in [Threads -> {"idle", "direct", "post", "check", "block", "asleep", "woken", "own",
                         "finish", "returned"}]

\* remove_fd_sync returns only when the descriptor has been removed, so the
\* caller may close or give it away ("waits_for_reactor_deregistration_completion").
\* One case is excepted: the loop ended and a later run of it has just claimed
\* the removal, which the caller then does not wait for.
ReturnMeansRemoved ==
  \A t \in Threads : pc[t] = "returned" =>
    removals[t] = 1 \/ (runs > 1 /\ loop = "remove" /\ t \in cur)

\* A caller that sleeps before its callback has run is woken, by the callback
\* or by the end of the run.  (One that evaluated the predicate and is not yet
\* asleep can miss both: notify_state_change does not take the mutex.)
SleeperWoken ==
  \A t \in Threads : (pc[t] = "asleep" /\ running /\ ~done[t]) ~> pc[t] # "asleep"
=============================================================================
