--------------------------- MODULE ConditionEvent ---------------------------
(***************************************************************************)
(* condition_event.hpp: coroutines that wait, threads that notify, stop    *)
(* requests and the destruction of the event.  One step is one critical    *)
(* section of state::m or one access to an atomic or shared field.         *)
(*                                                                         *)
(* A call of cancel_waiter or complete in progress is a job: it unlinks    *)
(* the waiter ("unlink"), tries to set done ("claim"), and, if it was the  *)
(* first, stores the result, destroys the stop callback and posts the      *)
(* resumption ("deliver").  A behaviour is serial, when the coroutines run *)
(* on one thread and a posted resumption waits for await_suspend to        *)
(* return, or it is not.                                                   *)
(***************************************************************************)
EXTENDS Naturals, Sequences, FiniteSets

CONSTANTS Waiters,        \* one async_wait() each
          MaxNotifies     \* bound: notify() calls

ASSUME EventAssumption == IsFiniteSet(Waiters) /\ MaxNotifies \in Nat

VARIABLES
  serial,                                \* one thread for all coroutines
  pending, waiters, destroyed,           \* state
  done, suspended, cancelRequested, ec,  \* waiter_state
  stopCb,     \* waiter -> "none", "set", "running", "gone": its stop callback
  apc,        \* waiter -> where its coroutine is
  didSuspend, \* waiter -> wait_awaiter::did_suspend
  res,        \* waiter -> what async_wait returned, or "none"
  stopped,    \* the waiters whose stop was requested
  jobs,       \* calls in progress: [w, ec, by, step]
  posted,     \* waiter -> resumptions posted through its handle
  notifies    \* number of notify() calls so far

stateVars == <<pending, waiters, destroyed>>
waiterVars == <<done, suspended, cancelRequested, ec, stopCb>>
corVars == <<apc, didSuspend, res>>
vars == <<serial, stateVars, waiterVars, corVars, stopped, jobs, posted, notifies>>

All(v) == [w \in Waiters |-> v]
Init == /\ serial \in BOOLEAN /\ pending = 0 /\ waiters = <<>> /\ destroyed = FALSE
        /\ done = All(FALSE) /\ suspended = All(FALSE) /\ cancelRequested = All(FALSE)
        /\ ec = All("none") /\ stopCb = All("none")
        /\ apc = All("start") /\ didSuspend = All(FALSE) /\ res = All("none")
        /\ stopped = {} /\ jobs = {} /\ posted = All(0) /\ notifies = 0

-----------------------------------------------------------------------------
Set(f, w, v) == [f EXCEPT ![w] = v]
Go(w, p) == apc' = Set(apc, w, p)
Job(w, e, by, step) == [w |-> w, ec |-> e, by |-> by, step |-> step]
Linked == {waiters[i] : i \in DOMAIN waiters}

\* await_suspend returns false: the coroutine goes on with ready_res.
ReturnNow(w, r) == Go(w, "returned") /\ res' = Set(res, w, r) /\ UNCHANGED didSuspend

\* await_suspend, its first check.
Begin(w) ==
  /\ apc[w] = "start"
  /\ IF w \in stopped THEN ReturnNow(w, "aborted")
                       ELSE Go(w, "install") /\ UNCHANGED <<didSuspend, res>>
  /\ UNCHANGED <<serial, stateVars, waiterVars, stopped, jobs, posted, notifies>>

\* The stop callback is registered.  If stop was requested meanwhile it runs
\* here, finds the waiter not suspended and only leaves cancel_requested.
InstallStopCallback(w) ==
  /\ apc[w] = "install"
  /\ Go(w, "lock")
  /\ stopCb' = Set(stopCb, w, IF w \in stopped THEN "gone" ELSE "set")
  /\ cancelRequested' = Set(cancelRequested, w, w \in stopped)
  /\ UNCHANGED <<serial, stateVars, done, suspended, ec, didSuspend, res, stopped, jobs, posted, notifies>>

\* The critical section.  Destroying the callback waits for one that runs.
HasPending == pending > 0

LockDestroyed(w) ==
  /\ apc[w] = "lock" /\ destroyed /\ stopCb[w] # "running"
  /\ ReturnNow(w, "aborted")
  /\ stopCb' = Set(stopCb, w, "gone")
  /\ UNCHANGED <<serial, stateVars, done, suspended, cancelRequested, ec, stopped, jobs, posted, notifies>>

LockPending(w) ==
  /\ apc[w] = "lock" /\ ~destroyed /\ HasPending /\ stopCb[w] # "running"
  /\ pending' = pending - 1
  /\ ReturnNow(w, "ok")
  /\ stopCb' = Set(stopCb, w, "gone")
  /\ UNCHANGED <<serial, waiters, destroyed, done, suspended, cancelRequested, ec, stopped, jobs, posted,
                 notifies>>

LockLink(w) ==
  /\ apc[w] = "lock" /\ ~destroyed /\ ~HasPending
  /\ waiters' = Append(waiters, w)
  /\ Go(w, "publish")
  /\ UNCHANGED <<serial, pending, destroyed, waiterVars, didSuspend, res, stopped, jobs, posted, notifies>>

\* "Publish 'we will suspend' so stop callbacks can safely resume."
Publish(w) ==
  /\ apc[w] = "publish"
  /\ suspended' = Set(suspended, w, TRUE)
  /\ Go(w, "flag")
  /\ UNCHANGED <<serial, stateVars, done, cancelRequested, ec, stopCb, didSuspend, res, stopped, jobs,
                 posted, notifies>>

FlagLeftClear(w) == didSuspend
Flagged(w) == Set(didSuspend, w, TRUE)

SetDidSuspend(w) ==
  /\ apc[w] = "flag"
  /\ didSuspend' = Flagged(w)
  /\ Go(w, "recheck")
  /\ UNCHANGED <<serial, stateVars, waiterVars, res, stopped, jobs, posted, notifies>>

\* "Close the remaining race".
SkipRecheck(w) == FALSE
MustCancel(w) == cancelRequested[w]

Recheck(w) ==
  /\ apc[w] = "recheck"
  /\ IF MustCancel(w) THEN /\ jobs' = jobs \cup {Job(w, "aborted", "self", "unlink")}
                           /\ Go(w, "cancel")
                      ELSE /\ Go(w, "suspended")
                           /\ UNCHANGED jobs
  /\ UNCHANGED <<serial, stateVars, waiterVars, didSuspend, res, stopped, posted, notifies>>

SelfCancelled(w) ==
  /\ apc[w] = "cancel" /\ ~\E j \in jobs : j.w = w /\ j.by = "self"
  /\ Go(w, "suspended")
  /\ UNCHANGED <<serial, stateVars, waiterVars, didSuspend, res, stopped, jobs, posted, notifies>>

\* The posted resumption and await_resume.  Unless serial it may run
\* before await_suspend has stored did_suspend, and then reads ready_res, which
\* was default-constructed as ok.
Resume(w) ==
  /\ posted[w] > 0 /\ res[w] = "none"
  /\ serial => apc[w] = "suspended"
  /\ res' = Set(res, w, IF didSuspend[w] THEN ec[w] ELSE "ok")
  /\ UNCHANGED <<serial, stateVars, waiterVars, apc, didSuspend, stopped, jobs, posted, notifies>>

-----------------------------------------------------------------------------
\* notify(): the first waiter, or one more pending notification.
DropNotification == pending
Accumulate == pending + 1

Notify ==
  /\ notifies < MaxNotifies /\ ~destroyed
  /\ notifies' = notifies + 1
  /\ IF waiters # <<>>
       THEN /\ jobs' = jobs \cup {Job(Head(waiters), "ok", "notify", "claim")}
            /\ waiters' = Tail(waiters)
            /\ UNCHANGED pending
       ELSE pending' = Accumulate /\ UNCHANGED <<jobs, waiters>>
  /\ UNCHANGED <<serial, destroyed, waiterVars, corVars, stopped, posted>>

\* abort_all_waiters: the critical section, then complete on each.
AbortAll == {Job(w, "aborted", "destroy", "claim") : w \in Linked}

Destroy ==
  /\ ~destroyed
  /\ destroyed' = TRUE
  /\ jobs' = jobs \cup AbortAll
  /\ waiters' = <<>>
  /\ UNCHANGED <<serial, pending, waiterVars, corVars, stopped, posted, notifies>>

\* request_stop: sets the token and starts the callback, if there is one.
RequestStop(w) ==
  /\ w \notin stopped
  /\ stopped' = stopped \cup {w}
  /\ IF stopCb[w] = "set" THEN /\ stopCb' = Set(stopCb, w, "running")
                               /\ cancelRequested' = Set(cancelRequested, w, TRUE)
                          ELSE UNCHANGED <<stopCb, cancelRequested>>
  /\ UNCHANGED <<serial, stateVars, done, suspended, ec, corVars, jobs, posted, notifies>>

\* The callback loads suspended and returns or calls cancel_waiter.
StopCallback(w) ==
  /\ stopCb[w] = "running" /\ ~\E j \in jobs : j.w = w /\ j.by = "stop"
  /\ IF suspended[w] THEN /\ jobs' = jobs \cup {Job(w, "aborted", "stop", "unlink")}
                          /\ UNCHANGED stopCb
                     ELSE stopCb' = Set(stopCb, w, "gone") /\ UNCHANGED jobs
  /\ UNCHANGED <<serial, stateVars, done, suspended, cancelRequested, ec, corVars, stopped, posted, notifies>>

-----------------------------------------------------------------------------
Replace(j, step) == jobs' = (jobs \ {j}) \cup {[j EXCEPT !.step = step]}
CallbackReturns(j) ==
  stopCb' = IF j.by = "stop" THEN Set(stopCb, j.w, "gone") ELSE stopCb

\* cancel_waiter: erase the waiter if it is still linked.
Erase(s, it) == [i \in 1..(Len(s) - 1) |-> IF i < it THEN s[i] ELSE s[i + 1]]

Unlink(j) ==
  /\ j.step = "unlink"
  /\ \/ j.w \notin Linked /\ UNCHANGED waiters
     \/ \E it \in DOMAIN waiters : waiters[it] = j.w /\ waiters' = Erase(waiters, it)
  /\ Replace(j, "claim")
  /\ UNCHANGED <<serial, pending, destroyed, waiterVars, corVars, stopped, posted, notifies>>

\* complete: only the first call goes on.
ClaimAlways(j) == TRUE
Claims(j) == ~done[j.w]

Claim(j) ==
  /\ j.step = "claim"
  /\ IF Claims(j) THEN /\ done' = Set(done, j.w, TRUE)
                       /\ Replace(j, "deliver")
                       /\ UNCHANGED stopCb
                  ELSE jobs' = jobs \ {j} /\ CallbackReturns(j) /\ UNCHANGED done
  /\ UNCHANGED <<serial, stateVars, suspended, cancelRequested, ec, corVars, stopped, posted, notifies>>

\* Destroying the stop callback waits for one that runs on another thread.
Deliver(j) ==
  /\ j.step = "deliver"
  /\ stopCb[j.w] = "running" => j.by = "stop"
  /\ ec' = Set(ec, j.w, j.ec)
  /\ stopCb' = Set(stopCb, j.w, "gone")
  /\ posted' = Set(posted, j.w, posted[j.w] + 1)
  /\ jobs' = jobs \ {j}
  /\ UNCHANGED <<serial, stateVars, done, suspended, cancelRequested, corVars, stopped, notifies>>

Await(w) == \/ InstallStopCallback(w) \/ LockDestroyed(w) \/ LockPending(w)
            \/ LockLink(w) \/ Publish(w) \/ SetDidSuspend(w) \/ Recheck(w) \/ SelfCancelled(w)
            \/ Resume(w)
Call(j) == Unlink(j) \/ Claim(j) \/ Deliver(j)

Next == \/ \E w \in Waiters : Begin(w) \/ Await(w) \/ RequestStop(w) \/ StopCallback(w)
        \/ \E j \in jobs : Call(j)
        \/ Notify \/ Destroy

\* Threads inside the library and posted coroutines keep running, in whatever
\* order; nobody is obliged to wait, to notify, to stop or to destroy.
Fairness == WF_vars(\/ \E w \in Waiters : Await(w) \/ StopCallback(w)
                    \/ \E j \in jobs : Call(j))

Spec == Init /\ [][Next]_vars
FairSpec == Spec /\ Fairness

-----------------------------------------------------------------------------
\* Every variable stays in its range.
TypeOK ==
  /\ serial \in BOOLEAN
  /\ pending \in Nat /\ waiters \in Seq(Waiters) /\ destroyed \in BOOLEAN
  /\ {done, suspended, cancelRequested, didSuspend} \subseteq [Waiters -> BOOLEAN]
  /\ {ec, res} \subseteq [Waiters -> {"none", "ok", "aborted"}]
  /\ stopCb \in [Waiters -> {"none", "set", "running", "gone"}]
  /\ apc \in [Waiters -> {"start", "install", "lock", "publish", "flag", "recheck", "cancel",
                          "suspended", "returned"}]
  /\ stopped \subseteq Waiters /\ posted \in [Waiters -> Nat] /\ notifies \in 0..MaxNotifies
  /\ jobs \subseteq [w : Waiters, ec : {"ok", "aborted"}, by : {"notify", "stop", "self", "destroy"},
                     step : {"unlink", "claim", "deliver"}]

\* await_suspend has linked the waiter, and will return true.
Waiting(w) == apc[w] \in {"publish", "flag", "recheck", "cancel", "suspended"}

\* A coroutine is resumed through its handle at most once, however notify,
\* stop, destruction and its own recheck race, and never when await_suspend
\* told it not to suspend.
ResumedOnce == \A w \in Waiters : /\ posted[w] <= 1
                                  /\ apc[w] = "returned" => posted[w] = 0 /\ ~done[w]

\* A waiter that suspends is never forgotten: until its resumption is posted it
\* is in the list or somebody is completing it.
NeverForgotten ==
  \A w \in Waiters : Waiting(w) => posted[w] > 0 \/ w \in Linked \/ \E j \in jobs : j.w = w

\* A waiter is in the list once, and then nobody has completed it.
ListConsistent ==
  /\ \A i, k \in DOMAIN waiters : waiters[i] = waiters[k] => i = k
  /\ \A w \in Linked : Waiting(w) /\ ~done[w]

\* A call completes a waiter that is not in the list any more; one call is the
\* first, and one at most brings a notification, which was not delivered before.
CallsConsistent ==
  \A j \in jobs :
    /\ Waiting(j.w)
    /\ j.by \in {"notify", "destroy"} => j.step # "unlink"
    /\ j.step # "unlink" => j.w \notin Linked
    /\ j.step = "deliver" => done[j.w] /\ posted[j.w] = 0
    /\ j.by \in {"stop", "self"} => j.w \in stopped
    /\ j.by = "destroy" => destroyed
    /\ j.ec = "ok" <=> j.by = "notify"
    /\ j.ec = "ok" => ec[j.w] # "ok"
    /\ \A k \in jobs : /\ j.w = k.w /\ j.step = "deliver" /\ k.step = "deliver" => j = k
                       /\ j.w = k.w /\ j.ec = "ok" /\ k.ec = "ok" => j = k

\* What is known of a waiter that has been completed, or asked to cancel.
CompletionsConsistent ==
  \A w \in Waiters :
    /\ done[w] \/ suspended[w] => Waiting(w)
    /\ done[w] <=> posted[w] > 0 \/ \E j \in jobs : j.w = w /\ j.step = "deliver"
    /\ posted[w] > 0 <=> ec[w] # "none"
    /\ res[w] # "none" => apc[w] = "returned" \/ posted[w] > 0
    /\ ec[w] = "aborted" => w \in stopped \/ destroyed
    /\ cancelRequested[w] \/ stopCb[w] = "running" => w \in stopped
    /\ apc[w] \in {"recheck", "cancel", "suspended"} => didSuspend[w]

\* The bookkeeping of the waiters: types and what is above.
WaitersConsistent == /\ TypeOK /\ ResumedOnce /\ NeverForgotten
                     /\ ListConsistent /\ CallsConsistent /\ CompletionsConsistent

\* "No spurious wakeups": no more waits end with ok than notify() was called,
\* if one thread runs the coroutines.
Oks == {w \in Waiters : res[w] = "ok"}
NoSpuriousWakeup == serial => Cardinality(Oks) + pending <= notifies

\* "Notifications are not lost": as long as the event lives, each one is
\* pending, was consumed by a wait or is being delivered, except that notify
\* may have picked a waiter whose wait a stop request then ended: at most one
\* notification goes with each such wait.  And none is invented, as above.
Delivered == {w \in Waiters : ec[w] = "ok" \/ (res[w] = "ok" /\ apc[w] = "returned")}
OkJobs == {j \in jobs : j.ec = "ok"}
Notified == {j.w : j \in OkJobs}
EndedByStop == {w \in stopped : done[w] /\ w \notin Delivered}
NotificationsConserved ==
  /\ NoSpuriousWakeup
  /\ pending + Cardinality(Delivered) + Cardinality(OkJobs) <= notifies
  /\ ~destroyed => notifies <= pending + Cardinality(Delivered \cup Notified \cup EndedByStop)

\* async_wait returns "operation_aborted if cancelled via stop_token or if the
\* event is destroyed": on one thread, what complete decided is what the
\* coroutine sees.
ResultIsCompletion ==
  serial => \A w \in Waiters : ec[w] # "none" /\ res[w] # "none" => res[w] = ec[w]

\* A stop request ends the wait, at whatever point of await_suspend it comes,
\* and so does the destruction of the event.
StopOrDestroyEndsWait ==
  \A w \in Waiters : (apc[w] # "start" /\ (w \in stopped \/ destroyed)) ~> res[w] # "none"
=============================================================================
