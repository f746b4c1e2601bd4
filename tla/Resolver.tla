------------------------------ MODULE Resolver ------------------------------
(***************************************************************************)
(* ip/resolver.hpp: one async_resolve.  The awaiting coroutine starts it   *)
(* from await_suspend, a pool worker runs getaddrinfo, a stop request may  *)
(* come at any point, and whoever sets done first delivers.  The pool is   *)
(* an executor that runs a task it accepts once, or drops it when it has   *)
(* been stopped (ThreadPool).                                              *)
(*                                                                         *)
(* A behaviour is serial when the coroutine's executor has one thread, so  *)
(* that a posted resumption waits for await_suspend to return; otherwise   *)
(* another thread may run it before.                                       *)
(***************************************************************************)
EXTENDS Naturals

VARIABLES
  serial,
  apc,       \* where await_suspend is
  done, stored,  \* result_state: done, and what res holds
  stopCb,    \* the stop callback: "none", "set", "running", "claimed", "gone"
  stopped,   \* a stop was requested
  job,       \* where the pool's task is
  answer,    \* what getaddrinfo answered
  resumes,   \* resumptions posted
  seen       \* what await_resume returned, or "none"

vars == <<serial, apc, done, stored, stopCb, stopped, job, answer, resumes, seen>>

Init == /\ serial \in BOOLEAN /\ apc = "start" /\ done = FALSE /\ stored = "none"
        /\ stopCb = "none" /\ stopped = FALSE /\ job = "none" /\ answer = "none"
        /\ resumes = 0 /\ seen = "none"

-----------------------------------------------------------------------------
Deliver(r) == stored' = r /\ resumes' = resumes + 1

\* await_suspend: a stop that was requested before ends it without a lookup.
Begin ==
  /\ apc = "start"
  /\ IF stopped THEN apc' = "suspended" /\ done' = TRUE /\ Deliver("aborted")
                ELSE apc' = "install" /\ UNCHANGED <<done, stored, resumes>>
  /\ UNCHANGED <<serial, stopCb, stopped, job, answer, seen>>

\* The stop callback; requested meanwhile, it runs inside its constructor.
InstallCallback ==
  /\ apc = "install" /\ apc' = "dispatch"
  /\ IF stopped THEN stopCb' = "gone" /\ done' = TRUE /\ Deliver("aborted")
                ELSE stopCb' = "set" /\ UNCHANGED <<done, stored, resumes>>
  /\ UNCHANGED <<serial, stopped, job, answer, seen>>

\* pool_ex.post, whatever the callback has done since.
Dispatch ==
  /\ apc = "dispatch" /\ apc' = "suspended"
  /\ job' \in {"queued", "dropped"}
  /\ UNCHANGED <<serial, done, stored, stopCb, stopped, answer, resumes, seen>>

RequestStop ==
  /\ ~stopped /\ stopped' = TRUE
  /\ stopCb' = IF stopCb = "set" THEN "running" ELSE stopCb
  /\ UNCHANGED <<serial, apc, done, stored, job, answer, resumes, seen>>

CallbackClaims ==
  /\ stopCb = "running"
  /\ done' = TRUE
  /\ stopCb' = IF done THEN "gone" ELSE "claimed"
  /\ UNCHANGED <<serial, apc, stored, stopped, job, answer, resumes, seen>>

CallbackDelivers ==
  /\ stopCb = "claimed" /\ stopCb' = "gone"
  /\ Deliver("aborted")
  /\ UNCHANGED <<serial, apc, done, stopped, job, answer, seen>>

-----------------------------------------------------------------------------
\* The worker: getaddrinfo and the conversion of its list, then done.
Lookup ==
  /\ job = "queued" /\ job' = "answered"
  /\ answer' \in {"endpoints", "error"}
  /\ UNCHANGED <<serial, apc, done, stored, stopCb, stopped, resumes, seen>>

ClaimAnyway == TRUE
WorkerWins == ~done

WorkerClaims ==
  /\ job = "answered"
  /\ done' = TRUE
  /\ job' = IF WorkerWins THEN "claimed" ELSE "finished"
  /\ UNCHANGED <<serial, apc, stored, stopCb, stopped, answer, resumes, seen>>

\* stop_cb.reset() waits for a callback that runs.
WorkerDelivers ==
  /\ job = "claimed" /\ job' = "finished"
  /\ stopCb \notin {"running", "claimed"} /\ stopCb' = "gone"
  /\ Deliver(answer)
  /\ UNCHANGED <<serial, apc, done, stopped, answer, seen>>

\* The posted resumption, and await_resume.
ResumeAtOnce == TRUE
Scheduled == serial => apc = "suspended"
Resume ==
  /\ resumes > 0 /\ seen = "none" /\ Scheduled
  /\ seen' = stored
  /\ UNCHANGED <<serial, apc, done, stored, stopCb, stopped, job, answer, resumes>>

Await == InstallCallback \/ Dispatch
Stopper == CallbackClaims \/ CallbackDelivers
Worker == Lookup \/ WorkerClaims \/ WorkerDelivers

Next == Begin \/ Await \/ RequestStop \/ Stopper \/ Worker \/ Resume
Fairness == WF_vars(Await \/ Stopper \/ Worker \/ Resume)
Spec == Init /\ [][Next]_vars
FairSpec == Spec /\ Fairness

-----------------------------------------------------------------------------
Results == {"none", "aborted", "endpoints", "error"}
\* Every variable stays in its range.
TypeOK ==
  /\ serial \in BOOLEAN /\ apc \in {"start", "install", "dispatch", "suspended"}
  /\ done \in BOOLEAN /\ stopped \in BOOLEAN /\ {stored, answer, seen} \subseteq Results
  /\ stopCb \in {"none", "set", "running", "claimed", "gone"}
  /\ job \in {"none", "queued", "dropped", "answered", "claimed", "finished"} /\ resumes \in Nat

\* The coroutine is resumed once, with the result in place, however the answer
\* and the stop request race; and, if one thread runs it, not before
\* await_suspend has used the awaiter's pool executor.
ResolvedOnce == /\ resumes <= 1
                /\ resumes = 1 => stored # "none"
                /\ ~(stopCb = "claimed" /\ job = "claimed")
                /\ serial /\ seen # "none" => apc = "suspended"

\* done has one winner, which delivers what it has a cause for; and before
\* await_suspend has got so far there is nobody who could.
OneWinner ==
  /\ done <=> resumes = 1 \/ stopCb = "claimed" \/ job = "claimed"
  /\ stopCb = "claimed" \/ job = "claimed" => resumes = 0
  /\ resumes = 0 <=> stored = "none"
  /\ stopCb \in {"running", "claimed"} \/ stored = "aborted" => stopped
  /\ job \in {"answered", "claimed"} => answer \in {"endpoints", "error"}
  /\ stored \in {"endpoints", "error"} => stored = answer /\ job = "finished"
  /\ seen # "none" => seen = stored
  /\ apc \in {"start", "install"} => ~done /\ stopCb = "none"
  /\ apc # "suspended" => job = "none"

\* async_resolve returns operation_aborted only if stop was requested, and else
\* what getaddrinfo answered.
ResultHasCause == /\ seen = "aborted" => stopped
                  /\ seen \in {"endpoints", "error"} => seen = answer /\ job = "finished"

\* It returns when the pool has accepted the task or stop is requested.  (With
\* a pool that drops the task and no stop request it never does.)
Returns == (job = "queued" \/ (stopped /\ apc # "start")) ~> seen # "none"
=============================================================================
