---------------------------- MODULE WithTimeout ----------------------------
(***************************************************************************)
(* with_timeout: when_any_cancel_join of an operation and the wait of a    *)
(* steady_timer, under the stop token of the calling coroutine.  The other *)
(* behaviours of When, called by anybody, go on as before.                 *)
(*                                                                         *)
(* A stop of the caller reaches both runners through the tokens co_spawn   *)
(* gave them (Coroutine); a timer ends by expiry, when asked to stop, or   *)
(* with an error when the reactor fails (SteadyTimer).                     *)
(***************************************************************************)
EXTENDS When

CONSTANT Timer          \* the other one of Pair; First is the operation

ASSUME TimeoutAssumption == Pair = {First, Timer} /\ First # Timer

VARIABLES
  tpc,          \* "idle" before the call; then "none" or, for with_timeout, "check", "run", "done"
  parentStop,   \* the calling coroutine was asked to stop
  payload,      \* runner -> the result<> its awaitable returned
  final         \* what with_timeout returned

timeoutVars == <<tpc, parentStop, payload, final>>
allVars == <<vars, timeoutVars>>

TimeoutInit == /\ Init
               /\ tpc = "idle" /\ parentStop = FALSE
               /\ payload = [r \in Runners |-> "none"] /\ final = "none"

InTimeout == tpc = "run"
Started == tpc \in {"none", "run"}

-----------------------------------------------------------------------------
\* when_all, when_any or when_any_cancel_join is called, or with_timeout, which
\* calls the last.
Call ==
  /\ tpc = "idle"
  /\ tpc' \in (IF kind = "cancel_join" THEN {"none", "check"} ELSE {"none"})
  /\ UNCHANGED <<vars, parentStop, payload, final>>

RequestParentStop ==
  /\ tpc \in {"check", "run"} /\ ~parentStop
  /\ parentStop' = TRUE
  /\ stopReq' = IF InTimeout THEN Awaited ELSE stopReq
  /\ UNCHANGED <<callVars, stateVars, rpc, outcome, winner, ppc, got, resumes, turn, tpc, payload, final>>

\* A stop that came before: nothing is started.  co_spawn passes on one that
\* comes after the check.
CheckParentStop ==
  /\ tpc = "check"
  /\ tpc' = IF parentStop THEN "done" ELSE "run"
  /\ final' = IF parentStop THEN "refused" ELSE final
  /\ UNCHANGED <<vars, parentStop, payload>>

\* What the two awaitables return; an operation may also throw.
TimerResults(r) == IF r \in stopReq THEN {"ok", "aborted", "failed"} ELSE {"ok", "failed"}
OperationResults(r) == {"ok", "failed"} \cup (IF r \in stopReq THEN {"aborted"} ELSE {})
Returns(r) ==
  /\ Finish(r, "value")
  /\ IF InTimeout
       THEN \E p \in (IF r = Timer THEN TimerResults(r) ELSE OperationResults(r)) :
              payload' = [payload EXCEPT ![r] = p]
       ELSE UNCHANGED payload
  /\ UNCHANGED <<tpc, parentStop, final>>
Throws(r) ==
  /\ ~(InTimeout /\ r = Timer)
  /\ Finish(r, "throw")
  /\ UNCHANGED timeoutVars

\* The result: the operation's, or by how the timer ended.
ByIndexOnly == IF got.index = First THEN payload[First] ELSE "timed_out"
Outcome == IF got.index = First THEN payload[First]
           ELSE CASE payload[Timer] = "ok" -> "timed_out"
                  [] OTHER -> payload[Timer]
TimeoutReturns ==
  /\ InTimeout /\ ppc \in {"returned", "rethrown", "missing"}
  /\ tpc' = "done"
  /\ final' = IF ppc = "returned" THEN Outcome ELSE ppc
  /\ UNCHANGED <<vars, parentStop, payload>>

-----------------------------------------------------------------------------
Runner(r) == Started /\ RunnerStep(r) /\ UNCHANGED timeoutVars
Caller == Started /\ ParentStep /\ UNCHANGED timeoutVars
Awaitable(r) == Started /\ (Returns(r) \/ Throws(r))
Timeout == CheckParentStop \/ TimeoutReturns

TimeoutNext == Call \/ Caller \/ Timeout \/ RequestParentStop \/ \E r \in Runners : Runner(r) \/ Awaitable(r)

\* As in When: executors run what is posted, and an awaitable that was asked to
\* stop ends.
TimeoutFairness == /\ WF_allVars(Caller) /\ WF_allVars(Timeout)
                   /\ \A r \in Runners : /\ WF_allVars(Runner(r))
                                         /\ WF_allVars(r \in stopReq /\ Awaitable(r))
TimeoutSpec == TimeoutInit /\ [][TimeoutNext]_allVars /\ TimeoutFairness

-----------------------------------------------------------------------------
TimeoutTypeOK ==
  /\ TypeOK
  /\ tpc \in {"idle", "none", "check", "run", "done"} /\ parentStop \in BOOLEAN
  /\ payload \in [Runners -> {"none", "ok", "failed", "aborted"}]
  /\ final \in {"none", "refused", "ok", "failed", "aborted", "timed_out", "rethrown", "missing"}

\* "If the timer expires first ... returns timed_out", and only then; "If op
\* completes first ... returns op's result"; and an aborted timer is reported
\* as operation_aborted only if the caller itself was asked to stop.
TimeoutResult ==
  /\ final = "timed_out" => winner = Timer /\ payload[Timer] = "ok" /\ rpc[First] = "end"
  /\ final \in {"ok", "failed"} /\ winner = First => payload[First] = final
  /\ final = "ok" => winner = First
  /\ final = "aborted" /\ winner = Timer => parentStop

\* The results of all four calls.
CallResults == RightResult /\ TimeoutResult

\* with_timeout returns once the operation has ended or the timer has, and once
\* the caller is asked to stop.
TimeoutEnds == (tpc \in {"check", "run"} /\ (parentStop \/ winner # Nobody)) ~> tpc = "done"
=============================================================================
