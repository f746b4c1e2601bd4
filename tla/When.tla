-------------------------------- MODULE When --------------------------------
(***************************************************************************)
(* when_all, when_any and when_any_cancel_join: runner coroutines that     *)
(* complete a shared when_state_base and the parent coroutine that awaits  *)
(* it.  One step is one atomic access or critical section of that state.   *)
(*                                                                         *)
(* They differ in when a runner publishes its result: when_all before it   *)
(* counts itself as done, the other two after; and the overloads of        *)
(* when_any differ in what the parent makes of a result that is not there. *)
(* A behaviour is about one call: of any of them, by coroutines that share *)
(* one thread, which each keeps until it suspends or ends, or by           *)
(* coroutines on several threads, which interleave at every step.          *)
(***************************************************************************)
EXTENDS Naturals, FiniteSets

CONSTANTS Runners,         \* the awaitables, by index
          Pair,            \* the two that when_any_cancel_join takes
          First,           \* the index completed_index starts with
          Parent,          \* the awaiting coroutine
          Nobody

ASSUME WhenAssumption == /\ IsFiniteSet(Runners) /\ Pair \subseteq Runners /\ Cardinality(Pair) = 2
                         /\ First \in Pair
                         /\ Parent \notin Runners /\ Nobody \notin Runners \cup {Parent}

VARIABLES
  kind,      \* "all", "cancel_join", or the overload of when_any: "any" of a list of tasks,
             \* "any_vector" of a vector of tasks with values, "any_void" of one without
  serial,    \* whether all coroutines run on one thread
  remaining, \* remaining; for when_any 0 stands for done
  waiter,    \* waiter_addr: "null", "parent" or "done"
  ex,        \* ex has been stored
  values,    \* the runners whose value is stored
  index,     \* completed_index
  firstEp,   \* the runner whose exception is stored, or Nobody
  rpc,       \* runner -> "work", "publish", "try", "cancel", "complete", "end"
  outcome,   \* runner -> "value" or "throw", once it has finished
  stopReq,   \* the runners whose stop was requested
  winner,    \* the runner whose try_complete succeeded
  ppc,       \* parent: "ready", "suspend", "store", "cas", "suspended", "collect",
             \* "join", "returned", "rethrown", "missing" where an ENSURE aborts, or
             \* "bad_access" where std::get throws
  got,       \* what the parent read under the lock: [ep, index, has]
  resumes,   \* how often the parent was resumed through its handle
  turn       \* who holds the thread when serial

callVars == <<kind, serial>>
stateVars == <<remaining, waiter, ex, values, index, firstEp>>
vars == <<callVars, stateVars, rpc, outcome, stopReq, winner, ppc, got, resumes, turn>>

Kinds == {"all", "any", "any_vector", "any_void", "cancel_join"}
Of(k) == IF k = "cancel_join" THEN Pair ELSE Runners
Awaited == Of(kind)

Init == /\ kind \in Kinds /\ serial \in BOOLEAN
        /\ remaining = IF kind = "all" THEN Cardinality(Runners) ELSE 1
        /\ waiter = "null" /\ ex = FALSE /\ values = {} /\ index = First /\ firstEp = Nobody
        /\ rpc = [r \in Runners |-> IF r \in Of(kind) THEN "work" ELSE "end"]
        /\ outcome = [r \in Runners |-> "none"]
        /\ stopReq = {} /\ winner = Nobody
        /\ ppc = "ready" /\ got = [ep |-> Nobody, index |-> First, has |-> FALSE] /\ resumes = 0
        /\ turn = IF serial THEN Parent ELSE Nobody   \* it has just spawned them

-----------------------------------------------------------------------------
MayRun(a) == serial => turn \in {Nobody, a}
Keep(a) == turn' = IF serial THEN a ELSE Nobody
Yield == turn' = Nobody
GoR(r, p) == rpc' = [rpc EXCEPT ![r] = p]

\* The awaitable finishes: co_await returns or throws in the runner.
Finish(r, o) ==
  /\ rpc[r] = "work" /\ MayRun(r) /\ Keep(r)
  /\ outcome' = [outcome EXCEPT ![r] = o]
  /\ GoR(r, IF kind = "all" THEN "publish" ELSE "try")
  /\ UNCHANGED <<callVars, stateVars, stopReq, winner, ppc, got, resumes>>

\* try_complete.
DoneNow == remaining = 1

CountDown == IF remaining > 0 THEN remaining - 1 ELSE 0

LoserPublishes == "publish"
WinnerForgets == IF DoneNow THEN "complete" ELSE "end"
AfterTry == IF ~DoneNow THEN "end"
            ELSE CASE kind = "all" -> "complete" [] kind = "cancel_join" -> "cancel" [] OTHER -> "publish"

TryComplete(r) ==
  /\ rpc[r] = "try" /\ MayRun(r)
  /\ remaining' = CountDown
  /\ winner' = IF DoneNow THEN r ELSE winner
  /\ GoR(r, AfterTry)
  /\ IF rpc'[r] = "end" THEN Yield ELSE Keep(r)
  /\ UNCHANGED <<callVars, waiter, ex, values, index, firstEp, outcome, stopReq, ppc, got, resumes>>

\* request_cancel_other.
CancelOther(r) ==
  /\ rpc[r] = "cancel" /\ MayRun(r) /\ Keep(r)
  /\ stopReq' = stopReq \cup (Awaited \ {r})
  /\ GoR(r, "publish")
  /\ UNCHANGED <<callVars, stateVars, outcome, winner, ppc, got, resumes>>

\* set_value or set_void_result, and set_exception, which keeps the first.
\* (when_all has no completed_index; nothing reads it there.)
SetValue(r) == values' = values \cup {r} /\ index' = r /\ UNCHANGED firstEp
SetException(r) == /\ firstEp' = IF firstEp = Nobody THEN r ELSE firstEp
                   /\ UNCHANGED <<values, index>>
Publish(r) ==
  /\ rpc[r] = "publish" /\ MayRun(r) /\ Keep(r)
  /\ IF outcome[r] = "value" THEN SetValue(r) ELSE SetException(r)
  /\ GoR(r, IF kind = "all" THEN "try" ELSE "complete")
  /\ UNCHANGED <<callVars, remaining, waiter, ex, outcome, stopReq, winner, ppc, got, resumes>>

\* complete: leave the sentinel and resume a parent that is registered.
ResumeAlways == resumes + 1
Resumed == IF waiter = "parent" THEN resumes + 1 ELSE resumes
Complete(r) ==
  /\ rpc[r] = "complete" /\ MayRun(r) /\ Yield
  /\ waiter' = "done"
  /\ resumes' = Resumed
  /\ GoR(r, "end")
  /\ UNCHANGED <<callVars, remaining, ex, values, index, firstEp, outcome, stopReq, winner, ppc, got>>

-----------------------------------------------------------------------------
is_done == remaining = 0

\* await_ready, and the same check at the start of await_suspend.
Check ==
  /\ ppc \in {"ready", "suspend"} /\ MayRun(Parent) /\ Keep(Parent)
  /\ ppc' = IF is_done THEN "collect" ELSE IF ppc = "ready" THEN "suspend" ELSE "store"
  /\ UNCHANGED <<callVars, stateVars, rpc, outcome, stopReq, winner, got, resumes>>

StoreExecutor ==
  /\ ppc = "store" /\ MayRun(Parent) /\ Keep(Parent)
  /\ ex' = TRUE
  /\ ppc' = "cas"
  /\ UNCHANGED <<callVars, remaining, waiter, values, index, firstEp, rpc, outcome, stopReq, winner, got, resumes>>

\* The exchange of waiter_addr: registered, or already completed.
SuspendAnyway == /\ ppc' = "suspended" /\ waiter' = "parent"
Register == IF waiter = "null" THEN ppc' = "suspended" /\ waiter' = "parent"
                               ELSE ppc' = "collect" /\ UNCHANGED waiter

RegisterWaiter ==
  /\ ppc = "cas" /\ MayRun(Parent)
  /\ Register
  /\ IF ppc' = "suspended" THEN Yield ELSE Keep(Parent)
  /\ UNCHANGED <<callVars, remaining, ex, values, index, firstEp, rpc, outcome, stopReq, winner, got, resumes>>

\* The posted resumption runs.
Resume ==
  /\ ppc = "suspended" /\ resumes > 0 /\ MayRun(Parent) /\ Keep(Parent)
  /\ ppc' = "collect"
  /\ UNCHANGED <<callVars, stateVars, rpc, outcome, stopReq, winner, got, resumes>>

\* Whether the value that the caller is to get has been published ...
HasValue == IF kind = "all" THEN values = Runners ELSE index \in values

\* ... and how the call ends if not.  The list overload takes the alternative of
\* completed_index, still 0, from a variant that holds monostate; for tasks
\* without a value the vector overload looks at nothing but completed_index.
Unpublished == CASE kind = "any" -> "bad_access" [] kind = "any_void" -> "returned" [] OTHER -> "missing"

\* What the parent reads, under the lock.
Collect ==
  /\ ppc = "collect" /\ MayRun(Parent) /\ Yield
  /\ got' = [ep |-> firstEp, index |-> index, has |-> HasValue]
  /\ ppc' = "join"
  /\ UNCHANGED <<callVars, stateVars, rpc, outcome, stopReq, winner, resumes>>

\* when_any_cancel_join awaits both runners before it rethrows, else the one it
\* takes for the loser; the others await nobody.
JoinsNobody == {}
Joins == IF kind # "cancel_join" THEN {}
         ELSE IF got.ep # Nobody THEN Awaited ELSE Awaited \ {got.index}

Return ==
  /\ ppc = "join" /\ MayRun(Parent) /\ Yield
  /\ \A r \in Joins : rpc[r] = "end"
  /\ ppc' = IF got.ep # Nobody THEN "rethrown" ELSE IF got.has THEN "returned" ELSE Unpublished
  /\ UNCHANGED <<callVars, stateVars, rpc, outcome, stopReq, winner, got, resumes>>

ParentStep == Check \/ StoreExecutor \/ RegisterWaiter \/ Resume \/ Collect \/ Return
RunnerStep(r) == TryComplete(r) \/ CancelOther(r) \/ Publish(r) \/ Complete(r)

Next == \/ \E r \in Runners : RunnerStep(r) \/ Finish(r, "value") \/ Finish(r, "throw")
        \/ ParentStep

\* Executors run what is posted to them.  An awaitable need not finish by
\* itself, but one that was asked to stop does.
Fairness == /\ WF_vars(ParentStep)
            /\ \A r \in Runners :
                 /\ WF_vars(RunnerStep(r))
                 /\ WF_vars(r \in stopReq /\ (Finish(r, "value") \/ Finish(r, "throw")))

Spec == Init /\ [][Next]_vars
FairSpec == Spec /\ Fairness

-----------------------------------------------------------------------------
\* Every variable stays in its range.
TypeOK ==
  /\ kind \in Kinds /\ serial \in BOOLEAN
  /\ remaining \in 0..Cardinality(Runners)
  /\ waiter \in {"null", "parent", "done"} /\ ex \in BOOLEAN
  /\ values \subseteq Runners /\ index \in Runners /\ firstEp \in Runners \cup {Nobody}
  /\ rpc \in [Runners -> {"work", "publish", "try", "cancel", "complete", "end"}]
  /\ outcome \in [Runners -> {"none", "value", "throw"}]
  /\ stopReq \subseteq Runners /\ winner \in Runners \cup {Nobody}
  /\ ppc \in {"ready", "suspend", "store", "cas", "suspended", "collect", "join", "returned",
              "rethrown", "missing", "bad_access"}
  /\ got \in [ep : Runners \cup {Nobody}, index : Runners, has : BOOLEAN]
  /\ resumes \in Nat /\ turn \in Runners \cup {Parent, Nobody}

\* The parent is resumed through its handle at most once, only when it did
\* suspend, and with an executor to be resumed on.
ResumedOnce == /\ resumes <= 1
               /\ resumes = 1 => waiter = "done" /\ ex
               /\ (ppc \in {"ready", "suspend", "store", "cas"}) => resumes = 0

\* The bookkeeping of the parent: types and the above.
ParentConsistent == TypeOK /\ ResumedOnce

\* when_all: "waits for all tasks and then rethrows the first exception";
\* otherwise all values are there.
Ended == {"returned", "rethrown", "missing", "bad_access"}
AllResults ==
  kind = "all" /\ ppc \in Ended =>
    /\ \A r \in Runners : outcome[r] # "none"
    /\ ppc = IF \A r \in Runners : outcome[r] = "value" THEN "returned" ELSE "rethrown"

\* when_any and when_any_cancel_join: "Returns the index and value of the first
\* completed task", "If the first task throws, when_any rethrows the exception";
\* never those of another.  Except on several threads, if the parent saw
\* is_done() by itself: the winner may not have published yet.  Then the parent
\* finds no result, and when_any of a vector without values returns index 0,
\* whoever won or threw.  A parent that complete() resumed never does.
FirstResult ==
  kind # "all" /\ ppc \in Ended =>
    \/ ppc = "returned" /\ outcome[winner] = "value" /\ got.index = winner
    \/ ppc = "rethrown" /\ outcome[winner] = "throw" /\ got.ep = winner
    \/ ppc = Unpublished /\ got.index = First /\ ~serial /\ resumes = 0

\* The parent ends with the results that the call promises.
RightResult == AllResults /\ FirstResult

\* when_any_cancel_join: "the losing operation must be stopped and fully
\* completed before returning".
LoserJoined ==
  kind = "cancel_join" /\ ppc \in {"returned", "rethrown"} =>
    \A r \in Awaited \ {winner} : rpc[r] = "end" /\ r \in stopReq

\* Once enough awaitables have finished the parent goes on: no interleaving of
\* its registration with the completion leaves it suspended.
ParentReturns == (remaining = 0 /\ winner # Nobody) ~> ppc \in Ended
=============================================================================
