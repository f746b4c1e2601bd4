------------------------------ MODULE CoSpawn ------------------------------
(***************************************************************************)
(* co_spawn.hpp and detail/spawn.hpp: the entry coroutine (1), which is    *)
(* detached, awaits the factory's coroutine (2) and then calls a           *)
(* completion: none, a callback, or the one that fills spawn_result_state  *)
(* for the coroutine that awaits the result.  One step of that state is    *)
(* one critical section of its mutex.                                      *)
(***************************************************************************)
EXTENDS Coroutine, Sequences

VARIABLES
  mode,         \* completion token: "detached", "callback" or "awaitable"
  spc,          \* where the call of co_spawn and the entry coroutine are
  completions,  \* results given to the completion, in order
  done, waiter, result,  \* spawn_result_state: done, a waiter, value or ep
  jpc,          \* where the coroutine that awaits the result is
  resumed,      \* resumptions of it that were posted
  joined        \* what it got

spawnVars == <<mode, spc, completions, done, waiter, result, jpc, resumed, joined>>
vars == <<coroVars, spawnVars>>

Init == /\ CoroInit(CHOOSE e \in Executors : TRUE)
        /\ mode \in {"detached", "callback", "awaitable"} /\ spc = "call" /\ completions = <<>>
        /\ done = FALSE /\ waiter = FALSE /\ result = "none"
        /\ jpc = "start" /\ resumed = 0 /\ joined = "none"

SpawnGo(p, q) == spc = p /\ spc' = q
JoinGo(p, q) == jpc = p /\ jpc' = q

-----------------------------------------------------------------------------
\* The call: init_spawned_promise sets executor and stop token, then the entry
\* is detached and its first resumption posted.
InitPromise(e) ==
  /\ SpawnGo("call", IF stop[0] THEN "post" ELSE "link")
  /\ ex' = [ex EXCEPT ![1] = e]
  /\ CheckParentStop(1)
  /\ UNCHANGED <<status, target, outcome, away, cur, parentCb, mode, completions, done, waiter, result,
                 jpc, resumed, joined>>

LinkEntry ==
  /\ SpawnGo("link", "post")
  /\ InstallParentCb(1)
  /\ UNCHANGED <<promiseVars, cur, mode, completions, done, waiter, result, jpc, resumed, joined>>

\* An executor that has been stopped drops what is posted to it.
PostEntry ==
  /\ SpawnGo("post", "entry")
  /\ status' = [status EXCEPT ![1] = "posted"] /\ PostOn(1, ex[1])
  /\ UNCHANGED <<ex, outcome, away, cur, stopVars, mode, completions, done, waiter, result, jpc, resumed,
                 joined>>

DropEntry ==
  /\ SpawnGo("post", "dropped")
  /\ UNCHANGED <<coroVars, mode, completions, done, waiter, result, jpc, resumed, joined>>

-----------------------------------------------------------------------------
\* spawn_entry_point_with_completion: the factory may throw instead of giving
\* a coroutine, the coroutine may end either way, and then the completion is
\* called, whose own exceptions are swallowed.
AwaitFactory(b) ==
  /\ SpawnGo("entry", "awaiting") /\ Await(1, b)
  /\ UNCHANGED <<mode, completions, done, waiter, result, jpc, resumed, joined>>

FactoryThrows ==
  /\ Running(1) /\ SpawnGo("entry", "awaiting")
  /\ outcome' = [outcome EXCEPT ![1] = "throw"]
  /\ UNCHANGED <<status, ex, target, away, cur, stopVars, mode, completions, done, waiter, result, jpc,
                 resumed, joined>>

Invoked == Append(completions, outcome[1])
Rethrown == IF outcome[1] = "value" THEN Append(Invoked, "throw") ELSE Invoked
CallbackThrows == Invoked

Completion == Running(1) /\ spc = "awaiting"
InvokeCallback ==
  /\ Completion /\ mode = "callback" /\ spc' = "end"
  /\ \/ completions' = Invoked
     \/ completions' = CallbackThrows
  /\ UNCHANGED <<coroVars, mode, done, waiter, result, jpc, resumed, joined>>

InvokeNothing ==
  /\ Completion /\ mode = "detached" /\ spc' = "end"
  /\ UNCHANGED <<coroVars, mode, completions, done, waiter, result, jpc, resumed, joined>>

\* result_state_completion: set_value or set_exception, then complete.
SetResult ==
  /\ Completion /\ mode = "awaitable" /\ spc' = "complete"
  /\ completions' = Invoked /\ result' = outcome[1]
  /\ UNCHANGED <<coroVars, mode, done, waiter, jpc, resumed, joined>>

CompleteState ==
  /\ SpawnGo("complete", IF waiter THEN "resume" ELSE "end")
  /\ done' = TRUE /\ waiter' = FALSE
  /\ UNCHANGED <<coroVars, mode, completions, result, jpc, resumed, joined>>

PostJoiner ==
  /\ SpawnGo("resume", "end") /\ resumed' = resumed + 1
  /\ UNCHANGED <<coroVars, mode, completions, done, waiter, result, jpc, joined>>

\* final_suspend of a detached coroutine destroys its frame.
EndEntry ==
  /\ Running(1) /\ SpawnGo("end", "destroyed") /\ DropParentCb(1)
  /\ status' = [status EXCEPT ![1] = "none"]
  /\ UNCHANGED <<ex, target, outcome, away, cur, mode, completions, done, waiter, result, jpc, resumed,
                 joined>>

-----------------------------------------------------------------------------
\* spawn_result_awaiter, in a coroutine elsewhere.
JoinReady ==
  /\ mode = "awaitable" /\ spc # "call" /\ JoinGo("start", IF done THEN "resume" ELSE "suspend")
  /\ UNCHANGED <<coroVars, mode, spc, completions, done, waiter, result, resumed, joined>>

SuspendUnchecked == TRUE
MustSuspend == ~done
JoinSuspend ==
  /\ JoinGo("suspend", IF MustSuspend THEN "suspended" ELSE "resume")
  /\ waiter' = MustSuspend
  /\ UNCHANGED <<coroVars, mode, spc, completions, done, result, resumed, joined>>

JoinResumes ==
  /\ resumed > 0 /\ JoinGo("suspended", "resume")
  /\ UNCHANGED <<coroVars, mode, spc, completions, done, waiter, result, resumed, joined>>

\* await_resume: rethrows or takes the value, which an ENSURE wants there.
JoinGets ==
  /\ JoinGo("resume", "returned") /\ joined' = result
  /\ UNCHANGED <<coroVars, mode, spc, completions, done, waiter, result, resumed>>

\* The awaitable is destroyed without having been awaited.
JoinDropped ==
  /\ mode = "awaitable" /\ spc # "call" /\ JoinGo("start", "dropped")
  /\ UNCHANGED <<coroVars, mode, spc, completions, done, waiter, result, resumed, joined>>

-----------------------------------------------------------------------------
User == Coros \ {1}
\* What the user's coroutines do of their own accord, and what goes on by itself.
Choice == \E c \in User : \/ \E e \in Executors : SwitchTo(c, e) \/ On(c, e)
                          \/ \E b \in Executors \cup {Unbound} : Await(c, b)
                          \/ SuspendOnOperation(c)
                          \/ Finish(c, "value") \/ Finish(c, "throw")
Machine == \E c \in Coros : Link(c) \/ Run(c) \/ OperationEnds(c)
Stopping == \E c \in Coros : PassStop(c) \/ PassedStop(c)
Calling == (\E e \in Executors : InitPromise(e)) \/ LinkEntry \/ PostEntry \/ DropEntry
Entry == \/ \E b \in Executors \cup {Unbound} : AwaitFactory(b)
         \/ FactoryThrows \/ InvokeCallback \/ InvokeNothing \/ SetResult \/ CompleteState \/ PostJoiner
         \/ EndEntry
Join == JoinSuspend \/ JoinResumes \/ JoinGets

Next == \/ ((Choice \/ Machine \/ Stopping \/ RequestStop) /\ UNCHANGED spawnVars)
        \/ Calling \/ Entry \/ JoinReady \/ JoinDropped \/ Join

\* Executors run what they accept and the entry coroutine goes on; the user's
\* coroutines need not end.
Fairness == /\ WF_vars(Machine /\ UNCHANGED spawnVars) /\ WF_vars(Stopping /\ UNCHANGED spawnVars)
            /\ WF_vars(Entry) /\ WF_vars(Join)
Spec == Init /\ [][Next]_vars
FairSpec == Spec /\ Fairness

-----------------------------------------------------------------------------
\* Every variable stays in its range.
TypeOK ==
  /\ CoroTypeOK /\ mode \in {"detached", "callback", "awaitable"}
  /\ spc \in {"call", "link", "post", "entry", "dropped", "awaiting", "complete", "resume", "end",
              "destroyed"}
  /\ {result, joined} \subseteq {"none", "value", "throw"}
  /\ done \in BOOLEAN /\ waiter \in BOOLEAN /\ resumed \in 0..1
  /\ jpc \in {"start", "suspend", "suspended", "resume", "returned", "dropped"}

\* The stack of coroutines: types, one active coroutine, each on its executor.
StackConsistent == TypeOK /\ OneActive /\ RunsWhereBound

\* The completion is called once, with the result of the factory's coroutine,
\* also if it throws; the awaiting coroutine gets that result and never finds
\* the state empty ("missing value").
ResultDelivered ==
  /\ Len(completions) <= 1
  /\ spc = "destroyed" /\ mode # "detached" => Len(completions) = 1
  /\ jpc = "returned" => joined # "none" /\ <<joined>> = completions

\* However the registration of the awaiting coroutine falls with complete(),
\* it goes on once the spawned coroutine has ended.
JoinerReturns == (result # "none" /\ jpc \in {"suspend", "suspended"}) ~> jpc = "returned"
=============================================================================
