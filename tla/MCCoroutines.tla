--------------------------- MODULE MCCoroutines ---------------------------
(***************************************************************************)
(* The ways to run coroutines side by side: when_all, when_any,            *)
(* when_any_cancel_join and with_timeout, over three runners or two; and   *)
(* co_spawn, with a stack of three coroutines over two executors.  A       *)
(* behaviour is about one call of one of them.                             *)
(***************************************************************************)
EXTENDS WithTimeout

CONSTANTS r1, r2, r3, e1, e2, Executors, Unbound, Depth

\* co_spawn is given an executor, and its entry coroutine has a place on the stack.
ASSUME StackAssumption == Depth \in Nat /\ Depth > 0 /\ Executors # {}

VARIABLES status, promiseEx, target, cur, awaited, stop, parentCb, away, mode, spc, completions, done,
          joinWaiter, result, jpc, resumed, joined

CS == INSTANCE CoSpawn WITH ex <- promiseEx, outcome <- awaited, waiter <- joinWaiter

spawnVars == <<status, promiseEx, target, cur, awaited, stop, parentCb, away, mode, spc, completions,
               done, joinWaiter, result, jpc, resumed, joined>>

MCInit == TimeoutInit /\ CS!Init /\ (mode # "detached" => kind = "all" /\ serial)
MCNext == \/ spc = "call" /\ TimeoutNext /\ UNCHANGED spawnVars
          \/ tpc = "idle" /\ kind = "all" /\ serial /\ CS!Next /\ UNCHANGED allVars
MCSpec == MCInit /\ [][MCNext]_<<allVars, spawnVars>> /\ TimeoutFairness /\ CS!Fairness

\* Types; the parent of a when_ call is resumed once; of a stack of coroutines
\* one is active, on its own executor unless it was led away.
CoroutinesConsistent == TimeoutTypeOK /\ ParentConsistent /\ CS!StackConsistent

\* The completion of co_spawn is called once with the coroutine's result, and
\* whoever awaits the result gets it.
ResultDelivered == CS!ResultDelivered

\* A stop request passes down the stack of coroutines, whenever it comes.
StopPasses == CS!StopPasses

\* No order of registering and completing leaves a parent or a joiner waiting.
CallsReturn == ParentReturns /\ TimeoutEnds /\ CS!JoinerReturns
=============================================================================
