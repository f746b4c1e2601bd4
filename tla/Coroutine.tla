----------------------------- MODULE Coroutine -----------------------------
(***************************************************************************)
(* awaitable.hpp and awaitable_promise.hpp: a stack of coroutines, each    *)
(* awaiting the next one.  A promise has the executor it is bound to, the  *)
(* continuation (here the coroutine below it), a stop source and the       *)
(* callback that passes its parent's stop on.  Executors run the           *)
(* resumptions posted to them, with themselves as the current executor     *)
(* (executor_guard).  Stop requests come from another thread.              *)
(*                                                                         *)
(* Coroutine 0 stands for the owner of the stop source that the lowest one *)
(* was given.                                                              *)
(***************************************************************************)
EXTENDS Naturals

CONSTANTS Executors,
          Unbound,     \* a default-constructed any_executor
          Depth        \* bound: coroutines on the stack

VARIABLES
  status,    \* "none", "linking", "running", "awaiting", "suspended", "posted", "final"
  ex,        \* ex_
  target,    \* executor a posted resumption waits on
  cur,       \* current_executor of the thread that runs the stack
  outcome,   \* how the coroutine awaited last ended: "none", "value" or "throw"
  stop,      \* stop_source_ was asked to stop
  parentCb,  \* parent_stop_cb_: "none", "set", "running", "nested", "gone"
  away       \* history: left its executor by on(), or by how it was started or resumed

promiseVars == <<status, ex, target, outcome, away>>
stopVars == <<stop, parentCb>>
coroVars == <<promiseVars, cur, stopVars>>

Coros == 1..Depth
Source == 0..Depth

CoroInit(e) == /\ status = [c \in Coros |-> "none"] /\ ex = [c \in Coros |-> Unbound]
               /\ target = [c \in Coros |-> Unbound] /\ cur = e
               /\ outcome = [c \in Coros |-> "none"] /\ away = [c \in Coros |-> FALSE]
               /\ stop = [c \in Source |-> FALSE] /\ parentCb = [c \in Coros |-> "none"]

Running(c) == status[c] = "running"

-----------------------------------------------------------------------------
\* inherit_stop_token of p, for its parent p - 1: the check, and the callback,
\* which runs at once if stop was requested after the check.
CheckParentStop(p) == stop' = [stop EXCEPT ![p] = stop[p - 1]]
LoseLateStop(p) == FALSE
LateStop(p) == stop[p - 1]
InstallParentCb(p) ==
  /\ stop' = [stop EXCEPT ![p] = LateStop(p)]
  /\ parentCb' = [parentCb EXCEPT ![p] = IF stop[p - 1] THEN "gone" ELSE "set"]

\* co_await of a coroutine, which bind_executor may have bound (b): its promise
\* gets continuation, executor and stop token, and control goes to it directly.
StartUnder(c) == away' = [away EXCEPT ![c + 1] = cur # ex'[c + 1]]
Await(c, b) ==
  /\ Running(c) /\ c < Depth /\ status[c + 1] = "none"
  /\ ex' = [ex EXCEPT ![c + 1] = IF b = Unbound THEN ex[c] ELSE b]
  /\ CheckParentStop(c + 1)
  /\ outcome' = [outcome EXCEPT ![c] = "none"]
  /\ status' = IF stop[c] THEN [status EXCEPT ![c] = "awaiting", ![c + 1] = "running"]
                          ELSE [status EXCEPT ![c] = "linking"]
  /\ StartUnder(c)
  /\ UNCHANGED <<target, cur, parentCb>>

Link(c) ==
  /\ status[c] = "linking" /\ c < Depth
  /\ InstallParentCb(c + 1)
  /\ status' = [status EXCEPT ![c] = "awaiting", ![c + 1] = "running"]
  /\ UNCHANGED <<ex, target, outcome, away, cur>>

\* A resumption posted on an executor.  The frame of the coroutine that was
\* awaited goes with the awaitable.
PostOn(c, e) == target' = [target EXCEPT ![c] = e]
Run(c) ==
  /\ status[c] = "posted"
  /\ cur' = target[c]
  /\ status' = [d \in Coros |-> IF d = c THEN "running"
                                ELSE IF d = c + 1 /\ status[d] = "final" THEN "none" ELSE status[d]]
  /\ UNCHANGED <<ex, target, outcome, away, stopVars>>

\* this_coro::switch_to and this_coro::on.
Hop(c, e) == IF cur = e THEN UNCHANGED <<status, target>>
             ELSE PostOn(c, e) /\ status' = [status EXCEPT ![c] = "posted"]
SwitchTo(c, e) ==
  /\ Running(c) /\ Hop(c, e)
  /\ ex' = [ex EXCEPT ![c] = e]
  /\ away' = [away EXCEPT ![c] = FALSE]
  /\ UNCHANGED <<outcome, cur, stopVars>>

On(c, e) ==
  /\ Running(c) /\ Hop(c, e)
  /\ away' = [away EXCEPT ![c] = e # ex[c]]
  /\ UNCHANGED <<ex, outcome, cur, stopVars>>

\* Any other awaiter of the library resumes by posting on the executor.
SuspendOnOperation(c) ==
  /\ Running(c)
  /\ status' = [status EXCEPT ![c] = "suspended"]
  /\ UNCHANGED <<ex, target, outcome, away, cur, stopVars>>

OperationEnds(c) ==
  /\ status[c] = "suspended"
  /\ status' = [status EXCEPT ![c] = "posted"]
  /\ PostOn(c, ex[c]) /\ away' = [away EXCEPT ![c] = FALSE]
  /\ UNCHANGED <<ex, outcome, cur, stopVars>>

\* final_suspend: destroying the callback waits for one that runs, then the
\* continuation goes on here if this is the executor, else on the executor.
ContinueHere(c) == TRUE
SameExecutor(c) == cur = ex[c]
DropParentCb(c) == /\ parentCb[c] \notin {"running", "nested"}
                   /\ parentCb' = [parentCb EXCEPT ![c] = "none"]
                   /\ stop' = [stop EXCEPT ![c] = FALSE]   \* the next one has its own

Finish(c, o) ==
  /\ Running(c) /\ c > 1
  /\ DropParentCb(c)
  /\ outcome' = [outcome EXCEPT ![c - 1] = o]
  /\ away' = [away EXCEPT ![c - 1] = ex[c] # ex[c - 1]]
  /\ IF SameExecutor(c)
       THEN status' = [status EXCEPT ![c] = "none", ![c - 1] = "running"] /\ UNCHANGED target
       ELSE status' = [status EXCEPT ![c] = "final", ![c - 1] = "posted"] /\ PostOn(c - 1, ex[c])
  /\ UNCHANGED <<ex, cur>>

-----------------------------------------------------------------------------
\* request_stop on the outermost source, and on its way through the callbacks.
Triggered(c) == IF c < Depth /\ parentCb[c + 1] = "set" THEN [parentCb EXCEPT ![c + 1] = "running"]
                                                        ELSE parentCb
RequestStop ==
  /\ ~stop[0]
  /\ stop' = [stop EXCEPT ![0] = TRUE]
  /\ parentCb' = Triggered(0)
  /\ UNCHANGED <<promiseVars, cur>>

PassStop(c) ==
  /\ parentCb[c] = "running"
  /\ stop' = [stop EXCEPT ![c] = TRUE]
  /\ parentCb' = [Triggered(c) EXCEPT ![c] = "nested"]
  /\ UNCHANGED <<promiseVars, cur>>

PassedStop(c) ==
  /\ parentCb[c] = "nested"
  /\ c < Depth => parentCb[c + 1] \notin {"running", "nested"}
  /\ parentCb' = [parentCb EXCEPT ![c] = "gone"]
  /\ UNCHANGED <<promiseVars, cur, stop>>

-----------------------------------------------------------------------------
CoroTypeOK ==
  /\ status \in [Coros -> {"none", "linking", "running", "awaiting", "suspended", "posted", "final"}]
  /\ {ex, target} \subseteq [Coros -> Executors \cup {Unbound}] /\ cur \in Executors
  /\ outcome \in [Coros -> {"none", "value", "throw"}] /\ away \in [Coros -> BOOLEAN]
  /\ stop \in [Source -> BOOLEAN]
  /\ parentCb \in [Coros -> {"none", "set", "running", "nested", "gone"}]

\* Exactly one coroutine of the stack can go on, and those below await it: a
\* handle is never posted or transferred to twice.
Live == {c \in Coros : status[c] \notin {"none", "final"}}
OneActive ==
  \A c \in Live : /\ \A d \in 1..(c - 1) : status[d] = "awaiting"
                  /\ status[c] = "awaiting" => c + 1 \in Live

\* "Does NOT rebind the coroutine's long-term executor": code runs under the
\* executor its promise is bound to, unless it left it by on(), was started by
\* a coroutine that was elsewhere, or resumed by one bound elsewhere.
RunsWhereBound == \A c \in Coros : Running(c) /\ ~away[c] => cur = ex[c]

\* No stop request is lost between the check of the parent's token and the
\* callback: below a coroutine that was asked to stop every one has been, or
\* the request is on its way to it.
StopPasses ==
  \A c \in Live : c > 1 /\ status[c - 1] # "linking" /\ stop[c - 1] =>
    stop[c] \/ parentCb[c] = "running"
=============================================================================
