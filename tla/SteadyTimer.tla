---------------------------- MODULE SteadyTimer ----------------------------
(***************************************************************************)
(* steady_timer.hpp and the operation_awaiter its async_wait suspends on,  *)
(* over a timer registry that keeps the contract of ReactorOp.  Waits run  *)
(* on the reactor thread, one at a time; other threads set the expiry,     *)
(* cancel, destroy the timer and request stops.  One step is one critical  *)
(* section of shared_state::mtx, one access to a stop token, or one task   *)
(* of the reactor.                                                         *)
(*                                                                         *)
(* A wait stands for its reactor_op and for the event_handle add_timer     *)
(* returned for it: TimerRegistry shows that a handle matches no other     *)
(* timer.  A behaviour is serial, when the coroutines run on the reactor   *)
(* thread too, or they run elsewhere and resume there.                     *)
(***************************************************************************)
EXTENDS Naturals, Sequences

CONSTANTS Waits,       \* one async_wait() each
          Callers,     \* threads that use the timer
          MaxCalls,    \* bound: their calls
          MaxTime,     \* bound: last tick of the clock
          None         \* the invalid event_handle

VARIABLES
  serial,
  now,
  expiry, closed, handle,  \* shared_state
  pc,        \* wait -> where its coroutine is
  snapshot,  \* wait -> expiry_snapshot
  old,       \* wait -> the handle register_timer replaced
  deadline,  \* wait -> the expiry it was registered with
  armed,     \* the waits whose op the registry holds
  done, ec,  \* operation_wait_state
  stopCb,    \* wait -> its stop callback: "none", "set", "running" or "gone"
  stopped,   \* the waits whose stop was requested
  resumes,   \* wait -> resumptions posted
  res,       \* wait -> what async_wait returned, or "none"
  taken,     \* caller -> the handle its call is about to cancel
  queue,     \* posted cancellations
  calls,     \* number of calls so far
  aimed      \* history: the waits whose handle a call or a later wait took

timerVars == <<expiry, closed, handle>>
opVars == <<armed, deadline>>
waitVars == <<done, ec, stopCb, resumes>>
corVars == <<pc, snapshot, old, res>>
vars == <<serial, now, timerVars, opVars, waitVars, corVars, stopped, taken, queue, calls, aimed>>

Times == 1..(MaxTime + 1)       \* the last one never comes
All(v) == [w \in Waits |-> v]
Set(f, w, v) == [f EXCEPT ![w] = v]
Go(w, p, q) == pc[w] = p /\ pc' = Set(pc, w, q)

Init == /\ serial \in BOOLEAN /\ now = 0 /\ expiry = 1 /\ closed = FALSE /\ handle = None
        /\ pc = All("idle") /\ snapshot = All(1) /\ old = All(None) /\ deadline = All(1)
        /\ armed = {} /\ done = All(FALSE) /\ ec = All("none") /\ stopCb = All("none")
        /\ stopped = {} /\ resumes = All(0) /\ res = All("none")
        /\ taken = [c \in Callers |-> None] /\ queue = <<>> /\ calls = 0 /\ aimed = {}

-----------------------------------------------------------------------------
\* operation_awaiter's complete for the waits in S: only the first call for a
\* wait sets its result, destroys its stop callback and posts its resumption.
Completes(S) == {w \in S : ~done[w]}
Complete(S, e) ==
  LET C == Completes(S)
  IN /\ done' = [w \in Waits |-> done[w] \/ w \in C]
     /\ ec' = [w \in Waits |-> IF w \in C THEN e ELSE ec[w]]
     /\ resumes' = [w \in Waits |-> IF w \in C THEN resumes[w] + 1 ELSE resumes[w]]

\* Destroying a callback waits for one that runs on another thread.
ResetCallbacks(S) == /\ \A w \in S : stopCb[w] # "running"
                     /\ stopCb' = [w \in Waits |-> IF w \in S THEN "gone" ELSE stopCb[w]]

\* cancel_timer on the reactor thread: the op, if it is still there, aborts.
CancelTimers(S) == LET A == S \cap armed
                   IN armed' = armed \ A /\ Complete(A, "aborted") /\ ResetCallbacks(A)
NoCancel == UNCHANGED <<armed, waitVars>>

\* Between two tasks the reactor thread is free for the next.
InRegister == {"snapshot", "register", "cancelOld", "stop", "install"}
ReactorFree == \A w \in Waits : pc[w] \notin InRegister
-----------------------------------------------------------------------------
\* async_wait: on the reactor thread, which other tasks may have to leave first.
StartWait(w) ==
  /\ Go(w, "idle", "hop")
  /\ UNCHANGED <<serial, now, timerVars, opVars, waitVars, snapshot, old, res, stopped, taken, queue,
                 calls, aimed>>

Hop(w) ==
  /\ Go(w, "hop", "snapshot") /\ ReactorFree
  /\ UNCHANGED <<serial, now, timerVars, opVars, waitVars, snapshot, old, res, stopped, taken, queue,
                 calls, aimed>>

SnapshotExpiry(w) ==
  /\ Go(w, "snapshot", "register")
  /\ snapshot' = Set(snapshot, w, expiry)
  /\ UNCHANGED <<serial, now, timerVars, opVars, waitVars, old, res, stopped, taken, queue, calls, aimed>>

\* register_timer, under mtx: a closed timer aborts the wait at once, else its
\* handle takes the place of the one before it.
ForgetClosed == FALSE
IsClosed == closed
NotStored(w) == handle
Stored(w) == w
Register(w) ==
  /\ Go(w, "register", IF IsClosed THEN "stop" ELSE "cancelOld")
  /\ IF IsClosed
       THEN /\ Complete({w}, "aborted") /\ ResetCallbacks({w})
            /\ UNCHANGED <<handle, opVars, old, aimed>>
       ELSE /\ old' = Set(old, w, handle)
            /\ handle' = Stored(w)
            /\ armed' = armed \cup {w}
            /\ deadline' = Set(deadline, w, snapshot[w])
            /\ aimed' = aimed \cup ({handle} \ {None})
            /\ UNCHANGED waitVars
  /\ UNCHANGED <<serial, now, expiry, closed, snapshot, res, stopped, taken, queue, calls>>

CancelOld(w) ==
  /\ Go(w, "cancelOld", "stop")
  /\ CancelTimers({old[w]} \ {None})
  /\ old' = Set(old, w, None)
  /\ UNCHANGED <<serial, now, timerVars, deadline, snapshot, res, stopped, taken, queue, calls, aimed>>

\* await_suspend goes on with the stop token: already requested, or a callback.
\* One that is installed after the request runs at once, on this thread.
CheckStop(w) ==
  /\ Go(w, "stop", IF w \in stopped THEN "suspended" ELSE "install")
  /\ IF w \in stopped THEN CancelTimers({w}) ELSE NoCancel
  /\ UNCHANGED <<serial, now, timerVars, deadline, snapshot, old, res, stopped, taken, queue, calls, aimed>>

InstallCallback(w) ==
  /\ Go(w, "install", "suspended")
  /\ IF w \in stopped
       THEN CancelTimers({w})
       ELSE stopCb' = Set(stopCb, w, "set") /\ UNCHANGED <<armed, done, ec, resumes>>
  /\ UNCHANGED <<serial, now, timerVars, deadline, snapshot, old, res, stopped, taken, queue, calls, aimed>>

\* The posted resumption, and await_resume.
DispatchInline(w) == TRUE
Scheduled(w) == serial => ReactorFree
Resume(w) ==
  /\ resumes[w] > 0 /\ res[w] = "none" /\ Scheduled(w)
  /\ res' = Set(res, w, ec[w])
  /\ UNCHANGED <<serial, now, timerVars, opVars, waitVars, pc, snapshot, old, stopped, taken, queue,
                 calls, aimed>>

-----------------------------------------------------------------------------
\* expires_at, cancel and close: under mtx they take the handle ...
Take(c) ==
  /\ calls < MaxCalls /\ taken[c] = None /\ ~closed
  /\ calls' = calls + 1
  /\ taken' = [taken EXCEPT ![c] = handle]
  /\ aimed' = aimed \cup ({handle} \ {None})
  /\ handle' = None
  /\ UNCHANGED <<serial, now, opVars, waitVars, corVars, stopped, queue>>

ExpiresAt(c, t) == Take(c) /\ expiry' = t /\ UNCHANGED closed
Cancel(c) == Take(c) /\ UNCHANGED <<expiry, closed>>
Close(c) == Take(c) /\ closed' = TRUE /\ UNCHANGED expiry

\* ... and, having unlocked, cancel it, which posts to the reactor.
PostCancel(c) ==
  /\ taken[c] # None
  /\ queue' = Append(queue, taken[c])
  /\ taken' = [taken EXCEPT ![c] = None]
  /\ UNCHANGED <<serial, now, timerVars, opVars, waitVars, corVars, stopped, calls, aimed>>

\* A stop is requested; the callback posts a cancellation too.
RequestStop(w) ==
  /\ w \notin stopped
  /\ stopped' = stopped \cup {w}
  /\ stopCb' = IF stopCb[w] = "set" THEN Set(stopCb, w, "running") ELSE stopCb
  /\ UNCHANGED <<serial, now, timerVars, opVars, done, ec, resumes, corVars, taken, queue, calls, aimed>>

StopCallback(w) ==
  /\ stopCb[w] = "running"
  /\ stopCb' = Set(stopCb, w, "gone")
  /\ queue' = Append(queue, w)
  /\ UNCHANGED <<serial, now, timerVars, opVars, done, ec, resumes, corVars, stopped, taken, calls, aimed>>

-----------------------------------------------------------------------------
\* The reactor runs a posted cancellation, or completes a timer that expired.
RunPosted ==
  /\ ReactorFree /\ queue # <<>>
  /\ queue' = Tail(queue)
  /\ CancelTimers({Head(queue)})
  /\ UNCHANGED <<serial, now, timerVars, deadline, corVars, stopped, taken, calls, aimed>>

Fire(w) ==
  /\ ReactorFree /\ w \in armed /\ deadline[w] <= now
  /\ armed' = armed \ {w}
  /\ Complete({w}, "ok") /\ ResetCallbacks({w})
  /\ UNCHANGED <<serial, now, timerVars, deadline, corVars, stopped, taken, queue, calls, aimed>>

Tick ==
  /\ now < MaxTime /\ now' = now + 1
  /\ UNCHANGED <<serial, timerVars, opVars, waitVars, corVars, stopped, taken, queue, calls, aimed>>

Wait(w) == \/ Hop(w) \/ SnapshotExpiry(w) \/ Register(w) \/ CancelOld(w) \/ CheckStop(w)
           \/ InstallCallback(w) \/ Resume(w)
Use(c) == (\E t \in Times : ExpiresAt(c, t)) \/ Cancel(c) \/ Close(c)

Next == \/ \E w \in Waits : StartWait(w) \/ Wait(w) \/ RequestStop(w) \/ StopCallback(w) \/ Fire(w)
        \/ \E c \in Callers : Use(c) \/ PostCancel(c)
        \/ RunPosted \/ Tick

\* The reactor thread, the executors and calls in progress go on; nobody has
\* to call anything, and the clock need not reach a deadline.
Fairness == /\ \A w \in Waits : WF_vars(Wait(w)) /\ WF_vars(StopCallback(w)) /\ WF_vars(Fire(w))
            /\ \A c \in Callers : WF_vars(PostCancel(c))
            /\ WF_vars(RunPosted)

Spec == Init /\ [][Next]_vars
FairSpec == Spec /\ Fairness
-----------------------------------------------------------------------------
\* Every variable stays in its range.
TypeOK ==
  /\ serial \in BOOLEAN /\ now \in 0..MaxTime /\ expiry \in Times /\ closed \in BOOLEAN
  /\ handle \in Waits \cup {None} /\ old \in [Waits -> Waits \cup {None}]
  /\ pc \in [Waits -> {"idle", "hop", "suspended"} \cup InRegister]
  /\ {snapshot, deadline} \subseteq [Waits -> Times]
  /\ armed \subseteq Waits /\ stopped \subseteq Waits /\ aimed \subseteq Waits
  /\ done \in [Waits -> BOOLEAN] /\ {ec, res} \subseteq [Waits -> {"none", "ok", "aborted"}]
  /\ stopCb \in [Waits -> {"none", "set", "running", "gone"}] /\ resumes \in [Waits -> Nat]
  /\ taken \in [Callers -> Waits \cup {None}] /\ queue \in Seq(Waits) /\ calls \in 0..MaxCalls

\* "exactly one resumption path wins": a wait is resumed once, and until then
\* the registry holds its op; expiry, cancellation, replacement, stop and
\* destruction of the timer may come in any order.
ResumedOnce ==
  \A w \in Waits : /\ resumes[w] = IF done[w] THEN 1 ELSE 0
                   /\ pc[w] \in {"cancelOld", "stop", "install", "suspended"}
                        => (done[w] <=> w \notin armed)

\* The wait that await_suspend is still working for has not been resumed, so
\* its promise and its awaiter are there: if coroutines run on the reactor.
FrameAlive == \A w \in Waits : serial /\ pc[w] \in InRegister => res[w] = "none"

\* A wait has no op and no result before it is registered, no result while the
\* registry holds its op, and returns the first result it is completed with.
\* The handle it replaced is held only until CancelOld.
WaitPhases ==
  \A w \in Waits : /\ pc[w] \in {"idle", "hop", "snapshot", "register"} => ~done[w] /\ w \notin armed
                   /\ w \in armed => ~done[w]
                   /\ ~done[w] => ec[w] = "none"
                   /\ res[w] # "none" => done[w] /\ res[w] = ec[w]
                   /\ old[w] # None => pc[w] = "cancelOld"

\* Nothing is cancelled that no call, no later wait and no stop asked for.
CancellationsAsked ==
  /\ \A w \in Waits : stopCb[w] = "running" => w \in stopped
  /\ \A w \in Waits : old[w] \in aimed \cup {None}
  /\ \A c \in Callers : taken[c] \in aimed \cup {None}
  /\ \A i \in DOMAIN queue : queue[i] \in stopped \cup aimed

\* The bookkeeping of the waits: types and the four above.
WaitsConsistent == TypeOK /\ ResumedOnce /\ FrameAlive /\ WaitPhases /\ CancellationsAsked

\* "A timer with at most one pending wait at a time": a pending wait that the
\* timer's handle does not name is about to be cancelled by whoever took its
\* handle, and no other thread can see a wait registered and without a handle.
AboutToCancel == {taken[c] : c \in Callers} \cup {old[w] : w \in Waits} \cup {queue[i] : i \in DOMAIN queue}
OnePending == /\ \A w \in armed : w = handle \/ w \in AboutToCancel
              /\ closed => handle = None

\* A wait ends with ok only when its deadline has come, and is aborted only if
\* its stop was requested, its handle taken, or the timer closed.
ResultHasCause ==
  \A w \in Waits : /\ "ok" \in {ec[w], res[w]} => deadline[w] <= now
                   /\ "aborted" \in {ec[w], res[w]} => w \in stopped \cup aimed \/ closed

\* cancel(), expires_at(), a later wait, the destruction of the timer and a stop
\* request each end the waits they find, whatever await_suspend is at.
RequestEndsWait ==
  \A w \in Waits : (pc[w] # "idle" /\ (w \in stopped \cup aimed \/ closed)) ~> res[w] # "none"

\* The comment in async_wait: taking expiry "after switching to the reactor
\* thread" avoids that an update of it leaves "a long-lived timer registered
\* without a subsequent cancellation".
RegisteredWithExpiry == handle # None => deadline[handle] = expiry
=============================================================================
