----------------------------- MODULE SocketBase -----------------------------
(***************************************************************************)
(* socket_impl_base over fd_resource: the life of a descriptor and the     *)
(* waits for its readiness.  Coroutines wait (wait_ready_impl) while       *)
(* threads open, adopt, cancel, close and release the socket.  One step is *)
(* one critical section, one atomic access or one call into the reactor.   *)
(*                                                                         *)
(* The reactor is reduced to one slot per descriptor and direction (see    *)
(* FdRegistry): a wait stays in the slot until an event or a cancellation  *)
(* takes it out.  A handle is named by its operation, which its token      *)
(* identifies, and a descriptor by its resource.  Reading the cancel       *)
(* epoch, registering the wait and storing its handle are one run of the   *)
(* reactor thread: no event or cancellation is processed in between, but   *)
(* other threads do interleave.                                            *)
(***************************************************************************)
EXTENDS Naturals, FiniteSets

CONSTANTS Ops,       \* coroutines that wait
          Threads,   \* threads that call the other members
          MaxRes,    \* bound: resources (descriptors) made
          MaxCalls,  \* bound: calls, waits included, open() apart
          None

ASSUME SocketAssumption == /\ IsFiniteSet(Ops) /\ None \notin Ops
                           /\ MaxRes \in Nat \ {0} /\ MaxCalls \in Nat

Dirs == {"read", "write"}
Res == 1..MaxRes
NoRes == 0

VARIABLES
  res, opened,            \* res_, and the number of resources made so far
  closing, fd, inflight,  \* fd_resource, by resource
  cancelEpoch, handle,    \* fd_resource, by resource and direction
  slot,                   \* the operation in the reactor's slot, likewise
  cancels,                \* event_handle::cancel calls posted to the reactor
  wpc, held, myCancel, waitRes,     \* wait_ready_impl, by coroutine
  tpc, after, tres, calls,          \* the threads
  registered,             \* history: waits that a cancel found registered
  kind                    \* what each coroutine does; never changes

resVars == <<res, opened, closing, fd, inflight>>
waitVars == <<cancelEpoch, handle, slot, cancels>>
opVars == <<wpc, held, myCancel, waitRes>>
threadVars == <<tpc, after, tres, calls, registered, kind>>
baseVars == <<resVars, waitVars, opVars, threadVars>>

DirOf(o) == IF kind[o] \in {"wait_read", "read", "receive", "accept"} THEN "read" ELSE "write"

BaseInit ==
  /\ res = NoRes /\ opened = 0
  /\ closing = [r \in Res |-> FALSE] /\ fd = [r \in Res |-> "none"]
  /\ inflight = [r \in Res |-> 0]
  /\ cancelEpoch = [r \in Res |-> [d \in Dirs |-> 0]]
  /\ handle = [r \in Res |-> [d \in Dirs |-> None]]
  /\ slot = [r \in Res |-> [d \in Dirs |-> None]]
  /\ cancels = {}
  /\ wpc = [o \in Ops |-> "idle"] /\ held = [o \in Ops |-> NoRes]
  /\ myCancel = [o \in Ops |-> 0] /\ waitRes = [o \in Ops |-> "none"]
  /\ tpc = [t \in Threads |-> "idle"] /\ after = [t \in Threads |-> "idle"]
  /\ tres = [t \in Threads |-> NoRes] /\ calls = 0 /\ registered = {}

-----------------------------------------------------------------------------
\* wait_ready_impl.
WGo(o, p) == wpc' = [wpc EXCEPT ![o] = p]
\* The op's complete(): its outcome is there and the resumption is posted.
Answer(o, r) == waitRes' = [waitRes EXCEPT ![o] = r]
OnReactor(o) == wpc[o] \in {"register", "handle"}
ReactorFree == \A o \in Ops : ~OnReactor(o)

\* make_operation_guard, under lifecycle_mtx_.
GuardOk(r) == res = r /\ ~closing[r] /\ fd[r] = "open"
AddInflight(r) == inflight' = [inflight EXCEPT ![r] = @ + 1]
RemoveNone(r) == inflight' = inflight
RemoveInflight(r) == inflight' = [inflight EXCEPT ![r] = @ - 1]

WaitGuard(o) ==
  /\ wpc[o] = "guard"
  /\ IF GuardOk(held[o])
       THEN AddInflight(held[o]) /\ WGo(o, "epoch") /\ UNCHANGED waitRes
       ELSE /\ Answer(o, IF closing[held[o]] THEN "aborted" ELSE "not_open")
            /\ WGo(o, "done") /\ UNCHANGED inflight
  /\ UNCHANGED <<res, opened, closing, fd, waitVars, held, myCancel, threadVars>>

ReadCancelEpoch(o) ==
  /\ wpc[o] = "epoch" /\ ReactorFree
  /\ myCancel' = [myCancel EXCEPT ![o] = cancelEpoch[held[o]][DirOf(o)]]
  /\ WGo(o, "register")
  /\ UNCHANGED <<resVars, waitVars, held, waitRes, threadVars>>

\* register_fd_read / _write: the wait is stored, aborting the one it
\* replaces, or it completes at once because readiness was latched.
RegisterWait(o) ==
  LET r == held[o]
      old == slot[r][DirOf(o)]
  IN /\ wpc[o] = "register"
     /\ waitRes' = [w \in Ops |-> IF w = o THEN "none" ELSE IF w = old THEN "aborted" ELSE waitRes[w]]
     /\ slot' = [slot EXCEPT ![r][DirOf(o)] = o]
     /\ WGo(o, "handle")
     /\ UNCHANGED <<resVars, cancelEpoch, handle, cancels, held, myCancel, threadVars>>

RegisterReady(o) ==
  /\ wpc[o] = "register" /\ slot[held[o]][DirOf(o)] = None
  /\ Answer(o, "ready")
  /\ WGo(o, "handle")
  /\ UNCHANGED <<resVars, waitVars, held, myCancel, threadVars>>

\* set_read_handle / set_write_handle, under mtx_: a wait that came too late
\* is cancelled, on this thread.
AcceptIfClosing(o) == cancelEpoch[held[o]][DirOf(o)] = myCancel[o]
AcceptIfCancelled(o) == ~closing[held[o]] /\ fd[held[o]] = "open"
Accepts(o) == /\ ~closing[held[o]] /\ fd[held[o]] = "open"
              /\ cancelEpoch[held[o]][DirOf(o)] = myCancel[o]

SetHandle(o) ==
  LET r == held[o]
      d == DirOf(o)
  IN /\ wpc[o] = "handle"
     /\ IF Accepts(o)
          THEN /\ handle' = [handle EXCEPT ![r][d] = IF slot[r][d] = o THEN o ELSE None]
               /\ UNCHANGED <<slot, waitRes>>
          ELSE /\ slot' = [slot EXCEPT ![r][d] = IF @ = o THEN None ELSE @]
               /\ Answer(o, IF waitRes[o] = "none" THEN "aborted" ELSE waitRes[o])
               /\ UNCHANGED handle
     /\ WGo(o, "waiting")
     /\ UNCHANGED <<resVars, cancelEpoch, cancels, held, myCancel, threadVars>>

\* The coroutine resumes, looks at closing once more and drops its guard.
FinishWait(o) ==
  /\ wpc[o] = "waiting" /\ waitRes[o] # "none"
  /\ Answer(o, IF waitRes[o] = "ready" /\ closing[held[o]] THEN "aborted" ELSE waitRes[o])
  /\ RemoveInflight(held[o])
  /\ WGo(o, "done") /\ myCancel' = [myCancel EXCEPT ![o] = 0]
  /\ registered' = registered \ {o}
  /\ UNCHANGED <<res, opened, closing, fd, waitVars, held, tpc, after, tres, calls, kind>>

\* The reactor: the descriptor becomes ready or reports an error or hang-up,
\* or a posted cancel arrives.
TakeOut(r, d, answer) ==
  /\ slot' = [slot EXCEPT ![r][d] = None]
  /\ Answer(slot[r][d], answer)

Ready(r, d) ==
  /\ ReactorFree /\ slot[r][d] # None
  /\ \E answer \in {"ready", "error"} : TakeOut(r, d, answer)
  /\ UNCHANGED <<resVars, cancelEpoch, handle, cancels, wpc, held, myCancel, threadVars>>

ProcessCancel(o) ==
  /\ ReactorFree /\ o \in cancels
  /\ cancels' = cancels \ {o}
  /\ IF \E r \in Res : slot[r][DirOf(o)] = o
       THEN \E r \in Res : slot[r][DirOf(o)] = o /\ TakeOut(r, DirOf(o), "aborted")
       ELSE UNCHANGED <<slot, waitRes>>
  /\ UNCHANGED <<resVars, cancelEpoch, handle, wpc, held, myCancel, threadVars>>

-----------------------------------------------------------------------------
\* The calls.  A call enters at the program point `from`, "idle" unless a
\* derived socket has work of its own to do first.
TGo(t, p) == tpc' = [tpc EXCEPT ![t] = p]
Enter(t, from) == tpc[t] = from /\ (from = "idle" => calls < MaxCalls)
StartCounted == /\ calls < MaxCalls /\ calls' = calls + 1
                /\ UNCHANGED <<tpc, after, tres, registered, kind>>
Counted(from) == calls' = IF from = "idle" THEN calls + 1 ELSE calls
\* The resource is acquired; with none, the call has nothing to do.
Acquired(t, next, then) ==
  /\ tres' = [tres EXCEPT ![t] = res]
  /\ TGo(t, IF res = NoRes THEN (IF then = "adopt" THEN "adopt" ELSE "idle") ELSE next)
  /\ after' = [after EXCEPT ![t] = IF res = NoRes THEN "idle" ELSE then]

MakeResource == /\ opened < MaxRes
                /\ opened' = opened + 1 /\ res' = opened + 1
                /\ fd' = [fd EXCEPT ![opened + 1] = "open"]

Open(t) ==
  /\ tpc[t] = "idle" /\ res = NoRes /\ MakeResource
  /\ UNCHANGED <<closing, inflight, waitVars, opVars, threadVars>>

\* close and assign begin by exchanging res_; release only when no guard lives.
Exchange(t, from, then) ==
  /\ Enter(t, from) /\ Counted(from)
  /\ Acquired(t, "mark", then) /\ res' = NoRes
  /\ UNCHANGED <<opened, closing, fd, inflight, waitVars, opVars, registered, kind>>

Close(t, from) == Exchange(t, from, "idle")
Assign(t) == opened < MaxRes /\ Exchange(t, "idle", "adopt")
ReleaseUnchecked(t) == res # NoRes /\ Exchange(t, "idle", "release")
Release(t) == /\ res # NoRes /\ inflight[res] = 0
              /\ Exchange(t, "idle", "release")

\* mark_closing.
Mark(t) ==
  /\ tpc[t] = "mark"
  /\ closing' = [closing EXCEPT ![tres[t]] = TRUE]
  /\ TGo(t, "take")
  /\ UNCHANGED <<res, opened, fd, inflight, waitVars, opVars, after, tres, calls, registered, kind>>

Cancel(t, from) ==
  /\ Enter(t, from) /\ Counted(from)
  /\ Acquired(t, "take", "idle")
  /\ registered' = IF res = NoRes THEN registered
                   ELSE registered \cup {o \in Ops : /\ slot[res][DirOf(o)] = o
                                                     /\ wpc[o] = "waiting"}
  /\ UNCHANGED <<resVars, waitVars, opVars, kind>>

\* cancel_all_handles: the handles are taken under mtx_, then cancelled.
Return(t) == /\ TGo(t, after[t]) /\ after' = [after EXCEPT ![t] = "idle"]
             /\ tres' = [tres EXCEPT ![t] = IF after[t] = "idle" THEN NoRes ELSE @]
TakeAll(t) ==
  /\ tpc[t] = "take"
  /\ cancels' = cancels \cup ({handle[tres[t]][d] : d \in Dirs} \ {None})
  /\ handle' = [handle EXCEPT ![tres[t]] = [d \in Dirs |-> None]]
  /\ Return(t)
  /\ UNCHANGED <<resVars, cancelEpoch, slot, opVars, calls, registered, kind>>

\* cancel_read and cancel_write: acquire, raise the epoch, take the handle.
BumpAt(d) == IF d = "read" THEN "bump_read" ELSE "bump_write"
TakeAt(d) == IF d = "read" THEN "take_read" ELSE "take_write"
CancelDir(t, from, d) ==
  /\ Enter(t, from) /\ Counted(from)
  /\ Acquired(t, BumpAt(d), "idle")
  /\ UNCHANGED <<resVars, waitVars, opVars, registered, kind>>

Bump(t, d) ==
  /\ tpc[t] = BumpAt(d)
  /\ cancelEpoch' = [cancelEpoch EXCEPT ![tres[t]][d] = @ + 1]
  /\ registered' = registered \cup ({slot[tres[t]][d]} \ {None})
  /\ TGo(t, TakeAt(d))
  /\ UNCHANGED <<resVars, handle, slot, cancels, opVars, after, tres, calls, kind>>

TakeOne(t, d) ==
  /\ tpc[t] = TakeAt(d)
  /\ cancels' = cancels \cup ({handle[tres[t]][d]} \ {None})
  /\ handle' = [handle EXCEPT ![tres[t]][d] = None]
  /\ Return(t)
  /\ UNCHANGED <<resVars, cancelEpoch, slot, opVars, calls, registered, kind>>

\* remove_fd_sync takes every wait of the descriptor out of the reactor.
Deregister(r) ==
  /\ slot' = [slot EXCEPT ![r] = [d \in Dirs |-> None]]
  /\ waitRes' = [o \in Ops |-> IF slot[r][DirOf(o)] = o THEN "aborted" ELSE waitRes[o]]

GiveAway(t) ==
  /\ tpc[t] = "release" /\ ReactorFree
  /\ fd' = [fd EXCEPT ![tres[t]] = "released"]
  /\ Deregister(tres[t])
  /\ TGo(t, "idle") /\ tres' = [tres EXCEPT ![t] = NoRes]
  /\ UNCHANGED <<res, opened, closing, inflight, cancelEpoch, handle, cancels, wpc, held, myCancel,
                 after, calls, registered, kind>>

Adopt(t) ==
  /\ tpc[t] = "adopt" /\ MakeResource
  /\ TGo(t, "idle") /\ tres' = [tres EXCEPT ![t] = NoRes]
  /\ UNCHANGED <<closing, inflight, waitVars, opVars, after, calls, registered, kind>>

AdoptFails(t) ==
  /\ tpc[t] = "adopt"
  /\ TGo(t, "idle") /\ tres' = [tres EXCEPT ![t] = NoRes]
  /\ UNCHANGED <<resVars, waitVars, opVars, after, calls, registered, kind>>

\* ~fd_resource, once nothing refers to the resource: ::close.
IgnoreWaiters(r) == r # res /\ \A t \in Threads : tres[t] # r
Unreferenced(r) == /\ r # res
                   /\ \A o \in Ops : held[o] # r
                   /\ \A t \in Threads : tres[t] # r

Destroy(r) ==
  /\ fd[r] = "open" /\ Unreferenced(r) /\ ReactorFree
  /\ cancels' = cancels \cup ({handle[r][d] : d \in Dirs} \ {None})
  /\ handle' = [handle EXCEPT ![r] = [d \in Dirs |-> None]]
  /\ fd' = [fd EXCEPT ![r] = "closed"]
  /\ Deregister(r)
  /\ UNCHANGED <<res, opened, closing, inflight, cancelEpoch, wpc, held, myCancel, threadVars>>

WaitStep(o) == \/ WaitGuard(o) \/ ReadCancelEpoch(o) \/ RegisterWait(o) \/ RegisterReady(o)
               \/ SetHandle(o) \/ FinishWait(o)
ReactorStep == \/ \E r \in Res, d \in Dirs : Ready(r, d)
               \/ \E o \in Ops : ProcessCancel(o)
\* What a call does after it has entered.
CallStep(t) == \/ Mark(t) \/ TakeAll(t) \/ GiveAway(t) \/ Adopt(t) \/ AdoptFails(t)
               \/ \E d \in Dirs : Bump(t, d) \/ TakeOne(t, d)

-----------------------------------------------------------------------------
\* The base by itself: coroutines wait on the socket directly.
StartWait(o) ==
  /\ wpc[o] = "idle" /\ StartCounted
  /\ IF res = NoRes THEN WGo(o, "done") /\ Answer(o, "not_open") /\ UNCHANGED held
                    ELSE WGo(o, "guard") /\ held' = [held EXCEPT ![o] = res] /\ UNCHANGED waitRes
  /\ UNCHANGED <<resVars, waitVars, myCancel>>

ReturnWait(o) ==
  /\ wpc[o] = "done" /\ held[o] # NoRes
  /\ held' = [held EXCEPT ![o] = NoRes] /\ Answer(o, "none")
  /\ UNCHANGED <<resVars, waitVars, wpc, myCancel, threadVars>>

BaseCall(t) == \/ Open(t) \/ Assign(t) \/ Close(t, "idle") \/ Release(t) \/ Cancel(t, "idle")
               \/ \E d \in Dirs : CancelDir(t, "idle", d)

-----------------------------------------------------------------------------
\* Program points of a call; a derived socket adds the last seven.
Points == {"idle", "mark", "take", "release", "adopt", "bump_read", "bump_write", "take_read",
           "take_write", "close", "cancel", "cancel_read", "cancel_write", "store", "reset",
           "clear"}

\* Type invariant of the base.
BaseTypeOK ==
  /\ res \in 0..MaxRes /\ opened \in 0..MaxRes
  /\ closing \in [Res -> BOOLEAN] /\ inflight \in [Res -> Nat]
  /\ fd \in [Res -> {"none", "open", "released", "closed"}]
  /\ cancelEpoch \in [Res -> [Dirs -> Nat]]
  /\ handle \in [Res -> [Dirs -> Ops \cup {None}]] /\ slot \in [Res -> [Dirs -> Ops \cup {None}]]
  /\ cancels \subseteq Ops
  /\ wpc \in [Ops -> {"idle", "guard", "epoch", "register", "handle", "waiting", "done"}]
  /\ held \in [Ops -> 0..MaxRes] /\ myCancel \in [Ops -> Nat]
  /\ waitRes \in [Ops -> {"none", "ready", "error", "aborted", "not_open"}]
  /\ tpc \in [Threads -> Points] /\ after \in [Threads -> {"idle", "release", "adopt"}]
  /\ tres \in [Threads -> 0..MaxRes] /\ calls \in 0..MaxCalls /\ registered \subseteq Ops

\* Inside wait_ready_impl, with its guard.
Guarded(o) == wpc[o] \in {"epoch", "register", "handle", "waiting"}
=============================================================================
