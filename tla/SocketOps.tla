----------------------------- MODULE SocketOps -----------------------------
(***************************************************************************)
(* What stream_socket_impl, datagram_socket_impl and acceptor_impl share:  *)
(* an op_state per kind of operation, the shape of the coroutines that run *)
(* them (acquire, guard, start, then check, system call and wait in turn)  *)
(* and the shape of the calls other threads make (work of their own, then  *)
(* the call of SocketBase).  wpc and held belong to the wait an operation  *)
(* is inside of.  An operation that ends stores the state, clears its      *)
(* op_state and drops guard and resource in one step.                      *)
(***************************************************************************)
EXTENDS SocketBase

CONSTANT Workloads   \* what the coroutines do: functions from Ops to kinds

VARIABLES
  class,              \* which of the sockets this is; never changes
  epoch, active,      \* op_state, by kind
  state,              \* state_, or listening_
  shut,               \* the directions of shutdown_ that are set
  opc, myEpoch,       \* the coroutine of each operation
  storing,            \* what each thread is about to store
  raced               \* history: a success was stored after close had begun

Kinds == [base |-> {"wait_read", "wait_write"}, stream |-> {"read", "write", "connect"},
          datagram |-> {"send", "receive"}, acceptor |-> {"accept"}]
Classes == DOMAIN Kinds
AllKinds == UNION {Kinds[c] : c \in Classes}
ASSUME WorkloadAssumption == \A w \in Workloads : \E c \in Classes : w \in [Ops -> Kinds[c]]
Fresh == [base |-> "none", stream |-> "disconnected", datagram |-> "idle",
          acceptor |-> "not_listening"]

objVars == <<epoch, active, state, shut, raced>>
coVars == <<opc, myEpoch>>
vars == <<baseVars, class, objVars, coVars, storing>>

Init == /\ BaseInit /\ class \in Classes /\ kind \in Workloads \cap [Ops -> Kinds[class]]
        /\ epoch = [k \in AllKinds |-> 0] /\ active = [k \in AllKinds |-> FALSE]
        /\ state = Fresh[class] /\ shut = {} /\ raced = FALSE
        /\ opc = [o \in Ops |-> "idle"] /\ myEpoch = [o \in Ops |-> 0]
        /\ storing = [t \in Threads |-> {}]

-----------------------------------------------------------------------------
Go(o, p) == opc' = [opc EXCEPT ![o] = p]
Connects(o) == kind[o] = "connect"
\* The checks that begin each turn of the loops: not cancelled, not closing.
Current(o) == epoch[kind[o]] = myEpoch[o] /\ ~closing[held[o]]
\* Whether close has begun on a resource.
Closed(r) == r # res \/ \E t \in Threads : tpc[t] = "close"

\* co_return: the coroutine drops the resource it holds ...
Leave(o) == /\ Go(o, "done") /\ held' = [held EXCEPT ![o] = NoRes]
            /\ WGo(o, "idle") /\ Answer(o, "none")

\* ... after the state is stored and the guards are gone.
End(o, s) == /\ Leave(o) /\ RemoveInflight(held[o])
             /\ active' = [active EXCEPT ![kind[o]] = FALSE]
             /\ state' = s /\ raced' = (raced \/ (Connects(o) /\ s = "connected" /\ Closed(held[o])))
             /\ myEpoch' = [myEpoch EXCEPT ![o] = 0]
             /\ UNCHANGED <<epoch, shut>>
EndFrame == UNCHANGED <<res, opened, closing, fd, waitVars, myCancel, tpc, after, tres, calls,
                        registered, kind, class, storing>>
StayFrame == UNCHANGED <<inflight, held, wpc, waitRes, objVars, myEpoch>>

\* The state connect leaves behind; other operations do not touch it.
FailKeeps(o) == state
FailState(o) == IF Connects(o) THEN "disconnected" ELSE state
OkState(o) == IF Connects(o) THEN "connected" ELSE state

-----------------------------------------------------------------------------
\* acquire_resource.
Start(o) ==
  /\ class # "base" /\ opc[o] = "idle" /\ StartCounted
  /\ IF res = NoRes THEN Leave(o)
                    ELSE /\ held' = [held EXCEPT ![o] = res]
                         /\ Go(o, IF kind[o] = "receive" THEN "bound" ELSE "guard")
                         /\ UNCHANGED <<wpc, waitRes>>
  /\ UNCHANGED <<resVars, waitVars, myCancel, class, objVars, myEpoch, storing>>

Guard(o) ==
  /\ opc[o] = "guard"
  /\ IF GuardOk(held[o]) THEN AddInflight(held[o]) /\ Go(o, "begin") /\ UNCHANGED <<held, wpc, waitRes>>
                         ELSE Leave(o) /\ UNCHANGED inflight
  /\ EndFrame /\ UNCHANGED <<objVars, myEpoch>>

\* op_state::try_start.
TryAlways(o) == TRUE
TryStart(o) == ~active[kind[o]]

\* The operation is refused, or has nothing to transfer (an empty buffer, or a
\* destination that is not the connected peer): it returns.
Refuse(o, p) ==
  /\ opc[o] = p /\ Leave(o) /\ RemoveInflight(held[o])
  /\ EndFrame /\ UNCHANGED <<objVars, myEpoch>>

Begin(o, p, s, sh) ==
  /\ opc[o] = p /\ TryStart(o)
  /\ active' = [active EXCEPT ![kind[o]] = TRUE]
  /\ myEpoch' = [myEpoch EXCEPT ![o] = epoch[kind[o]]]
  /\ state' = s /\ shut' = sh
  /\ Go(o, "check")
  /\ EndFrame /\ UNCHANGED <<epoch, raced, inflight, held, wpc, waitRes>>

CheckTo(o, p, q) ==
  /\ opc[o] = p
  /\ IF Current(o) THEN Go(o, q) /\ StayFrame ELSE End(o, FailState(o))
  /\ EndFrame

\* The system call gives a result, or it would block.
Syscall(o) ==
  /\ opc[o] = "syscall"
  /\ \/ kind[o] # "accept" /\ End(o, OkState(o))
     \/ End(o, FailState(o))
  /\ EndFrame

EnterWait(o) == Go(o, "wait") /\ WGo(o, "guard") /\ UNCHANGED <<inflight, held, waitRes, objVars, myEpoch>>
Block(o) == opc[o] = "syscall" /\ kind[o] # "accept" /\ EnterWait(o) /\ EndFrame

\* The wait returns.  A hang-up or reset does not fail connect: SO_ERROR does.
GoesOn(o) == waitRes[o] = "ready" \/ (Connects(o) /\ waitRes[o] = "error")
Waited(o) ==
  /\ opc[o] = "wait" /\ wpc[o] = "done"
  /\ IF GoesOn(o) THEN /\ Go(o, IF Connects(o) THEN "check2" ELSE "check") /\ WGo(o, "idle")
                       /\ Answer(o, "none") /\ UNCHANGED <<inflight, held, objVars, myEpoch>>
                  ELSE End(o, FailState(o))
  /\ EndFrame

LoopStep(o) == Guard(o) \/ CheckTo(o, "check", "syscall") \/ Syscall(o) \/ Block(o) \/ Waited(o)

-----------------------------------------------------------------------------
\* A call raises the epochs of some operations and goes on to the base.
Prelude(t, next, ks) ==
  /\ Enter(t, "idle") /\ Counted("idle") /\ TGo(t, next)
  /\ epoch' = [k \in AllKinds |-> IF k \in ks THEN epoch[k] + 1 ELSE epoch[k]]
  /\ UNCHANGED <<resVars, waitVars, opVars, after, tres, registered, kind, class, active, raced, coVars,
                 storing>>
Cancelling(t, next, ks) == Prelude(t, next, ks) /\ UNCHANGED <<state, shut>>
Closing(t) == Prelude(t, "close", Kinds[class]) /\ state' = Fresh[class] /\ shut' = {}

\* A call that acquires the resource, makes a system call on it, which the
\* kernel may grant, and then stores that it succeeded.  A bind or
\* listen that comes first does not count towards MaxCalls.
Acquire(t, what) ==
  /\ Enter(t, "idle")
  /\ calls' = IF calls = 0 /\ class # "stream" THEN 0 ELSE calls + 1
  /\ res # NoRes /\ ~closing[res]
  /\ tres' = [tres EXCEPT ![t] = res] /\ TGo(t, "store")
  /\ storing' = [storing EXCEPT ![t] = what]
  /\ UNCHANGED <<resVars, waitVars, opVars, after, registered, kind, class, objVars, coVars>>
Store(t, s, sh) ==
  /\ tpc[t] = "store" /\ TGo(t, "idle") /\ tres' = [tres EXCEPT ![t] = NoRes]
  /\ state' = s /\ shut' = sh /\ raced' = (raced \/ Closed(tres[t]))
  /\ storing' = [storing EXCEPT ![t] = {}]
  /\ UNCHANGED <<resVars, waitVars, opVars, after, calls, registered, kind, class, epoch, active, coVars>>

OfBase(A) == A /\ UNCHANGED <<class, objVars, coVars, storing>>
BaseEntry(t) == \/ Close(t, "close") \/ Cancel(t, "cancel")
                \/ CancelDir(t, "cancel_read", "read") \/ CancelDir(t, "cancel_write", "write")
=============================================================================
