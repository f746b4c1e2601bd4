---------------------------- MODULE StreamSocket ----------------------------
(***************************************************************************)
(* stream_socket_impl: async_connect, async_read_some and async_write_some *)
(* against open, assign, cancel, cancel_read, cancel_write, cancel_connect,*)
(* shutdown and close.                                                     *)
(***************************************************************************)
EXTENDS SocketOps

IsStream == class = "stream"

\* The checks on state_ and shutdown_, and try_start.  connect makes them all
\* under mtx_; read and write one after the other.
ConnectBegin(o) ==
  /\ IsStream /\ Connects(o)
  /\ IF state = "disconnected" /\ TryStart(o) THEN Begin(o, "begin", "connecting", {})
                                              ELSE Refuse(o, "begin")

TransferChecks(o) ==
  /\ IsStream /\ ~Connects(o)
  /\ IF state # "connected" \/ kind[o] \in shut
       THEN Refuse(o, "begin")
       ELSE opc[o] = "begin" /\ Go(o, "start") /\ StayFrame /\ EndFrame

TransferStart(o) == Begin(o, "start", state, shut) \/ Refuse(o, "start")

\* connect, after its wait: getsockopt, one more check, and the store.
SoError(o) ==
  /\ opc[o] = "soerror"
  /\ \/ Go(o, "check3") /\ StayFrame
     \/ End(o, FailState(o))
  /\ EndFrame
StoreConnected(o) == opc[o] = "store" /\ End(o, OkState(o)) /\ EndFrame

StreamStep(o) == \/ ConnectBegin(o) \/ TransferChecks(o) \/ TransferStart(o)
                 \/ CheckTo(o, "check2", "soerror") \/ SoError(o)
                 \/ CheckTo(o, "check3", "store") \/ StoreConnected(o)

-----------------------------------------------------------------------------
StreamCancel(t) == Cancelling(t, "cancel", Kinds.stream)
StreamCancelRead(t) == Cancelling(t, "cancel_read", {"read"})
StreamCancelWrite(t) == Cancelling(t, "cancel_write", {"write"})
StreamCancelConnect(t) == Cancelling(t, "cancel_write", {"connect"})
\* close raises the epochs and then, without mtx_, resets the state.
StreamClose(t) == Cancelling(t, "clear", Kinds.stream)
KeepShut == shut
NoShut == {}
ResetStream(t) ==
  /\ tpc[t] = "clear" /\ TGo(t, "close")
  /\ state' = "disconnected" /\ shut' = NoShut
  /\ UNCHANGED <<resVars, waitVars, opVars, after, tres, calls, registered, kind, class, epoch, active,
                 raced, coVars, storing>>

\* assign, which the acceptor calls on a socket nobody else can reach yet:
\* one step.
StreamAssign(t) ==
  /\ tpc[t] = "idle" /\ calls = 0
  /\ opened = 0 /\ state = "disconnected" /\ \A k \in Kinds.stream : ~active[k]
  /\ MakeResource /\ state' = "connected" /\ shut' = {}
  /\ UNCHANGED <<closing, inflight, waitVars, opVars, threadVars, class, epoch, active, raced, coVars,
                 storing>>

StreamShutdown(t) == \E ds \in (SUBSET Dirs) \ {{}} : Acquire(t, ds)
StoreShut(t) == Store(t, state, shut \cup storing[t])

StreamCall(t) == \/ OfBase(Open(t)) \/ StreamAssign(t) \/ StreamCancel(t) \/ StreamCancelRead(t)
                 \/ StreamCancelWrite(t) \/ StreamCancelConnect(t) \/ StreamClose(t)
                 \/ StreamShutdown(t)
=============================================================================
