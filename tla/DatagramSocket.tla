--------------------------- MODULE DatagramSocket ---------------------------
(***************************************************************************)
(* datagram_socket_impl: async_send_to and async_receive_from against      *)
(* open, bind, connect, cancel, cancel_read, cancel_write and close.       *)
(***************************************************************************)
EXTENDS SocketOps

IsDatagram == class = "datagram"

\* async_receive_from looks at the state before it takes its guard.
CheckBound(o) ==
  /\ opc[o] = "bound"
  /\ IF state = "idle" THEN Leave(o) ELSE Go(o, "guard") /\ UNCHANGED <<held, wpc, waitRes>>
  /\ EndFrame /\ UNCHANGED <<inflight, objVars, myEpoch>>

TransferBegin(o) == IsDatagram /\ (Begin(o, "begin", state, shut) \/ Refuse(o, "begin"))

DatagramStep(o) == CheckBound(o) \/ TransferBegin(o)

-----------------------------------------------------------------------------
DatagramCancel(t) == Cancelling(t, "cancel", Kinds.datagram)
DatagramCancelRead(t) == Cancelling(t, "cancel_read", {"receive"})
DatagramCancelWrite(t) == Cancelling(t, "cancel_write", {"send"})
DatagramClose(t) == Closing(t)

\* bind and connect are refused while an operation is active, which they ask
\* before the system call and not after.
NoneActive == \A k \in Kinds.datagram : ~active[k]
DatagramBind(t) == NoneActive /\ Acquire(t, {"bound"})
DatagramConnect(t) == NoneActive /\ Acquire(t, {"connected"})
StoreBound(t) == "bound" \in storing[t] /\ Store(t, IF state = "idle" THEN "bound" ELSE state, shut)
StorePeer(t) == "connected" \in storing[t] /\ Store(t, "connected", shut)

DatagramCall(t) == \/ OfBase(Open(t)) \/ DatagramCancel(t) \/ DatagramCancelRead(t)
                   \/ DatagramCancelWrite(t) \/ DatagramClose(t) \/ DatagramBind(t)
                   \/ DatagramConnect(t)
=============================================================================
