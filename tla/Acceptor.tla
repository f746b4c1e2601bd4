------------------------------ MODULE Acceptor ------------------------------
(***************************************************************************)
(* acceptor_impl: async_accept against open, listen, cancel and close.     *)
(***************************************************************************)
EXTENDS SocketOps

IsAcceptor == class = "acceptor"

\* listening_ and try_start, under mtx_.
AcceptBegin(o) ==
  /\ IsAcceptor
  /\ IF state = "listening" /\ TryStart(o) THEN Begin(o, "begin", state, shut)
                                           ELSE Refuse(o, "begin")

\* accept gives a connection, which is returned, or closed if the operation
\* was cancelled; or it would block, and the operation looks once more.
Accepted(o) ==
  /\ opc[o] = "syscall" /\ kind[o] = "accept"
  /\ Go(o, "accepted") /\ StayFrame /\ EndFrame
ReturnAccepted(o) == opc[o] = "accepted" /\ End(o, state) /\ EndFrame
WouldBlock(o) ==
  /\ opc[o] = "syscall" /\ kind[o] = "accept"
  /\ Go(o, "recheck") /\ StayFrame /\ EndFrame
Recheck(o) ==
  /\ opc[o] = "recheck"
  /\ IF Current(o) THEN EnterWait(o) ELSE End(o, state)
  /\ EndFrame

AcceptorStep(o) == AcceptBegin(o) \/ Accepted(o) \/ ReturnAccepted(o) \/ WouldBlock(o) \/ Recheck(o)

-----------------------------------------------------------------------------
\* cancel is cancel_read, and cancel_write is unreachable.
AcceptorCancelRead(t) == Cancelling(t, "cancel_read", {"accept"})
AcceptorClose(t) == Closing(t)

\* open clears listening_ after the base has opened the socket.
AcceptorOpen(t) ==
  /\ tpc[t] = "idle" /\ res = NoRes /\ MakeResource
  /\ TGo(t, "reset")
  /\ UNCHANGED <<closing, inflight, waitVars, opVars, after, tres, calls, registered, kind, class,
                 objVars, coVars, storing>>
ResetListening(t) ==
  /\ tpc[t] = "reset" /\ TGo(t, "idle")
  /\ state' = "not_listening"
  /\ UNCHANGED <<resVars, waitVars, opVars, after, tres, calls, registered, kind, class, epoch, active,
                 shut, raced, coVars, storing>>

Listen(t) == Acquire(t, {"listening"})
StoreListening(t) == Store(t, "listening", shut)

AcceptorCall(t) == AcceptorOpen(t) \/ AcceptorCancelRead(t) \/ AcceptorClose(t) \/ Listen(t)
=============================================================================
