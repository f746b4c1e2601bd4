------------------------------ MODULE Sockets ------------------------------
(***************************************************************************)
(* One socket of any of the four classes, the coroutines of its operations *)
(* and the threads that call its other members.                            *)
(***************************************************************************)
EXTENDS StreamSocket, DatagramSocket, Acceptor

OpStep(o) == LoopStep(o) \/ StreamStep(o) \/ DatagramStep(o) \/ AcceptorStep(o)

StoreStep(t) == \/ IsStream /\ (StoreShut(t) \/ ResetStream(t))
                \/ IsDatagram /\ (StoreBound(t) \/ StorePeer(t))
                \/ IsAcceptor /\ (StoreListening(t) \/ ResetListening(t))
ThreadStep(t) == OfBase(BaseEntry(t)) \/ OfBase(CallStep(t)) \/ StoreStep(t)

CallOfClass(t) == \/ class = "base" /\ OfBase(BaseCall(t))
                  \/ IsStream /\ StreamCall(t)
                  \/ IsDatagram /\ DatagramCall(t)
                  \/ IsAcceptor /\ AcceptorCall(t)

Next == \/ \E o \in Ops : \/ Start(o) \/ OpStep(o) \/ OfBase(WaitStep(o))
                          \/ class = "base" /\ OfBase(StartWait(o) \/ ReturnWait(o))
        \/ \E t \in Threads : CallOfClass(t) \/ ThreadStep(t)
        \/ OfBase(ReactorStep)
        \/ \E r \in Res : OfBase(Destroy(r))

Spec == Init /\ [][Next]_vars

-----------------------------------------------------------------------------
\* Type invariant of the sockets and of the base under them.
TypeOK ==
  /\ BaseTypeOK
  /\ class \in Classes /\ kind \in [Ops -> Kinds[class]]
  /\ epoch \in [AllKinds -> Nat] /\ active \in [AllKinds -> BOOLEAN]
  /\ state \in {"none", "disconnected", "connecting", "connected", "idle", "bound", "not_listening",
                "listening"}
  /\ shut \subseteq Dirs /\ raced \in BOOLEAN
  /\ opc \in [Ops -> {"idle", "bound", "guard", "begin", "start", "check", "syscall", "wait", "check2",
                      "soerror", "check3", "store", "accepted", "recheck", "done"}]
  /\ myEpoch \in [Ops -> Nat]
  /\ storing \in [Threads -> SUBSET (Dirs \cup {"bound", "connected", "listening"})]

InOperation(o) == opc[o] \notin {"idle", "bound", "guard", "done"}
Running(o) == InOperation(o) /\ opc[o] \notin {"begin", "start"}

\* No operation waits or makes a system call on a descriptor that was closed
\* or given away under it: close() does not wait for operations, but "the fd
\* stays alive while any in-flight operation holds" it, and release() fails
\* while a guard lives.  The comment on close() in stream_socket_impl.hpp, that
\* operations "may still be accessing the fd when it is closed" and get EBADF,
\* is not true of the code any more.
NeverTakenAway == \A o \in Ops : InOperation(o) \/ Guarded(o) => fd[held[o]] = "open"

\* The in-flight count is the number of guards: one per operation, one more
\* inside a wait.
InflightExact ==
  \A r \in Res : inflight[r] = Cardinality({o \in Ops : held[o] = r /\ InOperation(o)})
                                 + Cardinality({o \in Ops : held[o] = r /\ Guarded(o)})

\* The bookkeeping of the guards: types and the count.
GuardsConsistent == TypeOK /\ InflightExact

\* Close and cancel reach every wait: one that sits in the reactor on a
\* closing resource, or that cancel_read or cancel_write found there, or whose
\* handle cancel() found stored, has a cancel posted, or its handle is stored
\* where a thread inside such a call has yet to take it.
Doomed(o) == closing[held[o]] \/ o \in registered
Takes(t, d) == tpc[t] \in {"take", TakeAt(d)}
CancelReachesWaits ==
  \A o \in Ops :
    LET r == held[o]
        d == DirOf(o)
    IN wpc[o] = "waiting" /\ slot[r][d] = o /\ Doomed(o) =>
         o \in cancels \/ (handle[r][d] = o /\ \E t \in Threads : tres[t] = r /\ Takes(t, d))

\* Two operations never wait in one slot of the reactor, where the second
\* would abort the first: one of each kind, and no write beside a connect.
\* Only a close that has reset the state and not yet taken the descriptor away
\* lets a connect start beside a write, and both are about to be aborted.
NoSharedSlot ==
  \A a, b \in Ops :
    a # b /\ class # "base" /\ Guarded(a) /\ Guarded(b) /\ DirOf(a) = DirOf(b) /\ held[a] = held[b] =>
      Closed(held[a])

\* "connecting" belongs to a connect that is running: the state never sticks
\* and makes every later connect "busy".
ConnectingIsOwned == state = "connecting" => \E o \in Ops : Connects(o) /\ Running(o)

\* An operation has what it works with to itself.
OperationsExclude == NoSharedSlot /\ ConnectingIsOwned

\* close "resets stream-level state so the object can be reused", and the
\* other classes likewise: once the socket is closed and nothing runs, it is as
\* new, unless a success was stored after the close had begun.
CloseResets ==
  /\ res = NoRes /\ ~raced
  /\ \A o \in Ops : opc[o] \in {"idle", "done"}
  /\ \A t \in Threads : tpc[t] = "idle"
  => state = Fresh[class] /\ shut = {}
=============================================================================
