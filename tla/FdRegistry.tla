----------------------------- MODULE FdRegistry -----------------------------
(***************************************************************************)
(* detail/fd_registry.hpp with the calls io_context_impl makes on it: who  *)
(* waits for which readiness of which descriptor.  The registry is only    *)
(* touched on the reactor thread, so one operation is one step.            *)
(*                                                                         *)
(* A descriptor beyond operations_.size() behaves as an untracked one with *)
(* two empty slots, and that is how it is represented.  A registration     *)
(* always brings an op (operation_awaiter creates it), so the branches of  *)
(* register_impl for a null op and for a negative fd are not reached.      *)
(***************************************************************************)
EXTENDS Naturals, FiniteSets

CONSTANTS Fds,    \* descriptor numbers in use
          Ops,    \* reactor operations, each registered at most once
          NoOp    \* a null reactor_op_ptr

ASSUME FdAssumption == /\ IsFiniteSet(Fds)
                       /\ NoOp \notin Ops

VARIABLES
  slot,        \* fd -> kind -> [op, token, ready]        operations_
  tracked,     \* the descriptors with ops.tracked
  nextToken,   \* next_token_
  activeCount, \* active_count_
  handles,     \* the event_handles given out so far, each with the op it is for
  onComplete,  \* op -> number of on_complete calls
  onAbort      \* op -> number of on_abort calls

vars == <<slot, tracked, nextToken, activeCount, handles, onComplete, onAbort>>

Kinds == {"read", "write"}
invalid_token == 0
Slot == [op : Ops \cup {NoOp}, token : Nat, ready : BOOLEAN]
EmptySlot == [op |-> NoOp, token |-> invalid_token, ready |-> FALSE]

Init == /\ slot = [f \in Fds |-> [k \in Kinds |-> EmptySlot]]
        /\ tracked = {}
        /\ nextToken = 1
        /\ activeCount = 0
        /\ handles = {}
        /\ onComplete = [o \in Ops |-> 0]
        /\ onAbort = [o \in Ops |-> 0]

-----------------------------------------------------------------------------
\* The slots that hold an op, and the ops they hold.
Occupied == {c \in Fds \X Kinds : slot[c[1]][c[2]].op # NoOp}
Armed == {slot[c[1]][c[2]].op : c \in Occupied}
OpsOf(f, ks) == {slot[f][k].op : k \in ks} \ {NoOp}
Fresh(o) == /\ onComplete[o] + onAbort[o] = 0
            /\ \A f \in Fds, k \in Kinds : slot[f][k].op # o

\* The callback on every op of S.
Called(count, S) == [o \in Ops |-> IF o \in S THEN count[o] + 1 ELSE count[o]]

\* The kinds of ks whose slot of f holds a waiter.
Waiting(f, ks) == {k \in ks : slot[f][k].op # NoOp}

\* What a registration adds to active_count_, the token it consumes and the
\* token it leaves for the next one.
Gain(f, k) == IF slot[f][k].op = NoOp THEN 1 ELSE 0
SameToken == nextToken
FollowingToken == nextToken + 1

\* Readiness that came before its waiter.
Latched(f, k) == slot[f][k].ready

\* What deregister leaves in a slot.
LeaveLatch(f, k) == [EmptySlot EXCEPT !.ready = slot[f][k].ready]
Deregistered(f, k) == EmptySlot

-----------------------------------------------------------------------------
\* register_fd_impl, latched readiness: the op completes at once, without a
\* token and so without a handle.
RegisterReadyNow(f, k, o) ==
  /\ Fresh(o)
  /\ Latched(f, k)
  /\ slot' = [slot EXCEPT ![f][k] = [@ EXCEPT !.ready = FALSE]]
  /\ tracked' = tracked \cup {f}
  /\ onComplete' = Called(onComplete, {o})
  /\ UNCHANGED <<nextToken, activeCount, handles, onAbort>>

\* register_fd_impl, nothing latched: the op takes the slot under a fresh
\* token, and a waiter it replaces is aborted.
RegisterWaiter(f, k, o) ==
  /\ Fresh(o)
  /\ ~Latched(f, k)
  /\ slot' = [slot EXCEPT ![f][k] = [@ EXCEPT !.op = o, !.token = nextToken]]
  /\ tracked' = tracked \cup {f}
  /\ nextToken' = FollowingToken
  /\ activeCount' = activeCount + Gain(f, k)
  /\ handles' = handles \cup {[fd |-> f, kind |-> k, token |-> nextToken, op |-> o]}
  /\ onAbort' = Called(onAbort, OpsOf(f, {k}))
  /\ UNCHANGED onComplete

\* cancel_fd_event on the reactor thread, for a handle given out at any
\* earlier time (a cancellation may be queued, delayed or repeated).
Matches(h) == /\ slot[h.fd][h.kind].op # NoOp
              /\ slot[h.fd][h.kind].token = h.token

CancelFdEvent(h) ==
  /\ Matches(h)
  /\ slot' = [slot EXCEPT ![h.fd][h.kind] = [@ EXCEPT !.op = NoOp, !.token = invalid_token]]
  /\ activeCount' = activeCount - 1
  /\ onAbort' = Called(onAbort, {slot[h.fd][h.kind].op})
  /\ UNCHANGED <<tracked, nextToken, handles, onComplete>>

\* add_fd: from now on readiness of f is recorded.
AddFd(f) ==
  /\ tracked' = tracked \cup {f}
  /\ UNCHANGED <<slot, nextToken, activeCount, handles, onComplete, onAbort>>

\* remove_fd_impl: both waiters are aborted and the latches are cleared.
RemoveFd(f) ==
  /\ slot' = [slot EXCEPT ![f] = [k \in Kinds |-> Deregistered(f, k)]]
  /\ tracked' = tracked \ {f}
  /\ activeCount' = activeCount - Cardinality(Waiting(f, Kinds))
  /\ onAbort' = Called(onAbort, OpsOf(f, Kinds))
  /\ UNCHANGED <<nextToken, handles, onComplete>>

\* take_ready on one slot: the waiter is taken out, or readiness is latched.
TakeReadyKeepsOp(s) == IF s.op # NoOp THEN s ELSE [s EXCEPT !.ready = TRUE]
TakeReady(s) == IF s.op # NoOp THEN [s EXCEPT !.op = NoOp, !.token = invalid_token]
                               ELSE [s EXCEPT !.ready = TRUE]

\* One backend event: the directions ks of f are ready, isError says whether
\* the waiters are aborted or completed.  Events on an untracked descriptor
\* are dropped.
ProcessEvent(f, ks, isError) ==
  /\ f \in tracked
  /\ slot' = [slot EXCEPT ![f] = [k \in Kinds |-> IF k \in ks THEN TakeReady(slot[f][k])
                                                             ELSE slot[f][k]]]
  /\ activeCount' = activeCount - Cardinality(Waiting(f, ks))
  /\ IF isError THEN /\ onAbort' = Called(onAbort, OpsOf(f, ks))
                     /\ UNCHANGED onComplete
                ELSE /\ onComplete' = Called(onComplete, OpsOf(f, ks))
                     /\ UNCHANGED onAbort
  /\ UNCHANGED <<tracked, nextToken, handles>>

\* The backend failed: drain_all, and every op is aborted.  next_token_ goes on.
DrainAll ==
  /\ slot' = [f \in Fds |-> [k \in Kinds |-> EmptySlot]]
  /\ tracked' = {}
  /\ activeCount' = 0
  /\ onAbort' = Called(onAbort, Armed)
  /\ UNCHANGED <<nextToken, handles, onComplete>>

Next == \/ \E f \in Fds, k \in Kinds, o \in Ops : RegisterReadyNow(f, k, o)
        \/ \E f \in Fds, k \in Kinds, o \in Ops : RegisterWaiter(f, k, o)
        \/ \E h \in handles : CancelFdEvent(h)
        \/ \E f \in Fds : AddFd(f) \/ RemoveFd(f)
        \/ \E f \in Fds, ks \in SUBSET Kinds, e \in BOOLEAN : ProcessEvent(f, ks, e)
        \/ DrainAll

Spec == Init /\ [][Next]_vars

-----------------------------------------------------------------------------
\* Every field stays in its range; in particular active_count_, a size_t, is
\* never decremented below zero.
TypeOK == /\ slot \in [Fds -> [Kinds -> Slot]]
          /\ tracked \subseteq Fds
          /\ nextToken \in Nat \ {0}
          /\ activeCount \in Nat
          /\ handles \subseteq [fd : Fds, kind : Kinds, token : Nat, op : Ops]
          /\ onComplete \in [Ops -> Nat]
          /\ onAbort \in [Ops -> Nat]

\* The comment on active_count_: it equals the number of non-null ops across
\* all slots.  io_context_impl::has_work() ends run() when it is zero, so a
\* count that drifts either abandons a waiter or keeps run() alive for ever.
ActiveCountExact == activeCount = Cardinality(Occupied)

\* Readiness latched by an edge-triggered backend is never left beside a
\* waiter: the edge is not repeated, so that waiter would sleep on a
\* descriptor that is ready.
NoWaiterOnLatchedSlot ==
  \A f \in Fds, k \in Kinds : slot[f][k].ready => slot[f][k].op = NoOp

\* A descriptor that was removed leaves neither a waiter nor a latch for the
\* next socket the kernel gives the same number.
UntrackedIsClean ==
  \A f \in Fds \ tracked, k \in Kinds : slot[f][k].op = NoOp /\ ~slot[f][k].ready

\* The token model of fd_registry: a handle matches its slot only while the
\* slot holds the very op the handle was given out for, whatever was
\* registered, cancelled, removed or drained in between.
TokenIdentifiesOp == \A h \in handles : Matches(h) => slot[h.fd][h.kind].op = h.op

\* An op sits in one slot only, and none of its callbacks has been made while
\* it does.
HeldOnce == \A f, g \in Fds, j, k \in Kinds :
  slot[f][j].op # NoOp /\ slot[f][j].op = slot[g][k].op => f = g /\ j = k
HeldUncalled == \A f \in Fds, k \in Kinds :
  slot[f][k].op # NoOp => onComplete[slot[f][k].op] + onAbort[slot[f][k].op] = 0

\* next_token_ is ahead of every token given out.
HandlesArePast == \A h \in handles : h.token < nextToken

\* The inductive invariant: the registry never holds an op twice or after one
\* of its callbacks, which take_ready, cancel, deregister and drain_all all
\* rely on when they hand the op out by value, together with the above.
IInv == /\ TypeOK
        /\ ActiveCountExact
        /\ NoWaiterOnLatchedSlot
        /\ UntrackedIsClean
        /\ TokenIdentifiesOp
        /\ HandlesArePast
        /\ HeldOnce
        /\ HeldUncalled

\* The op contract of reactor_types.hpp, for the ops of this registry.
RO == INSTANCE ReactorOp WITH armed <- Armed
ImplementsReactorOp == RO!Spec
=============================================================================
