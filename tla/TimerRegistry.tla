--------------------------- MODULE TimerRegistry ---------------------------
(***************************************************************************)
(* detail/timer_registry.hpp as the event loop drives it: a heap of nodes  *)
(* that are recycled, cancelled lazily and guarded against stale handles   *)
(* by a token per node.  The reactor thread cycles through "awake" (posted *)
(* tasks and ready descriptors: timers are added and cancelled), "scan"    *)
(* (process_expired collects), "call" (it runs the callbacks, which may    *)
(* add and cancel timers too), "wait" (about to compute next_wait) and     *)
(* "asleep" (backend wait).                                                *)
(*                                                                         *)
(* heap_ is the set of its indices: std::push_heap and std::pop_heap only  *)
(* promise that the front has a least expiry, so among equal ones any may  *)
(* come first.  free_ is a stack, its back first.  Time is counted in      *)
(* clock ticks, TicksPerMs of which make the millisecond of the backend.   *)
(***************************************************************************)
EXTENDS Integers, Sequences, FiniteSets

CONSTANTS Ops,         \* reactor operations, each added at most once
          NoOp,        \* a null reactor_op_ptr
          MaxTime,     \* bound: last tick of the clock
          MaxToken,    \* bound: no drain once a node's token is this large
          TicksPerMs,  \* clock ticks in a millisecond
          IntLimit     \* 2^31: milliseconds that an int does not hold

ASSUME TimerAssumption == /\ NoOp \notin Ops
                          /\ MaxTime \in Nat
                          /\ MaxToken \in Nat
                          /\ TicksPerMs \in Nat \ {0}
                          /\ IntLimit \in Nat \ {0}

VARIABLES
  nodes,       \* sequence of [expiry, op, token, state]
  heap,        \* indices in heap_
  free,        \* indices in free_, the next to be reused first
  activeCount, \* active_count_
  pc,          \* where the reactor thread is
  ready,       \* process_expired's list of [op, completed]
  sleepUntil,  \* when the backend wait times out, or Forever
  wrapped,     \* history: a timeout did not fit the int of epoll_wait
  now,         \* steady_clock
  handles,     \* the event_handles given out, each with the op it is for
  deadline,    \* op -> expiry it was added with
  onComplete, onAbort

nodeVars == <<nodes, heap, free, activeCount>>
opVars == <<onComplete, onAbort>>
vars == <<nodeVars, pc, ready, sleepUntil, wrapped, now, handles, deadline, opVars>>

States == {"pending", "fired", "cancelled"}
Forever == -1
Node == [expiry : 0..MaxTime, op : Ops \cup {NoOp}, token : Nat, state : States]
Handle == [index : Nat, token : Nat, op : Ops]

Init == /\ nodes = <<>> /\ heap = {} /\ free = <<>> /\ activeCount = 0
        /\ pc = "awake" /\ ready = <<>> /\ sleepUntil = Forever /\ wrapped = FALSE /\ now = 0
        /\ handles = {} /\ deadline = [o \in Ops |-> 0]
        /\ onComplete = [o \in Ops |-> 0] /\ onAbort = [o \in Ops |-> 0]

-----------------------------------------------------------------------------
Indices == 1..Len(nodes)
Armed == ({nodes[i].op : i \in Indices} \cup {ready[j].op : j \in DOMAIN ready}) \ {NoOp}
Fresh(o) == onComplete[o] + onAbort[o] = 0 /\ o \notin Armed
Called(count, S) == [o \in Ops |-> IF o \in S THEN count[o] + 1 ELSE count[o]]

\* The candidates for heap_.front().
AnyTop == heap
Tops == {i \in heap : \A j \in heap : nodes[i].expiry <= nodes[j].expiry}

\* advance_token.
AdvanceToken(token) == token + 1

\* recycle_node on a node, and what it does to active_count_.
RecycledWithOp(node) == [node EXCEPT !.state = "fired", !.token = AdvanceToken(@)]
Recycled(node) ==
  [node EXCEPT !.op = NoOp, !.state = "fired", !.token = AdvanceToken(@)]
CountDown == IF activeCount > 0 THEN activeCount - 1 ELSE 0

PopLeaks(i) == /\ heap' = heap \ {i}
               /\ nodes' = [nodes EXCEPT ![i] = Recycled(@)]
               /\ free' = free
               /\ activeCount' = CountDown
Pop(i) == /\ heap' = heap \ {i}
          /\ nodes' = [nodes EXCEPT ![i] = Recycled(@)]
          /\ free' = <<i>> \o free
          /\ activeCount' = CountDown

-----------------------------------------------------------------------------
\* add_timer: on the reactor thread, in a node taken from the free stack or new.
Place(i, e, o) ==
  /\ heap' = heap \cup {i}
  /\ activeCount' = activeCount + 1
  /\ deadline' = [deadline EXCEPT ![o] = e]

AddTimer(e, o) ==
  /\ pc \in {"awake", "call"}
  /\ Fresh(o)
  /\ \/ /\ free # <<>>
        /\ LET i == Head(free)
           IN /\ nodes' = [nodes EXCEPT ![i].expiry = e, ![i].op = o, ![i].state = "pending"]
              /\ handles' = handles \cup {[index |-> i, token |-> nodes[i].token, op |-> o]}
              /\ Place(i, e, o)
        /\ free' = Tail(free)
     \/ /\ free = <<>>
        /\ LET i == Len(nodes) + 1
           IN /\ nodes' = Append(nodes, [expiry |-> e, op |-> o, token |-> 1, state |-> "pending"])
              /\ handles' = handles \cup {[index |-> i, token |-> 1, op |-> o]}
              /\ Place(i, e, o)
        /\ free' = free
  /\ UNCHANGED <<pc, ready, sleepUntil, wrapped, now, opVars>>

\* cancel_timer on the reactor thread, for a handle given out earlier: the op
\* is taken out and aborted, the node stays in the heap until it surfaces.
Matches(h) == /\ nodes[h.index].token = h.token
              /\ nodes[h.index].state = "pending"

CancelTimer(h) ==
  /\ pc \in {"awake", "call"}
  /\ Matches(h)
  /\ nodes' = [nodes EXCEPT ![h.index].state = "cancelled", ![h.index].op = NoOp]
  /\ onAbort' = Called(onAbort, {nodes[h.index].op})
  /\ UNCHANGED <<heap, free, activeCount, pc, ready, sleepUntil, wrapped, now, handles, deadline, onComplete>>

-----------------------------------------------------------------------------
\* process_expired: collect, then call.
BeginScan ==
  /\ pc = "awake"
  /\ pc' = "scan"
  /\ UNCHANGED <<nodeVars, ready, sleepUntil, wrapped, now, handles, deadline, opVars>>

Collect(o, completed) ==
  ready' = IF o = NoOp THEN ready ELSE Append(ready, [op |-> o, completed |-> completed])

\* A cancelled node surfaced.
ScanCancelled(i) ==
  /\ pc = "scan"
  /\ nodes[i].state = "cancelled"
  /\ Pop(i)
  /\ Collect(nodes[i].op, FALSE)
  /\ UNCHANGED <<pc, sleepUntil, wrapped, now, handles, deadline, opVars>>

\* The front has expired.  A node that is not pending is only recycled.
Expired(i) == nodes[i].expiry <= now

ScanExpired(i) ==
  /\ pc = "scan"
  /\ nodes[i].state # "cancelled"
  /\ Expired(i)
  /\ Pop(i)
  /\ IF nodes[i].state = "pending" THEN Collect(nodes[i].op, TRUE) ELSE UNCHANGED ready
  /\ UNCHANGED <<pc, sleepUntil, wrapped, now, handles, deadline, opVars>>

\* Nothing more to pop: only now are the callbacks of the collected ops called.
EndScan ==
  /\ pc = "scan"
  /\ heap = {} \/ \E i \in Tops : nodes[i].state # "cancelled" /\ ~Expired(i)
  /\ pc' = "call"
  /\ UNCHANGED <<nodeVars, ready, sleepUntil, wrapped, now, handles, deadline, opVars>>

CallReady ==
  /\ pc = "call" /\ ready # <<>>
  /\ IF Head(ready).completed
       THEN onComplete' = Called(onComplete, {Head(ready).op}) /\ UNCHANGED onAbort
       ELSE onAbort' = Called(onAbort, {Head(ready).op}) /\ UNCHANGED onComplete
  /\ ready' = Tail(ready)
  /\ UNCHANGED <<nodeVars, pc, sleepUntil, wrapped, now, handles, deadline>>

EndCalls ==
  /\ pc = "call" /\ ready = <<>>
  /\ pc' = "wait"
  /\ UNCHANGED <<nodeVars, ready, sleepUntil, wrapped, now, handles, deadline, opVars>>

-----------------------------------------------------------------------------
\* next_timeout for the front i, in milliseconds, rounded towards zero.
RoundUp(i) == (nodes[i].expiry - now + TicksPerMs - 1) \div TicksPerMs
Remaining(i) == (nodes[i].expiry - now) \div TicksPerMs
NextTimeout(i) == IF nodes[i].state = "cancelled" \/ nodes[i].expiry <= now THEN 0 ELSE Remaining(i)

\* backend_epoll::wait casts the count to an int, and a negative timeout is none.
ToInt(ms) == ((ms + IntLimit) % (2 * IntLimit)) - IntLimit
Until(ms) == IF ToInt(ms) < 0 THEN Forever ELSE now + ToInt(ms) * TicksPerMs

SleepPastCancelled ==
  /\ pc = "wait"
  /\ \/ heap = {} /\ sleepUntil' = Forever
     \/ \E i \in Tops : sleepUntil' = IF nodes[i].state = "cancelled" THEN Forever
                                      ELSE Until(NextTimeout(i))
  /\ pc' = "asleep"
  /\ UNCHANGED <<nodeVars, ready, wrapped, now, handles, deadline, opVars>>
Sleep ==
  /\ pc = "wait"
  /\ \/ heap = {} /\ sleepUntil' = Forever /\ UNCHANGED wrapped
     \/ \E i \in Tops : /\ sleepUntil' = Until(NextTimeout(i))
                        /\ wrapped' = (wrapped \/ NextTimeout(i) >= IntLimit)
  /\ pc' = "asleep"
  /\ UNCHANGED <<nodeVars, ready, now, handles, deadline, opVars>>

\* The backend wait times out, or returns early for an event or a post.
WakeDue ==
  /\ pc = "asleep" /\ sleepUntil # Forever /\ sleepUntil <= now
  /\ pc' = "awake"
  /\ UNCHANGED <<nodeVars, ready, sleepUntil, wrapped, now, handles, deadline, opVars>>

WakeEarly ==
  /\ pc = "asleep" /\ (sleepUntil = Forever \/ sleepUntil > now)
  /\ pc' = "awake"
  /\ UNCHANGED <<nodeVars, ready, sleepUntil, wrapped, now, handles, deadline, opVars>>

\* The backend wait throws: drain_all, every op is aborted.  The loop stops;
\* "awake" stands for its next run after a restart.
DrainAll ==
  /\ pc = "asleep"
  /\ \A i \in Indices : nodes[i].token < MaxToken
  /\ onAbort' = Called(onAbort, {nodes[i].op : i \in Indices} \ {NoOp})
  /\ nodes' = [i \in Indices |-> Recycled(nodes[i])]
  /\ heap' = {}
  /\ free' = [i \in Indices |-> Len(nodes) + 1 - i]
  /\ activeCount' = 0
  /\ pc' = "awake"
  /\ UNCHANGED <<ready, sleepUntil, wrapped, now, handles, deadline, onComplete>>

Tick ==
  /\ now < MaxTime
  /\ now' = now + 1
  /\ UNCHANGED <<nodeVars, pc, ready, sleepUntil, wrapped, handles, deadline, opVars>>

Scan == \E i \in Tops : ScanCancelled(i) \/ ScanExpired(i)

Next == \/ \E e \in 0..MaxTime, o \in Ops : AddTimer(e, o)
        \/ \E h \in handles : CancelTimer(h)
        \/ BeginScan \/ Scan \/ EndScan \/ CallReady \/ EndCalls \/ Sleep \/ WakeDue \/ WakeEarly \/ DrainAll \/ Tick

\* The clock advances and the reactor thread keeps going round; it is not
\* assumed that anything but its own timeout wakes it.
Fairness == /\ WF_vars(Tick) /\ WF_vars(BeginScan) /\ WF_vars(Scan) /\ WF_vars(EndScan)
            /\ WF_vars(CallReady) /\ WF_vars(EndCalls) /\ WF_vars(Sleep) /\ WF_vars(WakeDue)

Spec == Init /\ [][Next]_vars
FairSpec == Spec /\ Fairness

-----------------------------------------------------------------------------
\* Every field stays in its range.
TypeOK == /\ nodes \in Seq(Node)
          /\ heap \subseteq Indices
          /\ free \in Seq(Indices)
          /\ activeCount \in Nat
          /\ pc \in {"awake", "scan", "call", "wait", "asleep"}
          /\ ready \in Seq([op : Ops, completed : BOOLEAN])
          /\ sleepUntil \in Nat \cup {Forever} /\ wrapped \in BOOLEAN
          /\ now \in 0..MaxTime
          /\ handles \subseteq Handle
          /\ deadline \in [Ops -> 0..MaxTime]
          /\ onComplete \in [Ops -> Nat] /\ onAbort \in [Ops -> Nat]

\* A node is in the heap or on the free stack, once, and never in both: a node
\* handed out twice would let one timer overwrite another.
NodesPartitioned ==
  /\ \A i \in Indices : i \in heap <=> ~\E j \in DOMAIN free : free[j] = i
  /\ \A j, k \in DOMAIN free : free[j] = free[k] => j = k

\* empty() reads active_count_, and run() ends on it: it counts the nodes of
\* the heap, the cancelled ones that have not surfaced included.
ActiveCountIsHeap == activeCount = Cardinality(heap)

\* A node holds an op exactly while it is a pending timer in the heap.
OpIffPending ==
  \A i \in Indices : nodes[i].op # NoOp <=> (i \in heap /\ nodes[i].state = "pending")

\* The token model: however often the node was recycled, a handle matches only
\* the timer it was given out for.
TokenIdentifiesTimer == \A h \in handles : Matches(h) => nodes[h.index].op = h.op

\* A node that is reused has a token that no handle given out before has.
TokensFresh == \A h \in handles : /\ h.index \in Indices /\ h.token <= nodes[h.index].token
                                  /\ h.index \notin heap => h.token < nodes[h.index].token

\* An op is in one node or was collected once, and was not called yet; what
\* process_expired collects it calls before it returns.
OpHeldOnce ==
  /\ \A i, k \in Indices : nodes[i].op = nodes[k].op /\ nodes[i].op # NoOp => i = k
  /\ \A j, k \in DOMAIN ready : ready[j].op = ready[k].op => j = k
  /\ \A i \in Indices, j \in DOMAIN ready : nodes[i].op # ready[j].op
  /\ \A o \in Ops : onComplete[o] + onAbort[o] <= IF o \in Armed THEN 0 ELSE 1
  /\ pc \notin {"scan", "call"} => ready = <<>>

\* The bookkeeping of the nodes, whatever is added, cancelled, recycled and
\* drained in whatever order: types and all of the above.
NodesConsistent == /\ TypeOK /\ NodesPartitioned /\ ActiveCountIsHeap /\ OpIffPending
                   /\ TokenIdentifiesTimer /\ TokensFresh /\ OpHeldOnce

\* A timer never completes before its expiry, which the node keeps.
NeverEarly == /\ \A o \in Ops : onComplete[o] > 0 => deadline[o] <= now
              /\ \A j \in DOMAIN ready : ready[j].completed => deadline[ready[j].op] <= now
              /\ \A i \in Indices : nodes[i].op # NoOp => nodes[i].expiry = deadline[nodes[i].op]

\* Expired timers are completed in the order of their expiry, and none is
\* completed while one that expires earlier still waits in the heap.
ExpiryOrder ==
  LET done == {j \in DOMAIN ready : ready[j].completed}
  IN \A j \in done :
       /\ \A k \in done : j < k => deadline[ready[j].op] <= deadline[ready[k].op]
       /\ pc = "scan" => \A i \in heap : deadline[ready[j].op] <= nodes[i].expiry

\* process_expired completes timers neither early nor out of order, also while
\* the clock moves between two looks at the front and callbacks add timers.
OnTime == NeverEarly /\ ExpiryOrder

\* The sleep computed by next_timeout, rounded to milliseconds, is over or ends
\* no later than the first pending timer of the heap expires, unless a timeout
\* was too long for the int it is cast to.
NoOversleep ==
  pc = "asleep" /\ ~wrapped =>
    \A i \in heap : nodes[i].state = "pending" =>
      sleepUntil # Forever /\ (sleepUntil <= now \/ sleepUntil <= nodes[i].expiry)

\* The op contract of reactor_types.hpp, for the timers.
RO == INSTANCE ReactorOp WITH armed <- Armed
ImplementsReactorOp == RO!Spec

\* A cancelled node does not stay in the heap for ever, so it does not keep
\* run() from returning.
CancelledNodeSurfaces == (\E i \in heap : nodes[i].state = "cancelled")
                         ~> (wrapped \/ \A i \in heap : nodes[i].state # "cancelled")

\* Every timer that was added completes or is aborted, and cancelled nodes
\* surface, in a reactor woken by its own timeout alone and with timeouts that
\* fit an int.
EveryTimerEnds == (\A o \in Ops : o \in Armed ~> (wrapped \/ o \notin Armed)) /\ CancelledNodeSurfaces
=============================================================================
