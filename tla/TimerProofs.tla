---------------------------- MODULE TimerProofs ----------------------------
(***************************************************************************)
(* Proofs about MCTimers.  First timer_registry, for every number of       *)
(* timers and every resolution of the clock: its bookkeeping, that no      *)
(* timer completes early or out of order and no sleep is too long, and the *)
(* op contract of ReactorOp.  Then steady_timer over a registry that keeps *)
(* that contract, for every number of waits and callers: what is known of  *)
(* each wait between two steps, of the handle and of the cancellations on  *)
(* their way.  Last the two layers together, since a step of one leaves    *)
(* the other alone.                                                        *)
(***************************************************************************)
EXTENDS MCTimers, TLAPS

-----------------------------------------------------------------------------
\* The stack of free nodes.
In(x, s) == \E j \in DOMAIN s : s[j] = x
Distinct(s) == \A j, k \in DOMAIN s : s[j] = s[k] => j = k

USE Zenon

LEMMA Pushed ==
  ASSUME NEW S, NEW s \in Seq(S), NEW x \in S, ~In(x, s), Distinct(s)
  PROVE  /\ <<x>> \o s \in Seq(S) /\ Distinct(<<x>> \o s)
         /\ \A y : In(y, <<x>> \o s) <=> y = x \/ In(y, s)
<1> DEFINE t == <<x>> \o s
<1>1. /\ t \in Seq(S) /\ DOMAIN t = 1..(Len(s) + 1) /\ DOMAIN s = 1..Len(s) /\ Len(s) \in Nat
      /\ t[1] = x
      /\ \A j \in 1..(Len(s) + 1) : j # 1 => t[j] = s[j - 1]
  BY SMT
<1> HIDE DEF t
<1>2. \A j \in DOMAIN t : (j = 1 /\ t[j] = x) \/ (j - 1 \in DOMAIN s /\ t[j] = s[j - 1]) BY <1>1, SMT
<1>3. \A j \in DOMAIN s : j + 1 \in DOMAIN t /\ t[j + 1] = s[j] BY <1>1, SMT
<1>4. Distinct(t)
  <2> SUFFICES ASSUME NEW j \in DOMAIN t, NEW k \in DOMAIN t, t[j] = t[k] PROVE j = k BY DEF Distinct
  <2>1. j = 1 <=> k = 1 BY <1>1, <1>2 DEF In
  <2>2. j # 1 /\ k # 1 => j - 1 = k - 1 BY <1>1, <1>2 DEF Distinct
  <2> QED BY <1>1, <2>1, <2>2, SMT
<1>5. \A y : In(y, t) <=> y = x \/ In(y, s)
  <2>1. 1 \in DOMAIN t BY <1>1, SMT
  <2> QED BY <1>1, <1>2, <1>3, <2>1, SMT DEF In
<1> QED BY <1>1, <1>4, <1>5 DEF t

LEMMA Popped ==
  ASSUME NEW S, NEW s \in Seq(S), s # <<>>, Distinct(s)
  PROVE  /\ Tail(s) \in Seq(S) /\ Head(s) \in S /\ Distinct(Tail(s))
         /\ \A y : In(y, s) <=> y = Head(s) \/ In(y, Tail(s))
         /\ ~In(Head(s), Tail(s))
<1> DEFINE t == Tail(s)
<1>1. /\ t \in Seq(S) /\ Len(t) = Len(s) - 1 /\ DOMAIN t = 1..Len(t) /\ DOMAIN s = 1..Len(s)
      /\ Len(s) \in Nat /\ Len(s) > 0 /\ Head(s) = s[1] /\ Head(s) \in S
      /\ \A j \in 1..Len(t) : t[j] = s[j + 1]
  BY SMT
<1> HIDE DEF t
<1>2. \A j \in DOMAIN t : j + 1 \in DOMAIN s /\ t[j] = s[j + 1] /\ j + 1 # 1 BY <1>1, SMT
<1>3. \A j \in DOMAIN s : j = 1 \/ (j - 1 \in DOMAIN t /\ s[j] = t[j - 1]) BY <1>1, SMT
<1>4. 1 \in DOMAIN s BY <1>1, SMT
<1>5. \A y : In(y, s) <=> y = s[1] \/ In(y, t) BY <1>2, <1>3, <1>4 DEF In
<1>6. ~In(s[1], t) BY <1>2, <1>4 DEF In, Distinct
<1>7. Distinct(t)
  <2> SUFFICES ASSUME NEW j \in DOMAIN t, NEW k \in DOMAIN t, t[j] = t[k] PROVE j = k BY DEF Distinct
  <2>1. j + 1 = k + 1 BY <1>2 DEF Distinct
  <2> QED BY <1>1, <2>1, SMT
<1> QED BY <1>1, <1>5, <1>6, <1>7 DEF t

LEMMA Refilled ==
  ASSUME NEW n \in Nat
  PROVE  LET t == [i \in 1..n |-> n + 1 - i]
         IN  t \in Seq(1..n) /\ Distinct(t) /\ \A y \in 1..n : In(y, t)
<1> DEFINE t == [i \in 1..n |-> n + 1 - i]
<1>1. t \in [1..n -> 1..n] /\ DOMAIN t = 1..n /\ \A i \in 1..n : t[i] = n + 1 - i BY SMT
<1>2. t \in Seq(1..n) BY <1>1, SMT
<1> HIDE DEF t
<1>3. Distinct(t) BY <1>1, SMT DEF Distinct
<1>4. \A y \in 1..n : In(y, t)
  <2> TAKE y \in 1..n
  <2>1. n + 1 - y \in DOMAIN t /\ t[n + 1 - y] = y BY <1>1, SMT
  <2> QED BY <2>1 DEF In
<1> QED BY <1>2, <1>3, <1>4 DEF t

\* process_expired's list.
LEMMA Listed ==
  ASSUME NEW S, NEW s \in Seq(S), NEW x \in S
  PROVE  /\ Append(s, x) \in Seq(S) /\ DOMAIN Append(s, x) = 1..(Len(s) + 1)
         /\ Len(s) \in Nat /\ DOMAIN s = 1..Len(s) /\ Append(s, x)[Len(s) + 1] = x
         /\ \A j \in DOMAIN s : j \in DOMAIN Append(s, x) /\ Append(s, x)[j] = s[j] /\ j < Len(s) + 1
         /\ \A j \in DOMAIN Append(s, x) : j \in DOMAIN s \/ j = Len(s) + 1
<1> DEFINE t == Append(s, x)
<1>1. /\ t \in Seq(S) /\ DOMAIN t = 1..(Len(s) + 1) /\ DOMAIN s = 1..Len(s)
      /\ Len(s) \in Nat /\ t[Len(s) + 1] = x
      /\ \A j \in 1..Len(s) : t[j] = s[j]
  BY SMT
<1> HIDE DEF t
<1>2. \A j \in DOMAIN t : j \in DOMAIN s \/ j = Len(s) + 1 BY <1>1, SMT
<1>3. \A j \in DOMAIN s : j \in DOMAIN t /\ j < Len(s) + 1 BY <1>1, SMT
<1> QED BY <1>1, <1>2, <1>3 DEF t

LEMMA Unlisted ==
  ASSUME NEW S, NEW s \in Seq(S), s # <<>>
  PROVE  /\ Tail(s) \in Seq(S) /\ Head(s) \in S /\ 1 \in DOMAIN s /\ Head(s) = s[1] /\ DOMAIN s \subseteq Nat
         /\ \A j \in DOMAIN Tail(s) : j \in Nat /\ j + 1 \in DOMAIN s /\ Tail(s)[j] = s[j + 1] /\ j + 1 # 1
         /\ \A j \in DOMAIN s : j = 1 \/ (j - 1 \in DOMAIN Tail(s) /\ s[j] = Tail(s)[j - 1])
<1> DEFINE t == Tail(s)
<1>1. /\ t \in Seq(S) /\ Len(t) = Len(s) - 1 /\ DOMAIN t = 1..Len(t) /\ DOMAIN s = 1..Len(s)
      /\ Len(s) \in Nat /\ Len(s) > 0 /\ Head(s) = s[1] /\ Head(s) \in S
      /\ \A j \in 1..Len(t) : t[j] = s[j + 1]
  BY SMT
<1> HIDE DEF t
<1>2. \A j \in DOMAIN t : j \in Nat /\ j + 1 \in DOMAIN s /\ t[j] = s[j + 1] /\ j + 1 # 1 BY <1>1, SMT
<1>3. \A j \in DOMAIN s : j = 1 \/ (j - 1 \in DOMAIN t /\ s[j] = t[j - 1]) BY <1>1, SMT
<1>4. 1 \in DOMAIN s /\ DOMAIN s \subseteq Nat BY <1>1, SMT
<1> QED BY <1>1, <1>2, <1>3, <1>4 DEF t
-----------------------------------------------------------------------------
\* The types of the registry, and of the rest.
RegistryType == /\ nodes \in Seq(Node) /\ heap \subseteq Indices /\ free \in Seq(Indices) /\ activeCount \in Nat
LoopType == /\ pc \in {"awake", "scan", "call", "wait", "asleep"}
            /\ sleepUntil \in Nat \cup {Forever} /\ wrapped \in BOOLEAN /\ now \in 0..MaxTime
ReadyType == ready \in Seq([op : Ops, completed : BOOLEAN])
CallType == /\ handles \subseteq Handle /\ deadline \in [Ops -> 0..MaxTime]
            /\ onComplete \in [Ops -> Nat] /\ onAbort \in [Ops -> Nat]

LEMMA TypesFlat == TypeOK <=> RegistryType /\ LoopType /\ ReadyType /\ CallType
BY DEF TypeOK, RegistryType, LoopType, ReadyType, CallType

LEMMA TypesFlatPrime == TypeOK' <=> RegistryType' /\ LoopType' /\ ReadyType' /\ CallType'
BY DEF TypeOK, RegistryType, LoopType, ReadyType, CallType

\* The nodes and the two containers of indices.
Containers == RegistryType /\ NodesPartitioned

LEMMA NodeFields ==
  ASSUME RegistryType, NEW i \in Indices
  PROVE  /\ nodes[i] \in Node /\ nodes[i].expiry \in 0..MaxTime /\ nodes[i].op \in Ops \cup {NoOp}
         /\ nodes[i].token \in Nat /\ nodes[i].state \in States
<1>1. nodes[i] \in Node BY SMT DEF RegistryType, Indices
<1> QED BY <1>1 DEF Node

LEMMA NodeSet ==
  ASSUME RegistryType, NEW i \in Indices, NEW n \in Node, nodes' = [nodes EXCEPT ![i] = n]
  PROVE  /\ nodes' \in Seq(Node) /\ Indices' = Indices /\ nodes'[i] = n
         /\ \A k \in Indices \ {i} : nodes'[k] = nodes[k]
BY SMT DEF RegistryType, Indices

LEMMA PartitionForm ==
  /\ NodesPartitioned <=> (\A i \in Indices : i \in heap <=> ~In(i, free)) /\ Distinct(free)
  /\ NodesPartitioned' <=> (\A i \in Indices' : i \in heap' <=> ~In(i, free')) /\ Distinct(free')
BY DEF NodesPartitioned, In, Distinct

\* A node is popped and recycled.
LEMMA RecycledNode ==
  ASSUME RegistryType, NEW i \in Indices
  PROVE  /\ Recycled(nodes[i]) \in Node /\ Recycled(nodes[i]).op = NoOp
         /\ Recycled(nodes[i]).token = nodes[i].token + 1 /\ Recycled(nodes[i]).state = "fired"
<1>1. nodes[i] \in Node BY NodeFields
<1>2. ASSUME NEW n \in Node
      PROVE  /\ Recycled(n).op = NoOp /\ Recycled(n).token = n.token + 1 /\ Recycled(n).state = "fired"
  BY DEF Recycled, AdvanceToken, Node
<1>3. ASSUME NEW n \in Node PROVE Recycled(n) \in Node
  <2>1. n.token + 1 \in Nat BY SMT DEF Node
  <2> QED BY <2>1 DEF Recycled, AdvanceToken, Node, States
<1> QED BY <1>1, <1>2, <1>3

LEMMA PopContainers ==
  ASSUME Containers, NEW i \in heap, Pop(i)
  PROVE  /\ Containers' /\ Indices' = Indices /\ heap' = heap \ {i}
         /\ nodes'[i].op = NoOp /\ nodes'[i].token = nodes[i].token + 1 /\ nodes'[i].state = "fired"
         /\ \A k \in Indices \ {i} : nodes'[k] = nodes[k]
<1>1. i \in Indices BY DEF Containers, RegistryType
<1> DEFINE n == Recycled(nodes[i])
<1>2. n \in Node /\ n.op = NoOp /\ n.token = nodes[i].token + 1 /\ n.state = "fired"
  BY <1>1, RecycledNode DEF Containers
<1>3. nodes' = [nodes EXCEPT ![i] = n] BY DEF Pop
<1> HIDE DEF n
<1>4. /\ nodes' \in Seq(Node) /\ Indices' = Indices /\ nodes'[i] = n
      /\ \A k \in Indices \ {i} : nodes'[k] = nodes[k]
  BY <1>1, <1>2, <1>3, NodeSet DEF Containers
<1>5. ~In(i, free) /\ Distinct(free) /\ free \in Seq(Indices)
  BY <1>1, PartitionForm DEF Containers, RegistryType
<1>6. /\ free' \in Seq(Indices) /\ Distinct(free')
      /\ \A y : In(y, free') <=> y = i \/ In(y, free)
  BY <1>1, <1>5, Pushed DEF Pop
<1>7. NodesPartitioned'
  <2>1. \A k \in Indices : k \in heap <=> ~In(k, free) BY PartitionForm DEF Containers
  <2>2. \A k \in Indices' : k \in heap' <=> ~In(k, free') BY <1>4, <1>6, <2>1 DEF Pop
  <2> QED BY <1>6, <2>2, PartitionForm
<1>8. activeCount' \in Nat BY SMT DEF Pop, CountDown, Containers, RegistryType
<1>9. heap' = heap \ {i} BY DEF Pop
<1>10. RegistryType' BY <1>4, <1>6, <1>8, <1>9 DEF RegistryType, Containers
<1> QED BY <1>2, <1>4, <1>7, <1>9, <1>10 DEF Containers

\* add_timer in a node of the free stack, or in a new one.
Placed(i, e, o, t) ==
  /\ heap' = heap \cup {i} /\ i \notin heap /\ i \in Indices' /\ Indices' = Indices \cup {i}
  /\ nodes'[i].expiry = e /\ nodes'[i].op = o /\ nodes'[i].token = t /\ nodes'[i].state = "pending"
  /\ \A k \in Indices \ {i} : nodes'[k] = nodes[k]

LEMMA ReuseContainers ==
  ASSUME Containers, NEW e \in 0..MaxTime, NEW o \in Ops, free # <<>>,
         nodes' = [nodes EXCEPT ![Head(free)].expiry = e, ![Head(free)].op = o, ![Head(free)].state = "pending"],
         heap' = heap \cup {Head(free)}, activeCount' = activeCount + 1, free' = Tail(free)
  PROVE  Containers' /\ Head(free) \in Indices /\ Placed(Head(free), e, o, nodes[Head(free)].token)
<1> DEFINE i == Head(free)
           n == [nodes[i] EXCEPT !.expiry = e, !.op = o, !.state = "pending"]
<1>1. free \in Seq(Indices) /\ Distinct(free) BY PartitionForm DEF Containers, RegistryType
<1>2. /\ free' \in Seq(Indices) /\ i \in Indices /\ Distinct(free') /\ ~In(i, free')
      /\ \A y : In(y, free) <=> y = i \/ In(y, free')
  BY <1>1, Popped
<1>3. nodes[i] \in Node BY <1>2, NodeFields DEF Containers
<1>4. n \in Node /\ n.expiry = e /\ n.op = o /\ n.token = nodes[i].token /\ n.state = "pending"
  BY <1>3 DEF Node, States
<1>5. nodes' = [nodes EXCEPT ![i] = n] BY <1>2, <1>3 DEF Containers, RegistryType, Indices, Node
<1> HIDE DEF n, i
<1>6. /\ nodes' \in Seq(Node) /\ Indices' = Indices /\ nodes'[i] = n
      /\ \A k \in Indices \ {i} : nodes'[k] = nodes[k]
  BY <1>2, <1>4, <1>5, NodeSet DEF Containers
<1>7. heap' = heap \cup {i} BY DEF i
<1>8. \A k \in Indices : k \in heap <=> ~In(k, free) BY PartitionForm DEF Containers
<1>9. i \notin heap BY <1>2, <1>8
<1>10. NodesPartitioned'
  <2>1. \A k \in Indices' : k \in heap' <=> ~In(k, free') BY <1>2, <1>6, <1>7, <1>8
  <2> QED BY <1>2, <2>1, PartitionForm
<1>11. activeCount' \in Nat BY SMT DEF Containers, RegistryType
<1>12. RegistryType' BY <1>2, <1>6, <1>7, <1>11 DEF RegistryType, Containers
<1>13. Placed(i, e, o, nodes[i].token) BY <1>2, <1>4, <1>6, <1>7, <1>9 DEF Placed
<1> QED BY <1>2, <1>10, <1>12, <1>13 DEF Containers, i

LEMMA NewContainers ==
  ASSUME Containers, NEW e \in 0..MaxTime, NEW o \in Ops, free = <<>>, free' = free,
         nodes' = Append(nodes, [expiry |-> e, op |-> o, token |-> 1, state |-> "pending"]),
         heap' = heap \cup {Len(nodes) + 1}, activeCount' = activeCount + 1
  PROVE  Containers' /\ Len(nodes) + 1 \notin Indices /\ Len(nodes) + 1 \in Nat /\ Placed(Len(nodes) + 1, e, o, 1)
<1> DEFINE i == Len(nodes) + 1
           n == [expiry |-> e, op |-> o, token |-> 1, state |-> "pending"]
<1>1. n \in Node /\ n.expiry = e /\ n.op = o /\ n.token = 1 /\ n.state = "pending" BY DEF Node, States
<1> HIDE DEF n
<1>2. /\ nodes' \in Seq(Node) /\ Len(nodes') = i /\ nodes'[i] = n /\ Len(nodes) \in Nat
      /\ \A k \in 1..Len(nodes) : nodes'[k] = nodes[k]
  BY <1>1, SMT DEF Containers, RegistryType, n
<1>3. Indices' = Indices \cup {i} /\ i \notin Indices BY <1>2, SMT DEF Indices
<1>4. i \notin heap BY <1>3 DEF Containers, RegistryType
<1>5. NodesPartitioned'
  <2>1. \A k : ~In(k, free) BY SMT DEF In
  <2>2. \A k \in Indices : k \in heap BY <2>1, PartitionForm DEF Containers
  <2>3. \A k \in Indices' : k \in heap' /\ ~In(k, free') BY <1>3, <2>1, <2>2
  <2>4. Distinct(free') BY SMT DEF Distinct
  <2> QED BY <2>3, <2>4, PartitionForm
<1>6. activeCount' \in Nat BY SMT DEF Containers, RegistryType
<1>7. RegistryType'
  <2>1. free' \in Seq(Indices') BY SMT
  <2> QED BY <1>2, <1>3, <1>6, <2>1 DEF RegistryType, Containers
<1>8. Placed(i, e, o, 1) BY <1>1, <1>2, <1>3, <1>4 DEF Placed, Indices
<1> QED BY <1>2, <1>3, <1>5, <1>7, <1>8, SMT DEF Containers
-----------------------------------------------------------------------------
\* The ops that the registry holds, in a node or in process_expired's list.
LEMMA ArmedForm ==
  ASSUME RegistryType, ReadyType, NEW o \in Ops
  PROVE  o \in Armed <=> (\E i \in Indices : nodes[i].op = o) \/ (\E j \in DOMAIN ready : ready[j].op = o)
BY TimerAssumption DEF Armed

LEMMA ArmedFormPrime ==
  ASSUME RegistryType', ReadyType', NEW o \in Ops
  PROVE  o \in Armed' <=> (\E i \in Indices' : nodes'[i].op = o) \/ (\E j \in DOMAIN ready' : ready'[j].op = o)
BY TimerAssumption DEF Armed

LEMMA ListElement ==
  ASSUME NEW S, NEW s \in Seq(S), NEW j \in DOMAIN s
  PROVE  s[j] \in S
BY SMT

LEMMA ReadyFields ==
  ASSUME ReadyType, NEW j \in DOMAIN ready
  PROVE  ready[j].op \in Ops /\ ready[j].completed \in BOOLEAN
<1>1. ready[j] \in [op : Ops, completed : BOOLEAN] BY ListElement DEF ReadyType
<1> QED BY <1>1

LEMMA ArmedTypePrime ==
  ASSUME RegistryType', ReadyType'
  PROVE  Armed' \subseteq Ops
<1>1. \A i \in Indices' : nodes'[i].op \in Ops \cup {NoOp}
  <2> TAKE i \in Indices'
  <2>1. nodes'[i] \in Node BY SMT DEF RegistryType, Indices
  <2> QED BY <2>1 DEF Node
<1>2. \A j \in DOMAIN ready' : ready'[j].op \in Ops
  <2> TAKE j \in DOMAIN ready'
  <2>1. ready'[j] \in [op : Ops, completed : BOOLEAN] BY ListElement DEF ReadyType
  <2> QED BY <2>1
<1> QED BY <1>1, <1>2 DEF Armed

\* What is known of the registry between two steps.
Held == OpIffPending /\ TokenIdentifiesTimer /\ TokensFresh /\ OpHeldOnce
Timely == NeverEarly /\ ExpiryOrder
Registry == Containers /\ LoopType /\ ReadyType /\ CallType /\ Held /\ Timely

\* process_expired pops a node; the op of a pending one goes to the list.
LEMMA PopStep ==
  ASSUME Registry, NEW i \in Tops, pc = "scan", Pop(i),
         \/ nodes[i].op = NoOp /\ ready' = ready
         \/ /\ nodes[i].op # NoOp /\ nodes[i].expiry <= now
            /\ ready' = Append(ready, [op |-> nodes[i].op, completed |-> TRUE]),
         UNCHANGED <<pc, sleepUntil, wrapped, now, handles, deadline, opVars>>
  PROVE  Registry' /\ Armed' = Armed
<1>1. i \in heap /\ \A k \in heap : nodes[i].expiry <= nodes[k].expiry BY DEF Tops
<1>2. /\ Containers' /\ Indices' = Indices /\ heap' = heap \ {i} /\ i \in Indices
      /\ nodes'[i].op = NoOp /\ nodes'[i].token = nodes[i].token + 1 /\ nodes'[i].state = "fired"
      /\ \A k \in Indices \ {i} : nodes'[k] = nodes[k]
  BY <1>1, PopContainers DEF Registry, Containers, RegistryType
<1>3. LoopType' /\ CallType' BY DEF Registry, LoopType, CallType, opVars
<1>4. NoOp \notin Ops BY TimerAssumption
<1>5. OpIffPending' BY <1>2 DEF Registry, Held, OpIffPending
<1>6. \A h \in handles : h.index \in Indices /\ h.token \in Nat /\ nodes[h.index].token \in Nat
  BY NodeFields DEF Registry, Containers, Held, TokensFresh, CallType, Handle
<1>7. TokenIdentifiesTimer' BY <1>2, <1>6 DEF Registry, Held, TokenIdentifiesTimer, Matches
<1>8. TokensFresh' BY <1>2, <1>6, SMT DEF Registry, Held, TokensFresh
<1>9. CASE nodes[i].op = NoOp /\ ready' = ready
  <2>1. ReadyType' BY <1>9 DEF Registry, ReadyType
  <2>2. \A k \in Indices : nodes'[k].op = nodes[k].op BY <1>2, <1>9
  <2>3. Armed' = Armed BY <1>2, <1>9, <2>2 DEF Armed
  <2>4. OpHeldOnce' BY <1>2, <1>9, <2>2, <2>3, SMT DEF Registry, Held, OpHeldOnce, opVars
  <2>5. NeverEarly' BY <1>2, <1>9 DEF Registry, Timely, NeverEarly, opVars
  <2>6. ExpiryOrder' BY <1>2, <1>9 DEF Registry, Timely, ExpiryOrder, Containers, RegistryType
  <2> QED BY <1>2, <1>3, <1>5, <1>7, <1>8, <2>1, <2>3, <2>4, <2>5, <2>6 DEF Registry, Held, Timely
<1>10. CASE /\ nodes[i].op # NoOp /\ nodes[i].expiry <= now
            /\ ready' = Append(ready, [op |-> nodes[i].op, completed |-> TRUE])
  <2> DEFINE o == nodes[i].op
             r == [op |-> o, completed |-> TRUE]
             n == Len(ready) + 1
  <2>1. o \in Ops BY <1>2, <1>10, NodeFields DEF Registry, Containers
  <2>2. r \in [op : Ops, completed : BOOLEAN] /\ r.op = o /\ r.completed = TRUE BY <2>1
  <2> HIDE DEF r
  <2>3. ready' = Append(ready, r) BY <1>10 DEF r
  <2>4. /\ ready' \in Seq([op : Ops, completed : BOOLEAN]) /\ DOMAIN ready' = 1..n /\ ready'[n] = r
        /\ \A j \in DOMAIN ready : j \in DOMAIN ready' /\ ready'[j] = ready[j] /\ j < n
        /\ \A j \in DOMAIN ready' : j \in DOMAIN ready \/ j = n
        /\ n \in DOMAIN ready' /\ n \in Nat /\ DOMAIN ready \subseteq Nat
    <3>1. ready \in Seq([op : Ops, completed : BOOLEAN]) BY DEF Registry, ReadyType
    <3>2. /\ ready' \in Seq([op : Ops, completed : BOOLEAN]) /\ DOMAIN ready' = 1..n /\ ready'[n] = r
          /\ Len(ready) \in Nat /\ DOMAIN ready = 1..Len(ready)
          /\ \A j \in DOMAIN ready : j \in DOMAIN ready' /\ ready'[j] = ready[j] /\ j < n
          /\ \A j \in DOMAIN ready' : j \in DOMAIN ready \/ j = n
      BY <2>2, <2>3, <3>1, Listed, SMT
    <3> QED BY <3>2, SMT
  <2> HIDE DEF n
  <2>5. ReadyType' BY <2>4 DEF ReadyType
  <2>6. /\ \A k \in Indices : nodes[k].op = o => k = i
        /\ \A j \in DOMAIN ready : ready[j].op # o
    BY <1>2, <1>10 DEF Registry, Held, OpHeldOnce
  <2>7. Armed' = Armed
    <3>1. ASSUME NEW x \in Ops PROVE x \in Armed' <=> x \in Armed
      <4>1. x \in Armed <=> (\E k \in Indices : nodes[k].op = x) \/ (\E j \in DOMAIN ready : ready[j].op = x)
        BY ArmedForm DEF Registry, Containers
      <4>2. x \in Armed' <=> (\E k \in Indices' : nodes'[k].op = x) \/ (\E j \in DOMAIN ready' : ready'[j].op = x)
        BY <1>2, <2>5, ArmedFormPrime DEF Containers
      <4>3. (\E k \in Indices' : nodes'[k].op = x) <=> (\E k \in Indices \ {i} : nodes[k].op = x)
        BY <1>2, <1>4
      <4>4. (\E j \in DOMAIN ready' : ready'[j].op = x) <=> x = o \/ (\E j \in DOMAIN ready : ready[j].op = x)
        BY <2>2, <2>4
      <4> QED BY <1>2, <4>1, <4>2, <4>3, <4>4
    <3>2. Armed \subseteq Ops BY NodeFields, ReadyFields DEF Armed, Registry, Containers
    <3>3. Armed' \subseteq Ops BY <1>2, <2>5, ArmedTypePrime DEF Containers
    <3> QED BY <3>1, <3>2, <3>3
  <2>8. OpHeldOnce'
    <3>1. \A k, l \in Indices' : nodes'[k].op = nodes'[l].op /\ nodes'[k].op # NoOp => k = l
      BY <1>2, SMT DEF Registry, Held, OpHeldOnce
    <3>2. \A j, k \in DOMAIN ready' : ready'[j].op = ready'[k].op => j = k
      BY <2>2, <2>4, <2>6, SMT DEF Registry, Held, OpHeldOnce
    <3>3. \A k \in Indices', j \in DOMAIN ready' : nodes'[k].op # ready'[j].op
      <4>1. \A j \in DOMAIN ready : ready[j].op \in Ops BY ReadyFields DEF Registry
      <4>2. \A k \in Indices, j \in DOMAIN ready : nodes[k].op # ready[j].op
        BY DEF Registry, Held, OpHeldOnce
      <4>3. ASSUME NEW k \in Indices', NEW j \in DOMAIN ready PROVE nodes'[k].op # ready[j].op
        BY <1>2, <1>4, <4>1, <4>2
      <4>4. ASSUME NEW k \in Indices' PROVE nodes'[k].op # o BY <1>2, <1>4, <2>1, <2>6
      <4> QED BY <2>2, <2>4, <4>3, <4>4
    <3> QED BY <2>7, <3>1, <3>2, <3>3 DEF Registry, Held, OpHeldOnce, opVars
  <2>9. nodes[i].expiry = deadline[o] BY <1>2, <1>10 DEF Registry, Timely, NeverEarly
  <2>10. NeverEarly'
    <3>1. deadline[r.op] <= now BY <1>10, <2>2, <2>9
    <3>2. \A j \in DOMAIN ready : ready[j].completed => deadline[ready[j].op] <= now
      BY DEF Registry, Timely, NeverEarly
    <3>3. \A j \in DOMAIN ready' : ready'[j].completed => deadline[ready'[j].op] <= now BY <2>4, <3>1, <3>2
    <3> QED BY <1>2, <3>3 DEF Registry, Timely, NeverEarly, opVars
  <2>11. ExpiryOrder'
    <3>1. \A j \in DOMAIN ready : ready[j].completed => deadline[ready[j].op] <= nodes[i].expiry
      BY <1>1 DEF Registry, Timely, ExpiryOrder
    <3>2. \A k \in heap' : k \in heap /\ nodes'[k].expiry = nodes[k].expiry
      BY <1>2 DEF Registry, Containers, RegistryType
    <3>3. ASSUME NEW j \in DOMAIN ready', NEW k \in DOMAIN ready', ready'[j].completed, ready'[k].completed, j < k
          PROVE  deadline[ready'[j].op] <= deadline[ready'[k].op]
      <4>1. j # n /\ j \in DOMAIN ready /\ ready'[j] = ready[j] BY <2>4, <3>3, SMT
      <4>2. CASE k = n BY <2>2, <2>4, <2>9, <3>1, <3>3, <4>1, <4>2
      <4>3. CASE k # n BY <2>4, <3>3, <4>1, <4>3 DEF Registry, Timely, ExpiryOrder
      <4> QED BY <4>2, <4>3
    <3>4. ASSUME NEW j \in DOMAIN ready', NEW k \in heap', ready'[j].completed
          PROVE  deadline[ready'[j].op] <= nodes'[k].expiry
      <4>1. CASE j = n BY <1>1, <2>2, <2>4, <2>9, <3>2, <4>1
      <4>2. CASE j # n BY <2>4, <3>2, <3>4, <4>2 DEF Registry, Timely, ExpiryOrder
      <4> QED BY <4>1, <4>2
    <3> QED BY <3>3, <3>4 DEF ExpiryOrder
  <2> QED BY <1>2, <1>3, <1>5, <1>7, <1>8, <2>5, <2>7, <2>8, <2>10, <2>11 DEF Registry, Held, Timely
<1> QED BY <1>9, <1>10
\* A timer is added: its op was held nowhere, and its token is new.
LEMMA AddStep ==
  ASSUME Registry, NEW e \in 0..MaxTime, NEW o \in Ops, pc \in {"awake", "call"}, Fresh(o),
         NEW i \in Nat, NEW t \in Nat, Placed(i, e, o, t), Containers',
         \A h \in handles : h.index = i => h.token < t,
         handles' = handles \cup {[index |-> i, token |-> t, op |-> o]},
         deadline' = [deadline EXCEPT ![o] = e],
         UNCHANGED <<pc, ready, sleepUntil, wrapped, now, opVars>>
  PROVE  Registry' /\ Armed' = Armed \cup {o}
<1> DEFINE g == [index |-> i, token |-> t, op |-> o]
<1>1. g.index = i /\ g.token = t /\ g.op = o /\ g \in Handle BY DEF Handle
<1>2. handles' = handles \cup {g} OBVIOUS
<1> HIDE DEF g
<1>3. LoopType' /\ ReadyType' BY DEF Registry, LoopType, ReadyType
<1>4. CallType' BY <1>1, <1>2 DEF Registry, CallType, opVars
<1>5. NoOp \notin Ops BY TimerAssumption
<1>6. /\ onComplete[o] + onAbort[o] = 0 /\ (\A k \in Indices : nodes[k].op # o)
      /\ (\A j \in DOMAIN ready : ready[j].op # o)
  BY ArmedForm DEF Fresh, Registry, Containers
<1>7. /\ heap' = heap \cup {i} /\ i \notin heap /\ i \in Indices' /\ Indices' = Indices \cup {i}
      /\ nodes'[i].expiry = e /\ nodes'[i].op = o /\ nodes'[i].token = t /\ nodes'[i].state = "pending"
      /\ \A k \in Indices \ {i} : nodes'[k] = nodes[k]
  BY DEF Placed
<1>8. OpIffPending' BY <1>5, <1>7 DEF Registry, Held, OpIffPending
<1>9. \A h \in handles : h.index \in Indices /\ h.token \in Nat
  BY DEF Registry, Held, TokensFresh, CallType, Handle
<1>a. nodes'[i].token = t /\ nodes'[i].op = o /\ Indices' = Indices \cup {i} /\ heap' = heap \cup {i}
  BY <1>7
<1>b. ASSUME NEW h \in handles, h.index = i PROVE h.token < nodes'[i].token BY <1>b, <1>a
<1>c. ASSUME NEW h \in handles, h.index # i
      PROVE  /\ nodes'[h.index] = nodes[h.index] /\ h.index \in Indices
             /\ h.index \in heap' <=> h.index \in heap
  BY <1>c, <1>7, <1>9
<1>10. TokenIdentifiesTimer'
  <2>1. ASSUME NEW h \in handles', Matches(h)' PROVE nodes'[h.index].op = h.op
    <3>1. nodes'[h.index].token = h.token /\ nodes'[h.index].state = "pending" BY <2>1 DEF Matches
    <3>2. CASE h = g BY <1>a, <1>1, <3>2
    <3>3. CASE h \in handles /\ h.index = i BY <1>a, <1>b, <1>9, <3>1, <3>3, SMT
    <3>4. CASE h \in handles /\ h.index # i
      BY <1>c, <3>1, <3>4 DEF Registry, Held, TokenIdentifiesTimer, Matches
    <3> QED BY <1>2, <3>2, <3>3, <3>4
  <2> QED BY <2>1 DEF TokenIdentifiesTimer
<1>11. TokensFresh'
  <2>1. ASSUME NEW h \in handles'
        PROVE  /\ h.index \in Indices' /\ h.token <= nodes'[h.index].token
               /\ h.index \notin heap' => h.token < nodes'[h.index].token
    <3>2. CASE h = g BY <1>a, <1>1, <3>2, SMT
    <3>3. CASE h \in handles /\ h.index = i BY <1>a, <1>b, <1>9, <3>3, SMT
    <3>4. CASE h \in handles /\ h.index # i
      BY <1>a, <1>c, <3>4 DEF Registry, Held, TokensFresh
    <3> QED BY <1>2, <3>2, <3>3, <3>4
  <2> QED BY <2>1 DEF TokensFresh
<1>12. Armed' = Armed \cup {o}
  <2>1. \A x \in Ops : x \in Armed' <=> x \in Armed \/ x = o
    <3> TAKE x \in Ops
    <3>1. (\E k \in Indices' : nodes'[k].op = x) <=> (\E k \in Indices : nodes[k].op = x) \/ x = o
      <4>1. \A k \in Indices : k = i => nodes[k].op = NoOp BY <1>7 DEF Registry, Held, OpIffPending
      <4> QED BY <1>5, <1>7, <4>1
    <3> QED BY <1>3, <3>1, ArmedForm, ArmedFormPrime DEF Registry, Containers
  <2>2. Armed \subseteq Ops BY NodeFields, ReadyFields DEF Armed, Registry, Containers
  <2>3. Armed' \subseteq Ops BY <1>3, ArmedTypePrime DEF Containers
  <2> QED BY <2>1, <2>2, <2>3
<1>13. OpHeldOnce'
  <2>a. \A k \in Indices' : k # i => k \in Indices /\ nodes'[k] = nodes[k] /\ nodes'[k].op # o BY <1>6, <1>7
  <2>1. ASSUME NEW k \in Indices', NEW l \in Indices', nodes'[k].op = nodes'[l].op, nodes'[k].op # NoOp PROVE k = l
    BY <1>a, <2>a, <2>1, SMT DEF Registry, Held, OpHeldOnce
  <2>2. \A k \in Indices', j \in DOMAIN ready' : nodes'[k].op # ready'[j].op
    BY <1>a, <1>6, <2>a, SMT DEF Registry, Held, OpHeldOnce
  <2> QED BY <1>6, <1>12, <2>1, <2>2, SMT DEF Registry, Held, OpHeldOnce, opVars
<1>14. \A x \in Ops : x # o => deadline'[x] = deadline[x] BY DEF Registry, CallType
<1>15. deadline'[o] = e BY DEF Registry, CallType
<1>16. \A j \in DOMAIN ready : deadline'[ready[j].op] = deadline[ready[j].op]
  BY <1>6, <1>14, ReadyFields DEF Registry
<1>17. NeverEarly'
  <2>1. \A x \in Ops : onComplete'[x] > 0 => deadline'[x] <= now'
    <3>a. onComplete[o] \in Nat /\ onAbort[o] \in Nat BY DEF Registry, CallType
    <3>1. ~(onComplete[o] > 0) BY <1>6, <3>a, SMT
    <3> QED BY <1>14, <3>1 DEF Registry, Timely, NeverEarly, opVars
  <2>2. \A j \in DOMAIN ready' : ready'[j].completed => deadline'[ready'[j].op] <= now'
    BY <1>16 DEF Registry, Timely, NeverEarly
  <2>3. \A k \in Indices' : nodes'[k].op # NoOp => nodes'[k].expiry = deadline'[nodes'[k].op]
    <3> TAKE k \in Indices'
    <3>1. CASE k = i BY <1>7, <1>15, <3>1
    <3>2. CASE k # i
      <4>1. k \in Indices /\ nodes'[k] = nodes[k] BY <1>7, <3>2
      <4>2. nodes[k].op \in Ops \cup {NoOp} BY <4>1, NodeFields DEF Registry, Containers
      <4> QED BY <1>6, <1>14, <4>1, <4>2 DEF Registry, Timely, NeverEarly
    <3> QED BY <3>1, <3>2
  <2> QED BY <2>1, <2>2, <2>3 DEF NeverEarly
<1>18. ExpiryOrder'
  <2>1. ExpiryOrder BY DEF Registry, Timely
  <2>2. ready' = ready /\ pc' # "scan" OBVIOUS
  <2>3. \A j, k \in DOMAIN ready : ready[j].completed /\ ready[k].completed /\ j < k
          => deadline[ready[j].op] <= deadline[ready[k].op]
    BY <2>1 DEF ExpiryOrder
  <2>4. \A j, k \in DOMAIN ready : ready[j].completed /\ ready[k].completed /\ j < k
          => deadline'[ready[j].op] <= deadline'[ready[k].op]
    BY <1>16, <2>3
  <2> QED BY <2>2, <2>4 DEF ExpiryOrder
<1> QED BY <1>3, <1>4, <1>8, <1>10, <1>11, <1>12, <1>13, <1>17, <1>18 DEF Registry, Held, Timely

LEMMA AddTimerStep ==
  ASSUME Registry, NEW e \in 0..MaxTime, NEW o \in Ops, AddTimer(e, o)
  PROVE  Registry' /\ Armed' = Armed \cup {o} /\ Fresh(o)
<1>1. CASE free # <<>>
  <2> DEFINE i == Head(free)
  <2>1. /\ nodes' = [nodes EXCEPT ![i].expiry = e, ![i].op = o, ![i].state = "pending"]
        /\ handles' = handles \cup {[index |-> i, token |-> nodes[i].token, op |-> o]}
        /\ heap' = heap \cup {i} /\ activeCount' = activeCount + 1
        /\ deadline' = [deadline EXCEPT ![o] = e] /\ free' = Tail(free)
    BY <1>1 DEF AddTimer, Place
  <2>2. Containers' /\ i \in Indices /\ Placed(i, e, o, nodes[i].token)
    BY <1>1, <2>1, ReuseContainers DEF Registry
  <2>3. i \in Nat /\ nodes[i].token \in Nat
    BY <2>2, NodeFields, SMT DEF Registry, Containers, Indices, RegistryType
  <2> HIDE DEF i
  <2>4. \A h \in handles : h.index = i => h.token < nodes[i].token
    BY <2>2 DEF Placed, Registry, Held, TokensFresh
  <2> QED BY <2>1, <2>2, <2>3, <2>4, AddStep DEF AddTimer
<1>2. CASE free = <<>>
  <2> DEFINE i == Len(nodes) + 1
  <2>1. /\ nodes' = Append(nodes, [expiry |-> e, op |-> o, token |-> 1, state |-> "pending"])
        /\ handles' = handles \cup {[index |-> i, token |-> 1, op |-> o]}
        /\ heap' = heap \cup {i} /\ activeCount' = activeCount + 1
        /\ deadline' = [deadline EXCEPT ![o] = e] /\ free' = free
    BY <1>2 DEF AddTimer, Place
  <2>2. Containers' /\ i \notin Indices /\ i \in Nat /\ Placed(i, e, o, 1)
    BY <1>2, <2>1, NewContainers DEF Registry
  <2> HIDE DEF i
  <2>3. \A h \in handles : h.index = i => h.token < 1 BY <2>2 DEF Registry, Held, TokensFresh
  <2> QED BY <2>1, <2>2, <2>3, AddStep DEF AddTimer
<1> QED BY <1>1, <1>2 DEF AddTimer
\* The callbacks of a set S of held ops are called, which are held no more.
Lets(S) == /\ Armed' = Armed \ S /\ S \subseteq Armed
           /\ \A o \in Ops : /\ o \notin S => onComplete'[o] = onComplete[o] /\ onAbort'[o] = onAbort[o]
                             /\ o \in S => \/ onComplete'[o] = onComplete[o] + 1 /\ onAbort'[o] = onAbort[o]
                                           \/ onComplete'[o] = onComplete[o] /\ onAbort'[o] = onAbort[o] + 1

LEMMA CalledFields ==
  ASSUME NEW count \in [Ops -> Nat], NEW S
  PROVE  /\ Called(count, S) \in [Ops -> Nat]
         /\ \A o \in Ops : Called(count, S)[o] = IF o \in S THEN count[o] + 1 ELSE count[o]
BY SMT DEF Called

LEMMA LetsCalls ==
  ASSUME Registry, NEW S, Lets(S), CallType'
  PROVE  \A o \in Ops : onComplete'[o] + onAbort'[o] <= IF o \in Armed' THEN 0 ELSE 1
<1> TAKE o \in Ops
<1>1. /\ onComplete[o] \in Nat /\ onAbort[o] \in Nat /\ onComplete'[o] \in Nat /\ onAbort'[o] \in Nat
      /\ onComplete[o] + onAbort[o] <= IF o \in Armed THEN 0 ELSE 1
  BY DEF Registry, CallType, Held, OpHeldOnce
<1>2. CASE o \in S
  <2>1. onComplete[o] + onAbort[o] = 0 /\ o \notin Armed' BY <1>1, <1>2, SMT DEF Lets
  <2>2. onComplete'[o] + onAbort'[o] = 1 BY <1>1, <1>2, <2>1, SMT DEF Lets
  <2> QED BY <2>1, <2>2, SMT
<1>3. CASE o \notin S BY <1>1, <1>3 DEF Lets
<1> QED BY <1>2, <1>3

\* cancel_timer takes the op out of its node and leaves the node in the heap.
LEMMA CancelNode ==
  ASSUME Registry, NEW h \in handles, CancelTimer(h)
  PROVE  LET i == h.index
         IN  /\ Containers' /\ Indices' = Indices /\ i \in heap /\ i \in Indices /\ nodes[i].op \in Ops
             /\ nodes'[i].op = NoOp /\ nodes'[i].token = nodes[i].token /\ nodes'[i].state = "cancelled"
             /\ \A k \in Indices \ {i} : nodes'[k] = nodes[k]
<1> DEFINE i == h.index
           n == [nodes[i] EXCEPT !.state = "cancelled", !.op = NoOp]
<1>1. i \in Indices /\ nodes[i].op = h.op /\ h.op \in Ops
  BY DEF CancelTimer, Registry, Held, TokenIdentifiesTimer, TokensFresh, CallType, Handle
<1>2. i \in heap BY <1>1, TimerAssumption DEF Registry, Held, OpIffPending
<1>3. nodes[i] \in Node BY <1>1, NodeFields DEF Registry, Containers
<1>4. n \in Node /\ n.op = NoOp /\ n.token = nodes[i].token /\ n.state = "cancelled"
  BY <1>3 DEF Node, States
<1>5. nodes' = [nodes EXCEPT ![i] = n]
  BY <1>1, <1>3 DEF CancelTimer, Registry, Containers, RegistryType, Indices, Node
<1> HIDE DEF n
<1>6. /\ nodes' \in Seq(Node) /\ Indices' = Indices /\ nodes'[i] = n
      /\ \A k \in Indices \ {i} : nodes'[k] = nodes[k]
  BY <1>1, <1>4, <1>5, NodeSet DEF Registry, Containers
<1>7. heap' = heap /\ free' = free /\ activeCount' = activeCount BY DEF CancelTimer
<1>8. Containers'
  BY <1>6, <1>7 DEF Registry, Containers, RegistryType, NodesPartitioned
<1> QED BY <1>1, <1>2, <1>4, <1>6, <1>8

LEMMA CancelStep ==
  ASSUME Registry, NEW h \in handles, CancelTimer(h)
  PROVE  Registry' /\ Lets({nodes[h.index].op})
<1> DEFINE i == h.index
           o == nodes[i].op
<1>1. /\ Containers' /\ Indices' = Indices /\ i \in heap /\ i \in Indices /\ o \in Ops
      /\ nodes'[i].op = NoOp /\ nodes'[i].token = nodes[i].token /\ nodes'[i].state = "cancelled"
      /\ \A k \in Indices \ {i} : nodes'[k] = nodes[k]
  BY CancelNode
<1>2. /\ heap' = heap /\ pc' = pc /\ ready' = ready /\ sleepUntil' = sleepUntil /\ wrapped' = wrapped /\ now' = now
      /\ handles' = handles /\ deadline' = deadline /\ onComplete' = onComplete /\ onAbort' = Called(onAbort, {o})
      /\ pc \in {"awake", "call"}
  BY DEF CancelTimer
<1> HIDE DEF i, o
<1>3. LoopType' /\ ReadyType' BY <1>2 DEF Registry, LoopType, ReadyType
<1>4. CallType' BY <1>2, CalledFields DEF Registry, CallType
<1>5. NoOp \notin Ops BY TimerAssumption
<1>6. OpIffPending' BY <1>1, <1>2 DEF Registry, Held, OpIffPending
<1>7. \A g \in handles : g.index \in Indices BY DEF Registry, Held, TokensFresh
<1>8. TokenIdentifiesTimer' BY <1>1, <1>2, <1>7 DEF Registry, Held, TokenIdentifiesTimer, Matches
<1>9. TokensFresh' BY <1>1, <1>2, <1>7 DEF Registry, Held, TokensFresh
<1>10. /\ \A k \in Indices : nodes[k].op = o => k = i
       /\ \A j \in DOMAIN ready : ready[j].op # o
  BY <1>1, <1>5 DEF Registry, Held, OpHeldOnce, o
<1>11. Armed' = Armed \ {o} /\ o \in Armed
  <2>1. \A x \in Ops : (\E k \in Indices' : nodes'[k].op = x) <=> x # o /\ \E k \in Indices : nodes[k].op = x
    BY <1>1, <1>5, <1>10 DEF o
  <2>2. \A x \in Ops : x \in Armed' <=> x \in Armed /\ x # o
    <3> TAKE x \in Ops
    <3>1. x \in Armed <=> (\E k \in Indices : nodes[k].op = x) \/ (\E j \in DOMAIN ready : ready[j].op = x)
      BY ArmedForm DEF Registry, Containers
    <3>2. x \in Armed' <=> (\E k \in Indices' : nodes'[k].op = x) \/ (\E j \in DOMAIN ready' : ready'[j].op = x)
      BY <1>1, <1>3, ArmedFormPrime DEF Containers
    <3>3. ready' = ready BY <1>2
    <3> QED BY <1>10, <2>1, <3>1, <3>2, <3>3
  <2>3. o \in Armed BY <1>1, ArmedForm DEF o, Registry, Containers
  <2>4. Armed \subseteq Ops BY NodeFields, ReadyFields DEF Armed, Registry, Containers
  <2>5. Armed' \subseteq Ops BY <1>1, <1>3, ArmedTypePrime DEF Containers
  <2> QED BY <2>2, <2>3, <2>4, <2>5
<1>12. Lets({o})
  <2>1. \A x \in Ops : onAbort'[x] = IF x = o THEN onAbort[x] + 1 ELSE onAbort[x]
    BY <1>2, CalledFields, SMT DEF Registry, CallType
  <2> QED BY <1>2, <1>11, <2>1 DEF Lets
<1>13. OpHeldOnce'
  <2>1. \A k, l \in Indices' : nodes'[k].op = nodes'[l].op /\ nodes'[k].op # NoOp => k = l
    BY <1>1, SMT DEF Registry, Held, OpHeldOnce
  <2>2. \A j \in DOMAIN ready : ready[j].op # NoOp BY <1>5, ReadyFields DEF Registry
  <2>3. \A k \in Indices', j \in DOMAIN ready' : nodes'[k].op # ready'[j].op
    BY <1>1, <1>2, <2>2, SMT DEF Registry, Held, OpHeldOnce
  <2>4. \A x \in Ops : onComplete'[x] + onAbort'[x] <= IF x \in Armed' THEN 0 ELSE 1
    BY <1>4, <1>12, LetsCalls
  <2> QED BY <1>2, <2>1, <2>3, <2>4 DEF Registry, Held, OpHeldOnce
<1>14. NeverEarly' BY <1>1, <1>2 DEF Registry, Timely, NeverEarly
<1>15. ExpiryOrder' BY <1>2 DEF Registry, Timely, ExpiryOrder
<1> QED BY <1>1, <1>3, <1>4, <1>6, <1>8, <1>9, <1>12, <1>13, <1>14, <1>15 DEF Registry, Held, Timely, o, i
\* process_expired calls the first op of its list.
LEMMA CallStep ==
  ASSUME Registry, CallReady
  PROVE  Registry' /\ Lets({Head(ready).op})
<1> DEFINE o == Head(ready).op
<1>1. /\ nodes' = nodes /\ heap' = heap /\ free' = free /\ activeCount' = activeCount /\ ready' = Tail(ready)
      /\ pc' = pc /\ pc = "call" /\ ready # <<>> /\ sleepUntil' = sleepUntil /\ wrapped' = wrapped
      /\ now' = now /\ handles' = handles /\ deadline' = deadline /\ Indices' = Indices
  BY DEF CallReady, nodeVars, Indices
<1>2. ready \in Seq([op : Ops, completed : BOOLEAN]) BY DEF Registry, ReadyType
<1>3. /\ ready' \in Seq([op : Ops, completed : BOOLEAN]) /\ Head(ready) \in [op : Ops, completed : BOOLEAN]
      /\ 1 \in DOMAIN ready /\ Head(ready) = ready[1] /\ DOMAIN ready \subseteq Nat
      /\ \A j \in DOMAIN ready' : j \in Nat /\ j + 1 \in DOMAIN ready /\ ready'[j] = ready[j + 1] /\ j + 1 # 1
      /\ \A j \in DOMAIN ready : j = 1 \/ (j - 1 \in DOMAIN ready' /\ ready[j] = ready'[j - 1])
  BY <1>1, <1>2, Unlisted
<1>4. o \in Ops /\ o = ready[1].op BY <1>3
<1>5. \/ Head(ready).completed /\ onComplete' = Called(onComplete, {o}) /\ onAbort' = onAbort
      \/ onAbort' = Called(onAbort, {o}) /\ onComplete' = onComplete
  BY DEF CallReady
<1> HIDE DEF o
<1>6. Containers'
  BY <1>1 DEF Registry, Containers, RegistryType, NodesPartitioned
<1>7. LoopType' BY <1>1 DEF Registry, LoopType
<1>8. ReadyType' BY <1>3 DEF ReadyType
<1>9. CallType'
  <2>1. onComplete \in [Ops -> Nat] /\ onAbort \in [Ops -> Nat] BY DEF Registry, CallType
  <2>2. Called(onComplete, {o}) \in [Ops -> Nat] /\ Called(onAbort, {o}) \in [Ops -> Nat]
    BY <2>1, CalledFields
  <2> QED BY <1>1, <1>5, <2>1, <2>2 DEF Registry, CallType
<1>10. OpIffPending' /\ TokenIdentifiesTimer' /\ TokensFresh'
  BY <1>1 DEF Registry, Held, OpIffPending, TokenIdentifiesTimer, Matches, TokensFresh
<1>11. /\ \A j \in DOMAIN ready : ready[j].op = o => j = 1
       /\ \A k \in Indices : nodes[k].op # o
  BY <1>3, <1>4 DEF Registry, Held, OpHeldOnce
<1>12. Armed' = Armed \ {o} /\ o \in Armed
  <2>1. \A x \in Ops : (\E j \in DOMAIN ready' : ready'[j].op = x) <=> x # o /\ \E j \in DOMAIN ready : ready[j].op = x
    BY <1>3, <1>4, <1>11, SMT
  <2>2. \A x \in Ops : x \in Armed' <=> x \in Armed /\ x # o
    BY <1>1, <1>6, <1>8, <1>11, <2>1, ArmedForm, ArmedFormPrime DEF Registry, Containers
  <2>3. o \in Armed BY <1>3, <1>4, ArmedForm DEF Registry, Containers
  <2>4. Armed \subseteq Ops BY NodeFields, ReadyFields DEF Armed, Registry, Containers
  <2>5. Armed' \subseteq Ops BY <1>6, <1>8, ArmedTypePrime DEF Containers
  <2> QED BY <2>2, <2>3, <2>4, <2>5
<1>13. Lets({o})
  <2>1. \A x \in Ops : /\ Called(onAbort, {o})[x] = IF x = o THEN onAbort[x] + 1 ELSE onAbort[x]
                       /\ Called(onComplete, {o})[x] = IF x = o THEN onComplete[x] + 1 ELSE onComplete[x]
    BY CalledFields, SMT DEF Registry, CallType
  <2> QED BY <1>5, <1>12, <2>1 DEF Lets
<1>14. OpHeldOnce'
  <2>1. ASSUME NEW j \in DOMAIN ready', NEW k \in DOMAIN ready', ready'[j].op = ready'[k].op PROVE j = k
    <3>a. \A a, b \in DOMAIN ready : ready[a].op = ready[b].op => a = b BY DEF Registry, Held, OpHeldOnce
    <3>b. j + 1 \in DOMAIN ready /\ k + 1 \in DOMAIN ready /\ ready[j + 1].op = ready[k + 1].op
      BY <1>3, <2>1
    <3>1. j + 1 = k + 1 BY <3>a, <3>b
    <3> QED BY <1>3, <3>1, SMT
  <2>a. \A k \in Indices, j \in DOMAIN ready : nodes[k].op # ready[j].op BY DEF Registry, Held, OpHeldOnce
  <2>2. \A k \in Indices', j \in DOMAIN ready' : nodes'[k].op # ready'[j].op BY <1>1, <1>3, <2>a, SMT
  <2>3. \A x \in Ops : onComplete'[x] + onAbort'[x] <= IF x \in Armed' THEN 0 ELSE 1
    BY <1>9, <1>13, LetsCalls
  <2> QED BY <1>1, <2>1, <2>2, <2>3 DEF Registry, Held, OpHeldOnce
<1>15. NeverEarly'
  <2>1. \A x \in Ops : onComplete'[x] > 0 => deadline'[x] <= now'
    <3> TAKE x \in Ops
    <3>1. CASE x = o /\ ready[1].completed BY <1>1, <1>3, <1>4, <3>1 DEF Registry, Timely, NeverEarly
    <3>2. CASE x # o \/ ~ready[1].completed
      <4>1. onComplete'[x] = onComplete[x] \/ x = o BY <1>5, CalledFields, SMT DEF Registry, CallType
      <4>2. onComplete'[x] = onComplete[x] BY <1>3, <1>5, <3>2, <4>1
      <4> QED BY <1>1, <4>2 DEF Registry, Timely, NeverEarly
    <3> QED BY <3>1, <3>2
  <2>2. \A j \in DOMAIN ready' : ready'[j].completed => deadline'[ready'[j].op] <= now'
    <3>1. NeverEarly BY DEF Registry, Timely
    <3> QED BY <1>1, <1>3, <3>1 DEF NeverEarly
  <2> QED BY <1>1, <2>1, <2>2 DEF Registry, Timely, NeverEarly
<1>16. ExpiryOrder'
  <2>1. ASSUME NEW j \in DOMAIN ready', NEW k \in DOMAIN ready', ready'[j].completed, ready'[k].completed, j < k
        PROVE  deadline'[ready'[j].op] <= deadline'[ready'[k].op]
    <3>1. j + 1 < k + 1 BY <1>3, <2>1, SMT
    <3>2. \A a, b \in DOMAIN ready : a < b /\ ready[a].completed /\ ready[b].completed
                                      => deadline[ready[a].op] <= deadline[ready[b].op]
      BY DEF Registry, Timely, ExpiryOrder
    <3> QED BY <1>1, <1>3, <2>1, <3>1, <3>2
  <2> QED BY <1>1, <2>1 DEF ExpiryOrder
<1> QED BY <1>6, <1>7, <1>8, <1>9, <1>10, <1>13, <1>14, <1>15, <1>16 DEF Registry, Held, Timely, o

\* drain_all recycles every node and aborts every op; process_expired is not running.
LEMMA DrainStep ==
  ASSUME Registry, DrainAll
  PROVE  Registry' /\ Lets(Armed)
<1> DEFINE S == {nodes[i].op : i \in Indices} \ {NoOp}
<1>1. /\ pc = "asleep" /\ onAbort' = Called(onAbort, S) /\ nodes' = [i \in Indices |-> Recycled(nodes[i])]
      /\ heap' = {} /\ free' = [i \in Indices |-> Len(nodes) + 1 - i] /\ activeCount' = 0 /\ pc' = "awake"
      /\ ready' = ready /\ sleepUntil' = sleepUntil /\ wrapped' = wrapped /\ now' = now
      /\ handles' = handles /\ deadline' = deadline /\ onComplete' = onComplete
  BY DEF DrainAll
<1>2. ready = <<>> BY <1>1 DEF Registry, Held, OpHeldOnce
<1>3. S = Armed BY <1>2, SMT DEF Armed
<1> HIDE DEF S
<1>4. Len(nodes) \in Nat /\ Indices = 1..Len(nodes) BY SMT DEF Registry, Containers, RegistryType, Indices
<1>5. \A i \in Indices : /\ Recycled(nodes[i]) \in Node /\ Recycled(nodes[i]).op = NoOp
                         /\ Recycled(nodes[i]).token = nodes[i].token + 1 /\ Recycled(nodes[i]).state = "fired"
  BY RecycledNode DEF Registry, Containers
<1>6. nodes' \in [1..Len(nodes) -> Node] BY <1>1, <1>4, <1>5
<1>7. nodes' \in Seq(Node) /\ Len(nodes') = Len(nodes) BY <1>4, <1>6, SMT
<1>8. Indices' = Indices BY <1>7 DEF Indices
<1>9. \A i \in Indices : nodes'[i].op = NoOp /\ nodes'[i].token = nodes[i].token + 1 BY <1>1, <1>5
<1>10. free' = [i \in 1..Len(nodes) |-> Len(nodes) + 1 - i] BY <1>1, <1>4
<1>11. free' \in Seq(Indices) /\ Distinct(free') /\ \A y \in Indices : In(y, free')
  BY <1>4, <1>10, Refilled
<1>12. Containers'
  <2>1. RegistryType' BY <1>1, <1>7, <1>8, <1>11 DEF RegistryType
  <2>2. NodesPartitioned' BY <1>1, <1>8, <1>11, PartitionForm
  <2> QED BY <2>1, <2>2 DEF Containers
<1>13. LoopType' /\ ReadyType' BY <1>1 DEF Registry, LoopType, ReadyType
<1>14. CallType' BY <1>1, CalledFields DEF Registry, CallType
<1>15. OpIffPending' BY <1>1, <1>8, <1>9 DEF OpIffPending
<1>16. ASSUME NEW h \in handles PROVE h.index \in Indices /\ h.token < nodes'[h.index].token
  <2>1. h.index \in Indices /\ h.token <= nodes[h.index].token /\ h.token \in Nat
    BY DEF Registry, Held, TokensFresh, CallType, Handle
  <2>2. nodes[h.index].token \in Nat BY <2>1, NodeFields DEF Registry, Containers
  <2> QED BY <1>9, <2>1, <2>2, SMT
<1>17. \A h \in handles : h.token \in Nat BY DEF Registry, CallType, Handle
<1>18. TokenIdentifiesTimer' BY <1>1, <1>16, <1>17, SMT DEF TokenIdentifiesTimer, Matches
<1>19. TokensFresh'
  <2>1. \A h \in handles : nodes'[h.index].token \in Nat
    BY <1>9, <1>16, NodeFields, SMT DEF Registry, Containers
  <2> QED BY <1>1, <1>8, <1>16, <1>17, <2>1, SMT DEF TokensFresh
<1>20. Armed' = {}
  <2>1. DOMAIN ready' = {} BY <1>1, <1>2, SMT
  <2> QED BY <1>8, <1>9, <2>1 DEF Armed
<1>21. Lets(Armed)
  <2>1. \A x \in Ops : onAbort'[x] = IF x \in Armed THEN onAbort[x] + 1 ELSE onAbort[x]
    <3>1. onAbort \in [Ops -> Nat] BY DEF Registry, CallType
    <3>2. \A x \in Ops : Called(onAbort, S)[x] = IF x \in S THEN onAbort[x] + 1 ELSE onAbort[x]
      BY <3>1, CalledFields
    <3> QED BY <1>1, <1>3, <3>2
  <2> QED BY <1>1, <1>20, <2>1 DEF Lets
<1>22. OpHeldOnce'
  <2>1. \A x \in Ops : onComplete'[x] + onAbort'[x] <= IF x \in Armed' THEN 0 ELSE 1
    BY <1>14, <1>21, LetsCalls
  <2>2. DOMAIN ready' = {} /\ ready' = <<>> BY <1>1, <1>2, SMT
  <2> QED BY <1>8, <1>9, <2>1, <2>2 DEF OpHeldOnce
<1>23. NeverEarly'
  <2>1. DOMAIN ready' = {} BY <1>1, <1>2, SMT
  <2> QED BY <1>1, <1>8, <1>9, <2>1 DEF Registry, Timely, NeverEarly
<1>24. ExpiryOrder'
  <2>1. DOMAIN ready' = {} BY <1>1, <1>2, SMT
  <2> QED BY <2>1 DEF ExpiryOrder
<1> QED BY <1>12, <1>13, <1>14, <1>15, <1>18, <1>19, <1>21, <1>22, <1>23, <1>24 DEF Registry, Held, Timely

\* The steps that only move the reactor thread or the clock.
LEMMA QuietStep ==
  ASSUME Registry, LoopType', now <= now', UNCHANGED <<nodeVars, ready, handles, deadline, opVars>>,
         pc' \notin {"scan", "call"} => ready = <<>>, pc' = "scan" => pc = "scan" \/ ready = <<>>
  PROVE  Registry' /\ Lets({})
<1>1. /\ nodes' = nodes /\ heap' = heap /\ free' = free /\ activeCount' = activeCount /\ ready' = ready
      /\ handles' = handles /\ deadline' = deadline /\ onComplete' = onComplete /\ onAbort' = onAbort
      /\ Indices' = Indices
  BY DEF nodeVars, opVars, Indices
<1>2. Armed' = Armed BY <1>1 DEF Armed
<1>3. Containers' /\ ReadyType' /\ CallType'
  BY <1>1 DEF Registry, Containers, RegistryType, NodesPartitioned, ReadyType, CallType
<1>4. Held'
  <2>1. OpIffPending' BY <1>1 DEF Registry, Held, OpIffPending
  <2>2. TokenIdentifiesTimer' BY <1>1 DEF Registry, Held, TokenIdentifiesTimer, Matches
  <2>3. TokensFresh' BY <1>1 DEF Registry, Held, TokensFresh
  <2>4. OpHeldOnce'
    <3>1. /\ \A i, k \in Indices : nodes[i].op = nodes[k].op /\ nodes[i].op # NoOp => i = k
          /\ \A j, k \in DOMAIN ready : ready[j].op = ready[k].op => j = k
          /\ \A i \in Indices, j \in DOMAIN ready : nodes[i].op # ready[j].op
          /\ \A o \in Ops : onComplete[o] + onAbort[o] <= IF o \in Armed THEN 0 ELSE 1
      BY DEF Registry, Held, OpHeldOnce
    <3>2. pc' \notin {"scan", "call"} => ready' = <<>> BY <1>1
    <3> QED BY <1>1, <1>2, <3>1, <3>2, SMT DEF OpHeldOnce
  <2> QED BY <2>1, <2>2, <2>3, <2>4 DEF Held
<1>5. now \in Nat /\ now' \in Nat BY TimerAssumption, SMT DEF Registry, LoopType
<1>6. \A o \in Ops : deadline[o] \in Nat BY TimerAssumption, SMT DEF Registry, CallType
<1>7. NeverEarly'
  <2>1. \A j \in DOMAIN ready : ready[j].op \in Ops BY ReadyFields DEF Registry
  <2>2. NeverEarly BY DEF Registry, Timely
  <2>3. \A o \in Ops : deadline[o] <= now => deadline[o] <= now' BY <1>5, <1>6, SMT
  <2>4. UNCHANGED <<nodes, ready, deadline, onComplete>> /\ Indices' = Indices BY <1>1
  <2> QED BY <2>1, <2>2, <2>3, <2>4 DEF NeverEarly
<1>8. ExpiryOrder'
  <2>1. CASE ready = <<>>
    <3>1. DOMAIN ready' = {} BY <1>1, <2>1, SMT
    <3> QED BY <3>1 DEF ExpiryOrder
  <2>2. CASE ready # <<>> BY <1>1, <2>2 DEF Registry, Timely, ExpiryOrder
  <2> QED BY <2>1, <2>2
<1>9. Lets({}) BY <1>1, <1>2 DEF Lets
<1> QED BY <1>3, <1>4, <1>7, <1>8, <1>9 DEF Registry, Timely
-----------------------------------------------------------------------------
\* The sleep: a timeout that fits the int ends before the front expires.
LEMMA WholeTicks ==
  ASSUME NEW x \in Nat, NEW t \in Nat \ {0}
  PROVE  x \div t \in Nat /\ (x \div t) * t \in Nat /\ (x \div t) * t <= x
<1>1. x \div t \in Nat BY SMT
<1>2. (x \div t) * t <= x BY SMT
<1>3. ASSUME NEW m \in Nat PROVE m * t \in Nat BY SMT
<1> QED BY <1>1, <1>2, <1>3

LEMMA FitsInt ==
  ASSUME NEW m \in Nat, m < IntLimit
  PROVE  ToInt(m) = m
<1>1. IntLimit \in Nat \ {0} BY TimerAssumption
<1>2. ASSUME NEW L \in Nat \ {0}, m < L PROVE (m + L) % (2 * L) = m + L BY <1>2, SMT
<1>3. (m + IntLimit) % (2 * IntLimit) = m + IntLimit BY <1>1, <1>2
<1> QED BY <1>1, <1>3, SMT DEF ToInt

LEMMA IntRange ==
  ASSUME NEW m \in Nat
  PROVE  ToInt(m) \in Int
<1>1. IntLimit \in Nat \ {0} BY TimerAssumption
<1>2. ASSUME NEW L \in Nat \ {0} PROVE (m + L) % (2 * L) \in Int BY SMT
<1> QED BY <1>1, <1>2, SMT DEF ToInt

LEMMA UntilRange ==
  ASSUME now \in Nat, NEW m \in Nat
  PROVE  Until(m) \in Nat \cup {Forever}
<1>1. TicksPerMs \in Nat BY TimerAssumption
<1>2. ASSUME NEW a \in Nat, NEW b \in Nat PROVE a * b \in Nat BY SMT
<1>3. ToInt(m) \in Int BY IntRange
<1>4. CASE ToInt(m) < 0 BY <1>4 DEF Until
<1>5. CASE ~(ToInt(m) < 0)
  <2>1. ToInt(m) \in Nat BY <1>3, <1>5, SMT
  <2>2. ToInt(m) * TicksPerMs \in Nat BY <1>1, <1>2, <2>1
  <2> QED BY <1>5, <2>2, SMT DEF Until
<1> QED BY <1>4, <1>5

LEMMA TimeoutOfTop ==
  ASSUME RegistryType, now \in Nat, NEW i \in Indices
  PROVE  /\ NextTimeout(i) \in Nat
         /\ NextTimeout(i) < IntLimit
              => Until(NextTimeout(i)) # Forever /\ (Until(NextTimeout(i)) <= now \/ Until(NextTimeout(i)) <= nodes[i].expiry)
<1>1. nodes[i].expiry \in Nat BY NodeFields, TimerAssumption, SMT
<1>2. TicksPerMs \in Nat \ {0} BY TimerAssumption
<1> DEFINE m == NextTimeout(i)
<1>3. m \in Nat /\ m * TicksPerMs \in Nat /\ (m * TicksPerMs = 0 \/ now + m * TicksPerMs <= nodes[i].expiry)
  <2>1. CASE nodes[i].state = "cancelled" \/ nodes[i].expiry <= now
    <3>1. m = 0 BY <2>1 DEF NextTimeout
    <3>2. 0 * TicksPerMs = 0 BY <1>2, SMT
    <3> QED BY <3>1, <3>2, SMT
  <2>2. CASE ~(nodes[i].state = "cancelled" \/ nodes[i].expiry <= now)
    <3> DEFINE x == nodes[i].expiry - now
    <3>1. x \in Nat BY <1>1, <2>2, SMT
    <3>2. m = x \div TicksPerMs BY <2>2 DEF NextTimeout, Remaining
    <3>3. m \in Nat /\ m * TicksPerMs \in Nat /\ m * TicksPerMs <= x
      <4> HIDE DEF x, m
      <4> QED BY <1>2, <3>1, <3>2, WholeTicks
    <3> QED BY <1>1, <3>3, SMT
  <2> QED BY <2>1, <2>2
<1> HIDE DEF m
<1>4. ASSUME m < IntLimit
      PROVE  Until(m) # Forever /\ (Until(m) <= now \/ Until(m) <= nodes[i].expiry)
  <2>1. ToInt(m) = m BY <1>3, <1>4, FitsInt
  <2>2. Until(m) = now + m * TicksPerMs BY <1>3, <2>1, SMT DEF Until
  <2> DEFINE p == m * TicksPerMs
  <2>3. p \in Nat /\ (p = 0 \/ now + p <= nodes[i].expiry) /\ Until(m) = now + p BY <1>3, <2>2
  <2> HIDE DEF p
  <2> QED BY <1>1, <2>3, SMT DEF Forever
<1> QED BY <1>3, <1>4 DEF m

LEMMA SleepStep ==
  ASSUME Registry, Sleep
  PROVE  LoopType' /\ NoOversleep'
<1>1. now \in Nat BY TimerAssumption, SMT DEF Registry, LoopType
<1>2. RegistryType BY DEF Registry, Containers
<1>3. now' = now /\ nodes' = nodes /\ heap' = heap /\ pc' = "asleep" BY DEF Sleep, nodeVars
<1>4. CASE heap = {} /\ sleepUntil' = Forever /\ UNCHANGED wrapped
  BY <1>3, <1>4 DEF Registry, LoopType, NoOversleep
<1>5. ASSUME NEW i \in Tops, sleepUntil' = Until(NextTimeout(i)), wrapped' = (wrapped \/ NextTimeout(i) >= IntLimit)
      PROVE  LoopType' /\ NoOversleep'
  <2>1. i \in heap /\ i \in Indices /\ \A k \in heap : k \in Indices /\ nodes[i].expiry <= nodes[k].expiry
    BY <1>2 DEF Tops, RegistryType
  <2>2. NextTimeout(i) \in Nat /\ IntLimit \in Nat BY <1>1, <1>2, <2>1, TimeoutOfTop, TimerAssumption
  <2>3. sleepUntil' \in Nat \cup {Forever} BY <1>1, <1>5, <2>2, UntilRange
  <2>4. wrapped' \in BOOLEAN BY <1>5
  <2>5. LoopType' BY <1>3, <2>3, <2>4 DEF Registry, LoopType
  <2>6. ASSUME ~wrapped', NEW k \in heap
        PROVE  sleepUntil' # Forever /\ (sleepUntil' <= now \/ sleepUntil' <= nodes[k].expiry)
    <3>1. NextTimeout(i) < IntLimit
      <4>1. ~(NextTimeout(i) >= IntLimit) BY <1>5, <2>6
      <4> QED BY <2>2, <4>1, SMT
    <3>2. sleepUntil' # Forever /\ (sleepUntil' <= now \/ sleepUntil' <= nodes[i].expiry)
      BY <1>1, <1>2, <1>5, <2>1, <3>1, TimeoutOfTop
    <3>3. nodes[i].expiry \in Nat /\ nodes[k].expiry \in Nat BY <1>2, <2>1, NodeFields, TimerAssumption, SMT
    <3> QED BY <2>1, <2>3, <3>2, <3>3, SMT DEF Forever
  <2> QED BY <1>3, <2>5, <2>6 DEF NoOversleep
<1> QED BY <1>4, <1>5 DEF Sleep
-----------------------------------------------------------------------------
\* The op contract, one step at a time.
Contract == \A o \in Ops : RO!Stays(o) \/ RO!Arms(o) \/ RO!Ends(o)

LEMMA LetsContract ==
  ASSUME Registry, NEW S, Lets(S), CallType'
  PROVE  Contract
<1> SUFFICES ASSUME NEW o \in Ops PROVE RO!Stays(o) \/ RO!Ends(o) BY DEF Contract
<1>1. /\ onComplete[o] \in Nat /\ onAbort[o] \in Nat /\ onComplete'[o] \in Nat /\ onAbort'[o] \in Nat
      /\ onComplete[o] + onAbort[o] <= IF o \in Armed THEN 0 ELSE 1
  BY DEF Registry, CallType, Held, OpHeldOnce
<1>2. CASE o \in S
  <2>1. onComplete[o] + onAbort[o] = 0 /\ o \notin Armed' BY <1>1, <1>2, SMT DEF Lets
  <2>2. onComplete'[o] + onAbort'[o] = 1 BY <1>1, <1>2, <2>1, SMT DEF Lets
  <2> QED BY <2>1, <2>2 DEF RO!Ends, RO!Calls
<1>3. CASE o \notin S
  <2>1. (o \in Armed' <=> o \in Armed) /\ onComplete'[o] = onComplete[o] /\ onAbort'[o] = onAbort[o]
    BY <1>3 DEF Lets
  <2> QED BY <2>1 DEF RO!Stays
<1> QED BY <1>2, <1>3

LEMMA AddContract ==
  ASSUME Registry, NEW o \in Ops, Fresh(o), Armed' = Armed \cup {o}, UNCHANGED opVars
  PROVE  Contract
<1> SUFFICES ASSUME NEW x \in Ops PROVE RO!Stays(x) \/ RO!Arms(x) BY DEF Contract
<1>1. /\ onComplete[o] \in Nat /\ onAbort[o] \in Nat /\ onComplete' = onComplete /\ onAbort' = onAbort
      /\ onComplete[o] + onAbort[o] = 0 /\ o \notin Armed
  BY DEF Registry, CallType, opVars, Fresh
<1>2. onComplete[o] = 0 /\ onAbort[o] = 0 BY <1>1, SMT
<1>3. CASE x = o BY <1>1, <1>2, <1>3 DEF RO!Arms, RO!Calls
<1>4. CASE x # o
  <2>1. (x \in Armed' <=> x \in Armed) /\ onComplete'[x] = onComplete[x] /\ onAbort'[x] = onAbort[x]
    BY <1>1, <1>4
  <2> QED BY <2>1 DEF RO!Stays
<1> QED BY <1>3, <1>4

\* Every step keeps what is known and the contract.
LEMMA RegistryStep ==
  ASSUME Registry, NoOversleep, Next
  PROVE  Registry' /\ NoOversleep' /\ Contract
<1>1. ASSUME NEW e \in 0..MaxTime, NEW o \in Ops, AddTimer(e, o) PROVE Registry' /\ NoOversleep' /\ Contract
  <2>1. Registry' /\ Armed' = Armed \cup {o} /\ Fresh(o) BY <1>1, AddTimerStep
  <2>2. pc' # "asleep" /\ UNCHANGED opVars BY <1>1 DEF AddTimer
  <2> QED BY <2>1, <2>2, AddContract DEF NoOversleep
<1>2. ASSUME NEW h \in handles, CancelTimer(h) PROVE Registry' /\ NoOversleep' /\ Contract
  <2>1. Registry' /\ Lets({nodes[h.index].op}) BY <1>2, CancelStep
  <2>2. pc' # "asleep" BY <1>2 DEF CancelTimer
  <2>3. CallType' BY <2>1 DEF Registry
  <2> QED BY <2>1, <2>2, <2>3, LetsContract DEF NoOversleep
<1>3. ASSUME NEW i \in Tops, ScanCancelled(i) \/ ScanExpired(i) PROVE Registry' /\ NoOversleep' /\ Contract
  <2>1. /\ pc = "scan" /\ Pop(i) /\ UNCHANGED <<pc, sleepUntil, wrapped, now, handles, deadline, opVars>>
    BY <1>3 DEF ScanCancelled, ScanExpired
  <2>2. i \in heap /\ i \in Indices BY DEF Tops, Registry, Containers, RegistryType
  <2>3. nodes[i].op # NoOp <=> nodes[i].state = "pending" BY <2>2 DEF Registry, Held, OpIffPending
  <2>4. \/ nodes[i].op = NoOp /\ ready' = ready
        \/ /\ nodes[i].op # NoOp /\ nodes[i].expiry <= now
           /\ ready' = Append(ready, [op |-> nodes[i].op, completed |-> TRUE])
    <3>1. CASE ScanCancelled(i) BY <2>3, <3>1 DEF ScanCancelled, Collect
    <3>2. CASE ScanExpired(i) BY <2>3, <3>2 DEF ScanExpired, Collect, Expired
    <3> QED BY <1>3, <3>1, <3>2
  <2>5. Registry' /\ Armed' = Armed BY <2>1, <2>4, PopStep
  <2>6. Lets({}) BY <2>1, <2>5 DEF Lets, opVars
  <2>7. CallType' BY <2>5 DEF Registry
  <2> QED BY <2>1, <2>5, <2>6, <2>7, LetsContract DEF NoOversleep
<1>4. CASE CallReady
  <2>1. Registry' /\ Lets({Head(ready).op}) BY <1>4, CallStep
  <2>2. pc' # "asleep" BY <1>4 DEF CallReady
  <2>3. CallType' BY <2>1 DEF Registry
  <2> QED BY <2>1, <2>2, <2>3, LetsContract DEF NoOversleep
<1>5. CASE DrainAll
  <2>1. Registry' /\ Lets(Armed) BY <1>5, DrainStep
  <2>2. pc' # "asleep" BY <1>5 DEF DrainAll
  <2>3. CallType' BY <2>1 DEF Registry
  <2> QED BY <2>1, <2>2, <2>3, LetsContract DEF NoOversleep
<1>6. now \in Nat /\ MaxTime \in Nat BY TimerAssumption, SMT DEF Registry, LoopType
<1>7. ready = <<>> \/ pc \in {"scan", "call"} BY DEF Registry, Held, OpHeldOnce
<1>8. ASSUME LoopType', now <= now', UNCHANGED <<nodeVars, ready, handles, deadline, opVars>>,
             pc' \notin {"scan", "call"} => ready = <<>>, pc' = "scan" => pc = "scan" \/ ready = <<>>
      PROVE  Registry' /\ Contract
  <2>1. Registry' /\ Lets({}) BY <1>8, QuietStep
  <2>2. CallType' BY <2>1 DEF Registry
  <2> QED BY <2>1, <2>2, LetsContract
<1>9. CASE BeginScan \/ EndScan \/ EndCalls \/ WakeDue \/ WakeEarly
  <2>1. /\ UNCHANGED <<nodeVars, ready, sleepUntil, wrapped, now, handles, deadline, opVars>>
        /\ pc' \in {"scan", "call", "wait", "awake"}
        /\ (pc' \notin {"scan", "call"} => ready = <<>>) /\ (pc' = "scan" => ready = <<>>)
    BY <1>7, <1>9 DEF BeginScan, EndScan, EndCalls, WakeDue, WakeEarly
  <2>2. LoopType' BY <2>1 DEF Registry, LoopType
  <2> QED BY <1>6, <1>8, <2>1, <2>2, SMT DEF NoOversleep
<1>10. CASE Sleep
  <2>1. LoopType' /\ NoOversleep' BY <1>10, SleepStep
  <2>2. UNCHANGED <<nodeVars, ready, now, handles, deadline, opVars>> /\ pc = "wait" /\ pc' = "asleep"
    BY <1>10 DEF Sleep
  <2> QED BY <1>6, <1>7, <1>8, <2>1, <2>2, SMT
<1>11. CASE Tick
  <2>1. /\ UNCHANGED <<nodeVars, pc, ready, sleepUntil, wrapped, handles, deadline, opVars>>
        /\ now' = now + 1 /\ now < MaxTime
    BY <1>11 DEF Tick
  <2>2. LoopType' BY <1>6, <2>1, SMT DEF Registry, LoopType
  <2>3. NoOversleep'
    <3>1. nodes' = nodes /\ heap' = heap BY <2>1 DEF nodeVars
    <3>2. sleepUntil \in Nat \cup {Forever} BY DEF Registry, LoopType
    <3>3. sleepUntil # Forever /\ sleepUntil <= now => sleepUntil <= now' BY <1>6, <2>1, <3>2, SMT
    <3> QED BY <2>1, <3>1, <3>3 DEF NoOversleep
  <2> QED BY <1>6, <1>7, <1>8, <2>1, <2>2, <2>3, SMT
<1> QED BY <1>1, <1>2, <1>3, <1>4, <1>5, <1>9, <1>10, <1>11 DEF Next, Scan

LEMMA RegistryStutter ==
  ASSUME Registry, NoOversleep, UNCHANGED vars
  PROVE  Registry' /\ NoOversleep' /\ Armed' = Armed /\ UNCHANGED opVars
<1>1. /\ UNCHANGED <<nodeVars, pc, ready, sleepUntil, wrapped, now, handles, deadline, opVars>>
      /\ nodes' = nodes /\ heap' = heap /\ ready' = ready
  BY DEF vars, nodeVars
<1>2. LoopType' BY <1>1 DEF Registry, LoopType
<1>3. now <= now' BY <1>1, TimerAssumption, SMT DEF Registry, LoopType
<1>4. ready = <<>> \/ pc \in {"scan", "call"} BY DEF Registry, Held, OpHeldOnce
<1>5. Registry' BY <1>1, <1>2, <1>3, <1>4, QuietStep
<1>6. Armed' = Armed BY <1>1 DEF Armed, Indices
<1> QED BY <1>1, <1>5, <1>6 DEF NoOversleep

\* A registry that was not used yet.
Unused == /\ nodes = <<>> /\ heap = {} /\ free = <<>> /\ activeCount = 0
          /\ pc \in {"awake", "asleep"} /\ ready = <<>> /\ sleepUntil = Forever /\ wrapped = FALSE
          /\ now \in {0, MaxTime} /\ handles = {} /\ deadline = [o \in Ops |-> 0]
          /\ onComplete = [o \in Ops |-> 0] /\ onAbort = [o \in Ops |-> 0]

LEMMA RegistryUnused ==
  ASSUME Unused
  PROVE  Registry /\ NoOversleep /\ RO!Init
<1>1. /\ nodes = <<>> /\ heap = {} /\ free = <<>> /\ activeCount = 0
      /\ pc \in {"awake", "asleep"} /\ ready = <<>> /\ sleepUntil = Forever /\ wrapped = FALSE
      /\ now \in {0, MaxTime} /\ handles = {} /\ deadline = [o \in Ops |-> 0]
      /\ onComplete = [o \in Ops |-> 0] /\ onAbort = [o \in Ops |-> 0]
  BY DEF Unused
<1>2. Indices = {} /\ DOMAIN ready = {} /\ DOMAIN free = {} BY <1>1, SMT DEF Indices
<1>3. RegistryType BY <1>1, <1>2, SMT DEF RegistryType
<1>4. NodesPartitioned BY <1>2 DEF NodesPartitioned
<1>6. LoopType /\ CallType
  <2>1. 0 \in 0..MaxTime /\ 0 \in Nat /\ now \in 0..MaxTime BY <1>1, TimerAssumption, SMT
  <2>2. LoopType BY <1>1, <2>1 DEF LoopType
  <2>3. CallType BY <1>1, <2>1 DEF CallType
  <2> QED BY <2>2, <2>3
<1>7. ReadyType BY <1>1, SMT DEF ReadyType
<1>8. Armed = {} BY <1>2 DEF Armed
<1>9. OpHeldOnce
  <2>1. \A o \in Ops : onComplete[o] + onAbort[o] = 0 BY <1>1, SMT
  <2> QED BY <1>1, <1>2, <1>8, <2>1, SMT DEF OpHeldOnce
<1>10. Held BY <1>1, <1>2, <1>9 DEF Held, OpIffPending, TokenIdentifiesTimer, TokensFresh
<1>11. Timely BY <1>1, <1>2, SMT DEF Timely, NeverEarly, ExpiryOrder
<1>12. NoOversleep BY <1>1 DEF NoOversleep
<1>13. RO!Init BY <1>1, <1>8 DEF RO!Init
<1> QED BY <1>3, <1>4, <1>6, <1>7, <1>10, <1>11, <1>12, <1>13 DEF Registry, Containers

LEMMA RegistryInit == Init => Unused
BY DEF Init, Unused

LEMMA RegistryMeans ==
  ASSUME Registry
  PROVE  OnTime /\ (ActiveCountIsHeap => NodesConsistent)
BY TypesFlat DEF Registry, Containers, Held, Timely, NodesConsistent, OnTime

LEMMA ContractStep ==
  ASSUME Registry', Contract
  PROVE  RO!Next
<1>1. Armed' \subseteq Ops BY ArmedTypePrime DEF Registry, Containers
<1> QED BY <1>1 DEF RO!Next, Contract, Registry, CallType

\* process_expired completes no timer early and none out of order.
THEOREM OnTimeInvariant == Spec => []OnTime
<1>1. Init => Registry /\ NoOversleep BY RegistryInit, RegistryUnused
<1>2. Registry /\ NoOversleep /\ [Next]_vars => (Registry /\ NoOversleep)' BY RegistryStep, RegistryStutter
<1>3. Registry => OnTime BY RegistryMeans
<1> QED BY <1>1, <1>2, <1>3, PTL DEF Spec

\* next_timeout never lets the reactor sleep past a pending timer, for every
\* resolution of the clock, as long as no timeout is too long for an int.
THEOREM NoOversleepInvariant == Spec => []NoOversleep
<1>1. Init => Registry /\ NoOversleep BY RegistryInit, RegistryUnused
<1>2. Registry /\ NoOversleep /\ [Next]_vars => (Registry /\ NoOversleep)' BY RegistryStep, RegistryStutter
<1> QED BY <1>1, <1>2, PTL DEF Spec

\* timer_registry implements ReactorOp: a timer's op is called once, and then
\* it is no longer held.
THEOREM TimersImplementReactorOp == Spec => ImplementsReactorOp
<1>1. Init => Registry /\ NoOversleep /\ RO!Init BY RegistryInit, RegistryUnused
<1>2. Registry /\ NoOversleep /\ [Next]_vars => (Registry /\ NoOversleep)' BY RegistryStep, RegistryStutter
<1>3. Registry /\ NoOversleep /\ [Next]_vars => [RO!Next]_(RO!opVars)
  <2>1. CASE Next BY <2>1, RegistryStep, ContractStep
  <2>2. CASE UNCHANGED vars BY <2>2, RegistryStutter DEF opVars, RO!opVars
  <2> QED BY <2>1, <2>2
<1> QED BY <1>1, <1>2, <1>3, PTL DEF Spec, ImplementsReactorOp, RO!Spec
-----------------------------------------------------------------------------
\* What empty() reads.  FiniteSetTheorems brings a Cardinality of its own, so
\* the one of the registry's invariant is first put in terms of its definition.
Size(S) == Cardinality(S)
Counted == activeCount = Size(heap)

LEMMA CountedForm == Counted <=> ActiveCountIsHeap
BY DEF Counted, ActiveCountIsHeap, Size

LEMMA SizeForm ==
  ASSUME NEW S
  PROVE  Size(S) = LET CS[T \in SUBSET S] == IF T = {} THEN 0 ELSE 1 + CS[T \ {CHOOSE x : x \in T}]
                   IN CS[S]
BY DEF Size, Cardinality

LOCAL INSTANCE FiniteSetTheorems

LEMMA SizeIsCardinality ==
  ASSUME NEW S
  PROVE  Size(S) = Cardinality(S)
BY SizeForm DEF Cardinality

LEMMA HeapFinite ==
  ASSUME RegistryType
  PROVE  IsFiniteSet(heap) /\ Cardinality(heap) \in Nat
<1>1. IsFiniteSet(Indices) BY FS_Interval, SMT DEF Indices, RegistryType
<1>2. IsFiniteSet(heap) BY <1>1, FS_Subset DEF RegistryType
<1> QED BY <1>2, FS_CardinalityType

LEMMA CountPops ==
  ASSUME Registry, Counted, NEW i \in heap, Pop(i)
  PROVE  Counted'
<1>1. IsFiniteSet(heap) /\ Cardinality(heap) \in Nat BY HeapFinite DEF Registry, Containers
<1>2. IsFiniteSet(heap \ {i}) /\ Cardinality(heap \ {i}) = Cardinality(heap) - 1 BY <1>1, FS_RemoveElement
<1>3. Cardinality(heap \ {i}) \in Nat BY <1>2, FS_CardinalityType
<1>4. Size(heap) = Cardinality(heap) /\ Size(heap \ {i}) = Cardinality(heap \ {i}) BY SizeIsCardinality
<1> QED BY <1>1, <1>2, <1>3, <1>4, SMT DEF Pop, CountDown, Counted

LEMMA CountAdds ==
  ASSUME Registry, Counted, NEW e \in 0..MaxTime, NEW o \in Ops, AddTimer(e, o)
  PROVE  Counted'
<1>1. IsFiniteSet(heap) /\ Cardinality(heap) \in Nat BY HeapFinite DEF Registry, Containers
<1>2. ASSUME NEW i, i \notin heap, Place(i, e, o) PROVE Counted'
  <2>1. Cardinality(heap \cup {i}) = Cardinality(heap) + 1 BY <1>1, <1>2, FS_AddElement
  <2>2. Size(heap) = Cardinality(heap) /\ Size(heap \cup {i}) = Cardinality(heap \cup {i})
    BY SizeIsCardinality
  <2> QED BY <1>1, <1>2, <2>1, <2>2 DEF Place, Counted
<1>3. RegistryType /\ Distinct(free) /\ \A k \in Indices : k \in heap <=> ~In(k, free)
  BY PartitionForm DEF Registry, Containers
<1>4. CASE free # <<>>
  <2>1. Place(Head(free), e, o) BY <1>4 DEF AddTimer
  <2>2. Head(free) \in Indices /\ In(Head(free), free) BY <1>3, <1>4, Popped DEF RegistryType
  <2> QED BY <1>2, <1>3, <2>1, <2>2
<1>5. CASE free = <<>>
  <2>1. Place(Len(nodes) + 1, e, o) BY <1>5 DEF AddTimer
  <2>2. Len(nodes) + 1 \notin heap BY <1>3, SMT DEF RegistryType, Indices
  <2> QED BY <1>2, <2>1, <2>2
<1> QED BY <1>4, <1>5

LEMMA CountUnused ==
  ASSUME Unused
  PROVE  Counted
BY FS_EmptySet, SizeIsCardinality DEF Unused, Counted

LEMMA CountStep ==
  ASSUME Registry, Counted, [Next]_vars
  PROVE  Counted'
<1>1. ASSUME heap' = heap, activeCount' = activeCount PROVE Counted' BY <1>1 DEF Counted
<1>2. ASSUME NEW h \in handles, CancelTimer(h) PROVE Counted' BY <1>1, <1>2 DEF CancelTimer
<1>3. ASSUME NEW i \in Tops, ScanCancelled(i) \/ ScanExpired(i) PROVE Counted'
  BY <1>3, CountPops DEF Tops, ScanCancelled, ScanExpired
<1>4. CASE DrainAll BY <1>4, FS_EmptySet, SizeIsCardinality DEF DrainAll, Counted
<1>5. CASE \/ BeginScan \/ EndScan \/ CallReady \/ EndCalls \/ Sleep \/ WakeDue \/ WakeEarly \/ Tick
           \/ UNCHANGED vars
  <2>1. UNCHANGED nodeVars
    BY <1>5 DEF BeginScan, EndScan, CallReady, EndCalls, Sleep, WakeDue, WakeEarly, Tick, vars
  <2> QED BY <1>1, <2>1 DEF nodeVars
<1> QED BY <1>2, <1>3, <1>4, <1>5, CountAdds DEF Next, Scan

\* timer_registry keeps its nodes, its heap, its free stack, its count and its
\* tokens consistent whatever is added, cancelled, recycled and drained.
THEOREM NodesInvariant == Spec => []NodesConsistent
<1>1. Init => Registry /\ NoOversleep /\ Counted BY RegistryInit, RegistryUnused, CountUnused
<1>2. Registry /\ NoOversleep /\ [Next]_vars => (Registry /\ NoOversleep)' BY RegistryStep, RegistryStutter
<1>3. Registry /\ Counted /\ [Next]_vars => Counted' BY CountStep
<1>4. Registry /\ Counted => NodesConsistent BY RegistryMeans, CountedForm
<1> QED BY <1>1, <1>2, <1>3, <1>4, PTL DEF Spec

-----------------------------------------------------------------------------
\* The types of steady_timer.
Results == {"none", "ok", "aborted"}
Early == {"idle", "hop", "snapshot", "register"}
Places == {"idle", "hop", "suspended"} \cup ST!InRegister

TimerType == /\ None \notin Waits /\ MaxCalls \in Nat /\ LastTick \in Nat
             /\ serial \in BOOLEAN /\ clock \in 0..LastTick /\ expiry \in ST!Times /\ closed \in BOOLEAN
             /\ handle \in Waits \cup {None} /\ calls \in 0..MaxCalls
CoroutineType == /\ wpc \in [Waits -> Places] /\ snapshot \in [Waits -> ST!Times]
                 /\ old \in [Waits -> Waits \cup {None}] /\ res \in [Waits -> Results]
OpType == /\ waitDeadline \in [Waits -> ST!Times]
          /\ armed \subseteq Waits /\ stopped \subseteq Waits /\ aimed \subseteq Waits
EndType == /\ done \in [Waits -> BOOLEAN] /\ ec \in [Waits -> Results] /\ resumes \in [Waits -> Nat]
           /\ stopCb \in [Waits -> {"none", "set", "running", "gone"}]
PostType == taken \in [Callers -> Waits \cup {None}] /\ queue \in Seq(Waits)
Types == TimerType /\ CoroutineType /\ OpType /\ EndType /\ PostType

LEMMA TypesForm == Types => ST!TypeOK
BY DEF ST!TypeOK, Types, TimerType, CoroutineType, OpType, EndType, PostType, Results, Places

\* What is known of one wait.
Waiting(w) ==
  /\ wpc[w] \in Early => ~done[w] /\ w \notin armed
  /\ wpc[w] \notin Early => (done[w] <=> w \notin armed)
  /\ resumes[w] = IF done[w] THEN 1 ELSE 0
  /\ ~done[w] => ec[w] = "none"
  /\ res[w] # "none" => done[w] /\ res[w] = ec[w]
  /\ old[w] # None => wpc[w] = "cancelOld"
  /\ old[w] \in aimed \cup {None}
  /\ stopCb[w] = "running" => w \in stopped
  /\ serial /\ wpc[w] \in ST!InRegister => res[w] = "none"
  /\ ec[w] = "ok" => waitDeadline[w] <= clock
  /\ ec[w] = "aborted" => w \in stopped \cup aimed \/ closed

\* What is known of the handles and of the cancellations on their way.
Posted == /\ \A c \in Callers : taken[c] \in aimed \cup {None}
          /\ \A i \in DOMAIN queue : queue[i] \in stopped \cup aimed
Named(w) == \/ w = handle
            \/ \E c \in Callers : taken[c] = w
            \/ \E u \in Waits : old[u] = w
            \/ \E i \in DOMAIN queue : queue[i] = w
Pending == (\A w \in armed : Named(w)) /\ (closed => handle = None)

Timer == Types /\ (\A w \in Waits : Waiting(w)) /\ Posted /\ Pending

LEMMA Bounds ==
  ASSUME Timer
  PROVE  None \notin Waits /\ MaxCalls \in Nat /\ LastTick \in Nat
BY DEF Timer, Types, TimerType

LEMMA ClockNat ==
  ASSUME Timer
  PROVE  clock \in Nat
<1>1. clock \in 0..LastTick BY DEF Timer, Types, TimerType
<1> QED BY <1>1, Bounds, SMT

LEMMA TimerMeans ==
  ASSUME Timer
  PROVE  ST!WaitsConsistent /\ ST!ResultHasCause /\ ST!OnePending
<1>1. ST!TypeOK BY TypesForm DEF Timer
<1>2. \A w \in Waits : wpc[w] \in Places BY DEF Timer, Types, CoroutineType
<1>3. ST!ResumedOnce BY DEF Timer, Waiting, ST!ResumedOnce, Early
<1>4. ST!FrameAlive BY DEF Timer, Waiting, ST!FrameAlive
<1>5. ST!WaitPhases BY <1>2 DEF Timer, Waiting, ST!WaitPhases, Early
<1>6. ST!CancellationsAsked BY DEF Timer, Waiting, Posted, ST!CancellationsAsked
<1>7. ST!ResultHasCause BY DEF Timer, Waiting, ST!ResultHasCause
<1>8. ST!OnePending BY DEF Timer, Pending, Named, ST!OnePending, ST!AboutToCancel
<1> QED BY <1>1, <1>3, <1>4, <1>5, <1>6, <1>7, <1>8 DEF ST!WaitsConsistent

-----------------------------------------------------------------------------
\* One entry of a table is set.
LEMMA SetField ==
  ASSUME NEW S, NEW f \in [Waits -> S], NEW w \in Waits, NEW x \in S
  PROVE  /\ ST!Set(f, w, x) \in [Waits -> S] /\ ST!Set(f, w, x)[w] = x
         /\ \A v \in Waits : v # w => ST!Set(f, w, x)[v] = f[v]
BY DEF ST!Set

LEMMA SetPlace ==
  ASSUME wpc \in [Waits -> Places], NEW w \in Waits, NEW q \in Places, wpc' = ST!Set(wpc, w, q)
  PROVE  wpc' \in [Waits -> Places] /\ wpc'[w] = q /\ \A v \in Waits : v # w => wpc'[v] = wpc[v]
BY DEF ST!Set

LEMMA SetOld ==
  ASSUME old \in [Waits -> Waits \cup {None}], NEW w \in Waits, NEW h \in Waits \cup {None}, old' = ST!Set(old, w, h)
  PROVE  old' \in [Waits -> Waits \cup {None}] /\ old'[w] = h /\ \A v \in Waits : v # w => old'[v] = old[v]
BY DEF ST!Set

LEMMA SetDeadline ==
  ASSUME waitDeadline \in [Waits -> ST!Times], NEW w \in Waits, NEW t \in ST!Times, waitDeadline' = ST!Set(waitDeadline, w, t)
  PROVE  waitDeadline' \in [Waits -> ST!Times] /\ \A v \in Waits : v # w => waitDeadline'[v] = waitDeadline[v]
BY DEF ST!Set

\* The waits of A, whose ops the registry held, are completed with e.
Ended(A, e) ==
  /\ A \subseteq armed /\ armed' = armed \ A
  /\ \A w \in Waits :
       /\ w \in A => done'[w] = TRUE /\ ec'[w] = e /\ resumes'[w] = resumes[w] + 1
       /\ w \notin A => done'[w] = done[w] /\ ec'[w] = ec[w] /\ resumes'[w] = resumes[w]

LEMMA CompletesAll ==
  ASSUME Timer, NEW A, A \subseteq armed, NEW e \in Results, ST!Complete(A, e), armed' = armed \ A
  PROVE  /\ Ended(A, e)
         /\ done' \in [Waits -> BOOLEAN] /\ ec' \in [Waits -> Results] /\ resumes' \in [Waits -> Nat]
<1>1. \A w \in armed : w \in Waits /\ ~done[w] BY DEF Timer, Types, OpType, Waiting
<1>2. ST!Completes(A) = A BY <1>1 DEF ST!Completes
<1>3. /\ done' = [w \in Waits |-> done[w] \/ w \in A]
      /\ ec' = [w \in Waits |-> IF w \in A THEN e ELSE ec[w]]
      /\ resumes' = [w \in Waits |-> IF w \in A THEN resumes[w] + 1 ELSE resumes[w]]
  BY <1>2 DEF ST!Complete
<1>4. \A w \in Waits : done[w] \in BOOLEAN /\ ec[w] \in Results /\ resumes[w] \in Nat
  BY DEF Timer, Types, EndType
<1>5. done' \in [Waits -> BOOLEAN] BY <1>3
<1>6. ec' \in [Waits -> Results] /\ resumes' \in [Waits -> Nat] BY <1>3, <1>4, SMT
<1>7. \A w \in Waits : done'[w] = (done[w] \/ w \in A) BY <1>3
<1>8. \A w \in Waits : w \in A => done'[w] = TRUE BY <1>7
<1>9. \A w \in Waits : w \notin A => done'[w] = done[w] BY <1>4, <1>7
<1> QED BY <1>3, <1>5, <1>6, <1>8, <1>9 DEF Ended

LEMMA CallbacksGone ==
  ASSUME Timer, NEW A, ST!ResetCallbacks(A)
  PROVE  /\ stopCb' \in [Waits -> {"none", "set", "running", "gone"}]
         /\ \A w \in Waits : stopCb'[w] = "running" => w \in stopped
BY DEF Timer, Types, EndType, Waiting, ST!ResetCallbacks

LEMMA CancelEnds ==
  ASSUME Timer, NEW S, ST!CancelTimers(S)
  PROVE  /\ Ended(S \cap armed, "aborted") /\ EndType'
         /\ \A w \in Waits : stopCb'[w] = "running" => w \in stopped
<1>1. /\ armed' = armed \ (S \cap armed) /\ ST!Complete(S \cap armed, "aborted")
      /\ ST!ResetCallbacks(S \cap armed)
  BY DEF ST!CancelTimers
<1>2. "aborted" \in Results /\ S \cap armed \subseteq armed BY DEF Results
<1>3. /\ Ended(S \cap armed, "aborted")
      /\ done' \in [Waits -> BOOLEAN] /\ ec' \in [Waits -> Results] /\ resumes' \in [Waits -> Nat]
  BY <1>1, <1>2, CompletesAll
<1> QED BY <1>1, <1>3, CallbacksGone DEF EndType

LEMMA NobodyEnds ==
  ASSUME armed' = armed, done' = done, ec' = ec, resumes' = resumes
  PROVE  Ended({}, "aborted")
BY DEF Ended
-----------------------------------------------------------------------------
\* Time, stops, aims and the end of the timer only go forward.
Later == /\ serial' = serial /\ clock <= clock' /\ stopped \subseteq stopped' /\ aimed \subseteq aimed'
         /\ closed => closed'

\* A coroutine moves on in await_suspend, before it registers or after.
Moves(w) == /\ wpc'[w] \in Early <=> wpc[w] \in Early
            /\ wpc'[w] \in ST!InRegister => wpc[w] \in ST!InRegister \cup Early
            /\ \/ old'[w] = None
               \/ old'[w] = old[w] /\ wpc'[w] = wpc[w]

\* What is known of a wait is kept by every step that ends waits for a reason,
\* and registers and resumes none.
LEMMA WaitKept ==
  ASSUME Timer, NEW w \in Waits, NEW A, NEW e \in {"ok", "aborted"}, Ended(A, e), Later, Moves(w),
         clock' \in Nat, res'[w] = res[w], waitDeadline'[w] = waitDeadline[w],
         stopCb'[w] = "running" => w \in stopped',
         w \in A /\ e = "ok" => waitDeadline[w] <= clock,
         w \in A /\ e = "aborted" => w \in stopped \cup aimed \/ closed
  PROVE  Waiting(w)'
<1>1. Waiting(w) BY DEF Timer
<1>2. /\ waitDeadline[w] \in Nat /\ clock \in Nat /\ resumes[w] \in Nat /\ done[w] \in BOOLEAN
  BY Bounds, SMT DEF Timer, Types, TimerType, OpType, EndType, ST!Times
<1>3. CASE w \in A
  <2>1. w \in armed /\ w \notin armed' /\ done'[w] = TRUE /\ ec'[w] = e /\ resumes'[w] = resumes[w] + 1
    BY <1>3 DEF Ended
  <2>2. ~done[w] /\ resumes[w] = 0 /\ res[w] = "none" /\ wpc[w] \notin Early BY <1>1, <2>1 DEF Waiting
  <2>3. resumes'[w] = 1 BY <2>1, <2>2, SMT
  <2>4. e = "ok" => waitDeadline[w] <= clock' BY <1>2, <1>3, SMT DEF Later
  <2>5. e = "aborted" => w \in stopped' \cup aimed' \/ closed' BY <1>3 DEF Later
  <2> QED BY <1>1, <2>1, <2>2, <2>3, <2>4, <2>5 DEF Waiting, Moves, Later
<1>4. CASE w \notin A
  <2>1. /\ w \in armed' <=> w \in armed
        /\ done'[w] = done[w] /\ ec'[w] = ec[w] /\ resumes'[w] = resumes[w]
    BY <1>4 DEF Ended
  <2>2. wpc[w] \in Early => res[w] = "none" BY <1>1 DEF Waiting
  <2>3. ec[w] = "ok" => waitDeadline[w] <= clock' BY <1>1, <1>2, SMT DEF Waiting, Later
  <2>4. serial' /\ wpc'[w] \in ST!InRegister => res[w] = "none" BY <1>1, <2>2 DEF Waiting, Moves, Later
  <2>5. old'[w] # None => wpc'[w] = "cancelOld" BY <1>1 DEF Waiting, Moves
  <2>6. old'[w] \in aimed' \cup {None} BY <1>1 DEF Waiting, Moves, Later
  <2>7. ec[w] = "aborted" => w \in stopped' \cup aimed' \/ closed' BY <1>1 DEF Waiting, Later
  <2>8. /\ wpc'[w] \in Early => ~done[w] /\ w \notin armed'
        /\ wpc'[w] \notin Early => (done[w] <=> w \notin armed')
    BY <1>1, <2>1 DEF Waiting, Moves
  <2>9. /\ resumes[w] = IF done[w] THEN 1 ELSE 0
        /\ ~done[w] => ec[w] = "none"
        /\ res[w] # "none" => done[w] /\ res[w] = ec[w]
    BY <1>1 DEF Waiting
  <2> QED BY <2>1, <2>3, <2>4, <2>5, <2>6, <2>7, <2>8, <2>9 DEF Waiting
<1> QED BY <1>3, <1>4

\* Nobody's handle changes hands.
LEMMA NamesKept ==
  ASSUME Timer, NEW A, NEW e, Ended(A, e),
         handle' = handle, taken' = taken, old' = old, queue' = queue, closed' = closed
  PROVE  Pending'
BY DEF Timer, Pending, Named, Ended

\* The handles and cancellations, as long as none is new.
LEMMA PostedKept ==
  ASSUME Timer, Later, taken' = taken, queue' = queue
  PROVE  Posted' /\ PostType'
BY DEF Timer, Types, PostType, Posted, Later
-----------------------------------------------------------------------------
\* async_wait before it registers.
LEMMA BeforeRegister ==
  ASSUME Timer, NEW w \in Waits, ST!StartWait(w) \/ ST!Hop(w) \/ ST!SnapshotExpiry(w)
  PROVE  Timer'
<1>1. PICK q \in {"hop", "snapshot", "register"} : wpc' = ST!Set(wpc, w, q) /\ wpc[w] \in Early
  BY DEF ST!StartWait, ST!Hop, ST!SnapshotExpiry, ST!Go, Early
<1>2. /\ serial' = serial /\ clock' = clock /\ expiry' = expiry /\ closed' = closed /\ handle' = handle
      /\ armed' = armed /\ waitDeadline' = waitDeadline /\ done' = done /\ ec' = ec /\ stopCb' = stopCb
      /\ resumes' = resumes /\ old' = old /\ res' = res /\ stopped' = stopped /\ taken' = taken
      /\ queue' = queue /\ calls' = calls /\ aimed' = aimed
  BY DEF ST!StartWait, ST!Hop, ST!SnapshotExpiry, ST!timerVars, ST!opVars, ST!waitVars
<1>3. snapshot' = snapshot \/ snapshot' = ST!Set(snapshot, w, expiry)
  BY DEF ST!StartWait, ST!Hop, ST!SnapshotExpiry
<1>4. q \in Places /\ q \in Early /\ wpc \in [Waits -> Places] /\ expiry \in ST!Times /\ snapshot \in [Waits -> ST!Times]
  BY <1>1 DEF Places, Early, ST!InRegister, Timer, Types, TimerType, CoroutineType
<1>5. /\ wpc' \in [Waits -> Places] /\ wpc'[w] = q /\ \A v \in Waits : v # w => wpc'[v] = wpc[v]
  BY <1>1, <1>4, SetPlace
<1>6. snapshot' \in [Waits -> ST!Times]
  <2>1. ST!Set(snapshot, w, expiry) \in [Waits -> ST!Times] BY <1>4, SetField
  <2> QED BY <1>3, <1>4, <2>1
<1>7. TimerType' /\ CoroutineType' /\ OpType' /\ EndType'
  BY <1>2, <1>5, <1>6 DEF Timer, Types, TimerType, CoroutineType, OpType, EndType
<1>8. clock' \in Nat /\ Later BY <1>2, Bounds, SMT DEF Later, Timer, Types, TimerType
<1>9. Ended({}, "aborted") BY <1>2, NobodyEnds
<1>10. ASSUME NEW v \in Waits PROVE Waiting(v)'
  <2>1. stopCb'[v] = "running" => v \in stopped' BY <1>2 DEF Timer, Waiting
  <2>2. v = w => old[v] = None BY <1>1 DEF Timer, Waiting, Early
  <2>3. Moves(v) BY <1>1, <1>2, <1>4, <1>5, <2>2 DEF Moves
  <2> QED BY <1>2, <1>8, <1>9, <2>1, <2>3, WaitKept
<1> QED BY <1>2, <1>7, <1>8, <1>9, <1>10, NamesKept, PostedKept DEF Timer, Types
\* register_timer on a closed timer: the wait is aborted at once.
LEMMA RegisterClosed ==
  ASSUME Timer, NEW w \in Waits, ST!Register(w), closed
  PROVE  Timer'
<1>1. /\ wpc[w] = "register" /\ wpc' = ST!Set(wpc, w, "stop") /\ ST!Complete({w}, "aborted") /\ ST!ResetCallbacks({w})
      /\ handle' = handle /\ armed' = armed /\ waitDeadline' = waitDeadline /\ old' = old /\ aimed' = aimed
      /\ serial' = serial /\ clock' = clock /\ expiry' = expiry /\ closed' = closed /\ snapshot' = snapshot
      /\ res' = res /\ stopped' = stopped /\ taken' = taken /\ queue' = queue /\ calls' = calls
  BY DEF ST!Register, ST!IsClosed, ST!Go, ST!opVars
<1>2. /\ wpc \in [Waits -> Places] /\ "stop" \in Places /\ "stop" \notin Early /\ "register" \in Early
      /\ "stop" \in ST!InRegister
  BY DEF Timer, Types, CoroutineType, Places, ST!InRegister, Early
<1>3. wpc' \in [Waits -> Places] /\ wpc'[w] = "stop" /\ \A v \in Waits : v # w => wpc'[v] = wpc[v]
  BY <1>1, <1>2, SetPlace
<1>4. ~done[w] /\ w \notin armed /\ resumes[w] = 0 /\ res[w] = "none" /\ old[w] = None
  BY <1>1, <1>2 DEF Timer, Waiting, Early
<1>5. ST!Completes({w}) = {w} BY <1>4 DEF ST!Completes
<1>6. /\ done' = [v \in Waits |-> done[v] \/ v \in {w}]
      /\ ec' = [v \in Waits |-> IF v \in {w} THEN "aborted" ELSE ec[v]]
      /\ resumes' = [v \in Waits |-> IF v \in {w} THEN resumes[v] + 1 ELSE resumes[v]]
  BY <1>1, <1>5 DEF ST!Complete
<1>7. \A v \in Waits : done[v] \in BOOLEAN /\ ec[v] \in Results /\ resumes[v] \in Nat
  BY DEF Timer, Types, EndType
<1>8. done' \in [Waits -> BOOLEAN] BY <1>6
<1>9. ec' \in [Waits -> Results] /\ resumes' \in [Waits -> Nat] BY <1>6, <1>7, SMT DEF Results
<1>10. /\ stopCb' \in [Waits -> {"none", "set", "running", "gone"}]
       /\ \A v \in Waits : stopCb'[v] = "running" => v \in stopped
  BY <1>1, CallbacksGone
<1>11. TimerType' /\ CoroutineType' /\ OpType' /\ EndType'
  BY <1>1, <1>3, <1>8, <1>9, <1>10 DEF Timer, Types, TimerType, CoroutineType, OpType, EndType
<1>12. \A v \in Waits : done'[v] = (done[v] \/ v = w) BY <1>6
<1>13. ASSUME NEW v \in Waits PROVE Waiting(v)'
  <2>1. CASE v = w
    <3>a. done'[w] = TRUE BY <1>12
    <3>b. ec'[w] = "aborted" /\ resumes'[w] = resumes[w] + 1 BY <1>6
    <3>1. done'[w] = TRUE /\ ec'[w] = "aborted" /\ resumes'[w] = 1 BY <1>4, <3>a, <3>b, SMT
    <3> QED BY <1>1, <1>2, <1>3, <1>4, <1>10, <2>1, <3>1 DEF Waiting
  <2>2. CASE v # w
    <3>1. done'[v] = done[v] /\ ec'[v] = ec[v] /\ resumes'[v] = resumes[v] /\ wpc'[v] = wpc[v]
      BY <1>3, <1>6, <1>7, <1>12, <2>2
    <3> QED BY <1>1, <1>10, <3>1 DEF Timer, Waiting
  <2> QED BY <2>1, <2>2
<1>14. Later BY <1>1, ClockNat, SMT DEF Later
<1>15. Pending' BY <1>1 DEF Timer, Pending, Named
<1> QED BY <1>1, <1>11, <1>13, <1>14, <1>15, PostedKept DEF Timer, Types

\* register_timer: the handle of the wait before it is the one to cancel.
LEMMA RegisterOpen ==
  ASSUME Timer, NEW w \in Waits, ST!Register(w), ~closed
  PROVE  Timer'
<1>1. /\ wpc[w] = "register" /\ wpc' = ST!Set(wpc, w, "cancelOld") /\ old' = ST!Set(old, w, handle) /\ handle' = w
      /\ armed' = armed \cup {w} /\ waitDeadline' = ST!Set(waitDeadline, w, snapshot[w])
      /\ aimed' = aimed \cup ({handle} \ {None})
      /\ done' = done /\ ec' = ec /\ stopCb' = stopCb /\ resumes' = resumes
      /\ serial' = serial /\ clock' = clock /\ expiry' = expiry /\ closed' = closed /\ snapshot' = snapshot
      /\ res' = res /\ stopped' = stopped /\ taken' = taken /\ queue' = queue /\ calls' = calls
  BY DEF ST!Register, ST!IsClosed, ST!Go, ST!Stored, ST!waitVars
<1>2. /\ wpc \in [Waits -> Places] /\ "cancelOld" \in Places /\ "cancelOld" \notin Early
      /\ old \in [Waits -> Waits \cup {None}] /\ handle \in Waits \cup {None}
      /\ waitDeadline \in [Waits -> ST!Times] /\ snapshot[w] \in ST!Times
  BY DEF Timer, Types, CoroutineType, TimerType, OpType, Places, ST!InRegister, Early
<1>3. wpc' \in [Waits -> Places] /\ wpc'[w] = "cancelOld" /\ \A v \in Waits : v # w => wpc'[v] = wpc[v]
  BY <1>1, <1>2, SetPlace
<1>4. old' \in [Waits -> Waits \cup {None}] /\ old'[w] = handle /\ \A v \in Waits : v # w => old'[v] = old[v]
  BY <1>1, <1>2, SetOld
<1>5. waitDeadline' \in [Waits -> ST!Times] /\ \A v \in Waits : v # w => waitDeadline'[v] = waitDeadline[v]
  BY <1>1, <1>2, SetDeadline
<1>6. ~done[w] /\ w \notin armed /\ resumes[w] = 0 /\ res[w] = "none" /\ old[w] = None /\ ec[w] = "none"
  BY <1>1 DEF Timer, Waiting, Early
<1>7. TimerType' /\ CoroutineType' /\ OpType' /\ EndType'
  BY <1>1, <1>2, <1>3, <1>4, <1>5 DEF Timer, Types, TimerType, CoroutineType, OpType, EndType
<1>8. ASSUME NEW v \in Waits PROVE Waiting(v)'
  <2>1. CASE v = w
    <3>1. stopCb[w] = "running" => w \in stopped BY DEF Timer, Waiting
    <3> QED BY <1>1, <1>2, <1>3, <1>4, <1>6, <2>1, <3>1 DEF Waiting
  <2>2. CASE v # w
    <3>1. wpc'[v] = wpc[v] /\ old'[v] = old[v] /\ waitDeadline'[v] = waitDeadline[v]
      BY <1>3, <1>4, <1>5, <2>2
    <3> QED BY <1>1, <2>2, <3>1 DEF Timer, Waiting
  <2> QED BY <2>1, <2>2
<1>9. Later BY <1>1, ClockNat, SMT DEF Later
<1>10. Pending'
  <2>1. ASSUME NEW v \in armed' PROVE Named(v)'
    <3>1. CASE v = w BY <1>1, <3>1 DEF Named
    <3>2. CASE v # w
      <4>1. v \in armed /\ Named(v) /\ v \in Waits BY <1>1, <3>2 DEF Timer, Pending, Types, OpType
      <4>2. v # None BY <4>1, Bounds
      <4>3. CASE v = handle BY <1>4, <4>3 DEF Named
      <4>4. CASE \E u \in Waits : old[u] = v
        <5>1. PICK u \in Waits : old[u] = v BY <4>4
        <5>2. u # w BY <1>6, <4>2, <5>1
        <5> QED BY <1>4, <5>1, <5>2 DEF Named
      <4> QED BY <1>1, <4>1, <4>3, <4>4 DEF Named
    <3> QED BY <3>1, <3>2
  <2> QED BY <1>1, <2>1 DEF Pending
<1> QED BY <1>1, <1>7, <1>8, <1>9, <1>10, PostedKept DEF Timer, Types
\* A step that cancels the timers of S for a reason, registers none and leaves
\* the handles in place.
LEMMA CancelKeeps ==
  ASSUME Timer, NEW S, ST!CancelTimers(S), \A v \in S \cap armed : v \in stopped \cup aimed,
         wpc' \in [Waits -> Places], \A v \in Waits : Moves(v),
         old' \in [Waits -> Waits \cup {None}],
         serial' = serial, clock' = clock, expiry' = expiry, closed' = closed, handle' = handle,
         waitDeadline' = waitDeadline, snapshot' = snapshot, res' = res, stopped' = stopped,
         calls' = calls, aimed' = aimed
  PROVE  /\ TimerType' /\ CoroutineType' /\ OpType' /\ EndType' /\ (\A v \in Waits : Waiting(v)')
         /\ Ended(S \cap armed, "aborted") /\ Later
<1>1. /\ Ended(S \cap armed, "aborted") /\ EndType'
      /\ \A v \in Waits : stopCb'[v] = "running" => v \in stopped
  BY CancelEnds
<1>2. TimerType' BY DEF Timer, Types, TimerType
<1>3. CoroutineType' BY DEF Timer, Types, CoroutineType
<1>4. OpType'
  <2>1. armed' \subseteq armed BY <1>1 DEF Ended
  <2> QED BY <2>1 DEF Timer, Types, OpType
<1>5. clock' \in Nat /\ Later BY Bounds, SMT DEF Later, Timer, Types, TimerType
<1>6. ASSUME NEW v \in Waits PROVE Waiting(v)'
  <2>1. stopCb'[v] = "running" => v \in stopped' BY <1>1
  <2>2. Moves(v) OBVIOUS
  <2>3. v \in S \cap armed /\ "aborted" = "aborted" => v \in stopped \cup aimed \/ closed OBVIOUS
  <2> DEFINE A == S \cap armed
  <2>4. Ended(A, "aborted") BY <1>1
  <2> HIDE DEF A
  <2>5. v \in A => v \in stopped \cup aimed \/ closed BY <2>3 DEF A
  <2> QED BY <1>5, <2>1, <2>2, <2>4, <2>5, WaitKept
<1> QED BY <1>1, <1>2, <1>3, <1>4, <1>5, <1>6

\* The wait before this one is cancelled.
LEMMA CancelOldStep ==
  ASSUME Timer, NEW w \in Waits, ST!CancelOld(w)
  PROVE  Timer'
<1> DEFINE S == {old[w]} \ {None}
<1>1. /\ wpc[w] = "cancelOld" /\ wpc' = ST!Set(wpc, w, "stop") /\ ST!CancelTimers(S) /\ old' = ST!Set(old, w, None)
      /\ serial' = serial /\ clock' = clock /\ expiry' = expiry /\ closed' = closed /\ handle' = handle
      /\ waitDeadline' = waitDeadline /\ snapshot' = snapshot /\ res' = res /\ stopped' = stopped
      /\ taken' = taken /\ queue' = queue /\ calls' = calls /\ aimed' = aimed
  BY DEF ST!CancelOld, ST!Go, ST!timerVars
<1>2. /\ wpc \in [Waits -> Places] /\ "stop" \in Places /\ old \in [Waits -> Waits \cup {None}]
      /\ "stop" \notin Early /\ "cancelOld" \notin Early /\ "cancelOld" \in ST!InRegister
  BY DEF Timer, Types, CoroutineType, Places, ST!InRegister, Early
<1>3. wpc' \in [Waits -> Places] /\ wpc'[w] = "stop" /\ \A v \in Waits : v # w => wpc'[v] = wpc[v]
  BY <1>1, <1>2, SetPlace
<1>4. old' \in [Waits -> Waits \cup {None}] /\ old'[w] = None /\ \A v \in Waits : v # w => old'[v] = old[v]
  BY <1>1, <1>2, SetOld
<1>5. \A v \in Waits : Moves(v) BY <1>1, <1>2, <1>3, <1>4 DEF Moves
<1>6. \A v \in S : v \in aimed BY DEF Timer, Waiting
<1> HIDE DEF S
<1>7. /\ TimerType' /\ CoroutineType' /\ OpType' /\ EndType' /\ (\A v \in Waits : Waiting(v)')
      /\ Ended(S \cap armed, "aborted") /\ Later
  BY <1>1, <1>3, <1>4, <1>5, <1>6, CancelKeeps
<1>8. Pending'
  <2>1. ASSUME NEW v \in armed' PROVE Named(v)'
    <3>1. v \in armed /\ v \notin S /\ Named(v) /\ v \in Waits /\ v # None
      BY <1>7, Bounds DEF Ended, Timer, Pending, Types, OpType
    <3>2. CASE \E u \in Waits : old[u] = v
      <4>1. PICK u \in Waits : old[u] = v BY <3>2
      <4>2. u # w BY <3>1, <4>1 DEF S
      <4> QED BY <1>4, <4>1, <4>2 DEF Named
    <3> QED BY <1>1, <3>1, <3>2 DEF Named
  <2> QED BY <1>1, <2>1 DEF Timer, Pending
<1> QED BY <1>1, <1>7, <1>8, PostedKept DEF Timer, Types

\* The stop token: requested already, or requested before the callback is there.
LEMMA StopSeen ==
  ASSUME Timer, NEW w \in Waits, w \in stopped, ST!CheckStop(w) \/ ST!InstallCallback(w)
  PROVE  Timer'
<1>1. /\ wpc[w] \in {"stop", "install"} /\ wpc' = ST!Set(wpc, w, "suspended") /\ ST!CancelTimers({w}) /\ old' = old
      /\ serial' = serial /\ clock' = clock /\ expiry' = expiry /\ closed' = closed /\ handle' = handle
      /\ waitDeadline' = waitDeadline /\ snapshot' = snapshot /\ res' = res /\ stopped' = stopped
      /\ taken' = taken /\ queue' = queue /\ calls' = calls /\ aimed' = aimed
  BY DEF ST!CheckStop, ST!InstallCallback, ST!Go, ST!timerVars
<1>2. /\ wpc \in [Waits -> Places] /\ "suspended" \in Places /\ old \in [Waits -> Waits \cup {None}]
      /\ "suspended" \notin Early /\ "suspended" \notin ST!InRegister /\ wpc[w] \notin Early
      /\ wpc[w] # "cancelOld"
  BY <1>1 DEF Timer, Types, CoroutineType, Places, ST!InRegister, Early
<1>3. wpc' \in [Waits -> Places] /\ wpc'[w] = "suspended" /\ \A v \in Waits : v # w => wpc'[v] = wpc[v]
  BY <1>1, <1>2, SetPlace
<1>4. old[w] = None BY <1>2 DEF Timer, Waiting
<1>5. \A v \in Waits : Moves(v) BY <1>1, <1>2, <1>3, <1>4 DEF Moves
<1>6. old' \in [Waits -> Waits \cup {None}] BY <1>1, <1>2
<1>7. /\ TimerType' /\ CoroutineType' /\ OpType' /\ EndType' /\ (\A v \in Waits : Waiting(v)')
      /\ Ended({w} \cap armed, "aborted") /\ Later
  BY <1>1, <1>3, <1>5, <1>6, CancelKeeps
<1> QED BY <1>1, <1>7, NamesKept, PostedKept DEF Timer, Types
\* The stop token: the callback is installed.
LEMMA StopAhead ==
  ASSUME Timer, NEW w \in Waits, w \notin stopped, ST!CheckStop(w) \/ ST!InstallCallback(w)
  PROVE  Timer'
<1>1. /\ wpc[w] \in {"stop", "install"} /\ (wpc' = ST!Set(wpc, w, "install") \/ wpc' = ST!Set(wpc, w, "suspended"))
      /\ (stopCb' = stopCb \/ stopCb' = ST!Set(stopCb, w, "set"))
      /\ armed' = armed /\ done' = done /\ ec' = ec /\ resumes' = resumes /\ old' = old
      /\ serial' = serial /\ clock' = clock /\ expiry' = expiry /\ closed' = closed /\ handle' = handle
      /\ waitDeadline' = waitDeadline /\ snapshot' = snapshot /\ res' = res /\ stopped' = stopped
      /\ taken' = taken /\ queue' = queue /\ calls' = calls /\ aimed' = aimed
  BY DEF ST!CheckStop, ST!InstallCallback, ST!Go, ST!timerVars, ST!waitVars, ST!NoCancel
<1>2. /\ wpc \in [Waits -> Places] /\ "suspended" \in Places /\ "install" \in Places
      /\ wpc[w] \notin Early /\ wpc[w] # "cancelOld" /\ wpc[w] \in ST!InRegister
  BY <1>1 DEF Timer, Types, CoroutineType, Places, ST!InRegister, Early
<1>3. wpc' \in [Waits -> Places] /\ wpc'[w] \in {"install", "suspended"} /\ \A v \in Waits : v # w => wpc'[v] = wpc[v]
  BY <1>1, <1>2, SetPlace
<1>4. /\ stopCb' \in [Waits -> {"none", "set", "running", "gone"}]
      /\ \A v \in Waits : stopCb'[v] = "running" => v \in stopped
  BY <1>1 DEF Timer, Types, EndType, Waiting, ST!Set
<1>5. old[w] = None BY <1>2 DEF Timer, Waiting
<1>6. "install" \notin Early /\ "suspended" \notin Early BY DEF Early
<1>7. \A v \in Waits : Moves(v) BY <1>1, <1>2, <1>3, <1>5, <1>6 DEF Moves
<1>8. TimerType' /\ CoroutineType' /\ OpType' /\ EndType'
  BY <1>1, <1>3, <1>4 DEF Timer, Types, TimerType, CoroutineType, OpType, EndType
<1>9. clock \in Nat /\ clock' \in Nat /\ Later BY <1>1, ClockNat, SMT DEF Later
<1>10. Ended({}, "aborted") BY <1>1, NobodyEnds
<1>11. ASSUME NEW v \in Waits PROVE Waiting(v)'
  <2>1. stopCb'[v] = "running" => v \in stopped' BY <1>1, <1>4
  <2> QED BY <1>1, <1>7, <1>9, <1>10, <2>1, WaitKept
<1> QED BY <1>1, <1>8, <1>9, <1>10, <1>11, NamesKept, PostedKept DEF Timer, Types

\* The resumption returns the result; serially, not while await_suspend runs.
LEMMA ResumeStep ==
  ASSUME Timer, NEW w \in Waits, ST!Resume(w)
  PROVE  Timer'
<1>1. /\ resumes[w] > 0 /\ res[w] = "none" /\ (serial => ST!ReactorFree) /\ res' = ST!Set(res, w, ec[w])
      /\ wpc' = wpc /\ armed' = armed /\ done' = done /\ ec' = ec /\ resumes' = resumes /\ old' = old
      /\ serial' = serial /\ clock' = clock /\ expiry' = expiry /\ closed' = closed /\ handle' = handle
      /\ waitDeadline' = waitDeadline /\ snapshot' = snapshot /\ stopped' = stopped /\ stopCb' = stopCb
      /\ taken' = taken /\ queue' = queue /\ calls' = calls /\ aimed' = aimed
  BY DEF ST!Resume, ST!Scheduled, ST!timerVars, ST!waitVars, ST!opVars
<1>2. /\ res' \in [Waits -> Results] /\ res'[w] = ec[w] /\ \A v \in Waits : v # w => res'[v] = res[v]
  BY <1>1 DEF ST!Set, Timer, Types, CoroutineType, EndType
<1>3. done[w]
  <2>1. resumes[w] = IF done[w] THEN 1 ELSE 0 BY DEF Timer, Waiting
  <2>2. resumes[w] > 0 BY <1>1
  <2> QED BY <2>1, <2>2, SMT
<1>4. serial => wpc[w] \notin ST!InRegister BY <1>1 DEF ST!ReactorFree
<1>5. TimerType' /\ CoroutineType' /\ OpType' /\ EndType'
  BY <1>1, <1>2 DEF Timer, Types, TimerType, CoroutineType, OpType, EndType
<1>6. ASSUME NEW v \in Waits PROVE Waiting(v)'
  <2>1. CASE v = w BY <1>1, <1>2, <1>3, <1>4, <2>1 DEF Timer, Waiting
  <2>2. CASE v # w
    <3>1. res'[v] = res[v] BY <1>2, <2>2
    <3> QED BY <1>1, <3>1 DEF Timer, Waiting
  <2> QED BY <2>1, <2>2
<1>7. Later
  <2>1. clock' = clock BY <1>1
  <2>2. clock <= clock' BY <2>1, ClockNat, SMT
  <2> QED BY <1>1, <2>2 DEF Later
<1>8. Ended({}, "aborted") BY <1>1, NobodyEnds
<1> QED BY <1>1, <1>5, <1>6, <1>7, <1>8, NamesKept, PostedKept DEF Timer, Types
-----------------------------------------------------------------------------
\* The steps that end no wait and move no coroutine.
LEMMA QuietKeeps ==
  ASSUME Timer, wpc' = wpc, old' = old, armed' = armed, done' = done, ec' = ec, resumes' = resumes,
         res' = res, snapshot' = snapshot, waitDeadline' = waitDeadline, TimerType', Later,
         stopCb' \in [Waits -> {"none", "set", "running", "gone"}],
         \A v \in Waits : stopCb'[v] = "running" => v \in stopped',
         stopped' \subseteq Waits, aimed' \subseteq Waits
  PROVE  TimerType' /\ CoroutineType' /\ OpType' /\ EndType' /\ (\A v \in Waits : Waiting(v)')
<1>1. CoroutineType' /\ OpType' /\ EndType' BY DEF Timer, Types, CoroutineType, OpType, EndType
<1>2. clock' \in Nat BY Bounds, SMT DEF TimerType
<1>3. Ended({}, "aborted") BY NobodyEnds
<1>4. ASSUME NEW v \in Waits PROVE Waiting(v)'
  <2>1. Moves(v) BY DEF Moves
  <2> QED BY <1>2, <1>3, <2>1, WaitKept
<1> QED BY <1>1, <1>4

\* expires_at, cancel and close take the handle.
LEMMA UseStep ==
  ASSUME Timer, NEW c \in Callers, ST!Use(c)
  PROVE  Timer'
<1>1. ST!Take(c) /\ (expiry' = expiry \/ expiry' \in ST!Times) /\ (closed' = closed \/ closed' = TRUE)
  BY DEF ST!Use, ST!ExpiresAt, ST!Cancel, ST!Close
<1>2. /\ calls < MaxCalls /\ calls' = calls + 1 /\ taken[c] = None /\ taken' = [taken EXCEPT ![c] = handle]
      /\ ~closed /\ aimed' = aimed \cup ({handle} \ {None}) /\ handle' = None
      /\ serial' = serial /\ clock' = clock /\ armed' = armed /\ waitDeadline' = waitDeadline
      /\ done' = done /\ ec' = ec /\ stopCb' = stopCb /\ resumes' = resumes
      /\ wpc' = wpc /\ snapshot' = snapshot /\ old' = old /\ res' = res /\ stopped' = stopped /\ queue' = queue
  BY <1>1 DEF ST!Take, ST!opVars, ST!waitVars, ST!corVars
<1>3. /\ handle \in Waits \cup {None} /\ taken \in [Callers -> Waits \cup {None}] /\ aimed \subseteq Waits
      /\ closed \in BOOLEAN /\ calls \in 0..MaxCalls /\ expiry \in ST!Times
  BY DEF Timer, Types, TimerType, PostType, OpType
<1>4. aimed' \subseteq Waits /\ handle \in aimed' \cup {None} BY <1>2, <1>3
<1>5. /\ taken' \in [Callers -> Waits \cup {None}] /\ taken'[c] = handle
      /\ \A d \in Callers : d # c => taken'[d] = taken[d]
  BY <1>2, <1>3
<1>6. calls' \in 0..MaxCalls BY <1>2, <1>3, Bounds, SMT
<1>7. closed' \in BOOLEAN /\ (closed => closed') BY <1>1, <1>2, <1>3
<1>8. TimerType' BY <1>1, <1>2, <1>3, <1>6, <1>7 DEF Timer, Types, TimerType
<1>9. Later BY <1>2, <1>7, Bounds, SMT DEF Later, Timer, Types, TimerType
<1>10. TimerType' /\ CoroutineType' /\ OpType' /\ EndType' /\ (\A v \in Waits : Waiting(v)')
  <2>1. /\ stopCb' \in [Waits -> {"none", "set", "running", "gone"}]
        /\ \A v \in Waits : stopCb'[v] = "running" => v \in stopped'
        /\ stopped' \subseteq Waits
    BY <1>2 DEF Timer, Types, EndType, OpType, Waiting
  <2> QED BY <1>2, <1>4, <1>8, <1>9, <2>1, QuietKeeps
<1>11. Posted'
  <2>1. \A d \in Callers : taken'[d] \in aimed' \cup {None} BY <1>2, <1>4, <1>5 DEF Timer, Posted
  <2>2. \A i \in DOMAIN queue' : queue'[i] \in stopped' \cup aimed' BY <1>2 DEF Timer, Posted
  <2> QED BY <2>1, <2>2 DEF Posted
<1>12. PostType' BY <1>2, <1>5 DEF Timer, Types, PostType
<1>13. Pending'
  <2>1. ASSUME NEW v \in armed' PROVE Named(v)'
    <3>1. v \in armed /\ Named(v) /\ v \in Waits /\ v # None
      BY <1>2, Bounds DEF Timer, Pending, Types, OpType
    <3>2. CASE v = handle BY <1>5, <3>2 DEF Named
    <3>3. CASE \E d \in Callers : taken[d] = v
      <4>1. PICK d \in Callers : taken[d] = v BY <3>3
      <4>2. d # c BY <1>2, <3>1, <4>1
      <4> QED BY <1>5, <4>1, <4>2 DEF Named
    <3> QED BY <1>2, <3>1, <3>2, <3>3 DEF Named
  <2> QED BY <1>2, <2>1 DEF Pending
<1> QED BY <1>10, <1>11, <1>12, <1>13 DEF Timer, Types

\* A cancellation is posted, by a caller or by a stop callback.
LEMMA PostGrows ==
  ASSUME Timer, NEW v \in Waits, queue' = Append(queue, v)
  PROVE  /\ queue' \in Seq(Waits) /\ (\E i \in DOMAIN queue' : queue'[i] = v)
         /\ \A i \in DOMAIN queue : i \in DOMAIN queue' /\ queue'[i] = queue[i]
         /\ \A i \in DOMAIN queue' : queue'[i] = v \/ (i \in DOMAIN queue /\ queue'[i] = queue[i])
<1>1. queue \in Seq(Waits) BY DEF Timer, Types, PostType
<1>2. /\ queue' \in Seq(Waits) /\ DOMAIN queue' = 1..(Len(queue) + 1)
      /\ Len(queue) \in Nat /\ DOMAIN queue = 1..Len(queue) /\ queue'[Len(queue) + 1] = v
      /\ \A j \in 1..Len(queue) : queue'[j] = queue[j]
  BY <1>1, SMT
<1>3. Len(queue) + 1 \in DOMAIN queue' BY <1>2, SMT
<1>4. \A j \in DOMAIN queue' : j \in DOMAIN queue \/ j = Len(queue) + 1 BY <1>2, SMT
<1>5. \A j \in DOMAIN queue : j \in DOMAIN queue' BY <1>2, SMT
<1> QED BY <1>2, <1>3, <1>4, <1>5

LEMMA PostCancelStep ==
  ASSUME Timer, NEW c \in Callers, ST!PostCancel(c)
  PROVE  Timer'
<1>1. /\ taken[c] # None /\ queue' = Append(queue, taken[c]) /\ taken' = [taken EXCEPT ![c] = None]
      /\ serial' = serial /\ clock' = clock /\ armed' = armed /\ waitDeadline' = waitDeadline
      /\ expiry' = expiry /\ closed' = closed /\ handle' = handle /\ calls' = calls /\ aimed' = aimed
      /\ done' = done /\ ec' = ec /\ stopCb' = stopCb /\ resumes' = resumes
      /\ wpc' = wpc /\ snapshot' = snapshot /\ old' = old /\ res' = res /\ stopped' = stopped
  BY DEF ST!PostCancel, ST!timerVars, ST!opVars, ST!waitVars, ST!corVars
<1>2. taken \in [Callers -> Waits \cup {None}] /\ taken[c] \in Waits /\ taken[c] \in aimed
  BY <1>1 DEF Timer, Types, PostType, Posted
<1>3. /\ queue' \in Seq(Waits) /\ (\E i \in DOMAIN queue' : queue'[i] = taken[c])
      /\ \A i \in DOMAIN queue : i \in DOMAIN queue' /\ queue'[i] = queue[i]
      /\ \A i \in DOMAIN queue' : queue'[i] = taken[c] \/ (i \in DOMAIN queue /\ queue'[i] = queue[i])
  BY <1>1, <1>2, PostGrows
<1>4. /\ taken' \in [Callers -> Waits \cup {None}] /\ taken'[c] = None
      /\ \A d \in Callers : d # c => taken'[d] = taken[d]
  BY <1>1, <1>2
<1>5. TimerType' BY <1>1 DEF Timer, Types, TimerType
<1>6. Later BY <1>1, ClockNat, SMT DEF Later
<1>7. TimerType' /\ CoroutineType' /\ OpType' /\ EndType' /\ (\A v \in Waits : Waiting(v)')
  <2>1. /\ stopCb' \in [Waits -> {"none", "set", "running", "gone"}]
        /\ \A v \in Waits : stopCb'[v] = "running" => v \in stopped'
        /\ stopped' \subseteq Waits /\ aimed' \subseteq Waits
    BY <1>1 DEF Timer, Types, EndType, OpType, Waiting
  <2> QED BY <1>1, <1>5, <1>6, <2>1, QuietKeeps
<1>8. Posted' BY <1>1, <1>2, <1>3, <1>4 DEF Timer, Posted
<1>9. PostType' BY <1>3, <1>4 DEF PostType
<1>10. Pending'
  <2>1. ASSUME NEW v \in armed' PROVE Named(v)'
    <3>1. v \in armed /\ Named(v) BY <1>1 DEF Timer, Pending
    <3>2. CASE v = taken[c] BY <1>3, <3>2 DEF Named
    <3>3. CASE v # taken[c] BY <1>1, <1>3, <1>4, <3>1, <3>3 DEF Named
    <3> QED BY <3>2, <3>3
  <2> QED BY <1>1, <2>1 DEF Timer, Pending
<1> QED BY <1>7, <1>8, <1>9, <1>10 DEF Timer, Types
\* A stop is requested, or its callback runs, which it does once.
LEMMA RequestStopStep ==
  ASSUME Timer, NEW w \in Waits, ST!RequestStop(w)
  PROVE  Timer'
<1>1. /\ stopped' = stopped \cup {w} /\ (stopCb' = stopCb \/ stopCb' = ST!Set(stopCb, w, "running"))
      /\ serial' = serial /\ clock' = clock /\ armed' = armed /\ waitDeadline' = waitDeadline
      /\ expiry' = expiry /\ closed' = closed /\ handle' = handle /\ calls' = calls /\ aimed' = aimed
      /\ done' = done /\ ec' = ec /\ resumes' = resumes /\ taken' = taken /\ queue' = queue
      /\ wpc' = wpc /\ snapshot' = snapshot /\ old' = old /\ res' = res
  BY DEF ST!RequestStop, ST!timerVars, ST!opVars, ST!corVars
<1>2. /\ stopCb' \in [Waits -> {"none", "set", "running", "gone"}]
      /\ \A v \in Waits : stopCb'[v] = "running" => v \in stopped'
  BY <1>1 DEF Timer, Types, EndType, Waiting, ST!Set
<1>3. stopped' \subseteq Waits /\ aimed' \subseteq Waits BY <1>1 DEF Timer, Types, OpType
<1>4. TimerType' BY <1>1 DEF Timer, Types, TimerType
<1>5. Later BY <1>1, ClockNat, SMT DEF Later
<1>6. Ended({}, "aborted") BY <1>1, NobodyEnds
<1>7. CoroutineType' /\ OpType' /\ EndType' /\ (\A v \in Waits : Waiting(v)')
  BY <1>1, <1>2, <1>3, <1>4, <1>5, QuietKeeps
<1> QED BY <1>1, <1>4, <1>5, <1>6, <1>7, NamesKept, PostedKept DEF Timer, Types

LEMMA StopCallbackStep ==
  ASSUME Timer, NEW w \in Waits, ST!StopCallback(w)
  PROVE  Timer'
<1>1. /\ stopCb[w] = "running" /\ stopCb' = ST!Set(stopCb, w, "gone") /\ queue' = Append(queue, w)
      /\ serial' = serial /\ clock' = clock /\ armed' = armed /\ waitDeadline' = waitDeadline
      /\ expiry' = expiry /\ closed' = closed /\ handle' = handle /\ calls' = calls /\ aimed' = aimed
      /\ done' = done /\ ec' = ec /\ resumes' = resumes /\ taken' = taken /\ stopped' = stopped
      /\ wpc' = wpc /\ snapshot' = snapshot /\ old' = old /\ res' = res
  BY DEF ST!StopCallback, ST!timerVars, ST!opVars, ST!corVars
<1>2. /\ stopCb' \in [Waits -> {"none", "set", "running", "gone"}]
      /\ \A v \in Waits : stopCb'[v] = "running" => v \in stopped'
  BY <1>1 DEF Timer, Types, EndType, Waiting, ST!Set
<1>3. stopped' \subseteq Waits /\ aimed' \subseteq Waits BY <1>1 DEF Timer, Types, OpType
<1>4. w \in stopped BY <1>1 DEF Timer, Waiting
<1>5. /\ queue' \in Seq(Waits) /\ (\E i \in DOMAIN queue' : queue'[i] = w)
      /\ \A i \in DOMAIN queue : i \in DOMAIN queue' /\ queue'[i] = queue[i]
      /\ \A i \in DOMAIN queue' : queue'[i] = w \/ (i \in DOMAIN queue /\ queue'[i] = queue[i])
  BY <1>1, PostGrows
<1>6. TimerType' BY <1>1 DEF Timer, Types, TimerType
<1>7. Later BY <1>1, ClockNat, SMT DEF Later
<1>8. CoroutineType' /\ OpType' /\ EndType' /\ (\A v \in Waits : Waiting(v)')
  BY <1>1, <1>2, <1>3, <1>6, <1>7, QuietKeeps
<1>9. Posted' BY <1>1, <1>4, <1>5 DEF Timer, Posted
<1>10. PostType' BY <1>1, <1>5 DEF Timer, Types, PostType
<1>11. Pending'
  <2>1. ASSUME NEW v \in armed' PROVE Named(v)'
    <3>1. v \in armed /\ Named(v) BY <1>1 DEF Timer, Pending
    <3> QED BY <1>1, <1>5, <3>1 DEF Named
  <2> QED BY <1>1, <2>1 DEF Timer, Pending
<1> QED BY <1>6, <1>8, <1>9, <1>10, <1>11 DEF Timer, Types

\* The reactor runs the first posted cancellation.
LEMMA RunPostedStep ==
  ASSUME Timer, ST!RunPosted
  PROVE  Timer'
<1> DEFINE h == Head(queue)
<1>1. /\ queue # <<>> /\ queue' = Tail(queue) /\ ST!CancelTimers({h})
      /\ serial' = serial /\ clock' = clock /\ waitDeadline' = waitDeadline
      /\ expiry' = expiry /\ closed' = closed /\ handle' = handle /\ calls' = calls /\ aimed' = aimed
      /\ taken' = taken /\ stopped' = stopped
      /\ wpc' = wpc /\ snapshot' = snapshot /\ old' = old /\ res' = res
  BY DEF ST!RunPosted, ST!timerVars, ST!corVars
<1>2. queue \in Seq(Waits) BY DEF Timer, Types, PostType
<1>3. /\ queue' \in Seq(Waits) /\ 1 \in DOMAIN queue /\ h = queue[1]
      /\ \A j \in DOMAIN queue' : j + 1 \in DOMAIN queue /\ queue'[j] = queue[j + 1]
      /\ \A j \in DOMAIN queue : j = 1 \/ (j - 1 \in DOMAIN queue' /\ queue[j] = queue'[j - 1])
  <2>1. /\ queue' \in Seq(Waits) /\ Len(queue') = Len(queue) - 1 /\ DOMAIN queue' = 1..Len(queue')
        /\ DOMAIN queue = 1..Len(queue) /\ Len(queue) \in Nat /\ Len(queue) > 0 /\ h = queue[1]
        /\ \A j \in 1..Len(queue') : queue'[j] = queue[j + 1]
    BY <1>1, <1>2, SMT
  <2>2. \A j \in DOMAIN queue' : j + 1 \in DOMAIN queue /\ queue'[j] = queue[j + 1] BY <2>1, SMT
  <2>3. \A j \in DOMAIN queue : j = 1 \/ (j - 1 \in DOMAIN queue' /\ queue[j] = queue'[j - 1]) BY <2>1, SMT
  <2> QED BY <2>1, <2>2, <2>3, SMT
<1>4. h \in stopped \cup aimed BY <1>3 DEF Timer, Posted
<1> HIDE DEF h
<1>5. wpc' \in [Waits -> Places] /\ old' \in [Waits -> Waits \cup {None}] /\ \A v \in Waits : Moves(v)
  BY <1>1 DEF Timer, Types, CoroutineType, Moves
<1>6. \A v \in {h} \cap armed : v \in stopped \cup aimed BY <1>4
<1>7. /\ TimerType' /\ CoroutineType' /\ OpType' /\ EndType' /\ (\A v \in Waits : Waiting(v)')
      /\ Ended({h} \cap armed, "aborted") /\ Later
  BY <1>1, <1>5, <1>6, CancelKeeps
<1>8. Posted'
  <2>1. \A j \in DOMAIN queue' : queue'[j] \in stopped \cup aimed BY <1>3 DEF Timer, Posted
  <2> QED BY <1>1, <2>1 DEF Timer, Posted
<1>9. PostType' BY <1>1, <1>3 DEF Timer, Types, PostType
<1>10. Pending'
  <2>1. ASSUME NEW v \in armed' PROVE Named(v)'
    <3>1. v \in armed /\ v # h /\ Named(v) BY <1>7 DEF Ended, Timer, Pending
    <3>2. CASE \E i \in DOMAIN queue : queue[i] = v
      <4>1. PICK i \in DOMAIN queue : queue[i] = v BY <3>2
      <4>2. i - 1 \in DOMAIN queue' /\ queue'[i - 1] = v BY <1>3, <3>1, <4>1
      <4> QED BY <4>2 DEF Named
    <3> QED BY <1>1, <3>1, <3>2 DEF Named
  <2> QED BY <1>1, <2>1 DEF Timer, Pending
<1> QED BY <1>7, <1>8, <1>9, <1>10 DEF Timer, Types

\* A timer that expired completes its wait.
LEMMA FireStep ==
  ASSUME Timer, NEW w \in Waits, ST!Fire(w)
  PROVE  Timer'
<1>1. /\ w \in armed /\ waitDeadline[w] <= clock /\ armed' = armed \ {w}
      /\ ST!Complete({w}, "ok") /\ ST!ResetCallbacks({w})
      /\ serial' = serial /\ clock' = clock /\ waitDeadline' = waitDeadline
      /\ expiry' = expiry /\ closed' = closed /\ handle' = handle /\ calls' = calls /\ aimed' = aimed
      /\ taken' = taken /\ stopped' = stopped /\ queue' = queue
      /\ wpc' = wpc /\ snapshot' = snapshot /\ old' = old /\ res' = res
  BY DEF ST!Fire, ST!timerVars, ST!corVars
<1>2. /\ Ended({w}, "ok")
      /\ done' \in [Waits -> BOOLEAN] /\ ec' \in [Waits -> Results] /\ resumes' \in [Waits -> Nat]
  <2>1. "ok" \in Results /\ {w} \subseteq armed BY <1>1 DEF Results
  <2> QED BY <1>1, <2>1, CompletesAll
<1>3. /\ stopCb' \in [Waits -> {"none", "set", "running", "gone"}]
      /\ \A v \in Waits : stopCb'[v] = "running" => v \in stopped
  BY <1>1, CallbacksGone
<1>4. EndType' BY <1>2, <1>3 DEF EndType
<1>5. TimerType' /\ CoroutineType' /\ OpType'
  BY <1>1 DEF Timer, Types, TimerType, CoroutineType, OpType
<1>6. clock \in Nat /\ clock' \in Nat /\ Later BY <1>1, ClockNat, SMT DEF Later
<1>7. ASSUME NEW v \in Waits PROVE Waiting(v)'
  <2>1. Moves(v) BY <1>1 DEF Moves
  <2>2. stopCb'[v] = "running" => v \in stopped' BY <1>1, <1>3
  <2>3. v \in {w} => waitDeadline[v] <= clock BY <1>1
  <2> QED BY <1>1, <1>2, <1>6, <2>1, <2>2, <2>3, WaitKept
<1> QED BY <1>1, <1>2, <1>4, <1>5, <1>6, <1>7, NamesKept, PostedKept DEF Timer, Types

\* The now advances, or nothing happens.
LEMMA ClockStep ==
  ASSUME Timer, clock' \in 0..LastTick, clock <= clock',
         UNCHANGED <<serial, ST!timerVars, ST!opVars, ST!waitVars, ST!corVars, stopped, taken, queue, calls, aimed>>
  PROVE  Timer'
<1>1. /\ serial' = serial /\ armed' = armed /\ waitDeadline' = waitDeadline
      /\ expiry' = expiry /\ closed' = closed /\ handle' = handle /\ calls' = calls /\ aimed' = aimed
      /\ taken' = taken /\ stopped' = stopped /\ queue' = queue
      /\ done' = done /\ ec' = ec /\ resumes' = resumes /\ stopCb' = stopCb
      /\ wpc' = wpc /\ snapshot' = snapshot /\ old' = old /\ res' = res
  BY DEF ST!timerVars, ST!opVars, ST!waitVars, ST!corVars
<1>2. TimerType' BY <1>1 DEF Timer, Types, TimerType
<1>3. Later BY <1>1 DEF Later
<1>4. /\ stopCb' \in [Waits -> {"none", "set", "running", "gone"}]
      /\ \A v \in Waits : stopCb'[v] = "running" => v \in stopped'
      /\ stopped' \subseteq Waits /\ aimed' \subseteq Waits
  BY <1>1 DEF Timer, Types, EndType, OpType, Waiting
<1>5. Ended({}, "aborted") BY <1>1, NobodyEnds
<1>6. CoroutineType' /\ OpType' /\ EndType' /\ (\A v \in Waits : Waiting(v)')
  BY <1>1, <1>2, <1>3, <1>4, QuietKeeps
<1> QED BY <1>1, <1>2, <1>3, <1>5, <1>6, NamesKept, PostedKept DEF Timer, Types
-----------------------------------------------------------------------------
LEMMA TimerInit ==
  ASSUME None \notin Waits, MaxCalls \in Nat, LastTick \in Nat, ST!Init
  PROVE  Timer
<1>1. /\ serial \in BOOLEAN /\ clock = 0 /\ expiry = 1 /\ closed = FALSE /\ handle = None
      /\ wpc = [w \in Waits |-> "idle"] /\ snapshot = [w \in Waits |-> 1] /\ old = [w \in Waits |-> None]
      /\ waitDeadline = [w \in Waits |-> 1] /\ armed = {} /\ done = [w \in Waits |-> FALSE]
      /\ ec = [w \in Waits |-> "none"] /\ stopCb = [w \in Waits |-> "none"] /\ stopped = {}
      /\ resumes = [w \in Waits |-> 0] /\ res = [w \in Waits |-> "none"]
      /\ taken = [c \in Callers |-> None] /\ queue = <<>> /\ calls = 0 /\ aimed = {}
  BY DEF ST!Init, ST!All
<1>2. 1 \in ST!Times /\ 0 \in 0..LastTick /\ 0 \in 0..MaxCalls BY SMT DEF ST!Times
<1>3. TimerType BY <1>1, <1>2 DEF TimerType
<1>4. CoroutineType BY <1>1, <1>2 DEF CoroutineType, Places, Results
<1>5. OpType BY <1>1, <1>2 DEF OpType
<1>6. EndType BY <1>1 DEF EndType, Results
<1>7. PostType BY <1>1, SMT DEF PostType
<1>8. \A w \in Waits : Waiting(w) BY <1>1 DEF Waiting, Early
<1>9. Posted /\ Pending
  <2>1. DOMAIN queue = {} BY <1>1, SMT
  <2> QED BY <1>1, <2>1 DEF Posted, Pending
<1> QED BY <1>3, <1>4, <1>5, <1>6, <1>7, <1>8, <1>9 DEF Timer, Types

LEMMA TimerStep ==
  ASSUME Timer, ST!Next
  PROVE  Timer'
<1>1. ASSUME NEW w \in Waits, ST!Wait(w) \/ ST!StartWait(w) \/ ST!RequestStop(w) \/ ST!StopCallback(w) \/ ST!Fire(w)
      PROVE  Timer'
  <2>1. CASE ST!StartWait(w) \/ ST!Hop(w) \/ ST!SnapshotExpiry(w) BY <2>1, BeforeRegister
  <2>2. CASE ST!Register(w) BY <2>2, RegisterClosed, RegisterOpen
  <2>3. CASE ST!CancelOld(w) BY <2>3, CancelOldStep
  <2>4. CASE ST!CheckStop(w) \/ ST!InstallCallback(w) BY <2>4, StopSeen, StopAhead
  <2>5. CASE ST!Resume(w) BY <2>5, ResumeStep
  <2>6. CASE ST!RequestStop(w) BY <2>6, RequestStopStep
  <2>7. CASE ST!StopCallback(w) BY <2>7, StopCallbackStep
  <2>8. CASE ST!Fire(w) BY <2>8, FireStep
  <2> QED BY <1>1, <2>1, <2>2, <2>3, <2>4, <2>5, <2>6, <2>7, <2>8 DEF ST!Wait
<1>2. ASSUME NEW c \in Callers, ST!Use(c) \/ ST!PostCancel(c) PROVE Timer'
  BY <1>2, UseStep, PostCancelStep
<1>3. CASE ST!RunPosted BY <1>3, RunPostedStep
<1>4. CASE ST!Tick
  <2>1. clock < LastTick /\ clock' = clock + 1 /\ clock \in 0..LastTick /\ LastTick \in Nat
    BY <1>4, Bounds DEF ST!Tick, Timer, Types, TimerType
  <2>2. clock' \in 0..LastTick /\ clock <= clock' BY <2>1, SMT
  <2> QED BY <1>4, <2>2, ClockStep DEF ST!Tick
<1> QED BY <1>1, <1>2, <1>3, <1>4 DEF ST!Next

LEMMA TimerStutter ==
  ASSUME Timer, UNCHANGED ST!vars
  PROVE  Timer'
<1>1. UNCHANGED <<serial, ST!timerVars, ST!opVars, ST!waitVars, ST!corVars, stopped, taken, queue, calls, aimed>> /\ clock' = clock
  BY DEF ST!vars
<1>2. clock' \in 0..LastTick /\ clock <= clock' BY <1>1, ClockNat, SMT DEF Timer, Types, TimerType
<1> QED BY <1>1, <1>2, ClockStep

-----------------------------------------------------------------------------
LEMMA WaitsKept ==
  ASSUME Timer, UNCHANGED waitVars
  PROVE  Timer'
<1>1. UNCHANGED ST!vars BY DEF waitVars, ST!vars, ST!timerVars, ST!opVars, ST!waitVars, ST!corVars
<1> QED BY <1>1, TimerStutter
-----------------------------------------------------------------------------
\* Both layers: one moves, the other keeps its state.
Timers == Registry /\ NoOversleep /\ Counted /\ Timer

LEMMA TimersInit ==
  ASSUME MCInit
  PROVE  Timers /\ RO!Init
<1>1. Unused BY RegistryInit DEF MCInit, Quiet, Unused
<1>2. Timer BY WaitAssumption, TimerInit DEF MCInit
<1> QED BY <1>1, <1>2, RegistryUnused, CountUnused DEF Timers

LEMMA TimersStep ==
  ASSUME Timers, [MCNext]_allVars
  PROVE  Timers' /\ [RO!Next]_(RO!opVars)
<1>1. CASE Next /\ UNCHANGED waitVars
  <2>1. Registry' /\ NoOversleep' /\ Contract BY <1>1, RegistryStep DEF Timers
  <2>2. Counted' BY <1>1, CountStep DEF Timers
  <2>3. Timer' BY <1>1, WaitsKept DEF Timers
  <2> QED BY <2>1, <2>2, <2>3, ContractStep DEF Timers
<1>2. ASSUME UNCHANGED vars, Timer' PROVE Timers' /\ [RO!Next]_(RO!opVars)
  <2>1. Registry' /\ NoOversleep' /\ Armed' = Armed /\ UNCHANGED opVars BY <1>2, RegistryStutter DEF Timers
  <2>2. Counted' BY <1>2, CountStep DEF Timers
  <2> QED BY <1>2, <2>1, <2>2 DEF Timers, opVars, RO!opVars
<1>3. CASE ST!Next /\ UNCHANGED vars BY <1>2, <1>3, TimerStep DEF Timers
<1>4. CASE UNCHANGED allVars BY <1>2, <1>4, WaitsKept DEF Timers, allVars
<1> QED BY <1>1, <1>3, <1>4 DEF MCNext

\* The bookkeeping of timer_registry and of the waits of steady_timer: nodes,
\* tokens and counts agree, every op has one holder, and every wait is resumed
\* once, by whoever comes first.
THEOREM TimersInvariant == MCSpec => []TimersConsistent
<1>1. MCInit => Timers BY TimersInit
<1>2. Timers /\ [MCNext]_allVars => Timers' BY TimersStep
<1>3. Timers => TimersConsistent
  <2>1. ASSUME Timers PROVE NodesConsistent BY <2>1, RegistryMeans, CountedForm DEF Timers
  <2>2. ASSUME Timers PROVE ST!WaitsConsistent BY <2>2, TimerMeans DEF Timers
  <2> QED BY <2>1, <2>2 DEF TimersConsistent
<1> QED BY <1>1, <1>2, <1>3, PTL DEF MCSpec

\* No timer completes early or out of order, no sleep is too long, and no wait
\* of a steady_timer ends without a cause.
THEOREM TimersOnTimeInvariant == MCSpec => []TimersOnTime
<1>1. MCInit => Timers BY TimersInit
<1>2. Timers /\ [MCNext]_allVars => Timers' BY TimersStep
<1>3. Timers => TimersOnTime BY RegistryMeans, TimerMeans DEF Timers, TimersOnTime
<1> QED BY <1>1, <1>2, <1>3, PTL DEF MCSpec

\* A steady_timer has at most one pending wait that nobody is about to cancel.
THEOREM OnePendingInvariant == MCSpec => []OnePending
<1>1. MCInit => Timers BY TimersInit
<1>2. Timers /\ [MCNext]_allVars => Timers' BY TimersStep
<1>3. Timers => OnePending BY TimerMeans DEF Timers, OnePending
<1> QED BY <1>1, <1>2, <1>3, PTL DEF MCSpec

\* timer_registry implements ReactorOp.
THEOREM TimersImplement == MCSpec => ImplementsReactorOp
<1>1. MCInit => Timers /\ RO!Init BY TimersInit
<1>2. Timers /\ [MCNext]_allVars => Timers' /\ [RO!Next]_(RO!opVars) BY TimersStep
<1> QED BY <1>1, <1>2, PTL DEF MCSpec, ImplementsReactorOp, RO!Spec

=============================================================================
