---------------------------- MODULE SocketProofs ----------------------------
(***************************************************************************)
(* The sockets for every number of resources, operations, threads, calls   *)
(* and failures, with every class: stream, datagram, acceptor and the base *)
(* by itself.  SocketInv is inductive; it has three parts.                 *)
(*                                                                         *)
(*   Guards   inflight of a resource counts the operations inside it, and  *)
(*            a resource is not let go of before they have left it.        *)
(*   Reached  a wait that is not finished is in its slot, or whoever took  *)
(*            it from there is about to cancel it.                         *)
(*   Owns     one operation of each kind, "connecting" belongs to one, and *)
(*            what is closed is as new.                                    *)
(*                                                                         *)
(* Each shared step of SocketBase has a lemma that says what it keeps, for *)
(* whichever operation or call takes it; the steps of the three classes    *)
(* are then put together from those.                                       *)
(***************************************************************************)
EXTENDS Sockets, Sequences, TLAPS

-----------------------------------------------------------------------------
\* Where an operation is: inside a wait only from its place in the loop, and
\* with the resource it acquired until it returns.
Placed(o) ==
  /\ class = "base" => /\ opc[o] = "idle"
                       /\ wpc[o] = "idle" => held[o] = NoRes
                       /\ wpc[o] \notin {"idle", "done"} => held[o] # NoRes
  /\ class # "base" => /\ wpc[o] # "idle" <=> opc[o] = "wait"
                       /\ held[o] = NoRes <=> opc[o] \in {"idle", "done"}
  /\ opc[o] = "start" => class = "stream" /\ ~Connects(o)
  /\ opc[o] \in {"check2", "soerror", "check3", "store"} => Connects(o)
  /\ opc[o] \in {"accepted", "recheck"} => kind[o] = "accept"

\* The resource of the socket is open, and one that was taken from it does not
\* come back; a call has the resource it works on, and one that takes it from
\* the socket has it alone.
Fetched == {"mark", "take", "release", "bump_read", "bump_write", "take_read", "take_write", "store"}
Releasing(t) == tpc[t] = "release" \/ after[t] = "release"
Called(t) ==
  /\ tres[t] <= opened /\ (tpc[t] \in Fetched => tres[t] # NoRes)
  /\ after[t] # "idle" => tpc[t] \in {"mark", "take"}
  /\ tpc[t] = "mark" => tres[t] # res
  /\ Releasing(t) => tres[t] \in Res /\ tres[t] # res /\ inflight[tres[t]] = 0
  /\ tpc[t] \in {"clear", "close"} => calls # 0
Resources ==
  /\ res <= opened /\ (res # NoRes => fd[res] = "open" /\ ~closing[res])
  /\ \A r \in Res : /\ r > opened => fd[r] = "none" /\ ~closing[r]
                    /\ fd[r] = "released" => inflight[r] = 0
  /\ \A o \in Ops : held[o] <= opened
  /\ \A t \in Threads : Called(t)

\* The waits: who is in a slot, whose handle is stored, and what a cancel that
\* comes before the handle is stored leaves behind.
Slotted(o) ==
  LET r == held[o]
      d == DirOf(o)
  IN /\ wpc[o] = "handle" => slot[r][d] \in {o, None}
     /\ wpc[o] = "waiting" /\ slot[r][d] = o => handle[r][d] = o \/ o \in cancels
     /\ wpc[o] \in {"register", "handle"} => myCancel[o] <= cancelEpoch[r][d]
     /\ o \in registered => /\ wpc[o] \in {"handle", "waiting"}
                            /\ wpc[o] = "handle" => myCancel[o] # cancelEpoch[r][d]
OneRegisters == \A a, b \in Ops : OnReactor(a) /\ OnReactor(b) => a = b
SlotsHeld ==
  \A r \in Res, d \in Dirs, o \in Ops :
    slot[r][d] = o => held[o] = r /\ DirOf(o) = d /\ wpc[o] \in {"handle", "waiting"} /\ waitRes[o] = "none"
ClosingTaken ==
  \A r \in Res, d \in Dirs :
    closing[r] /\ handle[r][d] # None => \E t \in Threads : tres[t] = r /\ tpc[t] = "take"
Waits == OneRegisters /\ SlotsHeld /\ ClosingTaken /\ \A o \in Ops : Slotted(o)

\* What an operation has to itself, and what it can count on.
Exclusive ==
  /\ \A o \in Ops : Running(o) => active[kind[o]]
  /\ \A a, b \in Ops : Running(a) /\ Running(b) /\ kind[a] = kind[b] => a = b
  /\ \A o \in Ops : Connects(o) /\ Running(o) => state # "connected"
  /\ \A o \in Ops : class = "stream" /\ ~Connects(o) /\ (opc[o] = "start" \/ Running(o)) =>
                      state = "connected" \/ Closed(held[o])

\* What close has to undo, and a success that comes after it.
Unclosed == res # NoRes /\ \A t \in Threads : tpc[t] # "close"
Clean ==
  /\ class = "base" => state = "none" /\ shut = {}
  /\ state \notin {Fresh[class], "connecting"} \/ shut # {} => raced \/ Unclosed

Guards == (\A o \in Ops : Placed(o)) /\ Resources /\ InflightExact /\ NeverTakenAway
Reached == Waits /\ CancelReachesWaits
Owns == Exclusive /\ ConnectingIsOwned /\ Clean
SocketInv == TypeOK /\ Guards /\ Reached /\ Owns

\* What the count of guards uses of finite sets and their sizes; SizesHold,
\* below, has it from FiniteSetTheorems.
Size(S) == Cardinality(S)
Finite(S) == IsFiniteSet(S)
Sizes == /\ Size({}) = 0 /\ \A S \in SUBSET Ops : Size(S) \in Nat
         /\ \A S \in SUBSET Ops : \A x \in S : Size(S \ {x}) = Size(S) - 1
OpsIn(r) == {o \in Ops : held[o] = r /\ InOperation(o)}
OpsWaiting(r) == {o \in Ops : held[o] = r /\ Guarded(o)}

-----------------------------------------------------------------------------
USE Zenon

LEMMA Bounds == MaxRes \in Nat /\ MaxCalls \in Nat /\ None \notin Ops /\ NoRes = 0 /\ NoRes \notin Res
BY SocketAssumption, SMT DEF NoRes, Res

LEMMA ResIs == \A r : r \in 0..MaxRes <=> r = NoRes \/ r \in Res
BY SocketAssumption, SMT DEF NoRes, Res

LEMMA Directions == \A o \in Ops : DirOf(o) \in Dirs
BY DEF DirOf, Dirs

LEMMA ConnectsIsStream ==
  ASSUME TypeOK, NEW o \in Ops
  PROVE  /\ Connects(o) => class = "stream"
         /\ class = "stream" => kind[o] \in {"read", "write", "connect"}
         /\ class = "datagram" => kind[o] \in {"send", "receive"}
         /\ class = "acceptor" => kind[o] = "accept"
         /\ class = "base" => kind[o] \in {"wait_read", "wait_write"}
         /\ class \in {"base", "stream", "datagram", "acceptor"}
         /\ kind[o] \in AllKinds
<1>1. class \in {"base", "stream", "datagram", "acceptor"} BY DEF TypeOK, Classes, Kinds
<1>2. kind[o] \in Kinds[class] BY DEF TypeOK
<1>3. /\ Kinds["base"] = {"wait_read", "wait_write"} /\ Kinds["stream"] = {"read", "write", "connect"}
      /\ Kinds["datagram"] = {"send", "receive"} /\ Kinds["acceptor"] = {"accept"}
  BY DEF Kinds
<1>4. kind[o] \in AllKinds BY <1>2 DEF AllKinds, TypeOK
<1> QED BY <1>1, <1>2, <1>3, <1>4 DEF Connects

LEMMA FreshIs == /\ Fresh["base"] = "none" /\ Fresh["stream"] = "disconnected"
                 /\ Fresh["datagram"] = "idle" /\ Fresh["acceptor"] = "not_listening"
BY DEF Fresh

-----------------------------------------------------------------------------
\* The count of guards.
LEMMA Exact == InflightExact <=> \A r \in Res : inflight[r] = Size(OpsIn(r)) + Size(OpsWaiting(r))
BY DEF InflightExact, Size, OpsIn, OpsWaiting

LEMMA ExactNext == InflightExact' <=> \A r \in Res : inflight'[r] = Size(OpsIn(r)') + Size(OpsWaiting(r)')
BY DEF InflightExact, Size, OpsIn, OpsWaiting, Res

LEMMA Sets == \A r : OpsIn(r) \in SUBSET Ops /\ OpsWaiting(r) \in SUBSET Ops
BY DEF OpsIn, OpsWaiting

LEMMA SameCount ==
  ASSUME InflightExact, inflight' = inflight,
         \A r \in Res : OpsIn(r)' = OpsIn(r) /\ OpsWaiting(r)' = OpsWaiting(r)
  PROVE  InflightExact'
BY Exact, ExactNext

LEMMA CountUp ==
  ASSUME InflightExact, Sizes, inflight \in [Res -> Nat], NEW q \in Res, NEW o \in Ops,
         inflight' = [inflight EXCEPT ![q] = @ + 1],
         \/ o \notin OpsIn(q) /\ OpsIn(q)' = OpsIn(q) \cup {o} /\ OpsWaiting(q)' = OpsWaiting(q)
         \/ o \notin OpsWaiting(q) /\ OpsWaiting(q)' = OpsWaiting(q) \cup {o} /\ OpsIn(q)' = OpsIn(q),
         \A r \in Res \ {q} : OpsIn(r)' = OpsIn(r) /\ OpsWaiting(r)' = OpsWaiting(r)
  PROVE  InflightExact' /\ inflight' \in [Res -> Nat] /\ \A r \in Res \ {q} : inflight'[r] = inflight[r]
<1>1. /\ inflight'[q] = inflight[q] + 1 /\ \A r \in Res \ {q} : inflight'[r] = inflight[r]
      /\ inflight' \in [Res -> Nat]
  BY SMT
<1>2. ASSUME NEW S \in SUBSET Ops, o \notin S PROVE Size(S \cup {o}) = Size(S) + 1
  <2>1. S \cup {o} \in SUBSET Ops /\ (S \cup {o}) \ {o} = S BY <1>2
  <2>2. Size(S) = Size(S \cup {o}) - 1 /\ Size(S) \in Nat /\ Size(S \cup {o}) \in Nat BY <2>1 DEF Sizes
  <2> QED BY <2>2, SMT
<1>3. /\ inflight[q] = Size(OpsIn(q)) + Size(OpsWaiting(q))
      /\ Size(OpsIn(q)) \in Nat /\ Size(OpsWaiting(q)) \in Nat
  BY Exact, Sets DEF Sizes
<1>4. inflight'[q] = Size(OpsIn(q)') + Size(OpsWaiting(q)')
  <2>1. \/ Size(OpsIn(q)') = Size(OpsIn(q)) + 1 /\ Size(OpsWaiting(q)') = Size(OpsWaiting(q))
        \/ Size(OpsWaiting(q)') = Size(OpsWaiting(q)) + 1 /\ Size(OpsIn(q)') = Size(OpsIn(q))
    BY <1>2, Sets
  <2> QED BY <1>1, <1>3, <2>1, SMT
<1>5. \A r \in Res \ {q} : inflight'[r] = Size(OpsIn(r)') + Size(OpsWaiting(r)') BY <1>1, Exact
<1> QED BY <1>1, <1>4, <1>5, ExactNext

LEMMA CountDown ==
  ASSUME InflightExact, Sizes, inflight \in [Res -> Nat], NEW q \in Res, NEW o \in Ops,
         inflight' = [inflight EXCEPT ![q] = @ - 1],
         \/ o \in OpsIn(q) /\ OpsIn(q)' = OpsIn(q) \ {o} /\ OpsWaiting(q)' = OpsWaiting(q)
         \/ o \in OpsWaiting(q) /\ OpsWaiting(q)' = OpsWaiting(q) \ {o} /\ OpsIn(q)' = OpsIn(q),
         \A r \in Res \ {q} : OpsIn(r)' = OpsIn(r) /\ OpsWaiting(r)' = OpsWaiting(r)
  PROVE  /\ InflightExact' /\ inflight' \in [Res -> Nat] /\ inflight[q] # 0
         /\ \A r \in Res \ {q} : inflight'[r] = inflight[r]
<1>1. inflight'[q] = inflight[q] - 1 /\ \A r \in Res \ {q} : inflight'[r] = inflight[r] BY SMT
<1>2. ASSUME NEW S \in SUBSET Ops, o \in S PROVE Size(S \ {o}) = Size(S) - 1 /\ Size(S \ {o}) \in Nat
  BY <1>2 DEF Sizes
<1>3. /\ inflight[q] = Size(OpsIn(q)) + Size(OpsWaiting(q))
      /\ Size(OpsIn(q)) \in Nat /\ Size(OpsWaiting(q)) \in Nat
  BY Exact, Sets DEF Sizes
<1>4. inflight'[q] = Size(OpsIn(q)') + Size(OpsWaiting(q)') /\ inflight'[q] \in Nat /\ inflight[q] # 0
  <2>1. /\ Size(OpsIn(q)') \in Nat /\ Size(OpsWaiting(q)') \in Nat
        /\ \/ Size(OpsIn(q)') = Size(OpsIn(q)) - 1 /\ Size(OpsWaiting(q)') = Size(OpsWaiting(q))
           \/ Size(OpsWaiting(q)') = Size(OpsWaiting(q)) - 1 /\ Size(OpsIn(q)') = Size(OpsIn(q))
    BY <1>2, <1>3, Sets
  <2> QED BY <1>1, <1>3, <2>1, SMT
<1>5. \A r \in Res \ {q} : inflight'[r] = Size(OpsIn(r)') + Size(OpsWaiting(r)') BY <1>1, Exact
<1>6. inflight' \in [Res -> Nat] BY <1>1, <1>4, SMT
<1> QED BY <1>1, <1>4, <1>5, <1>6, ExactNext

\* No guard, no operation.
LEMMA NoGuards ==
  ASSUME InflightExact, Sizes, NEW r \in Res, inflight[r] = 0, NEW o \in Ops, held[o] = r
  PROVE  ~InOperation(o) /\ ~Guarded(o)
<1>1. /\ Size(OpsIn(r)) \in Nat /\ Size(OpsWaiting(r)) \in Nat /\ Size(OpsIn(r)) + Size(OpsWaiting(r)) = 0
  BY Exact, Sets DEF Sizes
<1>2. Size(OpsIn(r)) = 0 /\ Size(OpsWaiting(r)) = 0 BY <1>1, SMT
<1>3. ASSUME NEW S \in SUBSET Ops, o \in S, Size(S) = 0 PROVE FALSE
  <2>1. Size(S \ {o}) = 0 - 1 /\ Size(S \ {o}) \in Nat BY <1>3 DEF Sizes
  <2> QED BY <2>1, SMT
<1>4. o \notin OpsIn(r) /\ o \notin OpsWaiting(r) BY <1>2, <1>3, Sets
<1> QED BY <1>4 DEF OpsIn, OpsWaiting

-----------------------------------------------------------------------------
\* A step of the coroutine of operation o, outside the reactor.
Settled == {"idle", "guard", "done"}
OpFrame(o) ==
  /\ UNCHANGED <<res, opened, closing, fd, cancelEpoch, handle, slot, cancels, myCancel>>
  /\ UNCHANGED <<tpc, after, tres, registered, kind, class>>
  /\ \A x \in Ops \ {o} : held'[x] = held[x] /\ opc'[x] = opc[x] /\ wpc'[x] = wpc[x] /\ waitRes'[x] = waitRes[x]
  /\ wpc[o] \in Settled /\ wpc'[o] \in Settled

LEMMA SameDirection == ASSUME kind' = kind PROVE \A x \in Ops : DirOf(x)' = DirOf(x) /\ (Connects(x)' <=> Connects(x))
BY DEF DirOf, Connects

LEMMA InSlot ==
  ASSUME Reached, NEW r \in Res, NEW d \in Dirs, NEW o \in Ops, slot[r][d] = o
  PROVE  held[o] = r /\ DirOf(o) = d /\ wpc[o] \in {"handle", "waiting"} /\ waitRes[o] = "none"
<1>1. SlotsHeld BY DEF Reached, Waits
<1> QED BY <1>1, SMT DEF SlotsHeld

\* A wait that is in no slot of the reactor, and what its steps leave alone.
LEMMA Outside ==
  ASSUME TypeOK, Reached, NEW o \in Ops,
         UNCHANGED <<closing, cancelEpoch, handle, slot, cancels, tpc, tres, kind>>,
         \A x \in Ops \ {o} : /\ held'[x] = held[x] /\ wpc'[x] = wpc[x] /\ waitRes'[x] = waitRes[x]
                              /\ myCancel'[x] = myCancel[x] /\ (x \in registered' <=> x \in registered),
         \A r \in Res, d \in Dirs : slot[r][d] # o, o \notin registered',
         \/ wpc'[o] \in {"idle", "guard", "epoch", "done"}
         \/ wpc'[o] = "register" /\ ReactorFree /\ myCancel'[o] <= cancelEpoch[held'[o]][DirOf(o)]
  PROVE  Reached'
<1>1. \A x \in Ops : DirOf(x)' = DirOf(x) BY SameDirection
<1>2. SlotsHeld'
  <2> SUFFICES ASSUME NEW r \in Res, NEW d \in Dirs, NEW x \in Ops, slot'[r][d] = x
               PROVE  (held[x] = r /\ DirOf(x) = d /\ wpc[x] \in {"handle", "waiting"} /\ waitRes[x] = "none")'
    BY DEF SlotsHeld, Res
  <2>1. x # o /\ slot[r][d] = x OBVIOUS
  <2>2. held[x] = r /\ DirOf(x) = d /\ wpc[x] \in {"handle", "waiting"} /\ waitRes[x] = "none"
    BY <2>1, InSlot, SMT
  <2> QED BY <1>1, <2>1, <2>2
<1> USE DEF Reached, Waits
<1>3. OneRegisters'
  <2> SUFFICES ASSUME NEW a \in Ops, NEW b \in Ops, OnReactor(a)', OnReactor(b)' PROVE a = b
    BY DEF OneRegisters
  <2>1. \A x \in Ops \ {o} : OnReactor(x)' <=> OnReactor(x) BY DEF OnReactor
  <2>2. OnReactor(o)' => ReactorFree BY DEF OnReactor
  <2> QED BY <2>1, <2>2 DEF OneRegisters, ReactorFree
<1>4. ASSUME NEW x \in Ops PROVE Slotted(x)'
  <2>1. CASE x = o BY <1>1, <2>1 DEF Slotted
  <2>2. CASE x # o BY <1>1, <2>2 DEF Slotted
  <2> QED BY <2>1, <2>2
<1>5. ClosingTaken' BY DEF ClosingTaken, Res
<1>6. CancelReachesWaits'
  <2> SUFFICES ASSUME NEW x \in Ops, wpc'[x] = "waiting", slot'[held'[x]][DirOf(x)'] = x, Doomed(x)'
               PROVE  \/ x \in cancels'
                      \/ /\ handle'[held'[x]][DirOf(x)'] = x
                         /\ \E t \in Threads : tres'[t] = held'[x] /\ Takes(t, DirOf(x))'
    BY DEF CancelReachesWaits
  <2>1. x # o OBVIOUS
  <2>2. Doomed(x) BY <2>1 DEF Doomed
  <2>3. \A t \in Threads : Takes(t, DirOf(x))' <=> Takes(t, DirOf(x)) BY <1>1 DEF Takes, TakeAt
  <2> QED BY <1>1, <2>1, <2>2, <2>3 DEF CancelReachesWaits
<1> QED BY <1>2, <1>3, <1>4, <1>5, <1>6

LEMMA OpReached ==
  ASSUME TypeOK, Reached, NEW o \in Ops, OpFrame(o)
  PROVE  Reached'
<1>1. o \notin registered BY DEF Reached, Waits, Slotted, OpFrame, Settled
<1>2. \A r \in Res, d \in Dirs : slot[r][d] # o BY DEF Reached, Waits, SlotsHeld, OpFrame, Settled
<1>3. wpc'[o] \in {"idle", "guard", "epoch", "done"} BY DEF OpFrame, Settled
<1>4. UNCHANGED <<closing, cancelEpoch, handle, slot, cancels, myCancel, tpc, tres, kind, registered>>
  BY DEF OpFrame
<1>5. \A x \in Ops \ {o} : held'[x] = held[x] /\ wpc'[x] = wpc[x] /\ waitRes'[x] = waitRes[x] BY DEF OpFrame
<1> QED BY <1>1, <1>2, <1>3, <1>4, <1>5, Outside

LEMMA ResourcesKept ==
  ASSUME Resources, UNCHANGED <<res, opened, closing, fd, tpc, after, tres>>,
         calls' = calls \/ calls' # 0, \A o \in Ops : held'[o] <= opened,
         \A r \in Res : inflight[r] = 0 /\ r # res => inflight'[r] = 0
  PROVE  Resources'
<1>1. ASSUME NEW t \in Threads PROVE Called(t)' BY DEF Called, Releasing, Resources
<1>2. \A r \in Res : (fd[r] = "released" => r # res) BY Bounds DEF Resources
<1> QED BY <1>1, <1>2 DEF Resources, Res

LEMMA OpGuards ==
  ASSUME TypeOK, Guards, Sizes, NEW o \in Ops, OpFrame(o), Placed(o)', held'[o] <= opened,
         InOperation(o)' => fd[held'[o]] = "open", calls' = calls \/ calls' # 0,
         \/ inflight' = inflight /\ (InOperation(o)' <=> InOperation(o)) /\ (InOperation(o) => held'[o] = held[o])
         \/ ~InOperation(o) /\ InOperation(o)' /\ held[o] \in Res /\ held'[o] = held[o] /\ held[o] = res
            /\ AddInflight(held[o])
         \/ InOperation(o) /\ ~InOperation(o)' /\ held[o] \in Res /\ RemoveInflight(held[o])
  PROVE  Guards' /\ inflight' \in [Res -> Nat]
<1>1. \A x \in Ops \ {o} : (InOperation(x)' <=> InOperation(x)) /\ (Guarded(x)' <=> Guarded(x))
  BY DEF InOperation, Guarded, OpFrame
<1>2. ~Guarded(o) /\ ~Guarded(o)' BY DEF Guarded, OpFrame, Settled
<1>3. inflight \in [Res -> Nat] /\ InflightExact BY DEF TypeOK, BaseTypeOK, Guards
<1>4. \A r \in Res : OpsWaiting(r)' = OpsWaiting(r) BY <1>1, <1>2 DEF OpsWaiting, OpFrame
<1>5. /\ InflightExact' /\ inflight' \in [Res -> Nat]
      /\ \A r \in Res : inflight[r] = 0 /\ r # res => inflight'[r] = 0
  <2>1. CASE inflight' = inflight /\ (InOperation(o)' <=> InOperation(o)) /\ (InOperation(o) => held'[o] = held[o])
    <3>1. \A r \in Res : OpsIn(r)' = OpsIn(r) BY <1>1, <2>1 DEF OpsIn, OpFrame
    <3> QED BY <1>3, <1>4, <2>1, <3>1, SameCount
  <2>2. CASE ~InOperation(o) /\ InOperation(o)' /\ held[o] \in Res /\ held'[o] = held[o] /\ held[o] = res
             /\ AddInflight(held[o])
    <3>1. PICK q \in Res : q = held[o] BY <2>2
    <3>2. \A r \in Res \ {q} : OpsIn(r)' = OpsIn(r) BY <1>1, <2>2, <3>1 DEF OpsIn, OpFrame
    <3>3. o \notin OpsIn(q) /\ OpsIn(q)' = OpsIn(q) \cup {o} BY <1>1, <2>2, <3>1 DEF OpsIn, OpFrame
    <3>4. inflight' = [inflight EXCEPT ![q] = @ + 1] BY <2>2, <3>1 DEF AddInflight
    <3> QED BY <1>3, <1>4, <2>2, <3>1, <3>2, <3>3, <3>4, CountUp
  <2>3. CASE InOperation(o) /\ ~InOperation(o)' /\ held[o] \in Res /\ RemoveInflight(held[o])
    <3>1. PICK q \in Res : q = held[o] BY <2>3
    <3>2. \A r \in Res \ {q} : OpsIn(r)' = OpsIn(r) BY <1>1, <2>3, <3>1 DEF OpsIn, OpFrame
    <3>3. o \in OpsIn(q) /\ OpsIn(q)' = OpsIn(q) \ {o} BY <1>1, <2>3, <3>1 DEF OpsIn, OpFrame
    <3>4. inflight' = [inflight EXCEPT ![q] = @ - 1] BY <2>3, <3>1 DEF RemoveInflight
    <3>5. /\ InflightExact' /\ inflight' \in [Res -> Nat] /\ inflight[q] # 0
          /\ \A r \in Res \ {q} : inflight'[r] = inflight[r]
      BY <1>3, <1>4, <3>2, <3>3, <3>4, CountDown
    <3> QED BY <3>5
  <2> QED BY <2>1, <2>2, <2>3
<1>6. \A x \in Ops : held'[x] <= opened BY DEF OpFrame, Guards, Resources
<1>7. Resources' BY <1>5, <1>6, ResourcesKept DEF OpFrame, Guards
<1>8. ASSUME NEW x \in Ops PROVE Placed(x)'
  <2>1. CASE x = o BY <2>1
  <2>2. CASE x # o
    <3>1. Placed(x) /\ UNCHANGED <<class, kind>> BY DEF Guards, OpFrame
    <3>2. held'[x] = held[x] /\ opc'[x] = opc[x] /\ wpc'[x] = wpc[x] BY <2>2 DEF OpFrame
    <3>3. Connects(x)' <=> Connects(x) BY <3>1, SameDirection
    <3> QED BY <3>1, <3>2, <3>3 DEF Placed
  <2> QED BY <2>1, <2>2
<1>9. NeverTakenAway' BY <1>1, <1>2 DEF NeverTakenAway, Guards, OpFrame
<1> QED BY <1>5, <1>7, <1>8, <1>9 DEF Guards

\* An operation that does not touch the object leaves what it promises alone.
LEMMA OpOwns ==
  ASSUME TypeOK, Owns, NEW o \in Ops, OpFrame(o), UNCHANGED <<active, state, shut, raced>>,
         Running(o)' <=> Running(o), Running(o) => held'[o] = held[o],
         opc'[o] = "start" => Running(o) \/ state = "connected"
  PROVE  Owns'
<1>1. \A x \in Ops : Running(x)' <=> Running(x) BY DEF Running, InOperation, OpFrame
<1>2. kind' = kind /\ class' = class /\ res' = res /\ tpc' = tpc BY DEF OpFrame
<1>3. \A x \in Ops : Connects(x)' <=> Connects(x) BY <1>2, SameDirection
<1>4. \A r : Closed(r)' <=> Closed(r) BY <1>2 DEF Closed
<1>5. ASSUME NEW x \in Ops, class' = "stream", ~Connects(x)', opc'[x] = "start" \/ Running(x)'
      PROVE  state' = "connected" \/ Closed(held[x])'
  <2>1. CASE x = o
    <3>1. state = "connected" \/ (Running(o) /\ held'[o] = held[o]) BY <1>1, <1>5, <2>1
    <3>2. CASE Running(o) /\ held'[o] = held[o]
      <4>1. state = "connected" \/ Closed(held[o]) BY <1>2, <1>3, <1>5, <2>1, <3>2 DEF Owns, Exclusive
      <4> QED BY <1>2, <2>1, <3>2, <4>1 DEF Closed
    <3> QED BY <3>1, <3>2
  <2>2. CASE x # o
    <3>1. held'[x] = held[x] /\ (opc[x] = "start" \/ Running(x)) BY <1>1, <1>5, <2>2 DEF OpFrame
    <3>2. state = "connected" \/ Closed(held[x]) BY <1>2, <1>3, <1>5, <3>1 DEF Owns, Exclusive
    <3> QED BY <1>2, <3>1, <3>2 DEF Closed
  <2> QED BY <2>1, <2>2
<1>6. Exclusive' BY <1>1, <1>2, <1>3, <1>5 DEF Owns, Exclusive
<1>7. ConnectingIsOwned' BY <1>1, <1>3 DEF Owns, ConnectingIsOwned
<1>8. Clean' BY <1>2 DEF Owns, Clean, Unclosed
<1> QED BY <1>6, <1>7, <1>8 DEF Owns

LEMMA OpTypes ==
  ASSUME TypeOK, NEW o \in Ops, OpFrame(o), inflight' \in [Res -> Nat], calls' \in 0..MaxCalls, storing' = storing,
         opc' \in [Ops -> {"idle", "bound", "guard", "begin", "start", "check", "syscall", "wait", "check2",
                           "soerror", "check3", "store", "accepted", "recheck", "done"}],
         wpc' \in [Ops -> {"idle", "guard", "epoch", "register", "handle", "waiting", "done"}],
         held' \in [Ops -> 0..MaxRes],
         waitRes' \in [Ops -> {"none", "ready", "error", "aborted", "not_open"}],
         epoch' = epoch, active' \in [AllKinds -> BOOLEAN], myEpoch' \in [Ops -> Nat],
         state' \in {"none", "disconnected", "connecting", "connected", "idle", "bound", "not_listening", "listening"},
         shut' \subseteq Dirs, raced' \in BOOLEAN
  PROVE  TypeOK'
<1>1. BaseTypeOK' BY DEF TypeOK, BaseTypeOK, OpFrame, Res
<1> QED BY <1>1 DEF TypeOK, OpFrame

LEMMA WaitPlace ==
  ASSUME SocketInv, NEW o \in Ops, opc[o] # "wait" \/ wpc[o] = "done"
  PROVE  opc[o] # "idle" => wpc[o] \in Settled /\ class # "base" /\ (opc[o] # "done" => held[o] \in Res)
<1>1. Placed(o) /\ held[o] \in 0..MaxRes BY DEF SocketInv, Guards, TypeOK, BaseTypeOK
<1>2. held[o] # NoRes => held[o] \in Res BY <1>1, ResIs
<1> QED BY <1>1, <1>2 DEF Placed, Settled

\* co_return.
LEMMA LeaveStep ==
  ASSUME SocketInv, Sizes, NEW o \in Ops, class # "base", wpc[o] \in Settled, Leave(o),
         UNCHANGED <<res, opened, closing, fd, cancelEpoch, handle, slot, cancels, myCancel>>,
         UNCHANGED <<tpc, after, tres, registered, kind, class>>, calls' = calls \/ calls' # 0,
         IF InOperation(o) THEN RemoveInflight(held[o]) ELSE inflight' = inflight
  PROVE  /\ OpFrame(o) /\ Guards' /\ Reached' /\ ~Running(o)' /\ opc'[o] = "done" /\ inflight' \in [Res -> Nat]
         /\ opc' \in [Ops -> {"idle", "bound", "guard", "begin", "start", "check", "syscall", "wait", "check2",
                              "soerror", "check3", "store", "accepted", "recheck", "done"}]
         /\ wpc' \in [Ops -> {"idle", "guard", "epoch", "register", "handle", "waiting", "done"}]
         /\ held' \in [Ops -> 0..MaxRes]
         /\ waitRes' \in [Ops -> {"none", "ready", "error", "aborted", "not_open"}]
<1>1. /\ opc' = [opc EXCEPT ![o] = "done"] /\ held' = [held EXCEPT ![o] = NoRes]
      /\ wpc' = [wpc EXCEPT ![o] = "idle"] /\ waitRes' = [waitRes EXCEPT ![o] = "none"]
  BY DEF Leave, Go, WGo, Answer
<1>2. TypeOK /\ BaseTypeOK BY DEF SocketInv, TypeOK
<1>3. /\ opc' \in [Ops -> {"idle", "bound", "guard", "begin", "start", "check", "syscall", "wait", "check2",
                           "soerror", "check3", "store", "accepted", "recheck", "done"}]
      /\ wpc' \in [Ops -> {"idle", "guard", "epoch", "register", "handle", "waiting", "done"}]
      /\ waitRes' \in [Ops -> {"none", "ready", "error", "aborted", "not_open"}]
  BY <1>1, <1>2 DEF TypeOK, BaseTypeOK
<1>4. held' \in [Ops -> 0..MaxRes] BY <1>1, <1>2, ResIs DEF BaseTypeOK
<1>5. opc'[o] = "done" /\ held'[o] = NoRes /\ wpc'[o] = "idle" BY <1>1, <1>2 DEF TypeOK, BaseTypeOK
<1>6. OpFrame(o) BY <1>1, <1>2, <1>5 DEF TypeOK, BaseTypeOK, OpFrame, Settled
<1>7. Reached' BY <1>2, <1>6, OpReached DEF SocketInv
<1>8. ~InOperation(o)' /\ ~Running(o)' BY <1>5 DEF InOperation, Running
<1>9. Placed(o)' BY <1>5 DEF Placed
<1>10. held'[o] <= opened
  <2>1. opened \in 0..MaxRes BY <1>2 DEF BaseTypeOK
  <2> QED BY <1>5, <2>1, Bounds, SMT
<1>11. InOperation(o) => held[o] \in Res
  <2>1. Placed(o) /\ held[o] \in 0..MaxRes BY <1>2 DEF SocketInv, Guards, BaseTypeOK
  <2> QED BY <2>1, ResIs DEF InOperation, Placed
<1>12. Guards' /\ inflight' \in [Res -> Nat]
  BY <1>2, <1>6, <1>8, <1>9, <1>10, <1>11, OpGuards DEF SocketInv
<1> QED BY <1>3, <1>4, <1>5, <1>6, <1>7, <1>8, <1>12

LEMMA LeaveUntouched ==
  ASSUME SocketInv, Sizes, NEW o \in Ops, opc[o] \in {"idle", "bound", "guard", "begin", "start"}, class # "base", Leave(o),
         UNCHANGED <<res, opened, closing, fd, cancelEpoch, handle, slot, cancels, myCancel>>,
         UNCHANGED <<tpc, after, tres, registered, kind, class>>, calls' = calls \/ calls' # 0, calls' \in 0..MaxCalls,
         IF InOperation(o) THEN RemoveInflight(held[o]) ELSE inflight' = inflight,
         UNCHANGED <<epoch, active, state, shut, raced, myEpoch, storing>>
  PROVE  SocketInv'
<1>1. wpc[o] \in Settled BY DEF SocketInv, Guards, Placed, Settled
<1>2. ~Running(o) BY DEF Running, InOperation
<1>3. TypeOK /\ Owns BY DEF SocketInv
<1>4. OpFrame(o) /\ Guards' /\ Reached' /\ ~Running(o)' /\ opc'[o] = "done" BY <1>1, LeaveStep
<1>5. TypeOK'
  <2>1. /\ active' \in [AllKinds -> BOOLEAN] /\ myEpoch' \in [Ops -> Nat] /\ shut' \subseteq Dirs /\ raced' \in BOOLEAN
        /\ state' \in {"none", "disconnected", "connecting", "connected", "idle", "bound", "not_listening", "listening"}
    BY <1>3 DEF TypeOK
  <2> QED BY <1>1, <1>3, <2>1, LeaveStep, OpTypes
<1>6. Owns' BY <1>2, <1>3, <1>4, OpOwns
<1> QED BY <1>4, <1>5, <1>6 DEF SocketInv

LEMMA EndStep ==
  ASSUME SocketInv, Sizes, NEW o \in Ops, Running(o), opc[o] # "wait" \/ wpc[o] = "done",
         NEW s, End(o, s), EndFrame,
         IF Connects(o) THEN s \in {"disconnected", "connected"} ELSE s = state
  PROVE  SocketInv'
<1>1. /\ Leave(o) /\ RemoveInflight(held[o]) /\ active' = [active EXCEPT ![kind[o]] = FALSE]
      /\ state' = s /\ raced' = (raced \/ (Connects(o) /\ s = "connected" /\ Closed(held[o])))
      /\ myEpoch' = [myEpoch EXCEPT ![o] = 0] /\ UNCHANGED <<epoch, shut>>
  BY DEF End
<1>2. /\ UNCHANGED <<res, opened, closing, fd, cancelEpoch, handle, slot, cancels, myCancel>>
      /\ UNCHANGED <<tpc, after, tres, registered, kind, class>> /\ UNCHANGED <<calls, storing>>
  BY DEF EndFrame, waitVars
<1>3. TypeOK /\ Owns BY DEF SocketInv
<1>4. InOperation(o) /\ opc[o] \notin {"idle", "done"} BY DEF Running, InOperation
<1>5. wpc[o] \in Settled /\ class # "base" /\ held[o] \in Res BY <1>4, WaitPlace
<1>6. OpFrame(o) /\ Guards' /\ Reached' /\ ~Running(o)' BY <1>1, <1>2, <1>4, <1>5, LeaveStep
<1>7. kind[o] \in AllKinds BY <1>3, ConnectsIsStream
<1>8. TypeOK'
  <2>1. active' \in [AllKinds -> BOOLEAN] BY <1>1, <1>3 DEF TypeOK
  <2>2. myEpoch' \in [Ops -> Nat] BY <1>1, <1>3, SMT DEF TypeOK
  <2>3. raced' \in BOOLEAN /\ shut' \subseteq Dirs /\ calls' \in 0..MaxCalls
    BY <1>1, <1>2, <1>3 DEF TypeOK, BaseTypeOK
  <2>4. state' \in {"none", "disconnected", "connecting", "connected", "idle", "bound", "not_listening", "listening"}
    BY <1>1, <1>3 DEF TypeOK
  <2> QED BY <1>1, <1>2, <1>3, <1>4, <1>5, <1>6, <2>1, <2>2, <2>3, <2>4, LeaveStep, OpTypes
<1>9. \A x \in Ops : Running(x)' => x # o /\ Running(x) /\ kind[x] # kind[o] /\ opc'[x] = opc[x] /\ held'[x] = held[x]
  <2> SUFFICES ASSUME NEW x \in Ops, Running(x)'
               PROVE  x # o /\ Running(x) /\ kind[x] # kind[o] /\ opc'[x] = opc[x] /\ held'[x] = held[x]
    OBVIOUS
  <2>1. x # o BY <1>6
  <2>2. opc'[x] = opc[x] /\ held'[x] = held[x] BY <1>6, <2>1 DEF OpFrame
  <2>3. Running(x) BY <2>2 DEF Running, InOperation
  <2>4. kind[x] # kind[o] BY <1>3, <2>1, <2>3 DEF Owns, Exclusive
  <2> QED BY <2>1, <2>2, <2>3, <2>4
<1>10. \A x \in Ops : Connects(x)' <=> Connects(x) BY <1>2, SameDirection
<1>11. Exclusive'
  <2>1. ASSUME NEW x \in Ops, Running(x)' PROVE active'[kind'[x]]
    <3>1. active[kind[x]] /\ kind[x] # kind[o] /\ kind[x] \in AllKinds
      BY <1>3, <1>9, <2>1, ConnectsIsStream DEF Owns, Exclusive
    <3> QED BY <1>1, <1>2, <1>3, <3>1 DEF TypeOK
  <2>2. ASSUME NEW a \in Ops, NEW b \in Ops, Running(a)', Running(b)', kind'[a] = kind'[b] PROVE a = b
    BY <1>2, <1>3, <1>9, <2>2 DEF Owns, Exclusive
  <2>3. ASSUME NEW x \in Ops, Connects(x)', Running(x)' PROVE state' # "connected"
    <3>1. Connects(x) /\ Running(x) /\ kind[x] # kind[o] BY <1>9, <1>10, <2>3
    <3>2. ~Connects(o) BY <3>1 DEF Connects
    <3> QED BY <1>1, <1>3, <3>1, <3>2 DEF Owns, Exclusive
  <2>4. ASSUME NEW x \in Ops, class' = "stream", ~Connects(x)', opc'[x] = "start" \/ Running(x)'
        PROVE  state' = "connected" \/ Closed(held[x])'
    <3>1. x # o /\ opc'[x] = opc[x] /\ held'[x] = held[x] /\ (opc[x] = "start" \/ Running(x))
      <4>1. opc'[o] = "done" BY <1>1, <1>2, <1>4, <1>5, LeaveStep
      <4> QED BY <1>6, <1>9, <2>4, <4>1 DEF OpFrame
    <3>2. state = "connected" \/ Closed(held[x]) BY <1>2, <1>3, <1>10, <2>4, <3>1 DEF Owns, Exclusive
    <3>3. Connects(o) => state # "connected" BY <1>3 DEF Owns, Exclusive
    <3>4. state' = "connected" \/ Closed(held[x]) BY <1>1, <3>2, <3>3
    <3> QED BY <1>2, <3>1, <3>4 DEF Closed
  <2> QED BY <2>1, <2>2, <2>3, <2>4 DEF Exclusive
<1>12. ConnectingIsOwned'
  <2> SUFFICES ASSUME state' = "connecting" PROVE \E x \in Ops : Connects(x)' /\ Running(x)'
    BY DEF ConnectingIsOwned
  <2>1. ~Connects(o) /\ state = "connecting" BY <1>1
  <2>2. PICK x \in Ops : Connects(x) /\ Running(x) BY <1>3, <2>1 DEF Owns, ConnectingIsOwned
  <2>3. opc'[x] = opc[x] BY <1>6, <2>1, <2>2 DEF OpFrame
  <2>4. Running(x)' BY <2>2, <2>3 DEF Running, InOperation
  <2> QED BY <1>10, <2>2, <2>4
<1>13. Clean'
  <2>1. Connects(o) => class = "stream" /\ Fresh[class] = "disconnected" BY <1>3, ConnectsIsStream, FreshIs
  <2>2. Unclosed' <=> Unclosed BY <1>2 DEF Unclosed
  <2>3. ASSUME state' = "connected", Connects(o), ~raced' PROVE Unclosed
    <3>1. ~Closed(held[o]) BY <1>1, <2>3
    <3> QED BY <1>5, <3>1, Bounds DEF Closed, Unclosed
  <2>4. CASE Connects(o) BY <1>1, <1>2, <1>3, <1>5, <2>1, <2>2, <2>3, <2>4 DEF Owns, Clean
  <2>5. CASE ~Connects(o) BY <1>1, <1>2, <1>3, <1>5, <2>2, <2>5 DEF Owns, Clean
  <2> QED BY <2>4, <2>5
<1> QED BY <1>6, <1>8, <1>11, <1>12, <1>13 DEF SocketInv, Owns

\* A step from one place to another inside an operation.
OpPoints == {"idle", "bound", "guard", "begin", "start", "check", "syscall", "wait", "check2",
             "soerror", "check3", "store", "accepted", "recheck", "done"}
WaitPoints == {"idle", "guard", "epoch", "register", "handle", "waiting", "done"}
WaitAnswers == {"none", "ready", "error", "aborted", "not_open"}

LEMMA GoStep ==
  ASSUME SocketInv, Sizes, NEW o \in Ops, InOperation(o), opc[o] # "wait" \/ wpc[o] = "done", EndFrame,
         UNCHANGED <<inflight, held, objVars, myEpoch>>, NEW p \in OpPoints, Go(o, p),
         wpc' \in [Ops -> WaitPoints], waitRes' \in [Ops -> WaitAnswers],
         \A x \in Ops \ {o} : wpc'[x] = wpc[x] /\ waitRes'[x] = waitRes[x],
         wpc'[o] = IF p = "wait" THEN "guard" ELSE "idle",
         \/ Running(o) /\ p \notin {"idle", "bound", "guard", "begin", "start", "done"}
         \/ ~Running(o) /\ p = "start" /\ state = "connected" /\ class = "stream" /\ ~Connects(o),
         p \in {"check2", "soerror", "check3", "store"} => Connects(o),
         p \in {"accepted", "recheck"} => kind[o] = "accept"
  PROVE  SocketInv'
<1>1. TypeOK /\ BaseTypeOK /\ Guards /\ Reached /\ Owns BY DEF SocketInv, TypeOK
<1>2. opc' = [opc EXCEPT ![o] = p] BY DEF Go
<1>3. opc' \in [Ops -> OpPoints] /\ opc'[o] = p /\ \A x \in Ops \ {o} : opc'[x] = opc[x]
  BY <1>1, <1>2 DEF TypeOK, OpPoints
<1>4. wpc[o] \in Settled /\ class # "base" /\ held[o] \in Res BY WaitPlace DEF InOperation
<1>5. /\ UNCHANGED <<res, opened, closing, fd, cancelEpoch, handle, slot, cancels, myCancel>>
      /\ UNCHANGED <<tpc, after, tres, registered, kind, class>> /\ UNCHANGED <<calls, storing>>
  BY DEF EndFrame, waitVars
<1>6. UNCHANGED <<epoch, active, state, shut, raced, inflight, held, myEpoch>> BY DEF objVars
<1>7. OpFrame(o)
  <2>1. wpc'[o] \in Settled BY DEF Settled
  <2> QED BY <1>3, <1>4, <1>5, <1>6, <2>1 DEF OpFrame
<1>8. InOperation(o)' /\ (Running(o)' <=> Running(o)) BY <1>3 DEF InOperation, Running
<1>9. Placed(o)'
  <2>1. Connects(o)' <=> Connects(o) BY <1>5, SameDirection
  <2>2. p \notin {"idle", "done"} OBVIOUS
  <2>3. p = "start" => class = "stream" /\ ~Connects(o) OBVIOUS
  <2> QED BY <1>3, <1>4, <1>5, <1>6, <2>1, <2>2, <2>3, Bounds DEF Placed
<1>10. held'[o] <= opened /\ fd[held'[o]] = "open" BY <1>1, <1>6 DEF Guards, Resources, NeverTakenAway
<1>11. Guards' /\ inflight' \in [Res -> Nat] BY <1>1, <1>5, <1>6, <1>7, <1>8, <1>9, <1>10, OpGuards
<1>12. Reached' BY <1>1, <1>7, OpReached
<1>13. Owns'
  <2>1. opc'[o] = "start" => Running(o) \/ state = "connected" BY <1>3
  <2> QED BY <1>1, <1>6, <1>7, <1>8, <2>1, OpOwns
<1>14. TypeOK'
  <2>1. /\ active' \in [AllKinds -> BOOLEAN] /\ myEpoch' \in [Ops -> Nat] /\ shut' \subseteq Dirs /\ raced' \in BOOLEAN
        /\ state' \in {"none", "disconnected", "connecting", "connected", "idle", "bound", "not_listening", "listening"}
    BY <1>1, <1>6 DEF TypeOK
  <2>2. held' \in [Ops -> 0..MaxRes] /\ calls' \in 0..MaxCalls BY <1>1, <1>5, <1>6 DEF BaseTypeOK
  <2> QED BY <1>1, <1>3, <1>5, <1>6, <1>7, <1>11, <2>1, <2>2, OpTypes DEF OpPoints, WaitPoints, WaitAnswers
<1> QED BY <1>11, <1>12, <1>13, <1>14 DEF SocketInv

\* A step before the operation has its guard, and the one that takes it.
LEMMA EnterStep ==
  ASSUME SocketInv, Sizes, NEW o \in Ops, ~InOperation(o), class # "base", opc[o] # "done",
         UNCHANGED <<res, opened, closing, fd, cancelEpoch, handle, slot, cancels, myCancel>>,
         UNCHANGED <<tpc, after, tres, registered, kind, class>>, calls' = calls \/ calls' # 0, calls' \in 0..MaxCalls,
         UNCHANGED <<wpc, waitRes, objVars, myEpoch, storing>>,
         held' \in [Ops -> 0..MaxRes], \A x \in Ops \ {o} : held'[x] = held[x],
         held'[o] \in Res, held'[o] <= opened, NEW p \in OpPoints, Go(o, p),
         \/ p \in {"bound", "guard"} /\ inflight' = inflight
         \/ p = "begin" /\ held'[o] = held[o] /\ held[o] = res /\ GuardOk(held[o]) /\ AddInflight(held[o])
  PROVE  SocketInv'
<1>1. TypeOK /\ BaseTypeOK /\ Guards /\ Reached /\ Owns BY DEF SocketInv, TypeOK
<1>2. opc' = [opc EXCEPT ![o] = p] BY DEF Go
<1>3. opc' \in [Ops -> OpPoints] /\ opc'[o] = p /\ \A x \in Ops \ {o} : opc'[x] = opc[x]
  BY <1>1, <1>2 DEF TypeOK, OpPoints
<1>4. opc[o] # "wait" BY DEF InOperation
<1>5. wpc[o] = "idle" BY <1>1, <1>4 DEF Guards, Placed
<1>6. UNCHANGED <<epoch, active, state, shut, raced, wpc, waitRes, myEpoch, storing>> BY DEF objVars
<1>7. OpFrame(o)
  <2>1. wpc[o] \in Settled /\ wpc'[o] \in Settled BY <1>5, <1>6 DEF Settled
  <2>2. \A x \in Ops \ {o} : held'[x] = held[x] /\ opc'[x] = opc[x] /\ wpc'[x] = wpc[x] /\ waitRes'[x] = waitRes[x]
    BY <1>3, <1>6
  <2> QED BY <2>1, <2>2 DEF OpFrame
<1>8. ~Running(o) /\ ~Running(o)' /\ (InOperation(o)' <=> p = "begin") BY <1>3 DEF InOperation, Running
<1>9. Placed(o)'
  <2>1. p \notin {"idle", "done", "wait", "start", "check2", "soerror", "check3", "store", "accepted", "recheck"} OBVIOUS
  <2> QED BY <1>3, <1>5, <1>6, <2>1, Bounds DEF Placed
<1>10. InOperation(o)' => fd[held'[o]] = "open" BY <1>8 DEF GuardOk
<1>11. Guards' /\ inflight' \in [Res -> Nat] BY <1>1, <1>7, <1>8, <1>9, <1>10, OpGuards
<1>12. Reached' BY <1>1, <1>7, OpReached
<1>13. Owns'
  <2>1. opc'[o] # "start" BY <1>3
  <2> QED BY <1>1, <1>6, <1>7, <1>8, <2>1, OpOwns
<1>14. TypeOK'
  <2>1. /\ active' \in [AllKinds -> BOOLEAN] /\ myEpoch' \in [Ops -> Nat] /\ shut' \subseteq Dirs /\ raced' \in BOOLEAN
        /\ state' \in {"none", "disconnected", "connecting", "connected", "idle", "bound", "not_listening", "listening"}
    BY <1>1, <1>6 DEF TypeOK
  <2>2. wpc' \in [Ops -> WaitPoints] /\ waitRes' \in [Ops -> WaitAnswers]
    BY <1>1, <1>6 DEF BaseTypeOK, WaitPoints, WaitAnswers
  <2> QED BY <1>1, <1>3, <1>6, <1>7, <1>11, <2>1, <2>2, OpTypes DEF OpPoints, WaitPoints, WaitAnswers
<1> QED BY <1>11, <1>12, <1>13, <1>14 DEF SocketInv

\* try_start.
LEMMA BeginStep ==
  ASSUME SocketInv, Sizes, NEW o \in Ops, NEW p \in {"begin", "start"}, NEW s, NEW sh, Begin(o, p, s, sh),
         \/ Connects(o) /\ state = "disconnected" /\ s = "connecting" /\ sh = {}
         \/ ~Connects(o) /\ s = state /\ sh = shut /\ (class = "stream" => p = "start")
  PROVE  SocketInv'
<1>1. TypeOK /\ BaseTypeOK /\ Guards /\ Reached /\ Owns BY DEF SocketInv, TypeOK
<1>2. /\ opc[o] = p /\ ~active[kind[o]] /\ active' = [active EXCEPT ![kind[o]] = TRUE]
      /\ myEpoch' = [myEpoch EXCEPT ![o] = epoch[kind[o]]] /\ state' = s /\ shut' = sh
      /\ opc' = [opc EXCEPT ![o] = "check"] /\ UNCHANGED <<epoch, raced, inflight, held, wpc, waitRes>>
      /\ UNCHANGED <<res, opened, closing, fd, cancelEpoch, handle, slot, cancels, myCancel>>
      /\ UNCHANGED <<tpc, after, tres, registered, kind, class>> /\ UNCHANGED <<calls, storing>>
  BY DEF Begin, TryStart, Go, EndFrame, waitVars
<1>3. "check" \in OpPoints BY DEF OpPoints
<1>4. opc' \in [Ops -> OpPoints] /\ opc'[o] = "check" /\ \A x \in Ops \ {o} : opc'[x] = opc[x]
  BY <1>1, <1>2, <1>3 DEF TypeOK, OpPoints
<1>5. InOperation(o) /\ ~Running(o) BY <1>2 DEF InOperation, Running
<1>6. wpc[o] = "idle" /\ class # "base" /\ held[o] \in Res
  <2>1. wpc[o] \in Settled /\ class # "base" /\ held[o] \in Res BY <1>2, WaitPlace
  <2> QED BY <1>1, <1>2, <2>1 DEF Guards, Placed
<1>7. OpFrame(o)
  <2>1. wpc[o] \in Settled BY <1>6 DEF Settled
  <2> QED BY <1>2, <1>4, <2>1 DEF OpFrame
<1>8. InOperation(o)' /\ Running(o)' BY <1>4 DEF InOperation, Running
<1>9. Placed(o)' BY <1>2, <1>4, <1>6, Bounds DEF Placed
<1>10. held'[o] <= opened /\ fd[held'[o]] = "open" BY <1>1, <1>2, <1>5 DEF Guards, Resources, NeverTakenAway
<1>11. Guards' /\ inflight' \in [Res -> Nat] BY <1>1, <1>2, <1>5, <1>7, <1>8, <1>9, <1>10, OpGuards
<1>12. Reached' BY <1>1, <1>7, OpReached
<1>13. kind[o] \in AllKinds BY <1>1, ConnectsIsStream
<1>14. TypeOK'
  <2>1. active' \in [AllKinds -> BOOLEAN] BY <1>1, <1>2 DEF TypeOK
  <2>2. myEpoch' \in [Ops -> Nat]
    <3>1. epoch[kind[o]] \in Nat /\ myEpoch \in [Ops -> Nat] BY <1>1, <1>13 DEF TypeOK
    <3> QED BY <1>2, <3>1
  <2>3. shut' \subseteq Dirs /\ raced' \in BOOLEAN /\ state' \in {"none", "disconnected", "connecting", "connected", "idle", "bound", "not_listening", "listening"}
    BY <1>1, <1>2 DEF TypeOK
  <2>4. /\ wpc' \in [Ops -> WaitPoints] /\ waitRes' \in [Ops -> WaitAnswers] /\ held' \in [Ops -> 0..MaxRes]
        /\ calls' \in 0..MaxCalls
    BY <1>1, <1>2 DEF BaseTypeOK, WaitPoints, WaitAnswers
  <2> QED BY <1>1, <1>2, <1>4, <1>7, <1>11, <2>1, <2>2, <2>3, <2>4, OpTypes DEF OpPoints, WaitPoints, WaitAnswers
<1>15. \A x \in Ops \ {o} : (Running(x)' <=> Running(x)) /\ (Running(x) => kind[x] # kind[o])
  BY <1>1, <1>2, <1>4 DEF Owns, Exclusive, Running, InOperation
<1>16. \A x \in Ops : Connects(x)' <=> Connects(x) BY <1>2, SameDirection
<1>17. \A r : Closed(r)' <=> Closed(r) BY <1>2 DEF Closed
<1>18. Exclusive'
  <2>1. ASSUME NEW x \in Ops, Running(x)' PROVE active'[kind'[x]]
    <3>1. x = o \/ active[kind[x]] BY <1>1, <1>15, <2>1 DEF Owns, Exclusive
    <3>2. kind[x] \in AllKinds BY <1>1, ConnectsIsStream
    <3> QED BY <1>1, <1>2, <1>13, <3>1, <3>2 DEF TypeOK
  <2>2. ASSUME NEW a \in Ops, NEW b \in Ops, Running(a)', Running(b)', kind'[a] = kind'[b] PROVE a = b
    BY <1>1, <1>2, <1>15, <2>2 DEF Owns, Exclusive
  <2>3. ASSUME NEW x \in Ops, Connects(x)', Running(x)' PROVE state' # "connected"
    <3>1. CASE Connects(o) BY <1>2, <3>1
    <3>2. CASE ~Connects(o)
      <4>1. x # o /\ Connects(x) /\ Running(x) /\ state' = state BY <1>2, <1>15, <1>16, <2>3, <3>2
      <4> QED BY <1>1, <4>1 DEF Owns, Exclusive
    <3> QED BY <3>1, <3>2
  <2>4. ASSUME NEW x \in Ops, class' = "stream", ~Connects(x)', opc'[x] = "start" \/ Running(x)'
        PROVE  state' = "connected" \/ Closed(held[x])'
    <3>1. ~Connects(x) /\ class = "stream" /\ held' = held BY <1>2, <1>16, <2>4
    <3>2. opc[x] = "start" \/ Running(x)
      <4>1. CASE x = o BY <1>2, <3>1, <4>1
      <4>2. CASE x # o BY <1>4, <1>15, <2>4, <4>2
      <4> QED BY <4>1, <4>2
    <3>3. state = "connected" \/ Closed(held[x]) BY <1>1, <3>1, <3>2 DEF Owns, Exclusive
    <3>4. state' = "connected" \/ Closed(held[x]) BY <1>2, <3>3
    <3> QED BY <1>2, <3>4 DEF Closed
  <2> QED BY <2>1, <2>2, <2>3, <2>4 DEF Exclusive
<1>19. ConnectingIsOwned'
  <2> SUFFICES ASSUME state' = "connecting" PROVE \E x \in Ops : Connects(x)' /\ Running(x)'
    BY DEF ConnectingIsOwned
  <2>1. CASE Connects(o) BY <1>8, <1>16, <2>1
  <2>2. CASE ~Connects(o)
    <3>1. PICK x \in Ops : Connects(x) /\ Running(x) BY <1>1, <1>2, <2>2 DEF Owns, ConnectingIsOwned
    <3>2. x # o BY <2>2, <3>1
    <3> QED BY <1>15, <1>16, <3>1, <3>2
  <2> QED BY <2>1, <2>2
<1>20. Clean' BY <1>1, <1>2, <1>6 DEF Owns, Clean, Unclosed
<1> QED BY <1>11, <1>12, <1>14, <1>18, <1>19, <1>20 DEF SocketInv, Owns

LEMMA StartStep ==
  ASSUME SocketInv, Sizes, NEW o \in Ops, Start(o)
  PROVE  SocketInv'
<1>1. /\ class # "base" /\ opc[o] = "idle"
      /\ UNCHANGED <<res, opened, closing, fd, cancelEpoch, handle, slot, cancels, myCancel>>
      /\ UNCHANGED <<tpc, after, tres, registered, kind, class>>
      /\ UNCHANGED <<objVars, myEpoch, storing, inflight>>
  BY DEF Start, StartCounted, resVars, waitVars
<1>2. calls' # 0 /\ calls' \in 0..MaxCalls
  <2>1. calls \in 0..MaxCalls /\ calls < MaxCalls /\ calls' = calls + 1
    BY DEF SocketInv, TypeOK, BaseTypeOK, Start, StartCounted
  <2> QED BY <2>1, Bounds, SMT
<1>3. ~InOperation(o) BY <1>1 DEF InOperation
<1>4. CASE res = NoRes
  <2>1. Leave(o) BY <1>4 DEF Start
  <2> QED BY <1>1, <1>2, <1>3, <2>1, LeaveUntouched DEF objVars
<1>5. CASE res # NoRes
  <2>1. /\ held' = [held EXCEPT ![o] = res] /\ UNCHANGED <<wpc, waitRes>>
        /\ Go(o, IF kind[o] = "receive" THEN "bound" ELSE "guard")
    BY <1>5 DEF Start
  <2>2. res \in 0..MaxRes /\ res <= opened /\ held \in [Ops -> 0..MaxRes]
    BY DEF SocketInv, TypeOK, BaseTypeOK, Guards, Resources
  <2>3. held' \in [Ops -> 0..MaxRes] /\ held'[o] = res /\ \A x \in Ops \ {o} : held'[x] = held[x]
    BY <2>1, <2>2
  <2>4. held'[o] \in Res /\ held'[o] <= opened BY <1>5, <2>2, <2>3, ResIs
  <2>5. PICK p \in {"bound", "guard"} : Go(o, p) BY <2>1
  <2>6. p \in OpPoints BY DEF OpPoints
  <2> QED BY <1>1, <1>2, <1>3, <2>1, <2>3, <2>4, <2>5, <2>6, EnterStep
<1> QED BY <1>4, <1>5

LEMMA EndFrames ==
  ASSUME EndFrame
  PROVE  /\ UNCHANGED <<res, opened, closing, fd, cancelEpoch, handle, slot, cancels, myCancel>>
         /\ UNCHANGED <<tpc, after, tres, registered, kind, class>> /\ UNCHANGED <<calls, storing>>
BY DEF EndFrame, waitVars

LEMMA RefuseStep ==
  ASSUME SocketInv, Sizes, NEW o \in Ops, NEW p \in {"begin", "start"}, Refuse(o, p)
  PROVE  SocketInv'
<1>1. opc[o] = p /\ Leave(o) /\ RemoveInflight(held[o]) /\ EndFrame /\ UNCHANGED <<objVars, myEpoch>>
  BY DEF Refuse
<1>2. InOperation(o) BY <1>1 DEF InOperation
<1>3. class # "base" BY <1>1, WaitPlace
<1>4. calls \in 0..MaxCalls BY DEF SocketInv, TypeOK, BaseTypeOK
<1> QED BY <1>1, <1>2, <1>3, <1>4, EndFrames, LeaveUntouched DEF objVars

\* Before the operation proper: the guard, and the state a receive looks at.
LEMMA GuardStep ==
  ASSUME SocketInv, Sizes, NEW o \in Ops, Guard(o) \/ CheckBound(o)
  PROVE  SocketInv'
<1>1. opc[o] \in {"guard", "bound"} /\ EndFrame /\ UNCHANGED <<objVars, myEpoch>> BY DEF Guard, CheckBound
<1>2. ~InOperation(o) BY <1>1 DEF InOperation
<1>3. class # "base" /\ held[o] \in Res BY <1>1, WaitPlace
<1>4. calls \in 0..MaxCalls /\ held \in [Ops -> 0..MaxRes] /\ held[o] <= opened
  BY DEF SocketInv, TypeOK, BaseTypeOK, Guards, Resources
<1>5. CASE Leave(o) /\ UNCHANGED inflight
  BY <1>1, <1>2, <1>3, <1>4, <1>5, EndFrames, LeaveUntouched DEF objVars
<1>6. CASE Go(o, "guard") /\ UNCHANGED <<held, wpc, waitRes, inflight>>
  <2>1. "guard" \in OpPoints BY DEF OpPoints
  <2> QED BY <1>1, <1>2, <1>3, <1>4, <1>6, <2>1, EndFrames, EnterStep
<1>7. CASE GuardOk(held[o]) /\ AddInflight(held[o]) /\ Go(o, "begin") /\ UNCHANGED <<held, wpc, waitRes>>
  <2>1. "begin" \in OpPoints /\ held[o] = res BY <1>7 DEF OpPoints, GuardOk
  <2> QED BY <1>1, <1>2, <1>3, <1>4, <1>7, <2>1, EndFrames, EnterStep
<1> QED BY <1>5, <1>6, <1>7 DEF Guard, CheckBound

\* The places of a running operation where a step may end it.
LEMMA Ends ==
  ASSUME SocketInv, Sizes, NEW o \in Ops, opc[o] \notin {"idle", "bound", "guard", "done", "begin", "start"},
         opc[o] # "wait" \/ wpc[o] = "done", EndFrame,
         End(o, FailState(o)) \/ End(o, OkState(o)) \/ (~Connects(o) /\ End(o, state))
  PROVE  SocketInv'
<1>1. Running(o) BY DEF Running, InOperation
<1>2. PICK s : End(o, s) /\ (IF Connects(o) THEN s \in {"disconnected", "connected"} ELSE s = state)
  BY DEF FailState, OkState
<1> QED BY <1>1, <1>2, EndStep

LEMMA Goes ==
  ASSUME SocketInv, Sizes, NEW o \in Ops, opc[o] \notin {"idle", "bound", "guard", "done", "begin", "start", "wait"},
         EndFrame, NEW p \in OpPoints \ {"idle", "bound", "guard", "done", "begin", "start", "wait"},
         Go(o, p), StayFrame,
         p \in {"check2", "soerror", "check3", "store"} => Connects(o),
         p \in {"accepted", "recheck"} => kind[o] = "accept"
  PROVE  SocketInv'
<1>1. Running(o) /\ InOperation(o) BY DEF Running, InOperation
<1>2. wpc[o] = "idle" /\ BaseTypeOK
  <2>1. class # "base" BY WaitPlace
  <2> QED BY <2>1 DEF SocketInv, TypeOK, Guards, Placed
<1>3. UNCHANGED <<inflight, held, wpc, waitRes, objVars, myEpoch>> BY DEF StayFrame
<1>4. wpc' \in [Ops -> WaitPoints] /\ waitRes' \in [Ops -> WaitAnswers]
  BY <1>2, <1>3 DEF BaseTypeOK, WaitPoints, WaitAnswers
<1> QED BY <1>1, <1>2, <1>3, <1>4, GoStep

LEMMA EnterWaitStep ==
  ASSUME SocketInv, Sizes, NEW o \in Ops, opc[o] \in {"syscall", "recheck"}, EnterWait(o), EndFrame
  PROVE  SocketInv'
<1>1. Running(o) /\ InOperation(o) BY DEF Running, InOperation
<1>2. /\ Go(o, "wait") /\ wpc' = [wpc EXCEPT ![o] = "guard"] /\ UNCHANGED <<inflight, held, waitRes, objVars, myEpoch>>
      /\ BaseTypeOK
  BY DEF SocketInv, TypeOK, EnterWait, WGo
<1>3. "wait" \in OpPoints /\ "guard" \in WaitPoints BY DEF OpPoints, WaitPoints
<1>4. /\ wpc' \in [Ops -> WaitPoints] /\ waitRes' \in [Ops -> WaitAnswers]
      /\ wpc'[o] = "guard" /\ \A x \in Ops \ {o} : wpc'[x] = wpc[x]
  BY <1>2, <1>3 DEF BaseTypeOK, WaitPoints, WaitAnswers
<1> QED BY <1>1, <1>2, <1>3, <1>4, GoStep

LEMMA WaitedStep ==
  ASSUME SocketInv, Sizes, NEW o \in Ops, Waited(o)
  PROVE  SocketInv'
<1>1. opc[o] = "wait" /\ wpc[o] = "done" /\ EndFrame /\ BaseTypeOK BY DEF Waited, SocketInv, TypeOK
<1>2. CASE GoesOn(o)
  <2>1. /\ Go(o, IF Connects(o) THEN "check2" ELSE "check") /\ wpc' = [wpc EXCEPT ![o] = "idle"]
        /\ waitRes' = [waitRes EXCEPT ![o] = "none"] /\ UNCHANGED <<inflight, held, objVars, myEpoch>>
    BY <1>2 DEF Waited, WGo, Answer
  <2>2. Running(o) /\ InOperation(o) BY <1>1 DEF Running, InOperation
  <2>3. "idle" \in WaitPoints /\ "none" \in WaitAnswers BY DEF WaitPoints, WaitAnswers
  <2>4. /\ wpc' \in [Ops -> WaitPoints] /\ waitRes' \in [Ops -> WaitAnswers]
        /\ wpc'[o] = "idle" /\ \A x \in Ops \ {o} : wpc'[x] = wpc[x] /\ waitRes'[x] = waitRes[x]
    BY <1>1, <2>1, <2>3 DEF BaseTypeOK, WaitPoints, WaitAnswers
  <2>5. PICK p \in {"check", "check2"} : Go(o, p) /\ (p = "check2" => Connects(o)) BY <2>1
  <2>6. p \in OpPoints BY DEF OpPoints
  <2> QED BY <1>1, <2>1, <2>2, <2>4, <2>5, <2>6, GoStep
<1>3. CASE ~GoesOn(o)
  <2>1. End(o, FailState(o)) BY <1>3 DEF Waited
  <2> QED BY <1>1, <2>1, Ends
<1> QED BY <1>2, <1>3

LEMMA OpStepKeeps ==
  ASSUME SocketInv, Sizes, NEW o \in Ops, OpStep(o)
  PROVE  SocketInv'
<1>1. Placed(o) /\ TypeOK BY DEF SocketInv, Guards
<1>2. "syscall" \in OpPoints /\ "soerror" \in OpPoints /\ "check3" \in OpPoints /\ "store" \in OpPoints
      /\ "accepted" \in OpPoints /\ "recheck" \in OpPoints
  BY DEF OpPoints
<1>3. CASE Guard(o) \/ CheckBound(o) BY <1>3, GuardStep
<1>4. CASE CheckTo(o, "check", "syscall")
  <2>1. opc[o] = "check" /\ EndFrame /\ ((Go(o, "syscall") /\ StayFrame) \/ End(o, FailState(o)))
    BY <1>4 DEF CheckTo
  <2> QED BY <1>2, <2>1, Goes, Ends
<1>5. CASE CheckTo(o, "check2", "soerror")
  <2>1. opc[o] = "check2" /\ EndFrame /\ ((Go(o, "soerror") /\ StayFrame) \/ End(o, FailState(o)))
    BY <1>5 DEF CheckTo
  <2>2. Connects(o) BY <1>1, <2>1 DEF Placed
  <2> QED BY <1>2, <2>1, <2>2, Goes, Ends
<1>6. CASE CheckTo(o, "check3", "store")
  <2>1. opc[o] = "check3" /\ EndFrame /\ ((Go(o, "store") /\ StayFrame) \/ End(o, FailState(o)))
    BY <1>6 DEF CheckTo
  <2>2. Connects(o) BY <1>1, <2>1 DEF Placed
  <2> QED BY <1>2, <2>1, <2>2, Goes, Ends
<1>7. CASE Syscall(o)
  <2>1. opc[o] = "syscall" /\ EndFrame /\ (End(o, OkState(o)) \/ End(o, FailState(o))) BY <1>7 DEF Syscall
  <2> QED BY <2>1, Ends
<1>8. CASE Block(o) BY <1>8, EnterWaitStep DEF Block
<1>9. CASE Waited(o) BY <1>9, WaitedStep
<1>10. CASE ConnectBegin(o)
  <2>1. /\ Connects(o) /\ \/ state = "disconnected" /\ Begin(o, "begin", "connecting", {})
                          \/ Refuse(o, "begin")
    BY <1>10 DEF ConnectBegin
  <2> QED BY <2>1, BeginStep, RefuseStep
<1>11. CASE TransferChecks(o)
  <2>1. CASE Refuse(o, "begin") BY <2>1, RefuseStep
  <2>2. CASE /\ class = "stream" /\ ~Connects(o) /\ state = "connected"
             /\ opc[o] = "begin" /\ Go(o, "start") /\ StayFrame /\ EndFrame
    <3>1. ~Running(o) /\ InOperation(o) /\ "start" \in OpPoints BY <2>2 DEF Running, InOperation, OpPoints
    <3>2. wpc[o] = "idle" BY <1>1, <2>2 DEF Placed
    <3>3. UNCHANGED <<inflight, held, wpc, waitRes, objVars, myEpoch>> BY <2>2 DEF StayFrame
    <3>4. wpc' \in [Ops -> WaitPoints] /\ waitRes' \in [Ops -> WaitAnswers]
      BY <1>1, <3>3 DEF TypeOK, BaseTypeOK, WaitPoints, WaitAnswers
    <3> QED BY <2>2, <3>1, <3>2, <3>3, <3>4, GoStep
  <2> QED BY <1>11, <2>1, <2>2 DEF TransferChecks, IsStream
<1>12. CASE TransferStart(o)
  <2>1. CASE Refuse(o, "start") BY <2>1, RefuseStep
  <2>2. CASE Begin(o, "start", state, shut)
    <3>1. opc[o] = "start" BY <2>2 DEF Begin
    <3>2. ~Connects(o) BY <1>1, <3>1 DEF Placed
    <3>3. PICK s, sh : s = state /\ sh = shut /\ Begin(o, "start", s, sh) BY <2>2
    <3> QED BY <3>2, <3>3, BeginStep
  <2> QED BY <1>12, <2>1, <2>2 DEF TransferStart
<1>13. CASE SoError(o)
  <2>1. opc[o] = "soerror" /\ EndFrame /\ ((Go(o, "check3") /\ StayFrame) \/ End(o, FailState(o)))
    BY <1>13 DEF SoError
  <2>2. Connects(o) BY <1>1, <2>1 DEF Placed
  <2> QED BY <1>2, <2>1, <2>2, Goes, Ends
<1>14. CASE StoreConnected(o)
  <2>1. opc[o] = "store" /\ EndFrame /\ End(o, OkState(o)) BY <1>14 DEF StoreConnected
  <2> QED BY <2>1, Ends
<1>15. CASE TransferBegin(o)
  <2>1. CASE Refuse(o, "begin") BY <2>1, RefuseStep
  <2>2. CASE class = "datagram" /\ Begin(o, "begin", state, shut)
    <3>1. ~Connects(o) BY <1>1, <2>2, ConnectsIsStream
    <3>2. PICK s, sh : s = state /\ sh = shut /\ Begin(o, "begin", s, sh) BY <2>2
    <3> QED BY <2>2, <3>1, <3>2, BeginStep
  <2> QED BY <1>15, <2>1, <2>2 DEF TransferBegin, IsDatagram
<1>16. CASE AcceptBegin(o)
  <2>1. CASE Refuse(o, "begin") BY <2>1, RefuseStep
  <2>2. CASE class = "acceptor" /\ Begin(o, "begin", state, shut)
    <3>1. ~Connects(o) BY <1>1, <2>2, ConnectsIsStream
    <3>2. PICK s, sh : s = state /\ sh = shut /\ Begin(o, "begin", s, sh) BY <2>2
    <3> QED BY <2>2, <3>1, <3>2, BeginStep
  <2> QED BY <1>16, <2>1, <2>2 DEF AcceptBegin, IsAcceptor
<1>17. CASE Accepted(o) BY <1>2, <1>17, Goes DEF Accepted
<1>18. CASE WouldBlock(o) BY <1>2, <1>18, Goes DEF WouldBlock
<1>19. CASE ReturnAccepted(o)
  <2>1. opc[o] = "accepted" /\ EndFrame /\ End(o, state) BY <1>19 DEF ReturnAccepted
  <2>2. ~Connects(o) BY <1>1, <2>1 DEF Placed, Connects
  <2> QED BY <2>1, <2>2, Ends
<1>20. CASE Recheck(o)
  <2>1. opc[o] = "recheck" /\ EndFrame /\ (EnterWait(o) \/ End(o, state)) BY <1>20 DEF Recheck
  <2>2. ~Connects(o) BY <1>1, <2>1 DEF Placed, Connects
  <2> QED BY <2>1, <2>2, EnterWaitStep, Ends
<1>21. CASE LoopStep(o) BY <1>3, <1>4, <1>7, <1>8, <1>9, <1>21 DEF LoopStep
<1>22. CASE StreamStep(o) BY <1>5, <1>6, <1>10, <1>11, <1>12, <1>13, <1>14, <1>22 DEF StreamStep
<1>23. CASE DatagramStep(o) BY <1>3, <1>15, <1>23 DEF DatagramStep
<1>24. CASE AcceptorStep(o) BY <1>16, <1>17, <1>18, <1>19, <1>20, <1>24 DEF AcceptorStep
<1> QED BY <1>21, <1>22, <1>23, <1>24 DEF OpStep

-----------------------------------------------------------------------------
\* A step of the base leaves what the derived socket adds alone.
Derived == UNCHANGED <<class, objVars, coVars, storing>>

LEMMA DerivedIs == Derived <=> UNCHANGED <<class, epoch, active, state, shut, raced, opc, myEpoch, storing>>
BY DEF Derived, objVars, coVars

LEMMA OwnsKept ==
  ASSUME TypeOK, Owns, UNCHANGED <<class, kind, active, state, shut, raced, opc, held>>,
         \A o \in Ops : (opc[o] = "start" \/ Running(o)) /\ Closed(held[o]) => Closed(held[o])',
         class # "base" /\ Unclosed => Unclosed'
  PROVE  Owns'
<1>1. \A o \in Ops : (Running(o)' <=> Running(o)) /\ (Connects(o)' <=> Connects(o))
  BY DEF Running, InOperation, Connects
<1>2. Exclusive'
  <2>1. ASSUME NEW o \in Ops, class' = "stream", ~Connects(o)', opc'[o] = "start" \/ Running(o)'
        PROVE  state' = "connected" \/ Closed(held[o])'
    <3>1. state = "connected" \/ Closed(held[o]) BY <1>1, <2>1 DEF Owns, Exclusive
    <3> QED BY <1>1, <2>1, <3>1
  <2> QED BY <1>1, <2>1 DEF Owns, Exclusive
<1>3. ConnectingIsOwned' BY <1>1 DEF Owns, ConnectingIsOwned
<1>4. Clean' BY FreshIs DEF Owns, Clean
<1> QED BY <1>2, <1>3, <1>4 DEF Owns

LEMMA OwnsSame ==
  ASSUME TypeOK, Owns, Derived, UNCHANGED <<kind, held, res, tpc>>
  PROVE  Owns'
<1>1. UNCHANGED <<class, kind, active, state, shut, raced, opc, held>> BY DerivedIs
<1>2. \A r : Closed(r)' <=> Closed(r) BY DEF Closed
<1>3. \A o \in Ops : Closed(held[o])' <=> Closed(held[o]) BY DEF Closed
<1>4. Unclosed' <=> Unclosed BY DEF Unclosed
<1> QED BY <1>1, <1>3, <1>4, OwnsKept

\* A step of the wait of operation o.
WaitFrame(o) ==
  /\ UNCHANGED <<res, opened, closing, fd, cancelEpoch, cancels, held>>
  /\ UNCHANGED <<tpc, after, tres, calls, kind>>
  /\ \A x \in Ops \ {o} : wpc'[x] = wpc[x] /\ myCancel'[x] = myCancel[x]
  /\ wpc[o] \notin {"idle", "done"} /\ wpc'[o] # "idle"

LEMMA WaitHeld ==
  ASSUME SocketInv, NEW o \in Ops, wpc[o] \notin {"idle", "done"}
  PROVE  held[o] \in Res /\ DirOf(o) \in Dirs
<1>1. Placed(o) /\ held[o] \in 0..MaxRes BY DEF SocketInv, Guards, TypeOK, BaseTypeOK
<1>2. held[o] # NoRes BY <1>1 DEF Placed
<1> QED BY <1>1, <1>2, ResIs, Directions

LEMMA WaitGuards ==
  ASSUME SocketInv, Sizes, NEW o \in Ops, WaitFrame(o), Derived,
         \/ inflight' = inflight /\ (Guarded(o)' <=> Guarded(o))
         \/ ~Guarded(o) /\ Guarded(o)' /\ GuardOk(held[o]) /\ AddInflight(held[o])
         \/ Guarded(o) /\ ~Guarded(o)' /\ RemoveInflight(held[o])
  PROVE  Guards' /\ inflight' \in [Res -> Nat]
<1>1. UNCHANGED <<class, kind, opc, held>> BY DerivedIs DEF WaitFrame
<1>2. \A x \in Ops : (InOperation(x)' <=> InOperation(x)) /\ (Connects(x)' <=> Connects(x))
  BY <1>1 DEF InOperation, Connects
<1>3. \A x \in Ops \ {o} : wpc'[x] = wpc[x] /\ (Guarded(x)' <=> Guarded(x)) BY DEF Guarded, WaitFrame
<1>4. inflight \in [Res -> Nat] /\ InflightExact BY DEF SocketInv, TypeOK, BaseTypeOK, Guards
<1>5. PICK q \in Res : q = held[o] BY WaitHeld DEF WaitFrame
<1>6. \A r \in Res : OpsIn(r)' = OpsIn(r) BY <1>1, <1>2 DEF OpsIn
<1>7. \A r \in Res \ {q} : OpsWaiting(r)' = OpsWaiting(r) BY <1>1, <1>3, <1>5 DEF OpsWaiting
<1>8. /\ InflightExact' /\ inflight' \in [Res -> Nat]
      /\ \A r \in Res : inflight[r] = 0 /\ r # res => inflight'[r] = 0
  <2>1. CASE inflight' = inflight /\ (Guarded(o)' <=> Guarded(o))
    <3>1. OpsWaiting(q)' = OpsWaiting(q) BY <1>1, <1>3, <1>5, <2>1 DEF OpsWaiting
    <3> QED BY <1>4, <1>6, <1>7, <2>1, <3>1, SameCount
  <2>2. CASE ~Guarded(o) /\ Guarded(o)' /\ GuardOk(held[o]) /\ AddInflight(held[o])
    <3>1. o \notin OpsWaiting(q) /\ OpsWaiting(q)' = OpsWaiting(q) \cup {o}
      BY <1>1, <1>3, <1>5, <2>2 DEF OpsWaiting
    <3>2. inflight' = [inflight EXCEPT ![q] = @ + 1] /\ q = res BY <1>5, <2>2 DEF AddInflight, GuardOk
    <3>3. /\ InflightExact' /\ inflight' \in [Res -> Nat] /\ \A r \in Res \ {q} : inflight'[r] = inflight[r]
      BY <1>4, <1>6, <1>7, <3>1, <3>2, CountUp
    <3> QED BY <3>2, <3>3
  <2>3. CASE Guarded(o) /\ ~Guarded(o)' /\ RemoveInflight(held[o])
    <3>1. o \in OpsWaiting(q) /\ OpsWaiting(q)' = OpsWaiting(q) \ {o}
      BY <1>1, <1>3, <1>5, <2>3 DEF OpsWaiting
    <3>2. inflight' = [inflight EXCEPT ![q] = @ - 1] BY <1>5, <2>3 DEF RemoveInflight
    <3>3. /\ InflightExact' /\ inflight' \in [Res -> Nat] /\ inflight[q] # 0
          /\ \A r \in Res \ {q} : inflight'[r] = inflight[r]
      BY <1>4, <1>6, <1>7, <3>1, <3>2, CountDown
    <3> QED BY <3>3
  <2> QED BY <2>1, <2>2, <2>3
<1>9. Resources'
  <2>1. \A x \in Ops : held'[x] <= opened BY <1>1 DEF SocketInv, Guards, Resources
  <2> QED BY <1>8, <2>1, ResourcesKept DEF WaitFrame, SocketInv, Guards
<1>10. ASSUME NEW x \in Ops PROVE Placed(x)'
  <2>1. Placed(x) BY DEF SocketInv, Guards
  <2>2. CASE x = o
    <3>1. wpc[o] \notin {"idle", "done"} /\ wpc'[o] # "idle" BY DEF WaitFrame
    <3> QED BY <1>1, <1>2, <2>1, <2>2, <3>1 DEF Placed
  <2>3. CASE x # o BY <1>1, <1>2, <1>3, <2>1, <2>3 DEF Placed
  <2> QED BY <2>2, <2>3
<1>11. NeverTakenAway'
  <2>1. NeverTakenAway /\ UNCHANGED <<fd, held>> BY DEF SocketInv, Guards, WaitFrame
  <2>2. Guarded(o)' => Guarded(o) \/ fd[held[o]] = "open" BY DEF GuardOk
  <2> QED BY <1>2, <1>3, <2>1, <2>2 DEF NeverTakenAway
<1> QED BY <1>8, <1>9, <1>10, <1>11 DEF Guards

LEMMA WaitTypes ==
  ASSUME SocketInv, NEW o \in Ops, WaitFrame(o), Derived, inflight' \in [Res -> Nat],
         handle' \in [Res -> [Dirs -> Ops \cup {None}]], slot' \in [Res -> [Dirs -> Ops \cup {None}]],
         wpc' \in [Ops -> WaitPoints], myCancel' \in [Ops -> Nat], waitRes' \in [Ops -> WaitAnswers],
         registered' \subseteq Ops
  PROVE  TypeOK'
<1>1. TypeOK /\ BaseTypeOK BY DEF SocketInv, TypeOK
<1>2. BaseTypeOK'
  <2>1. UNCHANGED <<res, opened, closing, fd, cancelEpoch, cancels, held, tpc, after, tres, calls>>
    BY DEF WaitFrame
  <2> QED BY <1>1, <2>1 DEF BaseTypeOK, Res, WaitPoints, WaitAnswers
<1>3. kind' = kind BY DEF WaitFrame
<1> QED BY <1>1, <1>2, <1>3, DerivedIs DEF TypeOK

-----------------------------------------------------------------------------
LEMMA WaitGuardStep ==
  ASSUME SocketInv, Sizes, NEW o \in Ops, WaitGuard(o), Derived
  PROVE  SocketInv'
<1>1. TypeOK /\ BaseTypeOK /\ Reached /\ Owns BY DEF SocketInv, TypeOK
<1>2. /\ wpc[o] = "guard" /\ UNCHANGED <<res, opened, closing, fd, cancelEpoch, handle, slot, cancels, held, myCancel>>
      /\ UNCHANGED <<tpc, after, tres, calls, registered, kind>>
  BY DEF WaitGuard, waitVars, threadVars
<1>3. \/ GuardOk(held[o]) /\ AddInflight(held[o]) /\ wpc' = [wpc EXCEPT ![o] = "epoch"] /\ waitRes' = waitRes
      \/ /\ inflight' = inflight /\ wpc' = [wpc EXCEPT ![o] = "done"]
         /\ waitRes' = [waitRes EXCEPT ![o] = IF closing[held[o]] THEN "aborted" ELSE "not_open"]
  BY DEF WaitGuard, WGo, Answer
<1>4. /\ wpc' \in [Ops -> WaitPoints] /\ waitRes' \in [Ops -> WaitAnswers] /\ wpc'[o] \in {"epoch", "done"}
      /\ \A x \in Ops \ {o} : wpc'[x] = wpc[x] /\ waitRes'[x] = waitRes[x]
  <2>1. wpc \in [Ops -> WaitPoints] /\ waitRes \in [Ops -> WaitAnswers]
    BY <1>1 DEF BaseTypeOK, WaitPoints, WaitAnswers
  <2>2. PICK w \in {"epoch", "done"} : wpc' = [wpc EXCEPT ![o] = w] BY <1>3
  <2>3. waitRes' = waitRes \/ \E a \in {"aborted", "not_open"} : waitRes' = [waitRes EXCEPT ![o] = a]
    BY <1>3
  <2>4. "epoch" \in WaitPoints /\ "done" \in WaitPoints /\ "aborted" \in WaitAnswers /\ "not_open" \in WaitAnswers
    BY DEF WaitPoints, WaitAnswers
  <2>5. wpc' \in [Ops -> WaitPoints] /\ wpc'[o] = w /\ \A x \in Ops \ {o} : wpc'[x] = wpc[x]
    BY <2>1, <2>2, <2>4
  <2>6. waitRes' \in [Ops -> WaitAnswers] /\ \A x \in Ops \ {o} : waitRes'[x] = waitRes[x]
    BY <2>1, <2>3, <2>4
  <2> QED BY <2>5, <2>6
<1>5. WaitFrame(o)
  <2>1. wpc[o] \notin {"idle", "done"} /\ wpc'[o] # "idle" BY <1>2, <1>4
  <2> QED BY <1>2, <1>4, <2>1 DEF WaitFrame
<1>6. Guards' /\ inflight' \in [Res -> Nat]
  <2>1. ~Guarded(o) BY <1>2 DEF Guarded
  <2>2. wpc'[o] = "epoch" => Guarded(o)' BY DEF Guarded
  <2>3. wpc'[o] = "done" => ~Guarded(o)' BY DEF Guarded
  <2>4. \/ GuardOk(held[o]) /\ AddInflight(held[o]) /\ wpc'[o] = "epoch"
        \/ inflight' = inflight /\ wpc'[o] = "done"
    BY <1>1, <1>3 DEF BaseTypeOK
  <2> QED BY <1>5, <2>1, <2>2, <2>3, <2>4, WaitGuards
<1>7. Reached'
  <2>1. o \notin registered BY <1>1, <1>2 DEF Reached, Waits, Slotted
  <2>2. \A r \in Res, d \in Dirs : slot[r][d] # o BY <1>1, <1>2, InSlot
  <2> QED BY <1>1, <1>2, <1>4, <2>1, <2>2, Outside
<1>8. Owns' BY <1>1, <1>2, OwnsSame
<1>9. TypeOK'
  <2>1. /\ handle' \in [Res -> [Dirs -> Ops \cup {None}]] /\ slot' \in [Res -> [Dirs -> Ops \cup {None}]]
        /\ myCancel' \in [Ops -> Nat] /\ registered' \subseteq Ops
    BY <1>1, <1>2 DEF BaseTypeOK
  <2> QED BY <1>4, <1>5, <1>6, <2>1, WaitTypes
<1> QED BY <1>6, <1>7, <1>8, <1>9 DEF SocketInv

LEMMA ReadCancelEpochStep ==
  ASSUME SocketInv, Sizes, NEW o \in Ops, ReadCancelEpoch(o), Derived
  PROVE  SocketInv'
<1>1. TypeOK /\ BaseTypeOK /\ Reached /\ Owns BY DEF SocketInv, TypeOK
<1>2. /\ wpc[o] = "epoch" /\ UNCHANGED <<res, opened, closing, fd, cancelEpoch, handle, slot, cancels, held, waitRes, inflight>>
      /\ UNCHANGED <<tpc, after, tres, calls, registered, kind>> /\ ReactorFree
      /\ wpc' = [wpc EXCEPT ![o] = "register"] /\ myCancel' = [myCancel EXCEPT ![o] = cancelEpoch[held[o]][DirOf(o)]]
  BY DEF ReadCancelEpoch, WGo, resVars, waitVars, threadVars
<1>3. cancelEpoch[held[o]][DirOf(o)] \in Nat
  <2>1. held[o] \in Res /\ DirOf(o) \in Dirs BY <1>2, WaitHeld
  <2> QED BY <1>1, <2>1 DEF BaseTypeOK
<1>4. "register" \in WaitPoints BY DEF WaitPoints
<1>5. wpc' \in [Ops -> WaitPoints] /\ wpc'[o] = "register" /\ \A x \in Ops \ {o} : wpc'[x] = wpc[x]
  BY <1>1, <1>2, <1>4 DEF BaseTypeOK, WaitPoints
<1>6. /\ myCancel' \in [Ops -> Nat] /\ myCancel'[o] = cancelEpoch[held[o]][DirOf(o)]
      /\ \A x \in Ops \ {o} : myCancel'[x] = myCancel[x]
  BY <1>1, <1>2, <1>3 DEF BaseTypeOK
<1>7. WaitFrame(o) BY <1>2, <1>5, <1>6 DEF WaitFrame
<1>8. Guards' /\ inflight' \in [Res -> Nat]
  <2>1. Guarded(o) /\ Guarded(o)' BY <1>2, <1>5 DEF Guarded
  <2> QED BY <1>2, <1>7, <2>1, WaitGuards
<1>9. Reached'
  <2>1. o \notin registered BY <1>1, <1>2 DEF Reached, Waits, Slotted
  <2>2. \A r \in Res, d \in Dirs : slot[r][d] # o BY <1>1, <1>2, InSlot
  <2>3. myCancel'[o] <= cancelEpoch[held'[o]][DirOf(o)]
    <3>1. myCancel'[o] = cancelEpoch[held'[o]][DirOf(o)] /\ cancelEpoch[held'[o]][DirOf(o)] \in Nat
      BY <1>2, <1>3, <1>6
    <3> QED BY <3>1, SMT
  <2> QED BY <1>1, <1>2, <1>5, <1>6, <2>1, <2>2, <2>3, Outside
<1>10. Owns' BY <1>1, <1>2, OwnsSame
<1>11. TypeOK'
  <2>1. /\ handle' \in [Res -> [Dirs -> Ops \cup {None}]] /\ slot' \in [Res -> [Dirs -> Ops \cup {None}]]
        /\ waitRes' \in [Ops -> WaitAnswers] /\ registered' \subseteq Ops
    BY <1>1, <1>2 DEF BaseTypeOK, WaitAnswers
  <2> QED BY <1>5, <1>6, <1>7, <1>8, <2>1, WaitTypes
<1> QED BY <1>8, <1>9, <1>10, <1>11 DEF SocketInv

LEMMA FinishWaitStep ==
  ASSUME SocketInv, Sizes, NEW o \in Ops, FinishWait(o), Derived
  PROVE  SocketInv'
<1>1. TypeOK /\ BaseTypeOK /\ Reached /\ Owns BY DEF SocketInv, TypeOK
<1>2. /\ wpc[o] = "waiting" /\ waitRes[o] # "none" /\ RemoveInflight(held[o])
      /\ UNCHANGED <<res, opened, closing, fd, cancelEpoch, handle, slot, cancels, held>>
      /\ UNCHANGED <<tpc, after, tres, calls, kind>> /\ registered' = registered \ {o}
      /\ wpc' = [wpc EXCEPT ![o] = "done"] /\ myCancel' = [myCancel EXCEPT ![o] = 0]
      /\ waitRes' = [waitRes EXCEPT ![o] = IF waitRes[o] = "ready" /\ closing[held[o]] THEN "aborted" ELSE waitRes[o]]
  BY DEF FinishWait, WGo, Answer, waitVars
<1>3. "done" \in WaitPoints /\ "aborted" \in WaitAnswers /\ 0 \in Nat BY SMT DEF WaitPoints, WaitAnswers
<1>4. wpc' \in [Ops -> WaitPoints] /\ wpc'[o] = "done" /\ \A x \in Ops \ {o} : wpc'[x] = wpc[x]
  BY <1>1, <1>2, <1>3 DEF BaseTypeOK, WaitPoints
<1>5. myCancel' \in [Ops -> Nat] /\ \A x \in Ops \ {o} : myCancel'[x] = myCancel[x]
  BY <1>1, <1>2, <1>3 DEF BaseTypeOK
<1>6. waitRes' \in [Ops -> WaitAnswers] /\ \A x \in Ops \ {o} : waitRes'[x] = waitRes[x]
  <2>1. waitRes \in [Ops -> WaitAnswers] BY <1>1 DEF BaseTypeOK, WaitAnswers
  <2>2. PICK a \in WaitAnswers : waitRes' = [waitRes EXCEPT ![o] = a] BY <1>2, <1>3, <2>1
  <2> QED BY <2>1, <2>2
<1>7. WaitFrame(o) BY <1>2, <1>4, <1>5 DEF WaitFrame
<1>8. Guards' /\ inflight' \in [Res -> Nat]
  <2>1. Guarded(o) /\ ~Guarded(o)' BY <1>2, <1>4 DEF Guarded
  <2> QED BY <1>2, <1>7, <2>1, WaitGuards
<1>9. Reached'
  <2>1. \A r \in Res, d \in Dirs : slot[r][d] # o BY <1>1, <1>2, InSlot
  <2>2. \A x \in Ops \ {o} : x \in registered' <=> x \in registered BY <1>2
  <2>3. o \notin registered' BY <1>2
  <2> QED BY <1>1, <1>2, <1>4, <1>5, <1>6, <2>1, <2>2, <2>3, Outside
<1>10. Owns' BY <1>1, <1>2, OwnsSame
<1>11. TypeOK'
  <2>1. /\ handle' \in [Res -> [Dirs -> Ops \cup {None}]] /\ slot' \in [Res -> [Dirs -> Ops \cup {None}]]
        /\ registered' \subseteq Ops
    BY <1>1, <1>2 DEF BaseTypeOK
  <2> QED BY <1>4, <1>5, <1>6, <1>7, <1>8, <2>1, WaitTypes
<1> QED BY <1>8, <1>9, <1>10, <1>11 DEF SocketInv

\* register_fd, in the three parts of the reactor's run.
LEMMA Registering ==
  ASSUME SocketInv, NEW o \in Ops, wpc[o] \in {"register", "handle"}
  PROVE  /\ \A x \in Ops \ {o} : wpc[x] \notin {"register", "handle"}
         /\ wpc[o] = "register" => o \notin registered /\ \A r \in Res, d \in Dirs : slot[r][d] # o
         /\ Slotted(o)
<1>1. Reached /\ OneRegisters /\ Slotted(o) BY DEF SocketInv, Reached, Waits
<1>2. \A x \in Ops \ {o} : wpc[x] \notin {"register", "handle"} BY <1>1 DEF OneRegisters, OnReactor
<1>3. wpc[o] = "register" => \A r \in Res, d \in Dirs : slot[r][d] # o BY <1>1, InSlot, SMT
<1>4. wpc[o] = "register" => o \notin registered BY <1>1 DEF Slotted
<1> QED BY <1>1, <1>2, <1>3, <1>4

\* A step of the wait that the reactor is running: what the other waits see.
LEMMA RegisterReached ==
  ASSUME SocketInv, NEW o \in Ops, WaitFrame(o), wpc[o] \in {"register", "handle"}, wpc'[o] \in {"handle", "waiting"},
         NEW q \in Res, q = held[o], NEW d \in Dirs, d = DirOf(o),
         \A r \in Res, e \in Dirs : r # q \/ e # d => slot'[r][e] = slot[r][e] /\ handle'[r][e] = handle[r][e],
         slot'[q][d] \in {o, None} \/ slot'[q][d] = slot[q][d],
         slot'[q][d] = o => waitRes'[o] = "none",
         \A x \in Ops \ {o} : waitRes'[x] = waitRes[x] \/ (slot[q][d] = x /\ slot'[q][d] # x),
         wpc[o] = "handle" => slot[q][d] \in {o, None},
         wpc[o] = "register" => handle' = handle,
         handle'[q][d] # handle[q][d] => ~closing[q],
         registered' = registered, Slotted(o)',
         wpc'[o] = "waiting" /\ slot'[q][d] = o => ~Doomed(o)
  PROVE  Reached'
<1>1. Reached /\ OneRegisters /\ ClosingTaken /\ (\A x \in Ops : Slotted(x)) /\ CancelReachesWaits
  BY DEF SocketInv, Reached, Waits
<1>2. /\ UNCHANGED <<closing, cancelEpoch, cancels, held, tpc, tres, kind>>
      /\ \A x \in Ops \ {o} : wpc'[x] = wpc[x] /\ myCancel'[x] = myCancel[x]
  BY DEF WaitFrame
<1>3. \A x \in Ops : DirOf(x)' = DirOf(x) BY <1>2, SameDirection
<1>4. \A x \in Ops \ {o} : wpc[x] \notin {"register", "handle"} BY Registering
<1>5. \A r \in Res, e \in Dirs : \A x \in Ops \ {o} :
        slot'[r][e] = x => slot[r][e] = x /\ waitRes'[x] = waitRes[x] /\ held[x] = r /\ DirOf(x) = e /\ wpc[x] = "waiting"
  <2> SUFFICES ASSUME NEW r \in Res, NEW e \in Dirs, NEW x \in Ops, x # o, slot'[r][e] = x
               PROVE  slot[r][e] = x /\ waitRes'[x] = waitRes[x] /\ held[x] = r /\ DirOf(x) = e /\ wpc[x] = "waiting"
    BY SMT
  <2>1. slot[r][e] = x BY Bounds, SMT
  <2>2. held[x] = r /\ DirOf(x) = e /\ wpc[x] \in {"handle", "waiting"} BY <1>1, <2>1, InSlot, SMT
  <2>3. wpc[x] = "waiting" BY <1>4, <2>2
  <2>4. waitRes'[x] = waitRes[x]
    <3>1. CASE slot[q][d] = x
      <4>1. held[x] = q /\ DirOf(x) = d BY <1>1, <3>1, InSlot, SMT
      <4> QED BY <2>2, <4>1, SMT
    <3>2. CASE slot[q][d] # x BY <3>2
    <3> QED BY <3>1, <3>2
  <2> QED BY <2>1, <2>2, <2>3, <2>4
<1>6. \A r \in Res, e \in Dirs : slot'[r][e] = o => r = q /\ e = d
  <2> SUFFICES ASSUME NEW r \in Res, NEW e \in Dirs, slot'[r][e] = o PROVE r = q /\ e = d OBVIOUS
  <2>1. CASE r # q \/ e # d
    <3>1. slot[r][e] = o BY <2>1
    <3> QED BY <1>1, <2>1, <3>1, InSlot, SMT
  <2> QED BY <2>1
<1>7. OneRegisters' BY <1>2, <1>4 DEF OneRegisters, OnReactor
<1>8. SlotsHeld'
  <2> SUFFICES ASSUME NEW r \in Res, NEW e \in Dirs, NEW x \in Ops, slot'[r][e] = x
               PROVE  (held[x] = r /\ DirOf(x) = e /\ wpc[x] \in {"handle", "waiting"} /\ waitRes[x] = "none")'
    BY DEF SlotsHeld, Res
  <2>1. CASE x = o BY <1>2, <1>3, <1>6, <2>1, SMT
  <2>2. CASE x # o
    <3>1. slot[r][e] = x /\ waitRes'[x] = waitRes[x] /\ held[x] = r /\ DirOf(x) = e /\ wpc[x] = "waiting"
      BY <1>5, <2>2, SMT
    <3>2. waitRes[x] = "none" BY <1>1, <3>1, InSlot, SMT
    <3> QED BY <1>2, <1>3, <2>2, <3>1, <3>2
  <2> QED BY <2>1, <2>2
<1>9. ASSUME NEW x \in Ops PROVE Slotted(x)'
  <2>1. CASE x # o
    <3>1. wpc'[x] = wpc[x] /\ wpc[x] \notin {"register", "handle"} BY <1>2, <1>4, <2>1
    <3>2. ASSUME wpc[x] = "waiting", slot'[held[x]][DirOf(x)] = x PROVE handle'[held[x]][DirOf(x)] = x \/ x \in cancels
      <4>1. held[x] \in Res /\ DirOf(x) \in Dirs BY <3>2, WaitHeld
      <4>2. slot[held[x]][DirOf(x)] = x BY <1>5, <2>1, <3>2, <4>1
      <4>3. handle[held[x]][DirOf(x)] = x \/ x \in cancels BY <1>1, <3>2, <4>2 DEF Slotted
      <4>4. CASE held[x] # q \/ DirOf(x) # d BY <4>1, <4>3, <4>4
      <4>5. CASE held[x] = q /\ DirOf(x) = d
        <5>1. wpc[o] = "register" BY <2>1, <4>2, <4>5, Bounds
        <5> QED BY <4>3, <5>1
      <4> QED BY <4>4, <4>5
    <3>3. x \in registered => wpc[x] \in {"handle", "waiting"} BY <1>1 DEF Slotted
    <3> QED BY <1>2, <1>3, <2>1, <3>1, <3>2, <3>3 DEF Slotted
  <2> QED BY <2>1
<1>10. ClosingTaken'
  <2> SUFFICES ASSUME NEW r \in Res, NEW e \in Dirs, closing'[r], handle'[r][e] # None
               PROVE  \E t \in Threads : tres'[t] = r /\ tpc'[t] = "take"
    BY DEF ClosingTaken, Res
  <2>1. handle'[r][e] = handle[r][e] BY <1>2
  <2> QED BY <1>1, <1>2, <2>1 DEF ClosingTaken
<1>11. CancelReachesWaits'
  <2> SUFFICES ASSUME NEW x \in Ops, wpc'[x] = "waiting", slot'[held'[x]][DirOf(x)'] = x, Doomed(x)'
               PROVE  \/ x \in cancels'
                      \/ /\ handle'[held'[x]][DirOf(x)'] = x
                         /\ \E t \in Threads : tres'[t] = held'[x] /\ Takes(t, DirOf(x))'
    BY DEF CancelReachesWaits
  <2>1. Doomed(x) BY <1>2 DEF Doomed
  <2>2. slot'[held[x]][DirOf(x)] = x BY <1>2, <1>3
  <2>3. x # o BY <2>1, <2>2
  <2>4. wpc[x] = "waiting" BY <1>2, <2>3
  <2>5. held[x] \in Res /\ DirOf(x) \in Dirs BY <2>4, WaitHeld
  <2>6. slot[held[x]][DirOf(x)] = x BY <1>5, <2>2, <2>3, <2>5, SMT
  <2>7. x \in cancels \/ (handle[held[x]][DirOf(x)] = x /\ \E t \in Threads : tres[t] = held[x] /\ Takes(t, DirOf(x)))
    BY <1>1, <2>1, <2>4, <2>6 DEF CancelReachesWaits
  <2>8. handle'[held[x]][DirOf(x)] = handle[held[x]][DirOf(x)]
    <3>1. CASE held[x] # q \/ DirOf(x) # d BY <2>5, <3>1
    <3>2. CASE held[x] = q /\ DirOf(x) = d
      <4>1. wpc[o] = "register" BY <2>3, <2>6, <3>2, Bounds, SMT
      <4> QED BY <4>1
    <3> QED BY <3>1, <3>2
  <2>9. \A t \in Threads : Takes(t, DirOf(x))' <=> Takes(t, DirOf(x)) BY <1>2, <1>3 DEF Takes, TakeAt
  <2> QED BY <1>2, <1>3, <2>7, <2>8, <2>9
<1> QED BY <1>7, <1>8, <1>9, <1>10, <1>11 DEF Reached, Waits

LEMMA RegisterWaitStep ==
  ASSUME SocketInv, Sizes, NEW o \in Ops, RegisterWait(o), Derived
  PROVE  SocketInv'
<1>1. TypeOK /\ BaseTypeOK /\ Reached /\ Owns BY DEF SocketInv, TypeOK
<1>2. /\ wpc[o] = "register" /\ UNCHANGED <<res, opened, closing, fd, cancelEpoch, handle, cancels, held, myCancel, inflight>>
      /\ UNCHANGED <<tpc, after, tres, calls, registered, kind>>
      /\ wpc' = [wpc EXCEPT ![o] = "handle"] /\ slot' = [slot EXCEPT ![held[o]][DirOf(o)] = o]
      /\ waitRes' = [w \in Ops |-> IF w = o THEN "none" ELSE IF w = slot[held[o]][DirOf(o)] THEN "aborted" ELSE waitRes[w]]
  BY DEF RegisterWait, WGo, resVars, threadVars
<1>3. held[o] \in Res /\ DirOf(o) \in Dirs BY <1>2, WaitHeld
<1>4. PICK q \in Res : q = held[o] BY <1>3
<1>5. PICK d \in Dirs : d = DirOf(o) BY <1>3
<1>6. "handle" \in WaitPoints /\ "none" \in WaitAnswers /\ "aborted" \in WaitAnswers
  BY DEF WaitPoints, WaitAnswers
<1>7. wpc' \in [Ops -> WaitPoints] /\ wpc'[o] = "handle" /\ \A x \in Ops \ {o} : wpc'[x] = wpc[x]
  BY <1>1, <1>2, <1>6 DEF BaseTypeOK, WaitPoints
<1>8. /\ slot' \in [Res -> [Dirs -> Ops \cup {None}]] /\ slot'[q][d] = o
      /\ \A r \in Res, e \in Dirs : r # q \/ e # d => slot'[r][e] = slot[r][e]
  <2>1. slot' = [slot EXCEPT ![q][d] = o] BY <1>2, <1>4, <1>5
  <2>2. slot \in [Res -> [Dirs -> Ops \cup {None}]] BY <1>1 DEF BaseTypeOK
  <2> QED BY <2>1, <2>2, SMT
<1>9. /\ waitRes' \in [Ops -> WaitAnswers] /\ waitRes'[o] = "none"
      /\ \A x \in Ops \ {o} : waitRes'[x] = waitRes[x] \/ slot[q][d] = x
  <2>1. waitRes \in [Ops -> WaitAnswers] BY <1>1 DEF BaseTypeOK, WaitAnswers
  <2> QED BY <1>2, <1>4, <1>5, <1>6, <2>1
<1>10. WaitFrame(o) BY <1>2, <1>7 DEF WaitFrame
<1>11. Guards' /\ inflight' \in [Res -> Nat]
  <2>1. Guarded(o) /\ Guarded(o)' BY <1>2, <1>7 DEF Guarded
  <2> QED BY <1>2, <1>10, <2>1, WaitGuards
<1>12. Slotted(o)'
  <2>1. DirOf(o)' = d /\ held'[o] = q /\ slot'[q][d] = o BY <1>2, <1>4, <1>5, <1>8, SameDirection
  <2>2. Slotted(o) /\ o \notin registered BY <1>2, Registering
  <2>3. myCancel'[o] <= cancelEpoch'[q][d] BY <1>2, <1>4, <1>5, <2>2 DEF Slotted
  <2> QED BY <1>2, <1>7, <2>1, <2>2, <2>3 DEF Slotted
<1>13. Reached'
  <2>1. \A x \in Ops \ {o} : waitRes'[x] = waitRes[x] \/ (slot[q][d] = x /\ slot'[q][d] # x) BY <1>8, <1>9
  <2>2. wpc[o] \in {"register", "handle"} /\ wpc'[o] \in {"handle", "waiting"} BY <1>2, <1>7
  <2>3. \A r \in Res, e \in Dirs : r # q \/ e # d => slot'[r][e] = slot[r][e] /\ handle'[r][e] = handle[r][e]
    BY <1>2, <1>8
  <2>4. slot'[q][d] \in {o, None} /\ (slot'[q][d] = o => waitRes'[o] = "none") BY <1>8, <1>9
  <2>5. /\ wpc[o] = "handle" => slot[q][d] \in {o, None}
        /\ wpc[o] = "register" => handle' = handle
        /\ handle'[q][d] # handle[q][d] => ~closing[q]
        /\ registered' = registered
        /\ wpc'[o] = "waiting" /\ slot'[q][d] = o => ~Doomed(o)
    BY <1>2, <1>7
  <2> QED BY <1>4, <1>5, <1>10, <1>12, <2>1, <2>2, <2>3, <2>4, <2>5, RegisterReached
<1>14. Owns' BY <1>1, <1>2, OwnsSame
<1>15. TypeOK'
  <2>1. handle' \in [Res -> [Dirs -> Ops \cup {None}]] /\ myCancel' \in [Ops -> Nat] /\ registered' \subseteq Ops
    BY <1>1, <1>2 DEF BaseTypeOK
  <2> QED BY <1>7, <1>8, <1>9, <1>10, <1>11, <2>1, WaitTypes
<1> QED BY <1>11, <1>13, <1>14, <1>15 DEF SocketInv

LEMMA RegisterReadyStep ==
  ASSUME SocketInv, Sizes, NEW o \in Ops, RegisterReady(o), Derived
  PROVE  SocketInv'
<1>1. TypeOK /\ BaseTypeOK /\ Reached /\ Owns BY DEF SocketInv, TypeOK
<1>2. /\ wpc[o] = "register" /\ UNCHANGED <<res, opened, closing, fd, cancelEpoch, handle, slot, cancels, held, myCancel, inflight>>
      /\ UNCHANGED <<tpc, after, tres, calls, registered, kind>> /\ slot[held[o]][DirOf(o)] = None
      /\ wpc' = [wpc EXCEPT ![o] = "handle"] /\ waitRes' = [waitRes EXCEPT ![o] = "ready"]
  BY DEF RegisterReady, WGo, Answer, resVars, waitVars, threadVars
<1>3. held[o] \in Res /\ DirOf(o) \in Dirs BY <1>2, WaitHeld
<1>4. PICK q \in Res : q = held[o] BY <1>3
<1>5. PICK d \in Dirs : d = DirOf(o) BY <1>3
<1>6. "handle" \in WaitPoints /\ "ready" \in WaitAnswers BY DEF WaitPoints, WaitAnswers
<1>7. wpc' \in [Ops -> WaitPoints] /\ wpc'[o] = "handle" /\ \A x \in Ops \ {o} : wpc'[x] = wpc[x]
  BY <1>1, <1>2, <1>6 DEF BaseTypeOK, WaitPoints
<1>8. waitRes' \in [Ops -> WaitAnswers] /\ \A x \in Ops \ {o} : waitRes'[x] = waitRes[x]
  BY <1>1, <1>2, <1>6 DEF BaseTypeOK, WaitAnswers
<1>9. slot'[q][d] = None /\ slot'[q][d] # o /\ slot' = slot BY <1>2, <1>4, <1>5, Bounds
<1>10. WaitFrame(o) BY <1>2, <1>7 DEF WaitFrame
<1>11. Guards' /\ inflight' \in [Res -> Nat]
  <2>1. Guarded(o) /\ Guarded(o)' BY <1>2, <1>7 DEF Guarded
  <2> QED BY <1>2, <1>10, <2>1, WaitGuards
<1>12. Slotted(o)'
  <2>1. DirOf(o)' = d /\ held'[o] = q /\ slot'[q][d] = None BY <1>2, <1>4, <1>5, <1>9, SameDirection
  <2>2. Slotted(o) /\ o \notin registered BY <1>2, Registering
  <2>3. myCancel'[o] <= cancelEpoch'[q][d] BY <1>2, <1>4, <1>5, <2>2 DEF Slotted
  <2> QED BY <1>2, <1>7, <2>1, <2>2, <2>3 DEF Slotted
<1>13. Reached' BY <1>2, <1>4, <1>5, <1>7, <1>8, <1>9, <1>10, <1>12, RegisterReached
<1>14. Owns' BY <1>1, <1>2, OwnsSame
<1>15. TypeOK'
  <2>1. /\ handle' \in [Res -> [Dirs -> Ops \cup {None}]] /\ slot' \in [Res -> [Dirs -> Ops \cup {None}]]
        /\ myCancel' \in [Ops -> Nat] /\ registered' \subseteq Ops
    BY <1>1, <1>2 DEF BaseTypeOK
  <2> QED BY <1>7, <1>8, <1>10, <1>11, <2>1, WaitTypes
<1> QED BY <1>11, <1>13, <1>14, <1>15 DEF SocketInv

LEMMA SetHandleStep ==
  ASSUME SocketInv, Sizes, NEW o \in Ops, SetHandle(o), Derived
  PROVE  SocketInv'
<1>1. TypeOK /\ BaseTypeOK /\ Reached /\ Owns BY DEF SocketInv, TypeOK
<1>2. /\ wpc[o] = "handle" /\ UNCHANGED <<res, opened, closing, fd, cancelEpoch, cancels, held, myCancel, inflight>>
      /\ UNCHANGED <<tpc, after, tres, calls, registered, kind>> /\ wpc' = [wpc EXCEPT ![o] = "waiting"]
  BY DEF SetHandle, WGo, resVars, threadVars
<1>3. held[o] \in Res /\ DirOf(o) \in Dirs BY <1>2, WaitHeld
<1>4. PICK q \in Res : q = held[o] BY <1>3
<1>5. PICK d \in Dirs : d = DirOf(o) BY <1>3
<1>6. "waiting" \in WaitPoints /\ "aborted" \in WaitAnswers BY DEF WaitPoints, WaitAnswers
<1>7. wpc' \in [Ops -> WaitPoints] /\ wpc'[o] = "waiting" /\ \A x \in Ops \ {o} : wpc'[x] = wpc[x]
  BY <1>1, <1>2, <1>6 DEF BaseTypeOK, WaitPoints
<1>8. Slotted(o) /\ slot[q][d] \in {o, None} BY <1>2, <1>4, <1>5, Registering DEF Slotted
<1>9. WaitFrame(o) BY <1>2, <1>7 DEF WaitFrame
<1>10. Guards' /\ inflight' \in [Res -> Nat]
  <2>1. Guarded(o) /\ Guarded(o)' BY <1>2, <1>7 DEF Guarded
  <2> QED BY <1>2, <1>9, <2>1, WaitGuards
<1>11. Owns' BY <1>1, <1>2, OwnsSame
<1>12. myCancel' \in [Ops -> Nat] /\ registered' \subseteq Ops BY <1>1, <1>2 DEF BaseTypeOK
<1>13. handle \in [Res -> [Dirs -> Ops \cup {None}]] /\ slot \in [Res -> [Dirs -> Ops \cup {None}]]
  BY <1>1 DEF BaseTypeOK
<1>14. waitRes \in [Ops -> WaitAnswers] BY <1>1 DEF BaseTypeOK, WaitAnswers
<1>15. DirOf(o)' = d /\ held'[o] = q BY <1>2, <1>4, <1>5, SameDirection
<1>16. CASE Accepts(o)
  <2>1. UNCHANGED <<slot, waitRes>> /\ handle' = [handle EXCEPT ![q][d] = IF slot[q][d] = o THEN o ELSE None]
    BY <1>4, <1>5, <1>16 DEF SetHandle
  <2>2. ~closing[q] /\ o \notin registered BY <1>2, <1>4, <1>5, <1>8, <1>16 DEF Accepts, Slotted
  <2>3. /\ handle' \in [Res -> [Dirs -> Ops \cup {None}]] /\ (slot[q][d] = o => handle'[q][d] = o)
        /\ \A r \in Res, e \in Dirs : r # q \/ e # d => handle'[r][e] = handle[r][e]
    <3>1. PICK h \in Ops \cup {None} : h = (IF slot[q][d] = o THEN o ELSE None) OBVIOUS
    <3>2. handle' = [handle EXCEPT ![q][d] = h] BY <2>1, <3>1
    <3>3. /\ [handle EXCEPT ![q][d] = h] \in [Res -> [Dirs -> Ops \cup {None}]] /\ [handle EXCEPT ![q][d] = h][q][d] = h
          /\ \A r \in Res, e \in Dirs : r # q \/ e # d => [handle EXCEPT ![q][d] = h][r][e] = handle[r][e]
      BY <1>13, SMT
    <3> QED BY <3>1, <3>2, <3>3
  <2>4. Slotted(o)' BY <1>2, <1>7, <1>15, <2>1, <2>2, <2>3 DEF Slotted
  <2>5. Reached'
    <3>1. ~Doomed(o) BY <1>4, <2>2 DEF Doomed
    <3>2. slot'[q][d] = o => waitRes'[o] = "none" BY <1>1, <2>1, InSlot, SMT
    <3>3. slot'[q][d] \in {o, None} BY <1>8, <2>1
    <3>4. wpc[o] \in {"register", "handle"} /\ wpc'[o] \in {"handle", "waiting"} BY <1>2, <1>7
    <3>5. \A r \in Res, e \in Dirs : r # q \/ e # d => slot'[r][e] = slot[r][e] /\ handle'[r][e] = handle[r][e]
      BY <2>1, <2>3
    <3>6. wpc[o] # "register" /\ registered' = registered /\ waitRes' = waitRes BY <1>2, <2>1
    <3> QED BY <1>4, <1>5, <1>8, <1>9, <2>2, <2>4, <3>1, <3>2, <3>3, <3>4, <3>5, <3>6, RegisterReached
  <2>6. TypeOK'
    <3>1. slot' \in [Res -> [Dirs -> Ops \cup {None}]] /\ waitRes' \in [Ops -> WaitAnswers]
      BY <1>13, <1>14, <2>1
    <3> QED BY <1>7, <1>9, <1>10, <1>12, <2>3, <3>1, WaitTypes
  <2> QED BY <1>10, <1>11, <2>5, <2>6 DEF SocketInv
<1>17. CASE ~Accepts(o)
  <2>1. /\ handle' = handle /\ slot' = [slot EXCEPT ![q][d] = IF slot[q][d] = o THEN None ELSE slot[q][d]]
        /\ waitRes' = [waitRes EXCEPT ![o] = IF waitRes[o] = "none" THEN "aborted" ELSE waitRes[o]]
    <3>1. slot' = [slot EXCEPT ![held[o]][DirOf(o)] = IF @ = o THEN None ELSE @] BY <1>17 DEF SetHandle
    <3>2. slot' = [slot EXCEPT ![q][d] = IF slot[q][d] = o THEN None ELSE slot[q][d]]
      BY <1>4, <1>5, <3>1, SMT
    <3> QED BY <1>17, <3>2 DEF SetHandle, Answer
  <2>2. slot' = [slot EXCEPT ![q][d] = None] BY <1>8, <2>1
  <2>3. /\ slot' \in [Res -> [Dirs -> Ops \cup {None}]] /\ slot'[q][d] = None
        /\ \A r \in Res, e \in Dirs : r # q \/ e # d => slot'[r][e] = slot[r][e]
    <3>1. None \in Ops \cup {None} OBVIOUS
    <3> QED BY <1>13, <2>2, <3>1, SMT
  <2>4. waitRes' \in [Ops -> WaitAnswers] /\ \A x \in Ops \ {o} : waitRes'[x] = waitRes[x]
    <3>1. PICK a \in WaitAnswers : a = (IF waitRes[o] = "none" THEN "aborted" ELSE waitRes[o])
      BY <1>6, <1>14
    <3> QED BY <1>14, <2>1, <3>1
  <2>5. slot'[q][d] # o BY <2>3, Bounds
  <2>6. Slotted(o)' BY <1>7, <1>15, <2>5 DEF Slotted
  <2>7. Reached'
    <3>1. wpc[o] \in {"register", "handle"} /\ wpc'[o] \in {"handle", "waiting"} BY <1>2, <1>7
    <3>2. \A r \in Res, e \in Dirs : r # q \/ e # d => slot'[r][e] = slot[r][e] /\ handle'[r][e] = handle[r][e]
      BY <2>1, <2>3
    <3>3. slot'[q][d] \in {o, None} BY <2>3
    <3>4. wpc[o] # "register" /\ registered' = registered /\ handle'[q][d] = handle[q][d] BY <1>2, <2>1
    <3> QED BY <1>4, <1>5, <1>8, <1>9, <2>4, <2>5, <2>6, <3>1, <3>2, <3>3, <3>4, RegisterReached
  <2>8. TypeOK' BY <1>7, <1>9, <1>10, <1>12, <1>13, <2>1, <2>3, <2>4, WaitTypes
  <2> QED BY <1>10, <1>11, <2>7, <2>8 DEF SocketInv
<1> QED BY <1>16, <1>17

LEMMA WaitStepKeeps ==
  ASSUME SocketInv, Sizes, NEW o \in Ops, OfBase(WaitStep(o))
  PROVE  SocketInv'
<1>1. Derived /\ WaitStep(o) BY DEF OfBase, Derived
<1> QED BY <1>1, WaitGuardStep, ReadCancelEpochStep, RegisterWaitStep, RegisterReadyStep, SetHandleStep, FinishWaitStep
        DEF WaitStep

-----------------------------------------------------------------------------
\* The reactor takes a wait out of its slot.
LEMMA TakenOut ==
  ASSUME SocketInv, ReactorFree, NEW o \in Ops, UNCHANGED <<closing, cancelEpoch, handle, wpc, held, myCancel>>,
         UNCHANGED <<tpc, tres, registered, kind>>,
         \A r \in Res, d \in Dirs : slot'[r][d] # o /\ slot'[r][d] \in {slot[r][d], None},
         \A x \in Ops \ {o} : waitRes'[x] = waitRes[x] /\ (x \in cancels => x \in cancels')
  PROVE  Reached'
<1>1. OneRegisters /\ ClosingTaken /\ (\A x \in Ops : Slotted(x)) /\ CancelReachesWaits /\ Reached
  BY DEF SocketInv, Reached, Waits
<1>2. \A x \in Ops : DirOf(x)' = DirOf(x) BY SameDirection
<1>3. \A r \in Res, d \in Dirs, x \in Ops : slot'[r][d] = x => slot[r][d] = x /\ x # o /\ waitRes'[x] = waitRes[x]
  BY Bounds, SMT
<1>4. OneRegisters' BY <1>1 DEF OneRegisters, OnReactor
<1>5. SlotsHeld'
  <2> SUFFICES ASSUME NEW r \in Res, NEW d \in Dirs, NEW x \in Ops, slot'[r][d] = x
               PROVE  (held[x] = r /\ DirOf(x) = d /\ wpc[x] \in {"handle", "waiting"} /\ waitRes[x] = "none")'
    BY DEF SlotsHeld, Res
  <2>1. slot[r][d] = x /\ waitRes'[x] = waitRes[x] BY <1>3, SMT
  <2>2. held[x] = r /\ DirOf(x) = d /\ wpc[x] \in {"handle", "waiting"} /\ waitRes[x] = "none"
    BY <1>1, <2>1, InSlot, SMT
  <2> QED BY <1>2, <2>1, <2>2
<1>6. ClosingTaken' BY <1>1 DEF ClosingTaken, Res
<1>7. ASSUME NEW x \in Ops, wpc[x] = "waiting", slot'[held[x]][DirOf(x)] = x
      PROVE  slot[held[x]][DirOf(x)] = x /\ x # o /\ (x \in cancels => x \in cancels')
  <2>1. held[x] \in Res /\ DirOf(x) \in Dirs BY <1>7, WaitHeld
  <2>2. slot[held[x]][DirOf(x)] = x /\ x # o BY <1>3, <1>7, <2>1, SMT
  <2> QED BY <2>2
<1>8. ASSUME NEW x \in Ops PROVE Slotted(x)'
  <2>1. wpc[x] # "handle" BY DEF ReactorFree, OnReactor
  <2>2. Slotted(x) BY <1>1
  <2> QED BY <1>2, <1>7, <2>1, <2>2 DEF Slotted
<1>9. CancelReachesWaits'
  <2> SUFFICES ASSUME NEW x \in Ops, wpc'[x] = "waiting", slot'[held'[x]][DirOf(x)'] = x, Doomed(x)'
               PROVE  \/ x \in cancels'
                      \/ /\ handle'[held'[x]][DirOf(x)'] = x
                         /\ \E t \in Threads : tres'[t] = held'[x] /\ Takes(t, DirOf(x))'
    BY DEF CancelReachesWaits
  <2>1. Doomed(x) /\ wpc[x] = "waiting" BY DEF Doomed
  <2>2. slot'[held[x]][DirOf(x)] = x BY <1>2
  <2>3. slot[held[x]][DirOf(x)] = x /\ (x \in cancels => x \in cancels') BY <1>7, <2>1, <2>2
  <2>4. x \in cancels \/ (handle[held[x]][DirOf(x)] = x /\ \E t \in Threads : tres[t] = held[x] /\ Takes(t, DirOf(x)))
    BY <1>1, <2>1, <2>3 DEF CancelReachesWaits
  <2>5. \A t \in Threads : Takes(t, DirOf(x))' <=> Takes(t, DirOf(x)) BY <1>2 DEF Takes, TakeAt
  <2> QED BY <1>2, <2>3, <2>4, <2>5
<1> QED BY <1>4, <1>5, <1>6, <1>8, <1>9 DEF Reached, Waits

LEMMA GuardsSame ==
  ASSUME Guards, Derived, UNCHANGED <<res, opened, closing, fd, inflight, wpc, held>>,
         UNCHANGED <<tpc, after, tres, calls, kind>>
  PROVE  Guards'
<1>1. UNCHANGED <<class, opc>> BY DerivedIs
<1>2. \A x \in Ops : /\ (InOperation(x)' <=> InOperation(x)) /\ (Connects(x)' <=> Connects(x))
                     /\ (Guarded(x)' <=> Guarded(x))
  BY <1>1 DEF InOperation, Connects, Guarded
<1>3. \A x \in Ops : Placed(x)' BY <1>1, <1>2 DEF Guards, Placed
<1>4. InflightExact'
  <2>1. \A r \in Res : OpsIn(r)' = OpsIn(r) /\ OpsWaiting(r)' = OpsWaiting(r) BY <1>2 DEF OpsIn, OpsWaiting
  <2> QED BY <2>1, SameCount DEF Guards
<1>5. Resources'
  <2>1. \A x \in Ops : held'[x] <= opened BY DEF Guards, Resources
  <2> QED BY <2>1, ResourcesKept DEF Guards
<1>6. NeverTakenAway' BY <1>2 DEF Guards, NeverTakenAway
<1> QED BY <1>3, <1>4, <1>5, <1>6 DEF Guards

LEMMA ReactorStepKeeps ==
  ASSUME SocketInv, OfBase(ReactorStep)
  PROVE  SocketInv'
<1>1. TypeOK /\ BaseTypeOK /\ Guards /\ Reached /\ Owns /\ Derived BY DEF SocketInv, TypeOK, OfBase, Derived
<1>2. /\ UNCHANGED <<res, opened, closing, fd, inflight, cancelEpoch, handle, wpc, held, myCancel>>
      /\ UNCHANGED <<tpc, after, tres, calls, registered, kind>> /\ ReactorFree
  BY DEF OfBase, ReactorStep, Ready, ProcessCancel, resVars, threadVars
<1>3. slot \in [Res -> [Dirs -> Ops \cup {None}]] /\ waitRes \in [Ops -> WaitAnswers] /\ cancels \subseteq Ops
  BY <1>1 DEF BaseTypeOK, WaitAnswers
<1>4. /\ Reached' /\ slot' \in [Res -> [Dirs -> Ops \cup {None}]] /\ waitRes' \in [Ops -> WaitAnswers]
      /\ cancels' \subseteq Ops
  <2>1. ASSUME NEW o \in Ops, NEW r \in Res, NEW d \in Dirs, NEW a \in WaitAnswers, slot[r][d] = o, TakeOut(r, d, a),
               cancels' = cancels \/ cancels' = cancels \ {o}
        PROVE  Reached' /\ slot' \in [Res -> [Dirs -> Ops \cup {None}]] /\ waitRes' \in [Ops -> WaitAnswers]
    <3>1. slot' = [slot EXCEPT ![r][d] = None] /\ waitRes' = [waitRes EXCEPT ![o] = a]
      BY <2>1 DEF TakeOut, Answer
    <3>2. /\ slot' \in [Res -> [Dirs -> Ops \cup {None}]] /\ slot'[r][d] = None
          /\ \A q \in Res, e \in Dirs : q # r \/ e # d => slot'[q][e] = slot[q][e]
      BY <1>3, <3>1, SMT
    <3>3. waitRes' \in [Ops -> WaitAnswers] /\ \A x \in Ops \ {o} : waitRes'[x] = waitRes[x] BY <1>3, <3>1
    <3>4. held[o] = r /\ DirOf(o) = d BY <1>1, <2>1, InSlot, SMT
    <3>5. ASSUME NEW q \in Res, NEW e \in Dirs PROVE slot'[q][e] # o /\ slot'[q][e] \in {slot[q][e], None}
      <4>1. CASE q = r /\ e = d BY <3>2, <4>1, Bounds
      <4>2. CASE q # r \/ e # d
        <5>1. slot'[q][e] = slot[q][e] BY <3>2, <4>2
        <5>2. slot[q][e] = o => held[o] = q /\ DirOf(o) = e BY <1>1, InSlot, SMT
        <5> QED BY <3>4, <4>2, <5>1, <5>2
      <4> QED BY <4>1, <4>2
    <3>6. \A x \in Ops \ {o} : x \in cancels => x \in cancels' BY <2>1
    <3> QED BY <1>2, <3>2, <3>3, <3>5, <3>6, TakenOut
  <2>2. CASE \E r \in Res, d \in Dirs : Ready(r, d)
    <3>1. PICK r \in Res, d \in Dirs : Ready(r, d) BY <2>2
    <3>2. slot[r][d] # None /\ cancels' = cancels BY <3>1 DEF Ready
    <3>3. PICK o \in Ops : slot[r][d] = o BY <1>3, <3>2, SMT
    <3>4. PICK a \in {"ready", "error"} : TakeOut(r, d, a) BY <3>1 DEF Ready
    <3>5. a \in WaitAnswers BY DEF WaitAnswers
    <3> QED BY <1>3, <2>1, <3>2, <3>3, <3>4, <3>5
  <2>3. CASE \E o \in Ops : ProcessCancel(o)
    <3>1. PICK o \in Ops : ProcessCancel(o) BY <2>3
    <3>2. cancels' = cancels \ {o} /\ cancels' \subseteq Ops BY <1>3, <3>1 DEF ProcessCancel
    <3>3. CASE \E r \in Res : slot[r][DirOf(o)] = o
      <4>1. PICK r \in Res : slot[r][DirOf(o)] = o /\ TakeOut(r, DirOf(o), "aborted")
        BY <3>1, <3>3 DEF ProcessCancel
      <4>2. PICK d \in Dirs : d = DirOf(o) BY Directions
      <4>3. "aborted" \in WaitAnswers BY DEF WaitAnswers
      <4>4. slot[r][d] = o /\ TakeOut(r, d, "aborted") BY <4>1, <4>2
      <4> QED BY <2>1, <3>2, <4>3, <4>4
    <3>4. CASE ~\E r \in Res : slot[r][DirOf(o)] = o
      <4>1. UNCHANGED <<slot, waitRes>> BY <3>1, <3>4 DEF ProcessCancel
      <4>2. ASSUME NEW r \in Res, NEW d \in Dirs PROVE slot'[r][d] # o /\ slot'[r][d] \in {slot[r][d], None}
        <5>1. slot[r][d] = o => d = DirOf(o) BY <1>1, InSlot, SMT
        <5>2. slot[r][d] # o BY <3>4, <5>1
        <5> QED BY <4>1, <5>2
      <4>3. \A x \in Ops \ {o} : waitRes'[x] = waitRes[x] /\ (x \in cancels => x \in cancels') BY <3>2, <4>1
      <4> QED BY <1>2, <1>3, <3>2, <4>1, <4>2, <4>3, TakenOut
    <3> QED BY <3>3, <3>4
  <2> QED BY <2>2, <2>3 DEF OfBase, ReactorStep
<1>5. Guards' BY <1>1, <1>2, GuardsSame
<1>6. Owns' BY <1>1, <1>2, OwnsSame
<1>7. BaseTypeOK' BY <1>1, <1>2, <1>4 DEF BaseTypeOK, Res, WaitAnswers
<1>8. TypeOK' BY <1>1, <1>2, <1>7, DerivedIs DEF TypeOK
<1> QED BY <1>4, <1>5, <1>6, <1>8 DEF SocketInv

-----------------------------------------------------------------------------
\* The calls.  Handles taken are cancelled, and a thread stops taking only when
\* it has taken them.
LEMMA HandlesTaken ==
  ASSUME SocketInv, UNCHANGED <<closing, cancelEpoch, slot, wpc, held, myCancel, waitRes, registered, kind>>,
         NEW r \in Res, NEW D \in SUBSET Dirs,
         \A q \in Res, e \in Dirs : ~(q = r /\ e \in D) => handle'[q][e] = handle[q][e],
         \A e \in D : handle'[r][e] = None /\ (handle[r][e] # None => handle[r][e] \in cancels'),
         cancels \subseteq cancels',
         \A t \in Threads, d \in Dirs :
           Takes(t, d) => (Takes(t, d)' /\ tpc'[t] = tpc[t] /\ tres'[t] = tres[t]) \/ (tres[t] = r /\ d \in D)
  PROVE  Reached'
<1>1. Reached /\ OneRegisters /\ SlotsHeld /\ ClosingTaken /\ (\A x \in Ops : Slotted(x)) /\ CancelReachesWaits
  BY DEF SocketInv, Reached, Waits
<1>2. \A x \in Ops : DirOf(x)' = DirOf(x) BY SameDirection
<1>3. OneRegisters' BY <1>1 DEF OneRegisters, OnReactor
<1>4. SlotsHeld' BY <1>1, <1>2, SMT DEF SlotsHeld, Res
<1>5. ClosingTaken'
  <2> SUFFICES ASSUME NEW q \in Res, NEW e \in Dirs, closing[q], handle'[q][e] # None
               PROVE  \E t \in Threads : tres'[t] = q /\ tpc'[t] = "take"
    BY DEF ClosingTaken, Res
  <2>1. ~(q = r /\ e \in D) /\ handle[q][e] # None OBVIOUS
  <2>2. PICK t \in Threads : tres[t] = q /\ tpc[t] = "take" BY <1>1, <2>1 DEF ClosingTaken
  <2>3. Takes(t, e) BY <2>2 DEF Takes
  <2> QED BY <2>1, <2>2, <2>3
<1>6. ASSUME NEW x \in Ops, wpc[x] = "waiting", handle[held[x]][DirOf(x)] = x
      PROVE  \/ x \in cancels'
             \/ handle'[held[x]][DirOf(x)] = x /\ ~(held[x] = r /\ DirOf(x) \in D)
  <2>1. held[x] \in Res /\ DirOf(x) \in Dirs BY <1>6, WaitHeld
  <2>2. CASE held[x] = r /\ DirOf(x) \in D BY <1>6, <2>2, Bounds
  <2>3. CASE ~(held[x] = r /\ DirOf(x) \in D) BY <1>6, <2>1, <2>3
  <2> QED BY <2>2, <2>3
<1>7. ASSUME NEW x \in Ops PROVE Slotted(x)'
  <2>1. Slotted(x) BY <1>1
  <2>2. ASSUME wpc[x] = "waiting", slot[held[x]][DirOf(x)] = x PROVE handle'[held[x]][DirOf(x)] = x \/ x \in cancels'
    <3>1. handle[held[x]][DirOf(x)] = x \/ x \in cancels BY <2>1, <2>2 DEF Slotted
    <3> QED BY <1>6, <2>2, <3>1
  <2> QED BY <1>2, <2>1, <2>2 DEF Slotted
<1>8. CancelReachesWaits'
  <2> SUFFICES ASSUME NEW x \in Ops, wpc[x] = "waiting", slot[held[x]][DirOf(x)] = x, Doomed(x)'
               PROVE  \/ x \in cancels'
                      \/ /\ handle'[held[x]][DirOf(x)] = x
                         /\ \E t \in Threads : tres'[t] = held[x] /\ Takes(t, DirOf(x))'
    BY <1>2 DEF CancelReachesWaits
  <2>1. Doomed(x) BY DEF Doomed
  <2>2. x \in cancels \/ (handle[held[x]][DirOf(x)] = x /\ \E t \in Threads : tres[t] = held[x] /\ Takes(t, DirOf(x)))
    BY <1>1, <2>1 DEF CancelReachesWaits
  <2>3. CASE x \in cancels BY <2>3
  <2>4. CASE x \notin cancels'
    <3>1. handle[held[x]][DirOf(x)] = x /\ x \notin cancels BY <2>2, <2>4
    <3>2. PICK t \in Threads : tres[t] = held[x] /\ Takes(t, DirOf(x)) BY <2>2, <3>1
    <3>3. handle'[held[x]][DirOf(x)] = x /\ ~(held[x] = r /\ DirOf(x) \in D) BY <1>6, <2>4, <3>1
    <3>4. DirOf(x) \in Dirs BY Directions
    <3>5. Takes(t, DirOf(x))' /\ tres'[t] = held[x]
      <4>1. PICK d \in Dirs : d = DirOf(x) BY <3>4
      <4>2. Takes(t, d)' /\ tres'[t] = tres[t] BY <3>2, <3>3, <4>1
      <4> QED BY <1>2, <3>2, <4>1, <4>2 DEF Takes, TakeAt
    <3> QED BY <3>3, <3>5
  <2> QED BY <2>3, <2>4
<1> QED BY <1>3, <1>4, <1>5, <1>7, <1>8 DEF Reached, Waits

LEMMA ReachedKept ==
  ASSUME SocketInv, UNCHANGED <<closing, cancelEpoch, handle, slot, cancels, wpc, held, myCancel, waitRes, registered, kind>>,
         NEW t \in Threads, \A s \in Threads \ {t} : tpc'[s] = tpc[s] /\ tres'[s] = tres[s],
         tpc[t] \notin {"take", "take_read", "take_write"}
  PROVE  Reached'
<1>1. PICK r \in Res : TRUE
  <2>1. 1 \in Res BY SocketAssumption, SMT DEF Res
  <2> QED BY <2>1
<1>2. \A s \in Threads, d \in Dirs : Takes(s, d) => Takes(s, d)' /\ tpc'[s] = tpc[s] /\ tres'[s] = tres[s]
  BY DEF Takes, TakeAt, Dirs
<1>3. {} \in SUBSET Dirs OBVIOUS
<1> QED BY <1>2, <1>3, HandlesTaken

\* One thread moves: the resources.
LEMMA ThreadGuards ==
  ASSUME SocketInv, UNCHANGED <<opened, inflight, held, opc, wpc, kind, class, fd>>, res' = res \/ res' = NoRes,
         closing' \in [Res -> BOOLEAN], \A r \in Res : closing'[r] = closing[r] \/ (r <= opened /\ r # res'),
         NEW t \in Threads, \A s \in Threads \ {t} : tpc'[s] = tpc[s] /\ tres'[s] = tres[s] /\ after'[s] = after[s],
         calls' = calls \/ calls' # 0, Called(t)'
  PROVE  Guards'
<1>1. TypeOK /\ BaseTypeOK /\ Guards /\ Resources BY DEF SocketInv, TypeOK, Guards
<1>2. \A x \in Ops : /\ (InOperation(x)' <=> InOperation(x)) /\ (Connects(x)' <=> Connects(x))
                     /\ (Guarded(x)' <=> Guarded(x))
  BY DEF InOperation, Connects, Guarded
<1>3. \A x \in Ops : Placed(x)' BY <1>1, <1>2 DEF Guards, Placed
<1>4. InflightExact'
  <2>1. \A r \in Res : OpsIn(r)' = OpsIn(r) /\ OpsWaiting(r)' = OpsWaiting(r) BY <1>2 DEF OpsIn, OpsWaiting
  <2> QED BY <1>1, <2>1, SameCount DEF Guards
<1>5. NeverTakenAway' BY <1>1, <1>2 DEF Guards, NeverTakenAway
<1>6. ASSUME NEW s \in Threads PROVE Called(s)'
  <2>1. CASE s # t
    <3>1. Called(s) BY <1>1 DEF Resources
    <3>2. tpc'[s] = tpc[s] /\ tres'[s] = tres[s] /\ after'[s] = after[s] BY <2>1
    <3>3. tpc[s] = "mark" => tres[s] # res' BY <3>1, Bounds DEF Called, Fetched
    <3>4. Releasing(s) => tres[s] # res' BY <3>1, Bounds DEF Called
    <3> QED BY <3>1, <3>2, <3>3, <3>4 DEF Called, Releasing
  <2> QED BY <2>1
<1>7. Resources'
  <2>1. res' <= opened'
    <3>1. opened \in 0..MaxRes /\ res <= opened BY <1>1 DEF BaseTypeOK, Resources
    <3>2. NoRes <= opened BY <3>1, Bounds, SMT
    <3> QED BY <3>1, <3>2
  <2>2. res' # NoRes => fd'[res'] = "open" /\ ~closing'[res']
    <3>1. SUFFICES ASSUME res' # NoRes PROVE fd[res'] = "open" /\ ~closing'[res'] OBVIOUS
    <3>2. res' = res /\ res \in Res BY <1>1, <3>1, ResIs DEF BaseTypeOK
    <3>3. fd[res] = "open" /\ ~closing[res] BY <1>1, <3>1, <3>2 DEF Resources
    <3> QED BY <3>2, <3>3
  <2>3. ASSUME NEW r \in Res PROVE (r > opened => fd[r] = "none" /\ ~closing'[r]) /\ (fd[r] = "released" => inflight[r] = 0)
    <3>1. (r > opened => fd[r] = "none" /\ ~closing[r]) /\ (fd[r] = "released" => inflight[r] = 0)
      BY <1>1 DEF Resources
    <3>2. ~(r > opened /\ r <= opened)
      <4>1. r \in Nat /\ opened \in Nat
        <5>1. opened \in 0..MaxRes BY <1>1 DEF BaseTypeOK
        <5> QED BY <5>1, Bounds, SMT DEF Res
      <4> QED BY <4>1, SMT
    <3> QED BY <3>1, <3>2
  <2>4. \A o \in Ops : held'[o] <= opened' BY <1>1 DEF Resources
  <2> QED BY <1>6, <2>1, <2>2, <2>3, <2>4 DEF Resources, Res
<1> QED BY <1>3, <1>4, <1>5, <1>7 DEF Guards

LEMMA OwnsThread ==
  ASSUME TypeOK, Owns, UNCHANGED <<class, kind, active, state, shut, raced, opc, held, res>>,
         NEW t \in Threads, \A s \in Threads \ {t} : tpc'[s] = tpc[s], tpc[t] # "close", tpc'[t] # "close"
  PROVE  Owns'
<1>1. (\E s \in Threads : tpc'[s] = "close") <=> (\E s \in Threads : tpc[s] = "close") OBVIOUS
<1>2. \A o \in Ops : Closed(held[o])' <=> Closed(held[o]) BY <1>1 DEF Closed
<1>3. Unclosed' <=> Unclosed BY <1>1 DEF Unclosed
<1> QED BY <1>2, <1>3, OwnsKept

LEMMA Moved ==
  ASSUME TypeOK, NEW t \in Threads, NEW p \in Points, TGo(t, p)
  PROVE  tpc' \in [Threads -> Points] /\ tpc'[t] = p /\ \A s \in Threads \ {t} : tpc'[s] = tpc[s]
BY DEF TGo, TypeOK, BaseTypeOK

LEMMA CallsCounted ==
  ASSUME TypeOK, NEW t \in Threads, NEW from, Enter(t, from), Counted(from)
  PROVE  tpc[t] = from /\ calls' \in 0..MaxCalls /\ (calls' = calls \/ calls' # 0) /\ (from = "idle" => calls' # 0)
<1>1. tpc[t] = from /\ (from = "idle" => calls < MaxCalls) /\ calls' = (IF from = "idle" THEN calls + 1 ELSE calls)
      /\ calls \in 0..MaxCalls
  BY DEF Enter, Counted, TypeOK, BaseTypeOK
<1> QED BY <1>1, Bounds, SMT

LEMMA AcquiredIs ==
  ASSUME TypeOK, NEW t \in Threads, NEW next \in Points, NEW then \in {"idle", "release", "adopt"}, Acquired(t, next, then)
  PROVE  /\ tpc' \in [Threads -> Points] /\ tres' \in [Threads -> 0..MaxRes]
         /\ after' \in [Threads -> {"idle", "release", "adopt"}]
         /\ tres'[t] = res
         /\ res # NoRes => tpc'[t] = next /\ after'[t] = then
         /\ res = NoRes => tpc'[t] \in {"idle", "adopt"} /\ after'[t] = "idle"
         /\ \A s \in Threads \ {t} : tpc'[s] = tpc[s] /\ tres'[s] = tres[s] /\ after'[s] = after[s]
<1>1. /\ tpc \in [Threads -> Points] /\ tres \in [Threads -> 0..MaxRes] /\ res \in 0..MaxRes
      /\ after \in [Threads -> {"idle", "release", "adopt"}]
  BY DEF TypeOK, BaseTypeOK
<1>2. tres' \in [Threads -> 0..MaxRes] /\ tres'[t] = res /\ \A s \in Threads \ {t} : tres'[s] = tres[s]
  BY <1>1 DEF Acquired
<1>3. "idle" \in Points /\ "adopt" \in Points BY DEF Points
<1>4. PICK p \in Points : /\ tpc' = [tpc EXCEPT ![t] = p] /\ (res # NoRes => p = next)
                          /\ (res = NoRes => p \in {"idle", "adopt"})
  BY <1>3 DEF Acquired, TGo
<1>5. PICK a \in {"idle", "release", "adopt"} : /\ after' = [after EXCEPT ![t] = a] /\ (res # NoRes => a = then)
                                                /\ (res = NoRes => a = "idle")
  BY DEF Acquired
<1>6. tpc' \in [Threads -> Points] /\ tpc'[t] = p /\ \A s \in Threads \ {t} : tpc'[s] = tpc[s] BY <1>1, <1>4
<1>7. after' \in [Threads -> {"idle", "release", "adopt"}] /\ after'[t] = a /\ \A s \in Threads \ {t} : after'[s] = after[s]
  BY <1>1, <1>5
<1> QED BY <1>2, <1>4, <1>5, <1>6, <1>7

\* A call that goes on from no resource has none to work on.
LEMMA CallHas ==
  ASSUME SocketInv, NEW t \in Threads
  PROVE  /\ Called(t) /\ tres[t] \in 0..MaxRes /\ (tpc[t] \in Fetched => tres[t] \in Res) /\ res <= opened
         /\ NoRes <= opened /\ res \in 0..MaxRes /\ opened \in 0..MaxRes
<1>1. Called(t) /\ tres[t] \in 0..MaxRes /\ res <= opened /\ res \in 0..MaxRes /\ opened \in 0..MaxRes
  BY DEF SocketInv, TypeOK, BaseTypeOK, Guards, Resources
<1>2. tpc[t] \in Fetched => tres[t] \in Res BY <1>1, ResIs DEF Called
<1>3. NoRes <= opened BY <1>1, Bounds, SMT
<1> QED BY <1>1, <1>2, <1>3

\* cancel, cancel_read, cancel_write: the resource is acquired.
LEMMA CancelDirStep ==
  ASSUME SocketInv, NEW t \in Threads, NEW from \in {"idle", "cancel_read", "cancel_write"}, NEW d \in Dirs,
         CancelDir(t, from, d), Derived
  PROVE  SocketInv'
<1>1. TypeOK /\ BaseTypeOK /\ Guards /\ Reached /\ Owns BY DEF SocketInv, TypeOK
<1>2. /\ UNCHANGED <<res, opened, closing, fd, inflight, cancelEpoch, handle, slot, cancels, wpc, held, myCancel, waitRes>>
      /\ UNCHANGED <<registered, kind>> /\ Enter(t, from) /\ Counted(from) /\ Acquired(t, BumpAt(d), "idle")
  BY DEF CancelDir, resVars, waitVars, opVars
<1>3. BumpAt(d) \in {"bump_read", "bump_write"} BY DEF BumpAt
<1>4. BumpAt(d) \in Points BY <1>3 DEF Points
<1>5. /\ tpc' \in [Threads -> Points] /\ tres' \in [Threads -> 0..MaxRes]
      /\ after' \in [Threads -> {"idle", "release", "adopt"}] /\ tres'[t] = res
      /\ tpc'[t] \in {"idle", "adopt", "bump_read", "bump_write"} /\ after'[t] = "idle"
      /\ tpc'[t] \in {"bump_read", "bump_write"} => res # NoRes
      /\ \A s \in Threads \ {t} : tpc'[s] = tpc[s] /\ tres'[s] = tres[s] /\ after'[s] = after[s]
  BY <1>1, <1>2, <1>3, <1>4, AcquiredIs
<1>6. tpc[t] = from /\ calls' \in 0..MaxCalls /\ (calls' = calls \/ calls' # 0) BY <1>1, <1>2, CallsCounted
<1>7. Called(t)' BY <1>2, <1>5, CallHas DEF Called, Releasing, Fetched
<1>8. UNCHANGED <<class, epoch, active, state, shut, raced, opc, myEpoch, storing>> BY DerivedIs
<1>9. Guards'
  <2>1. closing' \in [Res -> BOOLEAN] BY <1>1, <1>2 DEF BaseTypeOK
  <2> QED BY <1>2, <1>5, <1>6, <1>7, <1>8, <2>1, ThreadGuards
<1>10. Reached' BY <1>2, <1>5, <1>6, ReachedKept
<1>11. Owns' BY <1>1, <1>2, <1>5, <1>6, <1>8, OwnsThread
<1>12. BaseTypeOK' BY <1>1, <1>2, <1>5, <1>6 DEF BaseTypeOK, Res
<1>13. TypeOK' BY <1>1, <1>2, <1>8, <1>12 DEF TypeOK
<1> QED BY <1>9, <1>10, <1>11, <1>13 DEF SocketInv

LEMMA CancelStep ==
  ASSUME SocketInv, NEW t \in Threads, NEW from \in {"idle", "cancel"}, Cancel(t, from), Derived
  PROVE  SocketInv'
<1>1. TypeOK /\ BaseTypeOK /\ Guards /\ Reached /\ Owns BY DEF SocketInv, TypeOK
<1>2. /\ UNCHANGED <<res, opened, closing, fd, inflight, cancelEpoch, handle, slot, cancels, wpc, held, myCancel, waitRes>>
      /\ kind' = kind /\ Enter(t, from) /\ Counted(from) /\ Acquired(t, "take", "idle")
      /\ registered' = IF res = NoRes THEN registered
                       ELSE registered \cup {o \in Ops : slot[res][DirOf(o)] = o /\ wpc[o] = "waiting"}
  BY DEF Cancel, resVars, waitVars, opVars
<1>3. "take" \in Points BY DEF Points
<1>4. /\ tpc' \in [Threads -> Points] /\ tres' \in [Threads -> 0..MaxRes]
      /\ after' \in [Threads -> {"idle", "release", "adopt"}] /\ tres'[t] = res
      /\ tpc'[t] \in {"idle", "adopt", "take"} /\ after'[t] = "idle" /\ (tpc'[t] = "take" <=> res # NoRes)
      /\ \A s \in Threads \ {t} : tpc'[s] = tpc[s] /\ tres'[s] = tres[s] /\ after'[s] = after[s]
  BY <1>1, <1>2, <1>3, AcquiredIs
<1>5. tpc[t] = from /\ calls' \in 0..MaxCalls /\ (calls' = calls \/ calls' # 0) BY <1>1, <1>2, CallsCounted
<1>6. Called(t)' BY <1>2, <1>4, CallHas DEF Called, Releasing, Fetched
<1>7. UNCHANGED <<class, epoch, active, state, shut, raced, opc, myEpoch, storing>> BY DerivedIs
<1>8. Guards'
  <2>1. closing' \in [Res -> BOOLEAN] BY <1>1, <1>2 DEF BaseTypeOK
  <2> QED BY <1>2, <1>4, <1>5, <1>6, <1>7, <2>1, ThreadGuards
<1>9. Owns' BY <1>1, <1>2, <1>4, <1>5, <1>7, OwnsThread
<1>10. registered' \subseteq Ops BY <1>1, <1>2 DEF BaseTypeOK
<1>11. BaseTypeOK' BY <1>1, <1>2, <1>4, <1>5, <1>10 DEF BaseTypeOK, Res
<1>12. TypeOK' BY <1>1, <1>2, <1>7, <1>11 DEF TypeOK
<1>13. Reached'
  <2>1. OneRegisters /\ SlotsHeld /\ ClosingTaken /\ (\A x \in Ops : Slotted(x)) /\ CancelReachesWaits
    BY <1>1 DEF Reached, Waits
  <2>2. \A x \in Ops : DirOf(x)' = DirOf(x) BY <1>2, SameDirection
  <2>3. \A x \in Ops : x \in registered' => x \in registered \/ (wpc[x] = "waiting" /\ held[x] = res /\ tpc'[t] = "take")
    <3> SUFFICES ASSUME NEW x \in Ops, x \in registered', x \notin registered
                 PROVE  wpc[x] = "waiting" /\ held[x] = res /\ tpc'[t] = "take"
      OBVIOUS
    <3>1. res # NoRes /\ slot[res][DirOf(x)] = x /\ wpc[x] = "waiting" BY <1>2
    <3>2. res \in Res /\ DirOf(x) \in Dirs BY <3>1, CallHas, ResIs, Directions
    <3>3. held[x] = res BY <1>1, <3>1, <3>2, InSlot, SMT
    <3> QED BY <1>4, <3>1, <3>3
  <2>4. \A s \in Threads, d \in Dirs : Takes(s, d) => Takes(s, d)' /\ tres'[s] = tres[s] /\ tpc'[s] = tpc[s]
    BY <1>4, <1>5 DEF Takes, TakeAt, Dirs
  <2>5. OneRegisters' BY <1>2, <2>1 DEF OneRegisters, OnReactor
  <2>6. SlotsHeld' BY <1>2, <2>1, <2>2, SMT DEF SlotsHeld, Res
  <2>7. ClosingTaken'
    <3> SUFFICES ASSUME NEW q \in Res, NEW e \in Dirs, closing[q], handle[q][e] # None
                 PROVE  \E s \in Threads : tres'[s] = q /\ tpc'[s] = "take"
      BY <1>2 DEF ClosingTaken, Res
    <3>1. PICK s \in Threads : tres[s] = q /\ tpc[s] = "take" BY <2>1 DEF ClosingTaken
    <3>2. s # t BY <1>5, <3>1
    <3> QED BY <1>4, <3>1, <3>2
  <2>8. ASSUME NEW x \in Ops PROVE Slotted(x)'
    <3>1. Slotted(x) BY <2>1
    <3> QED BY <1>2, <2>2, <2>3, <3>1 DEF Slotted
  <2>9. CancelReachesWaits'
    <3> SUFFICES ASSUME NEW x \in Ops, wpc[x] = "waiting", slot[held[x]][DirOf(x)] = x, Doomed(x)'
                 PROVE  \/ x \in cancels
                        \/ /\ handle[held[x]][DirOf(x)] = x
                           /\ \E s \in Threads : tres'[s] = held[x] /\ Takes(s, DirOf(x))'
      BY <1>2, <2>2 DEF CancelReachesWaits
    <3>1. CASE Doomed(x)
      <4>1. x \in cancels \/ (handle[held[x]][DirOf(x)] = x /\ \E s \in Threads : tres[s] = held[x] /\ Takes(s, DirOf(x)))
        BY <2>1, <3>1 DEF CancelReachesWaits
      <4>2. PICK d \in Dirs : d = DirOf(x) BY Directions
      <4>3. \A s \in Threads : Takes(s, DirOf(x)) => Takes(s, DirOf(x))' /\ tres'[s] = tres[s]
        BY <2>2, <2>4, <4>2 DEF Takes, TakeAt
      <4> QED BY <4>1, <4>3
    <3>2. CASE ~Doomed(x)
      <4>1. x \notin registered /\ x \in registered' BY <1>2, <3>2 DEF Doomed
      <4>2. held[x] = res /\ tpc'[t] = "take" BY <2>3, <4>1
      <4>3. handle[held[x]][DirOf(x)] = x \/ x \in cancels BY <2>1 DEF Slotted
      <4>4. Takes(t, DirOf(x))' BY <4>2 DEF Takes
      <4> QED BY <1>4, <4>2, <4>3, <4>4
    <3> QED BY <3>1, <3>2
  <2> QED BY <2>5, <2>6, <2>7, <2>8, <2>9 DEF Reached, Waits
<1> QED BY <1>8, <1>9, <1>12, <1>13 DEF SocketInv

\* mark_closing.
LEMMA MarkStep ==
  ASSUME SocketInv, NEW t \in Threads, Mark(t), Derived
  PROVE  SocketInv'
<1>1. TypeOK /\ BaseTypeOK /\ Guards /\ Reached /\ Owns BY DEF SocketInv, TypeOK
<1>2. /\ UNCHANGED <<res, opened, fd, inflight, cancelEpoch, handle, slot, cancels, wpc, held, myCancel, waitRes>>
      /\ UNCHANGED <<after, tres, calls, registered, kind>> /\ tpc[t] = "mark" /\ TGo(t, "take")
      /\ closing' = [closing EXCEPT ![tres[t]] = TRUE]
  BY DEF Mark, resVars, waitVars, opVars
<1>3. tpc' \in [Threads -> Points] /\ tpc'[t] = "take" /\ \A s \in Threads \ {t} : tpc'[s] = tpc[s]
  <2>1. "take" \in Points BY DEF Points
  <2> QED BY <1>1, <1>2, <2>1, Moved
<1>4. Called(t) /\ tres[t] \in Res /\ tres[t] # res /\ tres[t] <= opened
  BY <1>2, CallHas DEF Called, Fetched
<1>5. PICK q \in Res : q = tres[t] BY <1>4
<1>6. closing' \in [Res -> BOOLEAN] /\ closing'[q] /\ \A r \in Res \ {q} : closing'[r] = closing[r]
  BY <1>1, <1>2, <1>5 DEF BaseTypeOK
<1>7. Called(t)' BY <1>2, <1>3, <1>4 DEF Called, Releasing, Fetched
<1>8. UNCHANGED <<class, epoch, active, state, shut, raced, opc, myEpoch, storing>> BY DerivedIs
<1>9. Guards'
  <2>1. \A r \in Res : closing'[r] = closing[r] \/ (r <= opened /\ r # res') BY <1>2, <1>4, <1>5, <1>6
  <2> QED BY <1>2, <1>3, <1>6, <1>7, <1>8, <2>1, ThreadGuards
<1>10. Owns' BY <1>1, <1>2, <1>3, <1>8, OwnsThread
<1>11. BaseTypeOK' BY <1>1, <1>2, <1>3, <1>6 DEF BaseTypeOK, Res
<1>12. TypeOK' BY <1>1, <1>2, <1>8, <1>11 DEF TypeOK
<1>13. Reached'
  <2>1. OneRegisters /\ SlotsHeld /\ ClosingTaken /\ (\A x \in Ops : Slotted(x)) /\ CancelReachesWaits
    BY <1>1 DEF Reached, Waits
  <2>2. \A x \in Ops : DirOf(x)' = DirOf(x) BY <1>2, SameDirection
  <2>3. OneRegisters' BY <1>2, <2>1 DEF OneRegisters, OnReactor
  <2>4. SlotsHeld' BY <1>2, <2>1, <2>2, SMT DEF SlotsHeld, Res
  <2>5. ClosingTaken'
    <3> SUFFICES ASSUME NEW r \in Res, NEW e \in Dirs, closing'[r], handle[r][e] # None
                 PROVE  \E s \in Threads : tres'[s] = r /\ tpc'[s] = "take"
      BY <1>2 DEF ClosingTaken, Res
    <3>1. CASE r = q BY <1>2, <1>3, <1>5, <3>1
    <3>2. CASE r # q
      <4>1. closing[r] BY <1>6, <3>2
      <4>2. PICK s \in Threads : tres[s] = r /\ tpc[s] = "take" BY <2>1, <4>1 DEF ClosingTaken
      <4>3. s # t BY <1>2, <4>2
      <4> QED BY <1>2, <1>3, <4>2, <4>3
    <3> QED BY <3>1, <3>2
  <2>6. ASSUME NEW x \in Ops PROVE Slotted(x)'
    <3>1. Slotted(x) BY <2>1
    <3> QED BY <1>2, <2>2, <3>1 DEF Slotted
  <2>7. CancelReachesWaits'
    <3> SUFFICES ASSUME NEW x \in Ops, wpc[x] = "waiting", slot[held[x]][DirOf(x)] = x, Doomed(x)'
                 PROVE  \/ x \in cancels
                        \/ /\ handle[held[x]][DirOf(x)] = x
                           /\ \E s \in Threads : tres'[s] = held[x] /\ Takes(s, DirOf(x))'
      BY <1>2, <2>2 DEF CancelReachesWaits
    <3>1. CASE Doomed(x)
      <4>1. x \in cancels \/ (handle[held[x]][DirOf(x)] = x /\ \E s \in Threads : tres[s] = held[x] /\ Takes(s, DirOf(x)))
        BY <2>1, <3>1 DEF CancelReachesWaits
      <4>2. \A s \in Threads : Takes(s, DirOf(x)) => Takes(s, DirOf(x))' /\ tres'[s] = tres[s]
        BY <1>2, <1>3, <2>2 DEF Takes, TakeAt
      <4> QED BY <4>1, <4>2
    <3>2. CASE ~Doomed(x)
      <4>1. held[x] \in Res BY WaitHeld
      <4>2. held[x] = q BY <1>2, <1>6, <3>2, <4>1 DEF Doomed
      <4>3. handle[held[x]][DirOf(x)] = x \/ x \in cancels BY <2>1 DEF Slotted
      <4>4. Takes(t, DirOf(x))' BY <1>3 DEF Takes
      <4> QED BY <1>2, <1>5, <4>2, <4>3, <4>4
    <3> QED BY <3>1, <3>2
  <2> QED BY <2>3, <2>4, <2>5, <2>6, <2>7 DEF Reached, Waits
<1> QED BY <1>9, <1>10, <1>12, <1>13 DEF SocketInv

\* cancel_read and cancel_write raise the epoch.
LEMMA BumpStep ==
  ASSUME SocketInv, NEW t \in Threads, NEW d \in Dirs, Bump(t, d), Derived
  PROVE  SocketInv'
<1>1. TypeOK /\ BaseTypeOK /\ Guards /\ Reached /\ Owns BY DEF SocketInv, TypeOK
<1>2. /\ UNCHANGED <<res, opened, closing, fd, inflight, handle, slot, cancels, wpc, held, myCancel, waitRes>>
      /\ UNCHANGED <<after, tres, calls, kind>> /\ tpc[t] = BumpAt(d) /\ TGo(t, TakeAt(d))
      /\ cancelEpoch' = [cancelEpoch EXCEPT ![tres[t]][d] = @ + 1]
      /\ registered' = registered \cup ({slot[tres[t]][d]} \ {None})
  BY DEF Bump, resVars, waitVars, opVars
<1>3. tpc[t] \in {"bump_read", "bump_write"} BY <1>2 DEF BumpAt
<1>4. /\ tpc' \in [Threads -> Points] /\ tpc'[t] = TakeAt(d) /\ tpc'[t] \in {"take_read", "take_write"}
      /\ \A s \in Threads \ {t} : tpc'[s] = tpc[s]
  <2>1. TakeAt(d) \in Points /\ TakeAt(d) \in {"take_read", "take_write"} BY DEF Points, TakeAt
  <2> QED BY <1>1, <1>2, <2>1, Moved
<1>5. Called(t) /\ tres[t] \in Res /\ tres[t] <= opened BY <1>3, CallHas DEF Called, Fetched
<1>6. PICK q \in Res : q = tres[t] BY <1>5
<1>7. /\ cancelEpoch' \in [Res -> [Dirs -> Nat]] /\ cancelEpoch'[q][d] = cancelEpoch[q][d] + 1
      /\ \A r \in Res, e \in Dirs : r # q \/ e # d => cancelEpoch'[r][e] = cancelEpoch[r][e]
  <2>1. cancelEpoch \in [Res -> [Dirs -> Nat]] BY <1>1 DEF BaseTypeOK
  <2>2. cancelEpoch' = [cancelEpoch EXCEPT ![q][d] = @ + 1] BY <1>2, <1>6
  <2> QED BY <2>1, <2>2, SMT
<1>8. Called(t)' BY <1>2, <1>3, <1>4, <1>5, Bounds DEF Called, Releasing, Fetched
<1>9. UNCHANGED <<class, epoch, active, state, shut, raced, opc, myEpoch, storing>> BY DerivedIs
<1>10. Guards'
  <2>1. closing' \in [Res -> BOOLEAN] BY <1>1, <1>2 DEF BaseTypeOK
  <2> QED BY <1>2, <1>4, <1>8, <1>9, <2>1, ThreadGuards
<1>11. Owns' BY <1>1, <1>2, <1>3, <1>4, <1>9, OwnsThread
<1>12. slot[q][d] \in Ops \cup {None}
  <2>1. slot \in [Res -> [Dirs -> Ops \cup {None}]] BY <1>1 DEF BaseTypeOK
  <2> QED BY <2>1, SMT
<1>13. \A x \in Ops : x \in registered' => x \in registered \/ slot[q][d] = x BY <1>2, <1>6
<1>14. registered' \subseteq Ops BY <1>1, <1>2, <1>6, <1>12 DEF BaseTypeOK
<1>15. BaseTypeOK' BY <1>1, <1>2, <1>4, <1>7, <1>14 DEF BaseTypeOK, Res
<1>16. TypeOK' BY <1>1, <1>2, <1>9, <1>15 DEF TypeOK
<1>17. Reached'
  <2>1. OneRegisters /\ SlotsHeld /\ ClosingTaken /\ (\A x \in Ops : Slotted(x)) /\ CancelReachesWaits
    BY <1>1 DEF Reached, Waits
  <2>2. \A x \in Ops : DirOf(x)' = DirOf(x) BY <1>2, SameDirection
  <2>3. \A x \in Ops : slot[q][d] = x => held[x] = q /\ DirOf(x) = d /\ wpc[x] \in {"handle", "waiting"}
    BY <1>1, InSlot, SMT
  <2>4. OneRegisters' BY <1>2, <2>1 DEF OneRegisters, OnReactor
  <2>5. SlotsHeld' BY <1>2, <2>1, <2>2, SMT DEF SlotsHeld, Res
  <2>6. ClosingTaken'
    <3> SUFFICES ASSUME NEW r \in Res, NEW e \in Dirs, closing[r], handle[r][e] # None
                 PROVE  \E s \in Threads : tres'[s] = r /\ tpc'[s] = "take"
      BY <1>2 DEF ClosingTaken, Res
    <3>1. PICK s \in Threads : tres[s] = r /\ tpc[s] = "take" BY <2>1 DEF ClosingTaken
    <3>2. s # t BY <1>3, <3>1
    <3> QED BY <1>2, <1>4, <3>1, <3>2
  <2>7. ASSUME NEW x \in Ops PROVE Slotted(x)'
    <3>1. Slotted(x) BY <2>1
    <3>2. ASSUME wpc[x] \in {"register", "handle"} PROVE myCancel[x] <= cancelEpoch'[held[x]][DirOf(x)]
      <4>1. held[x] \in Res /\ DirOf(x) \in Dirs /\ myCancel[x] \in Nat
        BY <1>1, <3>2, WaitHeld DEF BaseTypeOK
      <4>2. myCancel[x] <= cancelEpoch[held[x]][DirOf(x)] BY <3>1, <3>2 DEF Slotted
      <4>3. cancelEpoch[held[x]][DirOf(x)] \in Nat BY <1>1, <4>1 DEF BaseTypeOK
      <4>4. \/ cancelEpoch'[held[x]][DirOf(x)] = cancelEpoch[held[x]][DirOf(x)] + 1
            \/ cancelEpoch'[held[x]][DirOf(x)] = cancelEpoch[held[x]][DirOf(x)]
        BY <1>7, <4>1
      <4> QED BY <4>1, <4>2, <4>3, <4>4, SMT
    <3>3. ASSUME x \in registered' PROVE /\ wpc[x] \in {"handle", "waiting"}
                                         /\ wpc[x] = "handle" => myCancel[x] # cancelEpoch'[held[x]][DirOf(x)]
      <4>1. wpc[x] \in {"handle", "waiting"} BY <1>13, <2>3, <3>1, <3>3 DEF Slotted
      <4>2. ASSUME wpc[x] = "handle" PROVE myCancel[x] # cancelEpoch'[held[x]][DirOf(x)]
        <5>1. held[x] \in Res /\ DirOf(x) \in Dirs /\ myCancel[x] \in Nat
          BY <1>1, <4>2, WaitHeld DEF BaseTypeOK
        <5>2. myCancel[x] <= cancelEpoch[held[x]][DirOf(x)] BY <3>1, <4>2 DEF Slotted
        <5>3. cancelEpoch[held[x]][DirOf(x)] \in Nat BY <1>1, <5>1 DEF BaseTypeOK
        <5>4. CASE held[x] = q /\ DirOf(x) = d
          <6>1. cancelEpoch'[held[x]][DirOf(x)] = cancelEpoch[held[x]][DirOf(x)] + 1 BY <1>7, <5>4
          <6> QED BY <5>1, <5>2, <5>3, <6>1, SMT
        <5>5. CASE ~(held[x] = q /\ DirOf(x) = d)
          <6>1. x \in registered BY <1>13, <2>3, <3>3, <5>5
          <6>2. cancelEpoch'[held[x]][DirOf(x)] = cancelEpoch[held[x]][DirOf(x)] BY <1>7, <5>1, <5>5
          <6> QED BY <3>1, <4>2, <6>1, <6>2 DEF Slotted
        <5> QED BY <5>4, <5>5
      <4> QED BY <4>1, <4>2
    <3> QED BY <1>2, <2>2, <3>1, <3>2, <3>3 DEF Slotted
  <2>8. CancelReachesWaits'
    <3> SUFFICES ASSUME NEW x \in Ops, wpc[x] = "waiting", slot[held[x]][DirOf(x)] = x, Doomed(x)'
                 PROVE  \/ x \in cancels
                        \/ /\ handle[held[x]][DirOf(x)] = x
                           /\ \E s \in Threads : tres'[s] = held[x] /\ Takes(s, DirOf(x))'
      BY <1>2, <2>2 DEF CancelReachesWaits
    <3>1. CASE Doomed(x)
      <4>1. x \in cancels \/ (handle[held[x]][DirOf(x)] = x /\ \E s \in Threads : tres[s] = held[x] /\ Takes(s, DirOf(x)))
        BY <2>1, <3>1 DEF CancelReachesWaits
      <4>2. \A s \in Threads : Takes(s, DirOf(x)) => Takes(s, DirOf(x))' /\ tres'[s] = tres[s]
        <5>1. \A s \in Threads : Takes(s, DirOf(x)) => s # t BY <1>3 DEF Takes, TakeAt
        <5> QED BY <1>2, <1>4, <2>2, <5>1 DEF Takes, TakeAt
      <4> QED BY <4>1, <4>2
    <3>2. CASE ~Doomed(x)
      <4>1. slot[q][d] = x BY <1>2, <1>13, <3>2 DEF Doomed
      <4>2. held[x] = q /\ DirOf(x) = d BY <2>3, <4>1
      <4>3. handle[held[x]][DirOf(x)] = x \/ x \in cancels BY <2>1 DEF Slotted
      <4>4. Takes(t, DirOf(x))' BY <1>4, <2>2, <4>2 DEF Takes, TakeAt
      <4> QED BY <1>2, <1>6, <4>2, <4>3, <4>4
    <3> QED BY <3>1, <3>2
  <2> QED BY <2>4, <2>5, <2>6, <2>7, <2>8 DEF Reached, Waits
<1> QED BY <1>10, <1>11, <1>16, <1>17 DEF SocketInv

\* The handles are taken: of a resource, or of one direction of it.
LEMMA ReturnIs ==
  ASSUME SocketInv, NEW t \in Threads, Return(t), tpc[t] \in {"take", "take_read", "take_write"},
         UNCHANGED <<res, opened, inflight, calls>>
  PROVE  /\ tpc' \in [Threads -> Points] /\ after' \in [Threads -> {"idle", "release", "adopt"}]
         /\ tres' \in [Threads -> 0..MaxRes] /\ tpc'[t] \in {"idle", "release", "adopt"} /\ Called(t)'
         /\ \A s \in Threads \ {t} : tpc'[s] = tpc[s] /\ tres'[s] = tres[s] /\ after'[s] = after[s]
<1>1. /\ tpc \in [Threads -> Points] /\ tres \in [Threads -> 0..MaxRes] /\ res \in 0..MaxRes
      /\ after \in [Threads -> {"idle", "release", "adopt"}] /\ TypeOK
  BY DEF SocketInv, TypeOK, BaseTypeOK
<1>2. PICK p \in {"idle", "release", "adopt"} : p = after[t] BY <1>1
<1>3. /\ TGo(t, p) /\ after' = [after EXCEPT ![t] = "idle"]
      /\ tres' = [tres EXCEPT ![t] = IF p = "idle" THEN NoRes ELSE tres[t]]
  BY <1>1, <1>2 DEF Return
<1>4. p \in Points BY DEF Points
<1>5. tpc' \in [Threads -> Points] /\ tpc'[t] = p /\ \A s \in Threads \ {t} : tpc'[s] = tpc[s]
  BY <1>1, <1>3, <1>4, Moved
<1>6. after' \in [Threads -> {"idle", "release", "adopt"}] /\ after'[t] = "idle" /\ \A s \in Threads \ {t} : after'[s] = after[s]
  BY <1>1, <1>3
<1>7. PICK r \in 0..MaxRes : r = (IF p = "idle" THEN NoRes ELSE tres[t])
  <2>1. NoRes \in 0..MaxRes BY ResIs
  <2> QED BY <1>1, <2>1
<1>8. tres' \in [Threads -> 0..MaxRes] /\ tres'[t] = r /\ \A s \in Threads \ {t} : tres'[s] = tres[s]
  BY <1>1, <1>3, <1>7
<1>9. Called(t)'
  <2>1. Called(t) /\ (tpc[t] \in Fetched => tres[t] \in Res) /\ NoRes <= opened BY CallHas
  <2>2. tres'[t] <= opened' BY <1>7, <1>8, <2>1 DEF Called
  <2>3. p = "release" => tres'[t] = tres[t] /\ Releasing(t) BY <1>2, <1>7, <1>8 DEF Releasing
  <2>4. Releasing(t)' <=> p = "release" BY <1>5, <1>6 DEF Releasing
  <2>5. tres[t] \in Res BY <2>1 DEF Fetched
  <2>6. tpc'[t] \in Fetched => p = "release" BY <1>5 DEF Fetched
  <2>7. Releasing(t)' => tres'[t] \in Res /\ tres'[t] # res /\ inflight[tres'[t]] = 0
    BY <2>1, <2>3, <2>4 DEF Called
  <2>8. tpc'[t] \notin {"mark", "clear", "close"} BY <1>5
  <2> QED BY <1>6, <2>2, <2>3, <2>5, <2>6, <2>7, <2>8, Bounds DEF Called, Res
<1> QED BY <1>5, <1>6, <1>8, <1>9

LEMMA TakeStep ==
  ASSUME SocketInv, NEW t \in Threads, TakeAll(t) \/ \E d \in Dirs : TakeOne(t, d), Derived
  PROVE  SocketInv'
<1>1. TypeOK /\ BaseTypeOK /\ Guards /\ Reached /\ Owns BY DEF SocketInv, TypeOK
<1>2. /\ UNCHANGED <<res, opened, closing, fd, inflight, cancelEpoch, slot, wpc, held, myCancel, waitRes>>
      /\ UNCHANGED <<calls, registered, kind>> /\ Return(t) /\ tpc[t] \in {"take", "take_read", "take_write"}
  BY DEF TakeAll, TakeOne, TakeAt, resVars, waitVars, opVars
<1>3. /\ tpc' \in [Threads -> Points] /\ after' \in [Threads -> {"idle", "release", "adopt"}]
      /\ tres' \in [Threads -> 0..MaxRes] /\ tpc'[t] \in {"idle", "release", "adopt"} /\ Called(t)'
      /\ \A s \in Threads \ {t} : tpc'[s] = tpc[s] /\ tres'[s] = tres[s] /\ after'[s] = after[s]
  BY <1>2, ReturnIs
<1>4. tres[t] \in Res BY <1>2, CallHas DEF Fetched
<1>5. PICK q \in Res : q = tres[t] BY <1>4
<1>6. UNCHANGED <<class, epoch, active, state, shut, raced, opc, myEpoch, storing>> BY DerivedIs
<1>7. Guards'
  <2>1. closing' \in [Res -> BOOLEAN] BY <1>1, <1>2 DEF BaseTypeOK
  <2> QED BY <1>2, <1>3, <1>6, <2>1, ThreadGuards
<1>8. Owns' BY <1>1, <1>2, <1>3, <1>6, OwnsThread
<1>9. handle \in [Res -> [Dirs -> Ops \cup {None}]] /\ cancels \subseteq Ops BY <1>1 DEF BaseTypeOK
<1>10. Reached' /\ handle' \in [Res -> [Dirs -> Ops \cup {None}]] /\ cancels' \subseteq Ops
  <2>1. CASE TakeAll(t)
    <3>1. /\ cancels' = cancels \cup ({handle[q][d] : d \in Dirs} \ {None})
          /\ handle' = [handle EXCEPT ![q] = [d \in Dirs |-> None]] /\ tpc[t] = "take"
      BY <1>5, <2>1 DEF TakeAll
    <3>2. /\ handle' \in [Res -> [Dirs -> Ops \cup {None}]] /\ \A d \in Dirs : handle'[q][d] = None
          /\ \A r \in Res, e \in Dirs : r # q => handle'[r][e] = handle[r][e]
      BY <1>9, <3>1, SMT
    <3>3. \A d \in Dirs : handle[q][d] \in Ops \cup {None} BY <1>9, SMT
    <3>4. cancels' \subseteq Ops BY <1>9, <3>1, <3>3
    <3>5. \A d \in Dirs : handle[q][d] # None => handle[q][d] \in cancels' BY <3>1
    <3>6. \A s \in Threads, d \in Dirs :
            Takes(s, d) => (Takes(s, d)' /\ tpc'[s] = tpc[s] /\ tres'[s] = tres[s]) \/ (tres[s] = q /\ d \in Dirs)
      BY <1>3, <1>5 DEF Takes, TakeAt
    <3>7. \A r \in Res, e \in Dirs : ~(r = q /\ e \in Dirs) => handle'[r][e] = handle[r][e] BY <3>2
    <3>8. cancels \subseteq cancels' /\ Dirs \in SUBSET Dirs BY <3>1
    <3>9. Reached' BY <1>2, <3>2, <3>5, <3>6, <3>7, <3>8, HandlesTaken
    <3> QED BY <3>2, <3>4, <3>9
  <2>2. CASE \E d \in Dirs : TakeOne(t, d)
    <3>1. PICK d \in Dirs : TakeOne(t, d) BY <2>2
    <3>2. /\ cancels' = cancels \cup ({handle[q][d]} \ {None}) /\ tpc[t] = TakeAt(d)
          /\ handle' = [handle EXCEPT ![q][d] = None]
      BY <1>5, <3>1 DEF TakeOne
    <3>3. /\ handle' \in [Res -> [Dirs -> Ops \cup {None}]] /\ handle'[q][d] = None
          /\ \A r \in Res, e \in Dirs : r # q \/ e # d => handle'[r][e] = handle[r][e]
      BY <1>9, <3>2, SMT
    <3>4. handle[q][d] \in Ops \cup {None} BY <1>9, SMT
    <3>5. cancels' \subseteq Ops BY <1>9, <3>2, <3>4
    <3>6. \A e \in {d} : handle'[q][e] = None /\ (handle[q][e] # None => handle[q][e] \in cancels')
      BY <3>2, <3>3
    <3>7. \A s \in Threads, e \in Dirs :
            Takes(s, e) => (Takes(s, e)' /\ tpc'[s] = tpc[s] /\ tres'[s] = tres[s]) \/ (tres[s] = q /\ e \in {d})
      <4> SUFFICES ASSUME NEW s \in Threads, NEW e \in Dirs, Takes(s, e)
                   PROVE  (Takes(s, e)' /\ tpc'[s] = tpc[s] /\ tres'[s] = tres[s]) \/ (tres[s] = q /\ e = d)
        OBVIOUS
      <4>1. CASE s # t BY <1>3, <4>1 DEF Takes, TakeAt
      <4>2. CASE s = t
        <5>1. e = d BY <3>2, <4>2 DEF Takes, TakeAt, Dirs
        <5> QED BY <1>5, <4>2, <5>1
      <4> QED BY <4>1, <4>2
    <3>8. \A r \in Res, e \in Dirs : ~(r = q /\ e \in {d}) => handle'[r][e] = handle[r][e] BY <3>3
    <3>9. cancels \subseteq cancels' /\ {d} \in SUBSET Dirs BY <3>2
    <3>10. Reached' BY <1>2, <3>6, <3>7, <3>8, <3>9, HandlesTaken
    <3> QED BY <3>3, <3>5, <3>10
  <2> QED BY <2>1, <2>2
<1>11. BaseTypeOK' BY <1>1, <1>2, <1>3, <1>10 DEF BaseTypeOK, Res
<1>12. TypeOK' BY <1>1, <1>2, <1>6, <1>11 DEF TypeOK
<1> QED BY <1>7, <1>8, <1>10, <1>12 DEF SocketInv

\* close, assign and release take the resource from the socket.
LEMMA ExchangeStep ==
  ASSUME SocketInv, NEW t \in Threads, NEW from \in {"idle", "close"}, NEW then \in {"idle", "release", "adopt"},
         Exchange(t, from, then), Derived, from = "idle" => class = "base",
         then = "release" => res # NoRes /\ inflight[res] = 0
  PROVE  SocketInv'
<1>1. TypeOK /\ BaseTypeOK /\ Guards /\ Reached /\ Owns BY DEF SocketInv, TypeOK
<1>2. /\ UNCHANGED <<opened, closing, fd, inflight, cancelEpoch, handle, slot, cancels, wpc, held, myCancel, waitRes>>
      /\ UNCHANGED <<registered, kind>> /\ Enter(t, from) /\ Counted(from) /\ Acquired(t, "mark", then) /\ res' = NoRes
  BY DEF Exchange, resVars, waitVars, opVars
<1>3. "mark" \in Points BY DEF Points
<1>4. /\ tpc' \in [Threads -> Points] /\ tres' \in [Threads -> 0..MaxRes]
      /\ after' \in [Threads -> {"idle", "release", "adopt"}] /\ tres'[t] = res
      /\ res # NoRes => tpc'[t] = "mark" /\ after'[t] = then
      /\ res = NoRes => tpc'[t] \in {"idle", "adopt"} /\ after'[t] = "idle"
      /\ \A s \in Threads \ {t} : tpc'[s] = tpc[s] /\ tres'[s] = tres[s] /\ after'[s] = after[s]
  BY <1>1, <1>2, <1>3, AcquiredIs
<1>5. tpc[t] = from /\ calls' \in 0..MaxCalls /\ (calls' = calls \/ calls' # 0) BY <1>1, <1>2, CallsCounted
<1>6. Called(t)'
  <2>1. res <= opened /\ res \in 0..MaxRes BY CallHas
  <2>2. CASE res = NoRes BY <1>2, <1>4, <2>1, <2>2 DEF Called, Releasing, Fetched
  <2>3. CASE res # NoRes
    <3>1. res \in Res BY <2>1, <2>3, ResIs
    <3>2. Releasing(t)' => then = "release" BY <1>4, <2>3 DEF Releasing
    <3>3. Releasing(t)' => tres'[t] \in Res /\ tres'[t] # res' /\ inflight'[tres'[t]] = 0
      BY <1>2, <1>4, <2>3, <3>1, <3>2
    <3> QED BY <1>2, <1>4, <2>1, <2>3, <3>3 DEF Called, Fetched, Res
  <2> QED BY <2>2, <2>3
<1>7. UNCHANGED <<class, epoch, active, state, shut, raced, opc, myEpoch, storing>> BY DerivedIs
<1>8. Guards'
  <2>1. closing' \in [Res -> BOOLEAN] BY <1>1, <1>2 DEF BaseTypeOK
  <2> QED BY <1>2, <1>4, <1>5, <1>6, <1>7, <2>1, ThreadGuards
<1>9. Reached' BY <1>2, <1>4, <1>5, ReachedKept
<1>10. Owns'
  <2>1. \A o \in Ops : (opc[o] = "start" \/ Running(o)) => Closed(held[o])'
    <3> SUFFICES ASSUME NEW o \in Ops, opc[o] = "start" \/ Running(o) PROVE Closed(held[o])' OBVIOUS
    <3>1. opc[o] \notin {"idle", "done"} BY DEF Running, InOperation
    <3>2. Placed(o) BY <1>1 DEF Guards
    <3>3. held[o] # NoRes BY <3>1, <3>2 DEF Placed
    <3> QED BY <1>2, <3>3 DEF Closed
  <2>2. class # "base" => ~Unclosed BY <1>5 DEF Unclosed
  <2> QED BY <1>1, <1>2, <1>7, <2>1, <2>2, OwnsKept
<1>11. BaseTypeOK'
  <2>1. res' \in 0..MaxRes BY <1>2, ResIs
  <2> QED BY <1>1, <1>2, <1>4, <1>5, <2>1 DEF BaseTypeOK, Res
<1>12. TypeOK' BY <1>1, <1>2, <1>7, <1>11 DEF TypeOK
<1> QED BY <1>8, <1>9, <1>10, <1>12 DEF SocketInv

\* A resource is made and becomes the socket's.
LEMMA Makes ==
  ASSUME SocketInv, MakeResource, UNCHANGED <<closing, inflight, held, opc, wpc, kind, class, calls>>,
         NEW t \in Threads, \A s \in Threads \ {t} : tpc'[s] = tpc[s] /\ tres'[s] = tres[s] /\ after'[s] = after[s],
         after'[t] = "idle", tpc'[t] \in {"idle", "reset"}, tres'[t] <= opened, tres'[t] \in 0..MaxRes
  PROVE  /\ Guards' /\ res' \in Res /\ res' \in 0..MaxRes /\ opened' \in 0..MaxRes
         /\ fd' \in [Res -> {"none", "open", "released", "closed"}]
         /\ \A o \in Ops : held[o] # res'
<1>1. TypeOK /\ BaseTypeOK /\ Guards /\ Resources BY DEF SocketInv, TypeOK, Guards
<1>2. opened < MaxRes /\ opened' = opened + 1 /\ res' = opened + 1 /\ fd' = [fd EXCEPT ![opened + 1] = "open"]
  BY DEF MakeResource
<1>3. opened \in 0..MaxRes /\ fd \in [Res -> {"none", "open", "released", "closed"}] BY <1>1 DEF BaseTypeOK
<1>4. /\ opened \in Nat /\ opened + 1 \in Res /\ opened + 1 \in 0..MaxRes
      /\ opened + 1 > opened /\ opened + 1 <= opened + 1 /\ ~(opened + 1 <= opened)
  BY <1>2, <1>3, Bounds, SMT DEF Res
<1>5. PICK n \in Res : n = opened + 1 BY <1>4
<1>6. res' = n /\ opened' = n /\ fd' = [fd EXCEPT ![n] = "open"] /\ n > opened /\ n <= n /\ ~(n <= opened)
  BY <1>2, <1>4, <1>5
<1>7. fd' \in [Res -> {"none", "open", "released", "closed"}] /\ fd'[n] = "open" /\ \A r \in Res \ {n} : fd'[r] = fd[r]
  BY <1>3, <1>6
<1>8. \A i \in 0..MaxRes : (i <= opened => i <= n /\ i # n) /\ (i > n => i > opened /\ i # n)
  BY <1>3, <1>4, <1>5, Bounds, SMT
<1>9. \A o \in Ops : held[o] <= opened /\ held[o] \in 0..MaxRes BY <1>1 DEF Resources, BaseTypeOK
<1>10. \A x \in Ops : /\ (InOperation(x)' <=> InOperation(x)) /\ (Connects(x)' <=> Connects(x))
                      /\ (Guarded(x)' <=> Guarded(x))
  BY DEF InOperation, Connects, Guarded
<1>11. \A x \in Ops : Placed(x)' BY <1>1, <1>10 DEF Guards, Placed
<1>12. InflightExact'
  <2>1. \A r \in Res : OpsIn(r)' = OpsIn(r) /\ OpsWaiting(r)' = OpsWaiting(r) BY <1>10 DEF OpsIn, OpsWaiting
  <2> QED BY <1>1, <2>1, SameCount DEF Guards
<1>13. NeverTakenAway'
  <2> SUFFICES ASSUME NEW o \in Ops, InOperation(o) \/ Guarded(o) PROVE fd'[held[o]] = "open"
    BY <1>10 DEF NeverTakenAway
  <2>1. fd[held[o]] = "open" BY <1>1 DEF Guards, NeverTakenAway
  <2>2. held[o] # NoRes
    <3>1. Placed(o) BY <1>1 DEF Guards
    <3> QED BY <3>1 DEF Placed, InOperation, Guarded
  <2>3. held[o] \in Res /\ held[o] # n BY <1>8, <1>9, <2>2, ResIs
  <2> QED BY <1>7, <2>1, <2>3
<1>14. ASSUME NEW s \in Threads PROVE Called(s)'
  <2>1. CASE s # t
    <3>1. Called(s) /\ tres[s] \in 0..MaxRes BY CallHas
    <3>2. tpc'[s] = tpc[s] /\ tres'[s] = tres[s] /\ after'[s] = after[s] BY <2>1
    <3>3. tres[s] <= n /\ tres[s] # n BY <1>8, <3>1 DEF Called
    <3> QED BY <1>6, <3>1, <3>2, <3>3 DEF Called, Releasing
  <2>2. CASE s = t
    <3>1. tres'[t] <= n BY <1>8
    <3> QED BY <1>6, <2>2, <3>1 DEF Called, Releasing, Fetched
  <2> QED BY <2>1, <2>2
<1>15. Resources'
  <2>1. ~closing[n] BY <1>1, <1>6 DEF Resources
  <2>2. ASSUME NEW r \in Res PROVE (r > n => fd'[r] = "none" /\ ~closing[r]) /\ (fd'[r] = "released" => inflight[r] = 0)
    <3>1. r \in 0..MaxRes BY ResIs
    <3>2. (r > opened => fd[r] = "none" /\ ~closing[r]) /\ (fd[r] = "released" => inflight[r] = 0)
      BY <1>1 DEF Resources
    <3>3. CASE r = n
      <4>1. ~(n > n)
        <5>1. n \in Nat BY SMT DEF Res
        <5> QED BY <5>1, SMT
      <4> QED BY <1>7, <3>3, <4>1
    <3>4. CASE r # n BY <1>7, <1>8, <3>1, <3>2, <3>4
    <3> QED BY <3>3, <3>4
  <2>3. \A o \in Ops : held'[o] <= opened' BY <1>6, <1>8, <1>9
  <2> QED BY <1>6, <1>7, <1>14, <2>1, <2>2, <2>3 DEF Resources, Res
<1>16. \A o \in Ops : held[o] # res' BY <1>6, <1>8, <1>9
<1> QED BY <1>4, <1>2, <1>7, <1>11, <1>12, <1>13, <1>15, <1>16 DEF Guards

LEMMA OwnsMakes ==
  ASSUME SocketInv, UNCHANGED <<class, kind, active, state, shut, raced, opc, held>>, res' \in Res,
         \A o \in Ops : held[o] # res', NEW t \in Threads, \A s \in Threads \ {t} : tpc'[s] = tpc[s], tpc'[t] # "close"
  PROVE  Owns'
<1>1. \A o \in Ops : Closed(held[o])' BY DEF Closed
<1>2. Unclosed => Unclosed' BY Bounds DEF Unclosed
<1> QED BY <1>1, <1>2, OwnsKept DEF SocketInv

\* open, and assign once the old resource is gone.
LEMMA MakeStep ==
  ASSUME SocketInv, NEW t \in Threads, Open(t) \/ Adopt(t) \/ AcceptorOpen(t),
         Derived
  PROVE  SocketInv'
<1>1. TypeOK /\ BaseTypeOK /\ Guards /\ Reached /\ Owns BY DEF SocketInv, TypeOK
<1>2. /\ MakeResource /\ tpc[t] \in {"idle", "adopt"}
      /\ UNCHANGED <<closing, inflight, cancelEpoch, handle, slot, cancels, wpc, held, myCancel, waitRes>>
      /\ UNCHANGED <<after, calls, registered, kind>>
  BY DEF Open, Adopt, AcceptorOpen, waitVars, opVars, threadVars
<1>3. \/ UNCHANGED <<tpc, tres>> /\ tpc[t] = "idle"
      \/ TGo(t, "idle") /\ tres' = [tres EXCEPT ![t] = NoRes]
      \/ TGo(t, "reset") /\ tres' = tres
  BY DEF Open, Adopt, AcceptorOpen, threadVars
<1>4. tpc \in [Threads -> Points] /\ tres \in [Threads -> 0..MaxRes] /\ NoRes \in 0..MaxRes
  BY <1>1, ResIs DEF BaseTypeOK
<1>5. /\ tpc' \in [Threads -> Points] /\ tpc'[t] \in {"idle", "reset"} /\ \A s \in Threads \ {t} : tpc'[s] = tpc[s]
  <2>1. "idle" \in Points /\ "reset" \in Points BY DEF Points
  <2> QED BY <1>1, <1>3, <1>4, <2>1, Moved
<1>6. /\ tres' \in [Threads -> 0..MaxRes] /\ tres'[t] \in {NoRes, tres[t]} /\ \A s \in Threads \ {t} : tres'[s] = tres[s]
  BY <1>3, <1>4
<1>7. Called(t) /\ NoRes <= opened BY CallHas
<1>8. tres'[t] <= opened /\ tres'[t] \in 0..MaxRes /\ after'[t] = "idle" BY <1>2, <1>6, <1>7 DEF Called
<1>9. UNCHANGED <<class, epoch, active, state, shut, raced, opc, myEpoch, storing>> BY DerivedIs
<1>10. /\ Guards' /\ res' \in Res /\ res' \in 0..MaxRes /\ opened' \in 0..MaxRes
       /\ fd' \in [Res -> {"none", "open", "released", "closed"}] /\ \A o \in Ops : held[o] # res'
  BY <1>2, <1>5, <1>6, <1>8, <1>9, Makes
<1>11. Reached' BY <1>2, <1>5, <1>6, ReachedKept
<1>12. Owns' BY <1>2, <1>5, <1>9, <1>10, OwnsMakes
<1>13. BaseTypeOK' BY <1>1, <1>2, <1>5, <1>6, <1>10 DEF BaseTypeOK, Res
<1>14. TypeOK' BY <1>1, <1>2, <1>9, <1>13 DEF TypeOK
<1> QED BY <1>10, <1>11, <1>12, <1>14 DEF SocketInv

LEMMA AdoptFailsStep ==
  ASSUME SocketInv, NEW t \in Threads, AdoptFails(t), Derived
  PROVE  SocketInv'
<1>1. TypeOK /\ BaseTypeOK /\ Guards /\ Reached /\ Owns BY DEF SocketInv, TypeOK
<1>2. /\ UNCHANGED <<res, opened, closing, fd, inflight, cancelEpoch, handle, slot, cancels, wpc, held, myCancel, waitRes>>
      /\ UNCHANGED <<after, calls, registered, kind>> /\ tpc[t] = "adopt" /\ TGo(t, "idle")
      /\ tres' = [tres EXCEPT ![t] = NoRes]
  BY DEF AdoptFails, resVars, waitVars, opVars
<1>3. tpc' \in [Threads -> Points] /\ tpc'[t] = "idle" /\ \A s \in Threads \ {t} : tpc'[s] = tpc[s]
  <2>1. "idle" \in Points BY DEF Points
  <2> QED BY <1>1, <1>2, <2>1, Moved
<1>4. tres' \in [Threads -> 0..MaxRes] /\ tres'[t] = NoRes /\ \A s \in Threads \ {t} : tres'[s] = tres[s]
  BY <1>1, <1>2, ResIs DEF BaseTypeOK
<1>5. Called(t)'
  <2>1. Called(t) /\ NoRes <= opened BY CallHas
  <2>2. after[t] = "idle" BY <1>2, <2>1 DEF Called
  <2> QED BY <1>2, <1>3, <1>4, <2>1, <2>2 DEF Called, Releasing, Fetched
<1>6. UNCHANGED <<class, epoch, active, state, shut, raced, opc, myEpoch, storing>> BY DerivedIs
<1>7. Guards'
  <2>1. closing' \in [Res -> BOOLEAN] BY <1>1, <1>2 DEF BaseTypeOK
  <2> QED BY <1>2, <1>3, <1>4, <1>5, <1>6, <2>1, ThreadGuards
<1>8. Reached' BY <1>2, <1>3, <1>4, ReachedKept
<1>9. Owns' BY <1>1, <1>2, <1>3, <1>6, OwnsThread
<1>10. BaseTypeOK' BY <1>1, <1>2, <1>3, <1>4 DEF BaseTypeOK, Res
<1>11. TypeOK' BY <1>1, <1>2, <1>6, <1>10 DEF TypeOK
<1> QED BY <1>7, <1>8, <1>9, <1>11 DEF SocketInv

\* release gives the descriptor away, and ~fd_resource closes it: nobody is in
\* an operation on it.
LEMMA Loses ==
  ASSUME SocketInv, NEW r \in Res, fd' = [fd EXCEPT ![r] = "released"] \/ fd' = [fd EXCEPT ![r] = "closed"],
         UNCHANGED <<res, opened, closing, inflight, held, opc, wpc, kind, class, calls, after>>,
         r # res, r <= opened, inflight[r] = 0 \/ fd' = [fd EXCEPT ![r] = "closed"],
         \A o \in Ops : held[o] = r => ~InOperation(o) /\ ~Guarded(o),
         \A s \in Threads : \/ tpc'[s] = tpc[s] /\ tres'[s] = tres[s]
                            \/ tpc'[s] = "idle" /\ tres'[s] = NoRes /\ after[s] = "idle"
  PROVE  Guards' /\ fd' \in [Res -> {"none", "open", "released", "closed"}]
<1>1. TypeOK /\ BaseTypeOK /\ Guards /\ Resources BY DEF SocketInv, TypeOK, Guards
<1>2. fd \in [Res -> {"none", "open", "released", "closed"}] BY <1>1 DEF BaseTypeOK
<1>3. PICK f \in {"released", "closed"} : fd' = [fd EXCEPT ![r] = f] OBVIOUS
<1>4. fd' \in [Res -> {"none", "open", "released", "closed"}] /\ fd'[r] = f /\ \A q \in Res \ {r} : fd'[q] = fd[q]
  BY <1>2, <1>3
<1>5. \A x \in Ops : /\ (InOperation(x)' <=> InOperation(x)) /\ (Connects(x)' <=> Connects(x))
                     /\ (Guarded(x)' <=> Guarded(x))
  BY DEF InOperation, Connects, Guarded
<1>6. \A x \in Ops : Placed(x)' BY <1>1, <1>5 DEF Guards, Placed
<1>7. InflightExact'
  <2>1. \A q \in Res : OpsIn(q)' = OpsIn(q) /\ OpsWaiting(q)' = OpsWaiting(q) BY <1>5 DEF OpsIn, OpsWaiting
  <2> QED BY <1>1, <2>1, SameCount DEF Guards
<1>8. NeverTakenAway'
  <2> SUFFICES ASSUME NEW o \in Ops, InOperation(o) \/ Guarded(o) PROVE fd'[held[o]] = "open"
    BY <1>5 DEF NeverTakenAway
  <2>1. fd[held[o]] = "open" /\ held[o] # r /\ held[o] \in 0..MaxRes
    BY <1>1 DEF Guards, NeverTakenAway, BaseTypeOK
  <2>2. held[o] # NoRes
    <3>1. Placed(o) BY <1>1 DEF Guards
    <3> QED BY <3>1 DEF Placed, InOperation, Guarded
  <2>3. held[o] \in Res BY <2>1, <2>2, ResIs
  <2> QED BY <1>4, <2>1, <2>3
<1>9. ASSUME NEW s \in Threads PROVE Called(s)'
  <2>1. Called(s) /\ NoRes <= opened BY CallHas
  <2>2. CASE tpc'[s] = tpc[s] /\ tres'[s] = tres[s] BY <2>1, <2>2 DEF Called, Releasing, Res
  <2>3. CASE tpc'[s] = "idle" /\ tres'[s] = NoRes /\ after[s] = "idle"
    BY <2>1, <2>3 DEF Called, Releasing, Fetched
  <2> QED BY <2>2, <2>3
<1>10. Resources'
  <2>1. res # NoRes => fd'[res] = "open" /\ ~closing[res]
    <3> SUFFICES ASSUME res # NoRes PROVE fd'[res] = "open" /\ ~closing[res] OBVIOUS
    <3>1. res \in Res BY <1>1, ResIs DEF BaseTypeOK
    <3> QED BY <1>1, <1>4, <3>1 DEF Resources
  <2>2. ASSUME NEW q \in Res PROVE (q > opened => fd'[q] = "none" /\ ~closing[q]) /\ (fd'[q] = "released" => inflight[q] = 0)
    <3>1. (q > opened => fd[q] = "none" /\ ~closing[q]) /\ (fd[q] = "released" => inflight[q] = 0)
      BY <1>1 DEF Resources
    <3>2. CASE q = r
      <4>1. ~(r > opened)
        <5>1. r \in Nat /\ opened \in Nat
          <6>1. opened \in 0..MaxRes BY <1>1 DEF BaseTypeOK
          <6> QED BY <6>1, Bounds, SMT DEF Res
        <5> QED BY <5>1, SMT
      <4>2. fd'[r] = "released" => inflight[r] = 0
        <5>1. fd' = [fd EXCEPT ![r] = "closed"] => fd'[r] = "closed" BY <1>2
        <5> QED BY <5>1
      <4> QED BY <3>2, <4>1, <4>2
    <3>3. CASE q # r BY <1>4, <3>1, <3>3
    <3> QED BY <3>2, <3>3
  <2>3. \A o \in Ops : held[o] <= opened BY <1>1 DEF Resources
  <2>4. res <= opened BY <1>1 DEF Resources
  <2> QED BY <1>9, <2>1, <2>2, <2>3, <2>4 DEF Resources, Res
<1> QED BY <1>4, <1>6, <1>7, <1>8, <1>10 DEF Guards

\* Nobody waits on it, and remove_fd_sync finds nothing to take out.
LEMMA NothingRegistered ==
  ASSUME SocketInv, NEW r \in Res, \A o \in Ops : held[o] = r => ~Guarded(o), Deregister(r)
  PROVE  slot' = slot /\ waitRes' = waitRes
<1>1. Reached /\ slot \in [Res -> [Dirs -> Ops \cup {None}]] /\ DOMAIN waitRes = Ops /\ waitRes = [o \in Ops |-> waitRes[o]]
  BY DEF SocketInv, TypeOK, BaseTypeOK
<1>2. \A d \in Dirs, o \in Ops : slot[r][d] # o
  <2> SUFFICES ASSUME NEW d \in Dirs, NEW o \in Ops, slot[r][d] = o PROVE FALSE BY SMT
  <2>1. held[o] = r /\ wpc[o] \in {"handle", "waiting"} BY <1>1, InSlot, SMT
  <2> QED BY <2>1 DEF Guarded
<1>3. slot[r] = [d \in Dirs |-> None]
  <2>1. slot[r] \in [Dirs -> Ops \cup {None}] BY <1>1
  <2>2. \A d \in Dirs : slot[r][d] = None BY <1>2, <2>1, SMT
  <2> QED BY <2>1, <2>2, SMT
<1>4. slot' = slot BY <1>1, <1>3, SMT DEF Deregister
<1>5. \A o \in Ops : slot[r][DirOf(o)] # o BY <1>2, Directions, SMT
<1>6. waitRes' = [o \in Ops |-> waitRes[o]]
  <2>1. waitRes' = [o \in Ops |-> IF slot[r][DirOf(o)] = o THEN "aborted" ELSE waitRes[o]] BY DEF Deregister
  <2> QED BY <1>5, <2>1, SMT
<1> QED BY <1>1, <1>4, <1>6

LEMMA GiveAwayStep ==
  ASSUME SocketInv, Sizes, NEW t \in Threads, GiveAway(t), Derived
  PROVE  SocketInv'
<1>1. TypeOK /\ BaseTypeOK /\ Guards /\ Reached /\ Owns BY DEF SocketInv, TypeOK
<1>2. /\ UNCHANGED <<res, opened, closing, inflight, cancelEpoch, handle, cancels, wpc, held, myCancel>>
      /\ UNCHANGED <<after, calls, registered, kind>> /\ tpc[t] = "release" /\ TGo(t, "idle")
      /\ tres' = [tres EXCEPT ![t] = NoRes] /\ fd' = [fd EXCEPT ![tres[t]] = "released"] /\ Deregister(tres[t])
  BY DEF GiveAway
<1>3. tpc' \in [Threads -> Points] /\ tpc'[t] = "idle" /\ \A s \in Threads \ {t} : tpc'[s] = tpc[s]
  <2>1. "idle" \in Points BY DEF Points
  <2> QED BY <1>1, <1>2, <2>1, Moved
<1>4. tres' \in [Threads -> 0..MaxRes] /\ tres'[t] = NoRes /\ \A s \in Threads \ {t} : tres'[s] = tres[s]
  BY <1>1, <1>2, ResIs DEF BaseTypeOK
<1>5. Called(t) /\ tres[t] <= opened /\ tres[t] \in Res /\ tres[t] # res /\ inflight[tres[t]] = 0 /\ after[t] = "idle"
  BY <1>2, CallHas DEF Called, Releasing
<1>6. PICK r \in Res : r = tres[t] BY <1>5
<1>7. \A o \in Ops : held[o] = r => ~InOperation(o) /\ ~Guarded(o) BY <1>1, <1>5, <1>6, NoGuards DEF Guards
<1>8. UNCHANGED <<class, epoch, active, state, shut, raced, opc, myEpoch, storing>> BY DerivedIs
<1>9. slot' = slot /\ waitRes' = waitRes
  <2>1. Deregister(r) BY <1>2, <1>6
  <2> QED BY <1>7, <2>1, NothingRegistered
<1>10. Guards' /\ fd' \in [Res -> {"none", "open", "released", "closed"}]
  <2>1. fd' = [fd EXCEPT ![r] = "released"] /\ r # res /\ r <= opened /\ inflight[r] = 0 BY <1>2, <1>5, <1>6
  <2>2. \A s \in Threads : \/ tpc'[s] = tpc[s] /\ tres'[s] = tres[s]
                           \/ tpc'[s] = "idle" /\ tres'[s] = NoRes /\ after[s] = "idle"
    BY <1>3, <1>4, <1>5
  <2> QED BY <1>2, <1>7, <1>8, <2>1, <2>2, Loses
<1>11. Reached' BY <1>2, <1>3, <1>4, <1>9, ReachedKept
<1>12. Owns' BY <1>1, <1>2, <1>3, <1>8, OwnsThread
<1>13. BaseTypeOK' BY <1>1, <1>2, <1>3, <1>4, <1>9, <1>10 DEF BaseTypeOK, Res
<1>14. TypeOK' BY <1>1, <1>2, <1>8, <1>13 DEF TypeOK
<1> QED BY <1>10, <1>11, <1>12, <1>14 DEF SocketInv

LEMMA DestroyStep ==
  ASSUME SocketInv, NEW r \in Res, Destroy(r), Derived
  PROVE  SocketInv'
<1>1. TypeOK /\ BaseTypeOK /\ Guards /\ Reached /\ Owns BY DEF SocketInv, TypeOK
<1>2. /\ UNCHANGED <<res, opened, closing, inflight, cancelEpoch, wpc, held, myCancel>>
      /\ UNCHANGED <<tpc, after, tres, calls, registered, kind>> /\ fd[r] = "open" /\ r # res
      /\ (\A o \in Ops : held[o] # r) /\ (\A t \in Threads : tres[t] # r)
      /\ cancels' = cancels \cup ({handle[r][d] : d \in Dirs} \ {None})
      /\ handle' = [handle EXCEPT ![r] = [d \in Dirs |-> None]]
      /\ fd' = [fd EXCEPT ![r] = "closed"] /\ Deregister(r)
  BY DEF Destroy, Unreferenced, threadVars
<1>3. handle \in [Res -> [Dirs -> Ops \cup {None}]] /\ cancels \subseteq Ops BY <1>1 DEF BaseTypeOK
<1>4. /\ handle' \in [Res -> [Dirs -> Ops \cup {None}]] /\ \A d \in Dirs : handle'[r][d] = None
      /\ \A q \in Res, e \in Dirs : q # r => handle'[q][e] = handle[q][e]
  BY <1>2, <1>3, SMT
<1>5. \A d \in Dirs : handle[r][d] \in Ops \cup {None} BY <1>3, SMT
<1>6. cancels' \subseteq Ops /\ cancels \subseteq cancels' BY <1>2, <1>3, <1>5
<1>7. \A d \in Dirs : handle[r][d] # None => handle[r][d] \in cancels' BY <1>2
<1>8. UNCHANGED <<class, epoch, active, state, shut, raced, opc, myEpoch, storing>> BY DerivedIs
<1>9. slot' = slot /\ waitRes' = waitRes BY <1>2, NothingRegistered
<1>10. r <= opened
  <2>1. r > opened => fd[r] = "none" BY <1>1 DEF Guards, Resources
  <2>2. ~(r > opened) BY <1>2, <2>1
  <2>3. opened \in 0..MaxRes BY <1>1 DEF BaseTypeOK
  <2> QED BY <2>2, <2>3, Bounds, SMT DEF Res
<1>11. Guards' /\ fd' \in [Res -> {"none", "open", "released", "closed"}] BY <1>2, <1>8, <1>10, Loses
<1>12. Reached'
  <2>1. \A q \in Res, e \in Dirs : ~(q = r /\ e \in Dirs) => handle'[q][e] = handle[q][e] BY <1>4
  <2>2. \A s \in Threads, d \in Dirs :
          Takes(s, d) => (Takes(s, d)' /\ tpc'[s] = tpc[s] /\ tres'[s] = tres[s]) \/ (tres[s] = r /\ d \in Dirs)
    BY <1>2 DEF Takes, TakeAt
  <2>3. Dirs \in SUBSET Dirs OBVIOUS
  <2>4. UNCHANGED <<closing, cancelEpoch, slot, wpc, held, myCancel, waitRes, registered, kind>>
    BY <1>2, <1>9
  <2>5. \A e \in Dirs : handle'[r][e] = None /\ (handle[r][e] # None => handle[r][e] \in cancels')
    BY <1>4, <1>7
  <2> QED BY <1>6, <2>1, <2>2, <2>3, <2>4, <2>5, HandlesTaken
<1>13. Owns' BY <1>1, <1>2, OwnsSame
<1>14. BaseTypeOK' BY <1>1, <1>2, <1>4, <1>6, <1>9, <1>11 DEF BaseTypeOK, Res
<1>15. TypeOK' BY <1>1, <1>2, <1>8, <1>14 DEF TypeOK
<1> QED BY <1>11, <1>12, <1>13, <1>15 DEF SocketInv

-----------------------------------------------------------------------------
\* What the derived sockets do before and after the base.  A step of a thread
\* that touches no resource.
ThreadFrame(t) ==
  /\ UNCHANGED <<res, opened, closing, fd, inflight, cancelEpoch, handle, slot, cancels, wpc, held, myCancel, waitRes>>
  /\ UNCHANGED <<after, registered, kind, class, active, opc, myEpoch>>
  /\ \A s \in Threads \ {t} : tpc'[s] = tpc[s] /\ tres'[s] = tres[s]
  /\ tpc[t] \notin {"take", "take_read", "take_write"}

LEMMA ThreadKeeps ==
  ASSUME SocketInv, NEW t \in Threads, ThreadFrame(t), Called(t)', Owns', calls' \in 0..MaxCalls,
         calls' = calls \/ calls' # 0, tpc' \in [Threads -> Points], tres' \in [Threads -> 0..MaxRes],
         epoch' \in [AllKinds -> Nat],
         state' \in {"none", "disconnected", "connecting", "connected", "idle", "bound", "not_listening", "listening"},
         shut' \subseteq Dirs, raced' \in BOOLEAN,
         storing' \in [Threads -> SUBSET (Dirs \cup {"bound", "connected", "listening"})]
  PROVE  SocketInv'
<1>1. TypeOK /\ BaseTypeOK BY DEF SocketInv, TypeOK
<1>2. /\ UNCHANGED <<res, opened, closing, fd, inflight, cancelEpoch, handle, slot, cancels, wpc, held, myCancel, waitRes>>
      /\ UNCHANGED <<after, registered, kind, class, active, opc, myEpoch>>
      /\ \A s \in Threads \ {t} : tpc'[s] = tpc[s] /\ tres'[s] = tres[s]
      /\ tpc[t] \notin {"take", "take_read", "take_write"}
  BY DEF ThreadFrame
<1>3. Guards'
  <2>1. closing' \in [Res -> BOOLEAN] BY <1>1, <1>2 DEF BaseTypeOK
  <2> QED BY <1>2, <2>1, ThreadGuards
<1>4. Reached' BY <1>2, ReachedKept
<1>5. BaseTypeOK' BY <1>1, <1>2 DEF BaseTypeOK, Res
<1>6. TypeOK' BY <1>1, <1>2, <1>5 DEF TypeOK
<1> QED BY <1>3, <1>4, <1>6 DEF SocketInv

\* A state that is not a stream's, or one that is new: nobody counts on it.
LEMMA OwnsStored ==
  ASSUME SocketInv, NEW t \in Threads, ThreadFrame(t), state' # "connecting" \/ state' = state,
         \/ class # "stream"
         \/ state' = state /\ (tpc[t] = "close" => tpc'[t] = "close")
         \/ state' = "disconnected" /\ tpc'[t] = "close",
         class = "base" => state' = "none" /\ shut' = {},
         state' \notin {Fresh[class], "connecting"} \/ shut' # {} => raced' \/ Unclosed'
  PROVE  Owns'
<1>1. TypeOK /\ Owns BY DEF SocketInv
<1>2. UNCHANGED <<res, held, kind, class, active, opc>> /\ \A s \in Threads \ {t} : tpc'[s] = tpc[s]
  BY DEF ThreadFrame
<1>3. \A o \in Ops : (Running(o)' <=> Running(o)) /\ (Connects(o)' <=> Connects(o)) /\ (Connects(o) => class = "stream")
  BY <1>1, <1>2, ConnectsIsStream DEF Running, InOperation, Connects
<1>4. Exclusive'
  <2>1. ASSUME NEW o \in Ops, Connects(o)', Running(o)' PROVE state' # "connected"
    <3>1. Connects(o) /\ Running(o) /\ class = "stream" BY <1>3, <2>1
    <3>2. state # "connected" BY <1>1, <3>1 DEF Owns, Exclusive
    <3> QED BY <3>1, <3>2
  <2>2. ASSUME NEW o \in Ops, class' = "stream", ~Connects(o)', opc'[o] = "start" \/ Running(o)'
        PROVE  state' = "connected" \/ Closed(held[o])'
    <3>1. state = "connected" \/ Closed(held[o]) BY <1>1, <1>2, <1>3, <2>2 DEF Owns, Exclusive
    <3>2. CASE state' = "disconnected" /\ tpc'[t] = "close" BY <3>2 DEF Closed
    <3>3. CASE state' = state /\ (tpc[t] = "close" => tpc'[t] = "close")
      <4>1. Closed(held[o]) => Closed(held[o])' BY <1>2, <3>3 DEF Closed
      <4> QED BY <3>1, <3>3, <4>1
    <3> QED BY <1>2, <2>2, <3>2, <3>3
  <2> QED BY <1>1, <1>2, <1>3, <2>1, <2>2 DEF Owns, Exclusive
<1>5. ConnectingIsOwned'
  <2> SUFFICES ASSUME state' = "connecting" PROVE \E o \in Ops : Connects(o)' /\ Running(o)'
    BY DEF ConnectingIsOwned
  <2>1. state = "connecting" OBVIOUS
  <2> QED BY <1>1, <1>3, <2>1 DEF Owns, ConnectingIsOwned
<1>6. Clean' BY <1>2 DEF Clean
<1> QED BY <1>4, <1>5, <1>6 DEF Owns

\* A call raises epochs and goes on.
LEMMA PreludeIs ==
  ASSUME SocketInv, NEW t \in Threads, NEW next \in {"cancel", "cancel_read", "cancel_write", "clear", "close"}, NEW ks,
         Prelude(t, next, ks)
  PROVE  /\ ThreadFrame(t) /\ Called(t)' /\ calls' \in 0..MaxCalls /\ calls' # 0 /\ tpc' \in [Threads -> Points]
         /\ tres' \in [Threads -> 0..MaxRes] /\ epoch' \in [AllKinds -> Nat] /\ UNCHANGED <<raced, storing>>
         /\ tpc[t] = "idle" /\ tpc'[t] = next
<1>1. TypeOK /\ BaseTypeOK BY DEF SocketInv, TypeOK
<1>2. /\ UNCHANGED <<res, opened, closing, fd, inflight, cancelEpoch, handle, slot, cancels, wpc, held, myCancel, waitRes>>
      /\ UNCHANGED <<after, tres, registered, kind, class, active, raced, opc, myEpoch, storing>>
      /\ Enter(t, "idle") /\ Counted("idle") /\ TGo(t, next)
      /\ epoch' = [k \in AllKinds |-> IF k \in ks THEN epoch[k] + 1 ELSE epoch[k]]
  BY DEF Prelude, resVars, waitVars, opVars, coVars
<1>3. tpc[t] = "idle" /\ calls' \in 0..MaxCalls /\ calls' # 0 BY <1>1, <1>2, CallsCounted
<1>4. tpc' \in [Threads -> Points] /\ tpc'[t] = next /\ \A s \in Threads \ {t} : tpc'[s] = tpc[s]
  <2>1. next \in Points BY DEF Points
  <2> QED BY <1>1, <1>2, <2>1, Moved
<1>5. ThreadFrame(t) BY <1>2, <1>3, <1>4 DEF ThreadFrame
<1>6. Called(t)'
  <2>1. Called(t) BY CallHas
  <2> QED BY <1>2, <1>3, <1>4, <2>1 DEF Called, Releasing, Fetched
<1>7. epoch' \in [AllKinds -> Nat]
  <2>1. epoch \in [AllKinds -> Nat] BY <1>1 DEF TypeOK
  <2> QED BY <1>2, <2>1, SMT
<1>8. tres' \in [Threads -> 0..MaxRes] BY <1>1, <1>2 DEF BaseTypeOK
<1> QED BY <1>2, <1>3, <1>4, <1>5, <1>6, <1>7, <1>8

LEMMA CancellingStep ==
  ASSUME SocketInv, NEW t \in Threads, NEW next \in {"cancel", "cancel_read", "cancel_write", "clear"}, NEW ks,
         Cancelling(t, next, ks)
  PROVE  SocketInv'
<1>1. Prelude(t, next, ks) /\ UNCHANGED <<state, shut>> /\ TypeOK /\ Owns BY DEF Cancelling, SocketInv
<1>2. /\ ThreadFrame(t) /\ Called(t)' /\ calls' \in 0..MaxCalls /\ calls' # 0 /\ tpc' \in [Threads -> Points]
      /\ tres' \in [Threads -> 0..MaxRes] /\ epoch' \in [AllKinds -> Nat] /\ UNCHANGED <<raced, storing>>
      /\ tpc[t] = "idle" /\ tpc'[t] = next
  BY <1>1, PreludeIs
<1>3. Owns' BY <1>1, <1>2, OwnsThread DEF ThreadFrame
<1>4. /\ state' \in {"none", "disconnected", "connecting", "connected", "idle", "bound", "not_listening", "listening"}
      /\ shut' \subseteq Dirs /\ raced' \in BOOLEAN
      /\ storing' \in [Threads -> SUBSET (Dirs \cup {"bound", "connected", "listening"})]
  BY <1>1, <1>2 DEF TypeOK
<1> QED BY <1>2, <1>3, <1>4, ThreadKeeps

\* close of a datagram socket or an acceptor; the second half of a stream's.
LEMMA ClosingStep ==
  ASSUME SocketInv, NEW t \in Threads, Closing(t), class \in {"datagram", "acceptor"}
  PROVE  SocketInv'
<1>1. Prelude(t, "close", Kinds[class]) /\ state' = Fresh[class] /\ shut' = {} /\ TypeOK
  BY DEF Closing, SocketInv
<1>2. /\ ThreadFrame(t) /\ Called(t)' /\ calls' \in 0..MaxCalls /\ calls' # 0 /\ tpc' \in [Threads -> Points]
      /\ tres' \in [Threads -> 0..MaxRes] /\ epoch' \in [AllKinds -> Nat] /\ UNCHANGED <<raced, storing>>
  <2>1. PICK ks : Prelude(t, "close", ks) BY <1>1
  <2> QED BY <2>1, PreludeIs
<1>3. state' \in {"idle", "not_listening"} BY <1>1, FreshIs
<1>4. Owns' BY <1>1, <1>2, <1>3, OwnsStored
<1>5. /\ state' \in {"none", "disconnected", "connecting", "connected", "idle", "bound", "not_listening", "listening"}
      /\ shut' \subseteq Dirs /\ raced' \in BOOLEAN
      /\ storing' \in [Threads -> SUBSET (Dirs \cup {"bound", "connected", "listening"})]
  BY <1>1, <1>2, <1>3 DEF TypeOK
<1> QED BY <1>2, <1>4, <1>5, ThreadKeeps

LEMMA ResetStreamStep ==
  ASSUME SocketInv, NEW t \in Threads, ResetStream(t), class = "stream"
  PROVE  SocketInv'
<1>1. TypeOK /\ BaseTypeOK BY DEF SocketInv, TypeOK
<1>2. /\ UNCHANGED <<res, opened, closing, fd, inflight, cancelEpoch, handle, slot, cancels, wpc, held, myCancel, waitRes>>
      /\ UNCHANGED <<after, tres, calls, registered, kind, class, epoch, active, raced, opc, myEpoch, storing>>
      /\ tpc[t] = "clear" /\ TGo(t, "close") /\ state' = "disconnected" /\ shut' = {}
  BY DEF ResetStream, NoShut, resVars, waitVars, opVars, coVars
<1>3. tpc' \in [Threads -> Points] /\ tpc'[t] = "close" /\ \A s \in Threads \ {t} : tpc'[s] = tpc[s]
  <2>1. "close" \in Points BY DEF Points
  <2> QED BY <1>1, <1>2, <2>1, Moved
<1>4. ThreadFrame(t) BY <1>2, <1>3 DEF ThreadFrame
<1>5. Called(t)'
  <2>1. Called(t) BY CallHas
  <2> QED BY <1>2, <1>3, <2>1 DEF Called, Releasing, Fetched
<1>6. Owns' BY <1>2, <1>3, <1>4, FreshIs, OwnsStored
<1>7. /\ epoch' \in [AllKinds -> Nat] /\ raced' \in BOOLEAN /\ shut' \subseteq Dirs
      /\ storing' \in [Threads -> SUBSET (Dirs \cup {"bound", "connected", "listening"})]
  BY <1>1, <1>2 DEF TypeOK
<1>8. tres' \in [Threads -> 0..MaxRes] /\ calls' \in 0..MaxCalls BY <1>1, <1>2 DEF BaseTypeOK
<1> QED BY <1>2, <1>3, <1>4, <1>5, <1>6, <1>7, <1>8, ThreadKeeps

LEMMA ResetListeningStep ==
  ASSUME SocketInv, NEW t \in Threads, ResetListening(t), class = "acceptor"
  PROVE  SocketInv'
<1>1. TypeOK /\ BaseTypeOK /\ Owns BY DEF SocketInv, TypeOK
<1>2. /\ UNCHANGED <<res, opened, closing, fd, inflight, cancelEpoch, handle, slot, cancels, wpc, held, myCancel, waitRes>>
      /\ UNCHANGED <<after, tres, calls, registered, kind, class, epoch, active, shut, raced, opc, myEpoch, storing>>
      /\ tpc[t] = "reset" /\ TGo(t, "idle") /\ state' = "not_listening"
  BY DEF ResetListening, resVars, waitVars, opVars, coVars
<1>3. tpc' \in [Threads -> Points] /\ tpc'[t] = "idle" /\ \A s \in Threads \ {t} : tpc'[s] = tpc[s]
  <2>1. "idle" \in Points BY DEF Points
  <2> QED BY <1>1, <1>2, <2>1, Moved
<1>4. ThreadFrame(t) BY <1>2, <1>3 DEF ThreadFrame
<1>5. Called(t)'
  <2>1. Called(t) BY CallHas
  <2> QED BY <1>2, <1>3, <2>1 DEF Called, Releasing, Fetched
<1>6. Owns'
  <2>1. Unclosed => Unclosed' BY <1>2, <1>3 DEF Unclosed
  <2>2. shut # {} => raced \/ Unclosed BY <1>1 DEF Owns, Clean
  <2> QED BY <1>2, <1>4, <2>1, <2>2, FreshIs, OwnsStored
<1>7. /\ epoch' \in [AllKinds -> Nat] /\ raced' \in BOOLEAN /\ shut' \subseteq Dirs
      /\ storing' \in [Threads -> SUBSET (Dirs \cup {"bound", "connected", "listening"})]
  BY <1>1, <1>2 DEF TypeOK
<1>8. tres' \in [Threads -> 0..MaxRes] /\ calls' \in 0..MaxCalls BY <1>1, <1>2 DEF BaseTypeOK
<1> QED BY <1>2, <1>3, <1>4, <1>5, <1>6, <1>7, <1>8, ThreadKeeps

\* shutdown, bind, connect of a datagram socket and listen: the system call, and
\* then the store of what it granted.
LEMMA AcquireStep ==
  ASSUME SocketInv, NEW t \in Threads, NEW what \in SUBSET (Dirs \cup {"bound", "connected", "listening"}), Acquire(t, what)
  PROVE  SocketInv'
<1>1. TypeOK /\ BaseTypeOK /\ Owns BY DEF SocketInv, TypeOK
<1>2. /\ UNCHANGED <<res, opened, closing, fd, inflight, cancelEpoch, handle, slot, cancels, wpc, held, myCancel, waitRes>>
      /\ UNCHANGED <<after, registered, kind, class, epoch, active, state, shut, raced, opc, myEpoch>>
      /\ tpc[t] = "idle" /\ calls < MaxCalls /\ calls' = (IF calls = 0 /\ class # "stream" THEN 0 ELSE calls + 1)
      /\ res # NoRes /\ tres' = [tres EXCEPT ![t] = res] /\ TGo(t, "store") /\ storing' = [storing EXCEPT ![t] = what]
  BY DEF Acquire, Enter, resVars, waitVars, opVars, objVars, coVars
<1>3. tpc' \in [Threads -> Points] /\ tpc'[t] = "store" /\ \A s \in Threads \ {t} : tpc'[s] = tpc[s]
  <2>1. "store" \in Points BY DEF Points
  <2> QED BY <1>1, <1>2, <2>1, Moved
<1>4. tres' \in [Threads -> 0..MaxRes] /\ tres'[t] = res /\ \A s \in Threads \ {t} : tres'[s] = tres[s]
  BY <1>1, <1>2 DEF BaseTypeOK
<1>5. calls' \in 0..MaxCalls /\ (calls' = calls \/ calls' # 0)
  <2>1. calls \in 0..MaxCalls BY <1>1 DEF BaseTypeOK
  <2>2. (calls' = 0 /\ calls = 0) \/ calls' = calls + 1 BY <1>2
  <2> QED BY <1>2, <2>1, <2>2, Bounds, SMT
<1>6. ThreadFrame(t) BY <1>2, <1>3, <1>4 DEF ThreadFrame
<1>7. Called(t)'
  <2>1. Called(t) /\ res <= opened BY CallHas
  <2> QED BY <1>2, <1>3, <1>4, <2>1 DEF Called, Releasing, Fetched
<1>8. Owns' BY <1>1, <1>2, <1>3, OwnsThread
<1>9. /\ epoch' \in [AllKinds -> Nat] /\ raced' \in BOOLEAN /\ shut' \subseteq Dirs
      /\ state' \in {"none", "disconnected", "connecting", "connected", "idle", "bound", "not_listening", "listening"}
      /\ storing' \in [Threads -> SUBSET (Dirs \cup {"bound", "connected", "listening"})]
  BY <1>1, <1>2 DEF TypeOK
<1> QED BY <1>3, <1>4, <1>5, <1>6, <1>7, <1>8, <1>9, ThreadKeeps

LEMMA StoreOnce ==
  ASSUME SocketInv, NEW t \in Threads, NEW s, NEW sh, Store(t, s, sh), class # "base", sh \subseteq Dirs,
         s = state \/ (class # "stream" /\ s \in {"bound", "connected", "listening"})
  PROVE  SocketInv'
<1>1. TypeOK /\ BaseTypeOK BY DEF SocketInv, TypeOK
<1>2. /\ UNCHANGED <<res, opened, closing, fd, inflight, cancelEpoch, handle, slot, cancels, wpc, held, myCancel, waitRes>>
      /\ UNCHANGED <<after, calls, registered, kind, class, epoch, active, opc, myEpoch>>
      /\ tpc[t] = "store" /\ TGo(t, "idle") /\ tres' = [tres EXCEPT ![t] = NoRes]
      /\ state' = s /\ shut' = sh /\ raced' = (raced \/ Closed(tres[t])) /\ storing' = [storing EXCEPT ![t] = {}]
  BY DEF Store, resVars, waitVars, opVars, coVars
<1>3. tpc' \in [Threads -> Points] /\ tpc'[t] = "idle" /\ \A x \in Threads \ {t} : tpc'[x] = tpc[x]
  <2>1. "idle" \in Points BY DEF Points
  <2> QED BY <1>1, <1>2, <2>1, Moved
<1>4. tres' \in [Threads -> 0..MaxRes] /\ tres'[t] = NoRes /\ \A x \in Threads \ {t} : tres'[x] = tres[x]
  BY <1>1, <1>2, ResIs DEF BaseTypeOK
<1>5. ThreadFrame(t) BY <1>2, <1>3, <1>4 DEF ThreadFrame
<1>6. Called(t) /\ NoRes <= opened /\ tres[t] \in Res BY <1>2, CallHas DEF Fetched
<1>7. Called(t)' BY <1>2, <1>3, <1>4, <1>6 DEF Called, Releasing, Fetched
<1>8. raced' \/ Unclosed'
  <2> SUFFICES ASSUME ~Closed(tres[t]) PROVE Unclosed' BY <1>2
  <2>1. tres[t] = res /\ \A x \in Threads : tpc[x] # "close" BY DEF Closed
  <2> QED BY <1>2, <1>3, <1>6, <2>1, Bounds DEF Unclosed
<1>9. Owns' BY <1>2, <1>3, <1>5, <1>8, OwnsStored
<1>10. /\ epoch' \in [AllKinds -> Nat] /\ raced' \in BOOLEAN /\ shut' \subseteq Dirs
       /\ state' \in {"none", "disconnected", "connecting", "connected", "idle", "bound", "not_listening", "listening"}
  BY <1>1, <1>2 DEF TypeOK
<1>11. storing' \in [Threads -> SUBSET (Dirs \cup {"bound", "connected", "listening"})]
  BY <1>1, <1>2 DEF TypeOK
<1>12. calls' \in 0..MaxCalls BY <1>1, <1>2 DEF BaseTypeOK
<1> QED BY <1>2, <1>3, <1>4, <1>5, <1>7, <1>9, <1>10, <1>11, <1>12, ThreadKeeps

\* assign, on a socket that was never opened.
LEMMA StreamAssignStep ==
  ASSUME SocketInv, NEW t \in Threads, StreamAssign(t), class = "stream"
  PROVE  SocketInv'
<1>1. TypeOK /\ BaseTypeOK /\ Guards /\ Reached /\ Owns /\ Resources BY DEF SocketInv, TypeOK, Guards
<1>2. /\ MakeResource /\ tpc[t] = "idle" /\ calls = 0 /\ opened = 0 /\ state' = "connected" /\ shut' = {}
      /\ UNCHANGED <<closing, inflight, cancelEpoch, handle, slot, cancels, wpc, held, myCancel, waitRes>>
      /\ UNCHANGED <<tpc, after, tres, calls, registered, kind, class, epoch, active, raced, opc, myEpoch, storing>>
  BY DEF StreamAssign, waitVars, opVars, threadVars, coVars
<1>3. Called(t) /\ tres[t] \in 0..MaxRes BY CallHas
<1>4. after'[t] = "idle" /\ tpc'[t] \in {"idle", "reset"} /\ tres'[t] <= opened /\ tres'[t] \in 0..MaxRes
  BY <1>2, <1>3 DEF Called
<1>5. /\ Guards' /\ res' \in Res /\ res' \in 0..MaxRes /\ opened' \in 0..MaxRes
      /\ fd' \in [Res -> {"none", "open", "released", "closed"}]
  BY <1>2, <1>4, Makes
<1>6. Reached' BY <1>2, ReachedKept
<1>7. ASSUME NEW o \in Ops PROVE opc'[o] # "start" /\ ~Running(o)'
  <2>1. held[o] <= opened /\ held[o] \in 0..MaxRes BY <1>1 DEF Resources, BaseTypeOK
  <2>2. held[o] = NoRes BY <1>2, <2>1, Bounds, SMT
  <2>3. Placed(o) BY <1>1 DEF Guards
  <2>4. opc[o] \in {"idle", "done"} BY <2>2, <2>3 DEF Placed
  <2> QED BY <1>2, <2>4 DEF Running, InOperation
<1>8. Unclosed'
  <2>1. \A x \in Threads : Called(x) BY <1>1 DEF Resources
  <2> QED BY <1>2, <1>5, <2>1, Bounds DEF Unclosed, Called
<1>9. Owns' BY <1>2, <1>7, <1>8 DEF Owns, Exclusive, ConnectingIsOwned, Clean
<1>10. BaseTypeOK' BY <1>1, <1>2, <1>5 DEF BaseTypeOK, Res
<1>11. TypeOK' BY <1>1, <1>2, <1>10 DEF TypeOK
<1> QED BY <1>5, <1>6, <1>9, <1>11 DEF SocketInv

-----------------------------------------------------------------------------
\* The waits of the base by itself.
LEMMA BaseWaits ==
  ASSUME SocketInv, Sizes, NEW o \in Ops, class = "base", Derived, OpFrame(o), Placed(o)', held'[o] <= opened,
         inflight' = inflight, calls' = calls \/ calls' # 0, calls' \in 0..MaxCalls,
         wpc' \in [Ops -> {"idle", "guard", "epoch", "register", "handle", "waiting", "done"}],
         held' \in [Ops -> 0..MaxRes],
         waitRes' \in [Ops -> {"none", "ready", "error", "aborted", "not_open"}]
  PROVE  SocketInv'
<1>1. TypeOK /\ BaseTypeOK /\ Guards /\ Reached /\ Owns BY DEF SocketInv, TypeOK
<1>2. UNCHANGED <<class, epoch, active, state, shut, raced, opc, myEpoch, storing>> BY DerivedIs
<1>3. opc[o] = "idle" BY <1>1 DEF Guards, Placed
<1>4. ~InOperation(o) /\ ~InOperation(o)' /\ ~Running(o) /\ ~Running(o)'
  BY <1>2, <1>3 DEF InOperation, Running
<1>5. Guards' /\ inflight' \in [Res -> Nat] BY <1>1, <1>4, OpGuards
<1>6. Reached' BY <1>1, OpReached
<1>7. Owns' BY <1>1, <1>2, <1>3, <1>4, OpOwns
<1>8. TypeOK' BY <1>1, <1>2, <1>5, OpTypes DEF TypeOK
<1> QED BY <1>5, <1>6, <1>7, <1>8 DEF SocketInv

LEMMA StartWaitStep ==
  ASSUME SocketInv, Sizes, NEW o \in Ops, class = "base", Derived, StartWait(o)
  PROVE  SocketInv'
<1>1. TypeOK /\ BaseTypeOK /\ Guards BY DEF SocketInv, TypeOK
<1>2. /\ UNCHANGED <<res, opened, closing, fd, inflight, cancelEpoch, handle, slot, cancels, myCancel>>
      /\ UNCHANGED <<tpc, after, tres, registered, kind>> /\ wpc[o] = "idle" /\ calls < MaxCalls /\ calls' = calls + 1
  BY DEF StartWait, StartCounted, resVars, waitVars
<1>3. UNCHANGED <<class, opc>> BY DerivedIs
<1>4. /\ wpc \in [Ops -> {"idle", "guard", "epoch", "register", "handle", "waiting", "done"}]
      /\ held \in [Ops -> 0..MaxRes] /\ res \in 0..MaxRes /\ calls \in 0..MaxCalls
      /\ waitRes \in [Ops -> {"none", "ready", "error", "aborted", "not_open"}]
  BY <1>1 DEF BaseTypeOK
<1>5. calls' # 0 /\ calls' \in 0..MaxCalls BY <1>2, <1>4, Bounds, SMT
<1>6. Placed(o) /\ res <= opened /\ held[o] <= opened BY <1>1 DEF Guards, Resources
<1>7. opc[o] = "idle" /\ held[o] = NoRes BY <1>2, <1>6 DEF Placed
<1>8. /\ wpc' \in [Ops -> {"idle", "guard", "epoch", "register", "handle", "waiting", "done"}]
      /\ held' \in [Ops -> 0..MaxRes] /\ waitRes' \in [Ops -> {"none", "ready", "error", "aborted", "not_open"}]
      /\ \A x \in Ops \ {o} : held'[x] = held[x] /\ wpc'[x] = wpc[x] /\ waitRes'[x] = waitRes[x]
      /\ \/ wpc'[o] = "done" /\ held'[o] = NoRes
         \/ wpc'[o] = "guard" /\ held'[o] = res /\ res # NoRes
  <2>1. CASE res = NoRes
    <3>1. wpc' = [wpc EXCEPT ![o] = "done"] /\ waitRes' = [waitRes EXCEPT ![o] = "not_open"] /\ held' = held
      BY <2>1 DEF StartWait, WGo, Answer
    <3>2. wpc' \in [Ops -> {"idle", "guard", "epoch", "register", "handle", "waiting", "done"}] /\ wpc'[o] = "done"
      BY <1>4, <3>1
    <3>3. waitRes' \in [Ops -> {"none", "ready", "error", "aborted", "not_open"}] BY <1>4, <3>1
    <3>4. \A x \in Ops \ {o} : held'[x] = held[x] /\ wpc'[x] = wpc[x] /\ waitRes'[x] = waitRes[x]
      BY <1>4, <3>1
    <3> QED BY <1>4, <1>7, <3>1, <3>2, <3>3, <3>4
  <2>2. CASE res # NoRes
    <3>1. wpc' = [wpc EXCEPT ![o] = "guard"] /\ held' = [held EXCEPT ![o] = res] /\ waitRes' = waitRes
      BY <2>2 DEF StartWait, WGo
    <3> QED BY <1>4, <2>2, <3>1
  <2> QED BY <2>1, <2>2
<1>9. OpFrame(o) BY <1>2, <1>3, <1>8 DEF OpFrame, Settled
<1>10. held'[o] <= opened BY <1>6, <1>7, <1>8
<1>11. Placed(o)' BY <1>3, <1>7, <1>8 DEF Placed
<1> QED BY <1>2, <1>5, <1>8, <1>9, <1>10, <1>11, BaseWaits

LEMMA ReturnWaitStep ==
  ASSUME SocketInv, Sizes, NEW o \in Ops, class = "base", Derived, ReturnWait(o)
  PROVE  SocketInv'
<1>1. TypeOK /\ BaseTypeOK /\ Guards BY DEF SocketInv, TypeOK
<1>2. /\ UNCHANGED <<res, opened, closing, fd, inflight, cancelEpoch, handle, slot, cancels, wpc, myCancel>>
      /\ UNCHANGED <<tpc, after, tres, calls, registered, kind>> /\ wpc[o] = "done"
      /\ held' = [held EXCEPT ![o] = NoRes] /\ waitRes' = [waitRes EXCEPT ![o] = "none"]
  BY DEF ReturnWait, Answer, resVars, waitVars, threadVars
<1>3. UNCHANGED <<class, opc>> BY DerivedIs
<1>4. /\ wpc' \in [Ops -> {"idle", "guard", "epoch", "register", "handle", "waiting", "done"}]
      /\ held \in [Ops -> 0..MaxRes] /\ NoRes \in 0..MaxRes /\ calls' \in 0..MaxCalls
      /\ waitRes \in [Ops -> {"none", "ready", "error", "aborted", "not_open"}]
  BY <1>1, <1>2, ResIs DEF BaseTypeOK
<1>5. Placed(o) /\ NoRes <= opened
  <2>1. Placed(o) /\ opened \in 0..MaxRes BY <1>1 DEF Guards, BaseTypeOK
  <2>2. NoRes <= opened BY <2>1, Bounds, SMT
  <2> QED BY <2>1, <2>2
<1>6. /\ held' \in [Ops -> 0..MaxRes] /\ waitRes' \in [Ops -> {"none", "ready", "error", "aborted", "not_open"}]
      /\ \A x \in Ops \ {o} : held'[x] = held[x] /\ wpc'[x] = wpc[x] /\ waitRes'[x] = waitRes[x]
      /\ held'[o] = NoRes
  BY <1>2, <1>4
<1>7. OpFrame(o) BY <1>2, <1>3, <1>6 DEF OpFrame, Settled
<1>8. held'[o] <= opened BY <1>5, <1>6
<1>9. Placed(o)' BY <1>2, <1>3, <1>5 DEF Placed
<1> QED BY <1>2, <1>4, <1>6, <1>7, <1>8, <1>9, BaseWaits

-----------------------------------------------------------------------------
LEMMA CallStepKeeps ==
  ASSUME SocketInv, Sizes, NEW t \in Threads, OfBase(CallStep(t)) \/ OfBase(BaseEntry(t))
  PROVE  SocketInv'
<1>1. Derived /\ (CallStep(t) \/ BaseEntry(t)) BY DEF OfBase, Derived
<1>2. CASE CallStep(t)
  BY <1>1, <1>2, MarkStep, TakeStep, GiveAwayStep, MakeStep, AdoptFailsStep, BumpStep DEF CallStep
<1>3. CASE BaseEntry(t)
  <2>1. CASE Close(t, "close")
    <3>1. Exchange(t, "close", "idle") BY <2>1 DEF Close
    <3> QED BY <1>1, <3>1, ExchangeStep
  <2>2. CASE Cancel(t, "cancel") BY <1>1, <2>2, CancelStep
  <2>3. CASE CancelDir(t, "cancel_read", "read")
    <3>1. "read" \in Dirs BY DEF Dirs
    <3> QED BY <1>1, <2>3, <3>1, CancelDirStep
  <2>4. CASE CancelDir(t, "cancel_write", "write")
    <3>1. "write" \in Dirs BY DEF Dirs
    <3> QED BY <1>1, <2>4, <3>1, CancelDirStep
  <2> QED BY <1>3, <2>1, <2>2, <2>3, <2>4 DEF BaseEntry
<1> QED BY <1>1, <1>2, <1>3

\* A stream socket stores directions.
Stored == class = "stream" => \A t \in Threads : storing[t] \subseteq Dirs

LEMMA StoreStepKeeps ==
  ASSUME SocketInv, Stored, NEW t \in Threads, StoreStep(t)
  PROVE  SocketInv'
<1>1. shut \subseteq Dirs /\ storing[t] \subseteq Dirs \cup {"bound", "connected", "listening"}
  BY DEF SocketInv, TypeOK
<1>2. CASE IsStream /\ StoreShut(t)
  <2>1. storing[t] \subseteq Dirs BY <1>2 DEF Stored, IsStream
  <2>2. PICK s, sh : s = state /\ sh = shut \cup storing[t] OBVIOUS
  <2>3. Store(t, s, sh) /\ class = "stream" /\ sh \subseteq Dirs
    BY <1>1, <1>2, <2>1, <2>2 DEF StoreShut, IsStream
  <2> QED BY <2>2, <2>3, StoreOnce
<1>3. CASE IsStream /\ ResetStream(t) BY <1>3, ResetStreamStep DEF IsStream
<1>4. CASE IsDatagram /\ StoreBound(t)
  <2>1. PICK s, sh : s = (IF state = "idle" THEN "bound" ELSE state) /\ sh = shut OBVIOUS
  <2>2. Store(t, s, sh) /\ class = "datagram" /\ (s = state \/ s = "bound")
    BY <1>4, <2>1 DEF StoreBound, IsDatagram
  <2> QED BY <1>1, <2>1, <2>2, StoreOnce
<1>5. CASE IsDatagram /\ StorePeer(t)
  <2>1. PICK sh : sh = shut OBVIOUS
  <2>2. Store(t, "connected", sh) /\ class = "datagram" BY <1>5, <2>1 DEF StorePeer, IsDatagram
  <2> QED BY <1>1, <2>1, <2>2, StoreOnce
<1>6. CASE IsAcceptor /\ StoreListening(t)
  <2>1. PICK sh : sh = shut OBVIOUS
  <2>2. Store(t, "listening", sh) /\ class = "acceptor" BY <1>6, <2>1 DEF StoreListening, IsAcceptor
  <2> QED BY <1>1, <2>1, <2>2, StoreOnce
<1>7. CASE IsAcceptor /\ ResetListening(t) BY <1>7, ResetListeningStep DEF IsAcceptor
<1> QED BY <1>2, <1>3, <1>4, <1>5, <1>6, <1>7 DEF StoreStep

LEMMA OpStores ==
  ASSUME NEW o \in Ops, Start(o) \/ OpStep(o)
  PROVE  UNCHANGED <<class, storing>>
<1>1. CASE Start(o) BY <1>1 DEF Start
<1>2. CASE LoopStep(o) BY <1>2 DEF LoopStep, Guard, CheckTo, Syscall, Block, Waited, EndFrame
<1>3. CASE StreamStep(o)
  BY <1>3 DEF StreamStep, ConnectBegin, TransferChecks, TransferStart, CheckTo, SoError, StoreConnected, Begin, Refuse, EndFrame
<1>4. CASE DatagramStep(o) BY <1>4 DEF DatagramStep, CheckBound, TransferBegin, Begin, Refuse, EndFrame
<1>5. CASE AcceptorStep(o)
  BY <1>5 DEF AcceptorStep, AcceptBegin, Accepted, ReturnAccepted, WouldBlock, Recheck, Begin, Refuse, EndFrame
<1> QED BY <1>1, <1>2, <1>3, <1>4, <1>5 DEF OpStep

LEMMA StoredKeeps ==
  ASSUME TypeOK, Stored, [Next]_vars
  PROVE  Stored'
<1>1. CASE UNCHANGED <<class, storing>> BY <1>1 DEF Stored
<1>2. ASSUME NEW t \in Threads, NEW what \in SUBSET (Dirs \cup {"bound", "connected", "listening"}), Acquire(t, what),
             class = "stream" => what \subseteq Dirs
      PROVE  Stored'
  <2>1. class' = class /\ storing' = [storing EXCEPT ![t] = what] BY <1>2 DEF Acquire
  <2>2. storing'[t] = what /\ \A s \in Threads \ {t} : storing'[s] = storing[s] BY <2>1 DEF TypeOK
  <2> QED BY <1>2, <2>1, <2>2 DEF Stored
<1>3. ASSUME NEW t \in Threads, NEW s, NEW sh, Store(t, s, sh) PROVE Stored'
  <2>1. class' = class /\ storing' = [storing EXCEPT ![t] = {}] BY <1>3 DEF Store
  <2>2. storing'[t] = {} /\ \A x \in Threads \ {t} : storing'[x] = storing[x] BY <2>1 DEF TypeOK
  <2> QED BY <2>1, <2>2 DEF Stored
<1>4. ASSUME NEW t \in Threads, StoreStep(t) PROVE Stored'
  <2>1. CASE ResetStream(t) \/ ResetListening(t) BY <1>1, <2>1 DEF ResetStream, ResetListening
  <2>2. CASE \E s, sh : Store(t, s, sh) BY <1>3, <2>2
  <2> QED BY <1>4, <2>1, <2>2 DEF StoreStep, StoreShut, StoreBound, StorePeer, StoreListening
<1>5. ASSUME NEW t \in Threads, CallOfClass(t) PROVE Stored'
  <2>1. CASE StreamShutdown(t) /\ class = "stream"
    <3>1. PICK ds \in SUBSET Dirs : Acquire(t, ds) BY <2>1 DEF StreamShutdown
    <3> QED BY <1>2, <3>1
  <2>2. CASE DatagramBind(t) /\ class = "datagram" BY <1>2, <2>2 DEF DatagramBind
  <2>3. CASE DatagramConnect(t) /\ class = "datagram" BY <1>2, <2>3 DEF DatagramConnect
  <2>4. CASE Listen(t) /\ class = "acceptor" BY <1>2, <2>4 DEF Listen
  <2>5. CASE OfBase(BaseCall(t)) \/ OfBase(Open(t)) \/ AcceptorOpen(t) \/ StreamAssign(t)
    BY <1>1, <2>5 DEF OfBase, AcceptorOpen, StreamAssign
  <2>6. CASE StreamCancel(t) \/ StreamCancelRead(t) \/ StreamCancelWrite(t) \/ StreamCancelConnect(t) \/ StreamClose(t)
    BY <1>1, <2>6 DEF StreamCancel, StreamCancelRead, StreamCancelWrite, StreamCancelConnect, StreamClose, Cancelling, Prelude
  <2>7. CASE DatagramCancel(t) \/ DatagramCancelRead(t) \/ DatagramCancelWrite(t) \/ DatagramClose(t)
             \/ AcceptorCancelRead(t) \/ AcceptorClose(t)
    BY <1>1, <2>7 DEF DatagramCancel, DatagramCancelRead, DatagramCancelWrite, DatagramClose, AcceptorCancelRead,
                      AcceptorClose, Cancelling, Closing, Prelude
  <2> QED BY <1>5, <2>1, <2>2, <2>3, <2>4, <2>5, <2>6, <2>7
          DEF CallOfClass, StreamCall, DatagramCall, AcceptorCall, IsStream, IsDatagram, IsAcceptor
<1>6. ASSUME NEW o \in Ops,
             \/ Start(o) \/ OpStep(o) \/ OfBase(WaitStep(o))
             \/ class = "base" /\ OfBase(StartWait(o) \/ ReturnWait(o))
      PROVE  Stored'
  BY <1>1, <1>6, OpStores DEF OfBase
<1>7. ASSUME NEW t \in Threads, ThreadStep(t) PROVE Stored' BY <1>1, <1>4, <1>7 DEF ThreadStep, OfBase
<1>8. CASE OfBase(ReactorStep) \/ \E r \in Res : OfBase(Destroy(r)) BY <1>1, <1>8 DEF OfBase
<1>9. CASE UNCHANGED vars BY <1>1, <1>9 DEF vars
<1> QED BY <1>5, <1>6, <1>7, <1>8, <1>9 DEF Next

LEMMA CallKeeps ==
  ASSUME SocketInv, NEW t \in Threads, CallOfClass(t)
  PROVE  SocketInv'
<1>1. CASE class = "base" /\ OfBase(BaseCall(t))
  <2>1. Derived /\ BaseCall(t) /\ class = "base" BY <1>1 DEF OfBase, Derived
  <2>2. CASE Open(t) BY <2>1, <2>2, MakeStep
  <2>3. CASE Assign(t)
    <3>1. Exchange(t, "idle", "adopt") BY <2>3 DEF Assign
    <3> QED BY <2>1, <3>1, ExchangeStep
  <2>4. CASE Close(t, "idle")
    <3>1. Exchange(t, "idle", "idle") BY <2>4 DEF Close
    <3> QED BY <2>1, <3>1, ExchangeStep
  <2>5. CASE Release(t)
    <3>1. Exchange(t, "idle", "release") /\ res # NoRes /\ inflight[res] = 0 BY <2>5 DEF Release
    <3> QED BY <2>1, <3>1, ExchangeStep
  <2>6. CASE Cancel(t, "idle") BY <2>1, <2>6, CancelStep
  <2>7. CASE \E d \in Dirs : CancelDir(t, "idle", d) BY <2>1, <2>7, CancelDirStep
  <2> QED BY <2>1, <2>2, <2>3, <2>4, <2>5, <2>6, <2>7 DEF BaseCall
<1>2. CASE OfBase(Open(t))
  <2>1. Derived /\ Open(t) BY <1>2 DEF OfBase, Derived
  <2> QED BY <2>1, MakeStep
<1>3. CASE AcceptorOpen(t)
  <2>1. Derived BY <1>3 DEF AcceptorOpen, Derived
  <2> QED BY <1>3, <2>1, MakeStep
<1>4. CASE StreamAssign(t) /\ class = "stream" BY <1>4, StreamAssignStep
<1>5. CASE StreamShutdown(t)
  <2>1. PICK ds \in SUBSET Dirs : Acquire(t, ds) BY <1>5 DEF StreamShutdown
  <2> QED BY <2>1, AcquireStep
<1>6. CASE DatagramBind(t) \/ DatagramConnect(t) \/ Listen(t)
  BY <1>6, AcquireStep DEF DatagramBind, DatagramConnect, Listen
<1>7. CASE StreamCancel(t) \/ StreamCancelRead(t) \/ StreamCancelWrite(t) \/ StreamCancelConnect(t) \/ StreamClose(t)
  BY <1>7, CancellingStep DEF StreamCancel, StreamCancelRead, StreamCancelWrite, StreamCancelConnect, StreamClose
<1>8. CASE DatagramCancel(t) \/ DatagramCancelRead(t) \/ DatagramCancelWrite(t) \/ AcceptorCancelRead(t)
  BY <1>8, CancellingStep DEF DatagramCancel, DatagramCancelRead, DatagramCancelWrite, AcceptorCancelRead
<1>9. CASE DatagramClose(t) /\ class = "datagram" BY <1>9, ClosingStep DEF DatagramClose
<1>10. CASE AcceptorClose(t) /\ class = "acceptor" BY <1>10, ClosingStep DEF AcceptorClose
<1> QED BY <1>1, <1>2, <1>3, <1>4, <1>5, <1>6, <1>7, <1>8, <1>9, <1>10
        DEF CallOfClass, StreamCall, DatagramCall, AcceptorCall, IsStream, IsDatagram, IsAcceptor

-----------------------------------------------------------------------------
LEMMA InitSockets == ASSUME Sizes, Init PROVE SocketInv /\ Stored
<1>1. /\ res = NoRes /\ opened = 0 /\ closing = [r \in Res |-> FALSE] /\ fd = [r \in Res |-> "none"]
      /\ inflight = [r \in Res |-> 0] /\ cancels = {} /\ calls = 0 /\ registered = {}
      /\ cancelEpoch = [r \in Res |-> [d \in Dirs |-> 0]] /\ handle = [r \in Res |-> [d \in Dirs |-> None]]
      /\ slot = [r \in Res |-> [d \in Dirs |-> None]] /\ wpc = [o \in Ops |-> "idle"]
      /\ held = [o \in Ops |-> NoRes] /\ myCancel = [o \in Ops |-> 0] /\ waitRes = [o \in Ops |-> "none"]
      /\ tpc = [t \in Threads |-> "idle"] /\ after = [t \in Threads |-> "idle"] /\ tres = [t \in Threads |-> NoRes]
  BY DEF Init, BaseInit
<1>2. /\ class \in Classes /\ kind \in [Ops -> Kinds[class]] /\ epoch = [k \in AllKinds |-> 0]
      /\ active = [k \in AllKinds |-> FALSE] /\ state = Fresh[class] /\ shut = {} /\ raced = FALSE
      /\ opc = [o \in Ops |-> "idle"] /\ myEpoch = [o \in Ops |-> 0] /\ storing = [t \in Threads |-> {}]
  BY DEF Init
<1>3. class \in {"base", "stream", "datagram", "acceptor"} BY <1>2 DEF Classes, Kinds
<1>4. 0 \in Nat /\ 0 \in 0..MaxRes /\ 0 \in 0..MaxCalls /\ NoRes = 0 /\ 0 <= 0 BY Bounds, SMT
<1>5. BaseTypeOK
  <2>1. cancelEpoch \in [Res -> [Dirs -> Nat]] BY <1>1, <1>4, SMT
  <2>2. handle \in [Res -> [Dirs -> Ops \cup {None}]] /\ slot \in [Res -> [Dirs -> Ops \cup {None}]]
    BY <1>1, SMT
  <2>3. tpc \in [Threads -> Points] BY <1>1 DEF Points
  <2> QED BY <1>1, <1>4, <2>1, <2>2, <2>3 DEF BaseTypeOK
<1>6. state \in {"none", "disconnected", "idle", "not_listening"} BY <1>2, <1>3, FreshIs
<1>7. TypeOK BY <1>2, <1>4, <1>5, <1>6 DEF TypeOK
<1>8. \A o \in Ops : opc[o] = "idle" /\ wpc[o] = "idle" /\ held[o] = NoRes BY <1>1, <1>2
<1>9. \A o \in Ops : ~InOperation(o) /\ ~Running(o) /\ ~Guarded(o) /\ ~OnReactor(o)
  BY <1>8 DEF InOperation, Running, Guarded, OnReactor
<1>10. Guards
  <2>1. \A o \in Ops : Placed(o) BY <1>8 DEF Placed
  <2>2. \A t \in Threads : Called(t) BY <1>1, <1>4 DEF Called, Releasing, Fetched
  <2>3. Resources BY <1>1, <1>4, <1>8, <2>2 DEF Resources
  <2>4. InflightExact
    <3>1. \A r \in Res : OpsIn(r) = {} /\ OpsWaiting(r) = {} BY <1>9 DEF OpsIn, OpsWaiting
    <3>2. Size({}) + Size({}) = 0 BY SMT DEF Sizes
    <3>3. \A r \in Res : inflight[r] = 0 BY <1>1
    <3> QED BY <3>1, <3>2, <3>3, Exact
  <2>5. NeverTakenAway BY <1>9 DEF NeverTakenAway
  <2> QED BY <2>1, <2>3, <2>4, <2>5 DEF Guards
<1>11. Reached
  <2>1. \A r \in Res, d \in Dirs : slot[r][d] = None /\ handle[r][d] = None BY <1>1, SMT
  <2>2. SlotsHeld BY <2>1, Bounds, SMT DEF SlotsHeld
  <2>3. ClosingTaken BY <2>1 DEF ClosingTaken
  <2>4. OneRegisters BY <1>9 DEF OneRegisters
  <2>5. \A o \in Ops : Slotted(o) BY <1>1, <1>8 DEF Slotted
  <2>6. CancelReachesWaits BY <1>8 DEF CancelReachesWaits
  <2> QED BY <2>2, <2>3, <2>4, <2>5, <2>6 DEF Reached, Waits
<1>12. Exclusive BY <1>8, <1>9 DEF Exclusive
<1>13. ConnectingIsOwned BY <1>6 DEF ConnectingIsOwned
<1>14. Clean BY <1>2, FreshIs DEF Clean
<1>15. Stored BY <1>2 DEF Stored
<1> QED BY <1>7, <1>10, <1>11, <1>12, <1>13, <1>14, <1>15 DEF SocketInv, Owns

LEMMA StutterKeeps == ASSUME SocketInv, UNCHANGED vars PROVE SocketInv'
<1>1. /\ UNCHANGED <<res, opened, closing, fd, inflight, cancelEpoch, handle, slot, cancels, wpc, held, myCancel, waitRes>>
      /\ UNCHANGED <<tpc, after, tres, calls, registered, kind>>
      /\ UNCHANGED <<class, epoch, active, state, shut, raced, opc, myEpoch, storing>>
  BY DEF vars, baseVars, resVars, waitVars, opVars, threadVars, objVars, coVars
<1>2. TypeOK /\ BaseTypeOK /\ Guards /\ Reached /\ Owns /\ Derived BY <1>1, DerivedIs DEF SocketInv, TypeOK
<1>3. BaseTypeOK' BY <1>1, <1>2 DEF BaseTypeOK, Res
<1>4. TypeOK' BY <1>1, <1>2, <1>3 DEF TypeOK
<1>5. Owns' BY <1>1, <1>2, OwnsSame
<1>6. Guards' BY <1>1, <1>2, GuardsSame
<1>7. Reached'
  <2>1. PICK r \in Res : TRUE BY SocketAssumption, SMT DEF Res
  <2>2. \A t \in Threads, d \in Dirs :
          Takes(t, d) => (Takes(t, d)' /\ tpc'[t] = tpc[t] /\ tres'[t] = tres[t]) \/ (tres[t] = r /\ d \in {})
    BY <1>1 DEF Takes, TakeAt
  <2>3. {} \in SUBSET Dirs /\ cancels \subseteq cancels' BY <1>1
  <2>4. \A q \in Res, e \in Dirs : ~(q = r /\ e \in {}) => handle'[q][e] = handle[q][e] BY <1>1
  <2>5. \A e \in {} : handle'[r][e] = None /\ (handle[r][e] # None => handle[r][e] \in cancels') OBVIOUS
  <2> QED BY <1>1, <2>2, <2>3, <2>4, <2>5, HandlesTaken
<1> QED BY <1>4, <1>5, <1>6, <1>7 DEF SocketInv

LEMMA NextSockets == ASSUME Sizes, SocketInv, Stored, [Next]_vars PROVE SocketInv' /\ Stored'
<1>1. Stored' BY StoredKeeps DEF SocketInv
<1>2. ASSUME NEW o \in Ops, class = "base", OfBase(StartWait(o) \/ ReturnWait(o)) PROVE SocketInv'
  <2>1. Derived /\ (StartWait(o) \/ ReturnWait(o)) BY <1>2 DEF OfBase, Derived
  <2> QED BY <1>2, <2>1, StartWaitStep, ReturnWaitStep
<1>3. ASSUME NEW o \in Ops, Start(o) \/ OpStep(o) \/ OfBase(WaitStep(o)) PROVE SocketInv'
  BY <1>3, StartStep, OpStepKeeps, WaitStepKeeps
<1>4. ASSUME NEW t \in Threads, ThreadStep(t) PROVE SocketInv'
  BY <1>4, CallStepKeeps, StoreStepKeeps DEF ThreadStep
<1>5. ASSUME NEW r \in Res, OfBase(Destroy(r)) PROVE SocketInv'
  <2>1. Derived /\ Destroy(r) BY <1>5 DEF OfBase, Derived
  <2> QED BY <2>1, DestroyStep
<1> QED BY <1>1, <1>2, <1>3, <1>4, <1>5, CallKeeps, ReactorStepKeeps, StutterKeeps DEF Next

\* What the invariant says of the operations that share a direction ...
LEMMA SharedMeans == SocketInv => NoSharedSlot
<1> SUFFICES ASSUME SocketInv, NEW a \in Ops, NEW b \in Ops, a # b, class # "base", Guarded(a), Guarded(b),
                    DirOf(a) = DirOf(b), held[a] = held[b]
             PROVE  Closed(held[a])
  BY DEF NoSharedSlot
<1>1. TypeOK /\ Exclusive /\ Placed(a) /\ Placed(b) BY DEF SocketInv, Guards, Owns
<1>2. opc[a] = "wait" /\ opc[b] = "wait" BY <1>1 DEF Placed, Guarded
<1>3. Running(a) /\ Running(b) BY <1>2 DEF Running, InOperation
<1>4. kind[a] # kind[b] BY <1>1, <1>3 DEF Exclusive
<1>5. class = "stream" /\ ((kind[a] = "connect" /\ kind[b] = "write") \/ (kind[a] = "write" /\ kind[b] = "connect"))
  BY <1>1, <1>4, ConnectsIsStream DEF DirOf
<1>6. ASSUME NEW x \in Ops, NEW y \in Ops, kind[x] = "connect", kind[y] = "write", Running(x), Running(y)
      PROVE  Closed(held[y])
  <2>1. Connects(x) /\ ~Connects(y) BY <1>6 DEF Connects
  <2>2. state # "connected" BY <1>1, <1>6, <2>1 DEF Exclusive
  <2> QED BY <1>1, <1>5, <1>6, <2>1, <2>2 DEF Exclusive
<1> QED BY <1>3, <1>5, <1>6

\* ... and of a socket that was closed.
LEMMA ResetMeans == SocketInv => CloseResets
<1> SUFFICES ASSUME SocketInv, res = NoRes, ~raced, \A o \in Ops : opc[o] \in {"idle", "done"}
             PROVE  state = Fresh[class] /\ shut = {}
  BY DEF CloseResets
<1>1. Clean /\ ConnectingIsOwned BY DEF SocketInv, Owns
<1>2. \A o \in Ops : ~Running(o) BY DEF Running, InOperation
<1>3. state # "connecting" BY <1>1, <1>2 DEF ConnectingIsOwned
<1> QED BY <1>1, <1>3 DEF Clean, Unclosed

-----------------------------------------------------------------------------
\* FiniteSetTheorems brings a Cardinality and an IsFiniteSet of its own, so
\* those of the model are first put in terms of their definitions.
LEMMA SizeForm ==
  ASSUME NEW S
  PROVE  /\ Size(S) = LET CS1[T \in SUBSET S] == IF T = {} THEN 0 ELSE 1 + CS1[T \ {CHOOSE x : x \in T}]
                      IN CS1[S]
         /\ Finite(S) <=> \E q \in Seq(S) : \A s \in S : \E n \in 1..Len(q) : q[n] = s
BY DEF Size, Finite, Cardinality, IsFiniteSet

LEMMA OpsFinite == Finite(Ops)
BY SocketAssumption DEF Finite

LOCAL INSTANCE FiniteSetTheorems

LEMMA SizeIsCardinality ==
  ASSUME NEW S
  PROVE  Size(S) = Cardinality(S) /\ (Finite(S) <=> IsFiniteSet(S))
BY SizeForm DEF Cardinality, IsFiniteSet

LEMMA SizesHold == Sizes
<1>1. ASSUME NEW S, S \subseteq Ops PROVE IsFiniteSet(S)
  BY <1>1, OpsFinite, SizeIsCardinality, FS_Subset
<1>2. ASSUME NEW S, S \subseteq Ops PROVE Size(S) \in Nat
  BY <1>1, <1>2, SizeIsCardinality, FS_CardinalityType
<1>3. ASSUME NEW S, S \subseteq Ops, NEW x \in S PROVE Size(S \ {x}) = Size(S) - 1
  BY <1>1, <1>3, SizeIsCardinality, FS_RemoveElement
<1>4. Size({}) = 0 BY SizeIsCardinality, FS_EmptySet
<1> QED BY <1>2, <1>3, <1>4 DEF Sizes

LEMMA SocketsInvariant == Spec => [](SocketInv /\ Stored)
<1>1. Init => SocketInv /\ Stored BY InitSockets, SizesHold
<1>2. SocketInv /\ Stored /\ [Next]_vars => (SocketInv /\ Stored)' BY NextSockets, SizesHold
<1> QED BY <1>1, <1>2, PTL DEF Spec

\* The in-flight count of a resource is the number of guards that live: one per
\* operation, one more inside a wait.
THEOREM GuardsConsistentInvariant == Spec => []GuardsConsistent
<1>1. SocketInv => GuardsConsistent BY DEF SocketInv, Guards, GuardsConsistent
<1> QED BY <1>1, SocketsInvariant, PTL

\* No operation waits or makes a system call on a descriptor that was closed or
\* given away under it, though close does not wait for operations.
THEOREM NeverTakenAwayInvariant == Spec => []NeverTakenAway
<1>1. SocketInv => NeverTakenAway BY DEF SocketInv, Guards
<1> QED BY <1>1, SocketsInvariant, PTL

\* Close and cancel reach every wait in the reactor, also one that stores its
\* handle while they run.
THEOREM CancelReachesWaitsInvariant == Spec => []CancelReachesWaits
<1>1. SocketInv => CancelReachesWaits BY DEF SocketInv, Reached
<1> QED BY <1>1, SocketsInvariant, PTL

\* Two operations never wait in one slot of the reactor unless close has begun,
\* and "connecting" belongs to a connect that is running.
THEOREM OperationsExcludeInvariant == Spec => []OperationsExclude
<1>1. SocketInv => OperationsExclude BY SharedMeans DEF SocketInv, Owns, OperationsExclude
<1> QED BY <1>1, SocketsInvariant, PTL

\* A socket that is closed, with nothing running, is as new unless a success
\* was stored after the close had begun.
THEOREM CloseResetsInvariant == Spec => []CloseResets
<1>1. SocketInv => CloseResets BY ResetMeans
<1> QED BY <1>1, SocketsInvariant, PTL
=============================================================================
