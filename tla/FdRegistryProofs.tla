-------------------------- MODULE FdRegistryProofs --------------------------
(***************************************************************************)
(* fd_registry for any number of descriptors and operations: IInv is       *)
(* inductive, hence the safety invariants hold, and the registry           *)
(* implements the op contract of ReactorOp.                                *)
(***************************************************************************)
EXTENDS FdRegistry, FiniteSetTheorems, TLAPS

USE Zenon

\* There are two kinds of waiter per descriptor: read and write.
LEMMA FiniteKinds == IsFiniteSet(Kinds)
<1>1. IsFiniteSet({"read"}) BY FS_Singleton
<1>2. IsFiniteSet({"read"} \cup {"write"}) BY <1>1, FS_AddElement
<1>3. Kinds = {"read"} \cup {"write"} BY DEF Kinds
<1> QED BY <1>2, <1>3

\* There are finitely many slots, so active_count_ counts a finite set.
LEMMA FiniteSlots == ASSUME NEW S, S \subseteq Fds \X Kinds
                     PROVE  IsFiniteSet(S) /\ Cardinality(S) \in Nat
<1>1. IsFiniteSet(Fds \X Kinds) BY FiniteKinds, FdAssumption, FS_Product
<1>2. IsFiniteSet(S) BY <1>1, FS_Subset
<1> QED BY <1>2, FS_CardinalityType

\* A removal or an event takes as many ops out of Occupied as the kinds of f
\* it finds waiting.
LEMMA TakeOut ==
  ASSUME NEW f \in Fds, NEW ks \in SUBSET Kinds
  PROVE  LET R == {f} \X Waiting(f, ks)
         IN  /\ Cardinality(Waiting(f, ks)) \in Nat
             /\ Cardinality(Occupied \ R) = Cardinality(Occupied) - Cardinality(Waiting(f, ks))
             /\ Cardinality(Occupied \ R) \in Nat
<1> DEFINE W == Waiting(f, ks)
           R == {f} \X W
<1>1. R \subseteq Occupied BY DEF Occupied, Waiting
<1>2. Occupied \subseteq Fds \X Kinds BY DEF Occupied
<1>3. IsFiniteSet(Occupied) /\ IsFiniteSet(Occupied \ R) /\ IsFiniteSet(R)
  BY <1>1, <1>2, FiniteSlots
<1>4. Cardinality(W) \in Nat /\ Cardinality(R) = Cardinality(W)
  <2>1. IsFiniteSet(W) BY FiniteKinds, FS_Subset DEF Waiting
  <2>2. IsFiniteSet({f}) /\ Cardinality({f}) = 1 BY FS_Singleton
  <2>3. Cardinality(R) = Cardinality({f}) * Cardinality(W) BY <2>1, <2>2, FS_Product
  <2>4. Cardinality(W) \in Nat BY <2>1, FS_CardinalityType
  <2> QED BY <2>2, <2>3, <2>4, SMT
<1>5. Cardinality(Occupied \ R) = Cardinality(Occupied) - Cardinality(Occupied \cap R)
  BY <1>3, FS_Difference
<1>6. Occupied \cap R = R BY <1>1
<1>7. Cardinality(Occupied \ R) \in Nat BY <1>3, FS_CardinalityType
<1> QED BY <1>4, <1>5, <1>6, <1>7

-----------------------------------------------------------------------------
\* The empty registry satisfies the invariant.
LEMMA InitIInv == Init => IInv
<1> SUFFICES ASSUME Init PROVE IInv OBVIOUS
<1>1. Occupied = {} BY DEF Init, Occupied, EmptySlot
<1>2. ActiveCountExact BY <1>1, FS_EmptySet DEF ActiveCountExact, Init
<1>3. TypeOK BY SMT DEF TypeOK, Init, Slot, EmptySlot, invalid_token
<1>4. NoWaiterOnLatchedSlot BY DEF NoWaiterOnLatchedSlot, Init, EmptySlot
<1>5. UntrackedIsClean BY DEF UntrackedIsClean, Init, EmptySlot
<1>6. TokenIdentifiesOp /\ HandlesArePast BY DEF TokenIdentifiesOp, HandlesArePast, Init
<1>7. HeldOnce /\ HeldUncalled BY DEF HeldOnce, HeldUncalled, Init, EmptySlot
<1> QED BY <1>2, <1>3, <1>4, <1>5, <1>6, <1>7 DEF IInv

\* An op that is called back once more is counted in Nat as before.
LEMMA CalledType == ASSUME NEW count \in [Ops -> Nat], NEW S
                    PROVE  /\ Called(count, S) \in [Ops -> Nat]
                           /\ \A o \in Ops : o \notin S => Called(count, S)[o] = count[o]
                           /\ \A o \in Ops : o \in S => Called(count, S)[o] = count[o] + 1
BY SMT DEF Called


\* Whatever takes ops out of slots and calls back only ops that no slot holds
\* afterwards keeps handles and ops in agreement: the part of the invariant
\* that take_ready, cancel, deregister and drain_all have in common.
LEMMA TakingKeepsAgreement ==
  ASSUME IInv, TypeOK', UNCHANGED <<nextToken, handles>>,
         \A g \in Fds, j \in Kinds : slot'[g][j].op # NoOp =>
            /\ slot'[g][j].op = slot[g][j].op
            /\ slot'[g][j].token = slot[g][j].token
            /\ onComplete'[slot'[g][j].op] = onComplete[slot'[g][j].op]
            /\ onAbort'[slot'[g][j].op] = onAbort[slot'[g][j].op]
  PROVE  TokenIdentifiesOp' /\ HandlesArePast' /\ HeldOnce' /\ HeldUncalled'
<1>1. TokenIdentifiesOp'
  <2> SUFFICES ASSUME NEW h \in handles, Matches(h)'
               PROVE  slot'[h.fd][h.kind].op = h.op
    BY DEF TokenIdentifiesOp
  <2>1. h.fd \in Fds /\ h.kind \in Kinds BY DEF IInv, TypeOK
  <2>2. slot'[h.fd][h.kind].op # NoOp BY DEF Matches
  <2>3. /\ slot'[h.fd][h.kind].op = slot[h.fd][h.kind].op
        /\ slot'[h.fd][h.kind].token = slot[h.fd][h.kind].token
    BY <2>1, <2>2
  <2>4. Matches(h) BY <2>2, <2>3 DEF Matches
  <2> QED BY <2>3, <2>4 DEF IInv, TokenIdentifiesOp
<1>2. HandlesArePast' BY DEF IInv, HandlesArePast
<1>3. HeldOnce' BY SMT DEF IInv, HeldOnce
<1>4. HeldUncalled'
  <2> SUFFICES ASSUME NEW g \in Fds, NEW j \in Kinds, slot'[g][j].op # NoOp
               PROVE  onComplete'[slot'[g][j].op] + onAbort'[slot'[g][j].op] = 0
    BY DEF HeldUncalled
  <2> QED BY SMT DEF IInv, HeldUncalled
<1> QED BY <1>1, <1>2, <1>3, <1>4

\* What writing one slot leaves in the others.
LEMMA SlotUpdate ==
  ASSUME NEW s \in [Fds -> [Kinds -> Slot]], NEW f \in Fds, NEW k \in Kinds, NEW v \in Slot
  PROVE  LET t == [s EXCEPT ![f][k] = v]
         IN  /\ t \in [Fds -> [Kinds -> Slot]]
             /\ t[f][k] = v
             /\ \A g \in Fds, j \in Kinds : g # f \/ j # k => t[g][j] = s[g][j]
OBVIOUS

\* register_impl, readiness latched: the latch is taken and nothing waits.
LEMMA RegisterReadyNowStep ==
  ASSUME IInv, NEW f \in Fds, NEW k \in Kinds, NEW o \in Ops, RegisterReadyNow(f, k, o)
  PROVE  IInv'
<1>1. slot \in [Fds -> [Kinds -> Slot]] BY DEF IInv, TypeOK
<1> DEFINE v == [slot[f][k] EXCEPT !.ready = FALSE]
<1>0. slot' = [slot EXCEPT ![f][k] = v] BY DEF RegisterReadyNow
<1>2. v \in Slot /\ v.op = slot[f][k].op /\ v.token = slot[f][k].token /\ ~v.ready
  <2>1. slot[f][k] \in Slot BY <1>1
  <2> QED BY <2>1 DEF Slot
<1> HIDE DEF v
<1>3. /\ slot' \in [Fds -> [Kinds -> Slot]]
      /\ slot'[f][k] = v
      /\ \A g \in Fds, j \in Kinds : g # f \/ j # k => slot'[g][j] = slot[g][j]
  BY <1>0, <1>1, <1>2, SlotUpdate, SMT
<1>4. /\ \A g \in Fds, j \in Kinds : /\ slot'[g][j].op = slot[g][j].op
                                     /\ slot'[g][j].token = slot[g][j].token
                                     /\ slot'[g][j].ready => slot[g][j].ready
      /\ Occupied' = Occupied
  BY <1>2, <1>3 DEF Occupied
<1>5. TypeOK' BY <1>3, CalledType DEF IInv, TypeOK, RegisterReadyNow
<1>6. ActiveCountExact' BY <1>4 DEF IInv, ActiveCountExact, RegisterReadyNow
<1>7. NoWaiterOnLatchedSlot' BY <1>4, SMT DEF IInv, NoWaiterOnLatchedSlot
<1>8. UntrackedIsClean' BY <1>4, SMT DEF IInv, UntrackedIsClean, RegisterReadyNow
<1>9. \A g \in Fds, j \in Kinds : slot'[g][j].op # NoOp =>
        /\ onComplete'[slot'[g][j].op] = onComplete[slot'[g][j].op]
        /\ onAbort'[slot'[g][j].op] = onAbort[slot'[g][j].op]
  <2> SUFFICES ASSUME NEW g \in Fds, NEW j \in Kinds, slot'[g][j].op # NoOp
               PROVE  onComplete'[slot'[g][j].op] = onComplete[slot'[g][j].op]
    BY DEF RegisterReadyNow
  <2>1. slot'[g][j].op \in Ops BY <1>3, SMT DEF Slot
  <2>2. slot'[g][j].op # o BY <1>4, SMT DEF RegisterReadyNow, Fresh
  <2> QED BY <2>1, <2>2 DEF RegisterReadyNow, Called
<1>10. TokenIdentifiesOp' /\ HandlesArePast' /\ HeldOnce' /\ HeldUncalled'
  <2>1. UNCHANGED <<nextToken, handles>> BY DEF RegisterReadyNow
  <2> QED BY <1>4, <1>5, <1>9, <2>1, TakingKeepsAgreement
<1> QED BY <1>5, <1>6, <1>7, <1>8, <1>10 DEF IInv

\* The waiters of the directions ks of f are taken, whatever is latched.
Takes(f, ks) ==
  /\ slot' \in [Fds -> [Kinds -> Slot]]
  /\ \A j \in ks : slot'[f][j].op = NoOp
  /\ \A g \in Fds, j \in Kinds : g # f \/ j \notin ks =>
        slot'[g][j].op = slot[g][j].op /\ slot'[g][j].token = slot[g][j].token

\* Taking waiters from one descriptor, as deregister, take_ready and cancel do,
\* leaves every other waiter where it was, and none of the taken ops behind.
LEMMA TakeFrom ==
  ASSUME IInv, NEW f \in Fds, NEW ks \in SUBSET Kinds, Takes(f, ks)
  PROVE  /\ Occupied' = Occupied \ ({f} \X Waiting(f, ks))
         /\ \A g \in Fds, j \in Kinds : slot'[g][j].op # NoOp =>
               /\ slot'[g][j].op = slot[g][j].op
               /\ slot'[g][j].token = slot[g][j].token
               /\ slot'[g][j].op \in Ops
               /\ slot'[g][j].op \notin OpsOf(f, ks)
<1>1. Occupied' = Occupied \ ({f} \X Waiting(f, ks))
  BY SMT DEF Occupied, Waiting, Takes
<1>2. ASSUME NEW g \in Fds, NEW j \in Kinds, slot'[g][j].op # NoOp
      PROVE  /\ slot'[g][j].op = slot[g][j].op
             /\ slot'[g][j].token = slot[g][j].token
             /\ slot'[g][j].op \in Ops
             /\ slot'[g][j].op \notin OpsOf(f, ks)
  <2>1. g # f \/ j \notin ks BY <1>2 DEF Takes
  <2>2. slot'[g][j].op = slot[g][j].op /\ slot'[g][j].token = slot[g][j].token BY <2>1 DEF Takes
  <2>3. slot'[g][j].op \in Ops
    <3>1. slot'[g][j] \in Slot BY DEF Takes
    <3> QED BY <3>1, <1>2 DEF Slot
  <2>4. ASSUME NEW i \in ks, slot[f][i].op = slot[g][j].op PROVE FALSE
    <3>1. i \in Kinds OBVIOUS
    <3>2. f = g /\ i = j BY <3>1, <2>4, <2>2, <1>2, SMT DEF IInv, HeldOnce
    <3> QED BY <3>2, <2>1
  <2> QED BY <2>2, <2>3, <2>4 DEF OpsOf
<1> QED BY <1>1, <1>2

\* The count after the waiters of ks were taken from f.
LEMMA TakeCount ==
  ASSUME IInv, NEW f \in Fds, NEW ks \in SUBSET Kinds,
         Occupied' = Occupied \ ({f} \X Waiting(f, ks)),
         activeCount' = activeCount - Cardinality(Waiting(f, ks))
  PROVE  ActiveCountExact' /\ activeCount' \in Nat
BY TakeOut DEF IInv, ActiveCountExact

\* deregister takes both waiters and both latches.
LEMMA RemoveFdStep == ASSUME IInv, NEW f \in Fds, RemoveFd(f) PROVE IInv' /\ Takes(f, Kinds)
<1>1. /\ slot' \in [Fds -> [Kinds -> Slot]]
      /\ \A j \in Kinds : slot'[f][j] = EmptySlot
      /\ \A g \in Fds : g # f => slot'[g] = slot[g]
  <2>1. slot \in [Fds -> [Kinds -> Slot]] BY DEF IInv, TypeOK
  <2>2. EmptySlot \in Slot BY DEF EmptySlot, Slot, invalid_token
  <2> QED BY <2>1, <2>2 DEF RemoveFd, Deregistered
<1>2. EmptySlot.op = NoOp /\ ~EmptySlot.ready BY DEF EmptySlot
<1>3. Takes(f, Kinds) BY <1>1, <1>2 DEF Takes
<1>4. Kinds \in SUBSET Kinds OBVIOUS
<1>5. /\ Occupied' = Occupied \ ({f} \X Waiting(f, Kinds))
      /\ \A g \in Fds, j \in Kinds : slot'[g][j].op # NoOp =>
               /\ slot'[g][j].op = slot[g][j].op
               /\ slot'[g][j].token = slot[g][j].token
               /\ slot'[g][j].op \in Ops
               /\ slot'[g][j].op \notin OpsOf(f, Kinds)
  BY <1>3, <1>4, TakeFrom
<1>6. ActiveCountExact' /\ activeCount' \in Nat BY <1>4, <1>5, TakeCount DEF RemoveFd
<1>7. TypeOK' BY <1>1, <1>6, CalledType DEF IInv, TypeOK, RemoveFd
<1>8. NoWaiterOnLatchedSlot' /\ UntrackedIsClean'
  BY <1>1, <1>2, SMT DEF IInv, NoWaiterOnLatchedSlot, UntrackedIsClean, RemoveFd
<1>9. \A g \in Fds, j \in Kinds : slot'[g][j].op # NoOp =>
        /\ onComplete'[slot'[g][j].op] = onComplete[slot'[g][j].op]
        /\ onAbort'[slot'[g][j].op] = onAbort[slot'[g][j].op]
  BY <1>5 DEF RemoveFd, Called
<1>10. TokenIdentifiesOp' /\ HandlesArePast' /\ HeldOnce' /\ HeldUncalled'
  BY <1>5, <1>7, <1>9, TakingKeepsAgreement DEF RemoveFd
<1> QED BY <1>3, <1>6, <1>7, <1>8, <1>10 DEF IInv

\* take_ready takes the waiters an event is for and latches the rest.
LEMMA ProcessEventStep ==
  ASSUME IInv, NEW f \in Fds, NEW ks \in SUBSET Kinds, NEW e \in BOOLEAN, ProcessEvent(f, ks, e)
  PROVE  IInv' /\ Takes(f, ks)
<1>1. slot \in [Fds -> [Kinds -> Slot]] BY DEF IInv, TypeOK
<1>2. ASSUME NEW s \in Slot
      PROVE  /\ TakeReady(s) \in Slot /\ TakeReady(s).op = NoOp
             /\ s.op # NoOp => TakeReady(s).ready = s.ready
  BY DEF TakeReady, Slot, invalid_token
<1>3. /\ slot' \in [Fds -> [Kinds -> Slot]]
      /\ \A j \in ks : slot'[f][j] = TakeReady(slot[f][j])
      /\ \A g \in Fds, j \in Kinds : g # f \/ j \notin ks => slot'[g][j] = slot[g][j]
  BY <1>1, <1>2 DEF ProcessEvent
<1>4. \A j \in ks : slot'[f][j].op = NoOp
  BY <1>1, <1>2, <1>3, SMT
<1>11. Takes(f, ks) BY <1>3, <1>4 DEF Takes
<1>5. /\ Occupied' = Occupied \ ({f} \X Waiting(f, ks))
      /\ \A g \in Fds, j \in Kinds : slot'[g][j].op # NoOp =>
               /\ slot'[g][j].op = slot[g][j].op
               /\ slot'[g][j].token = slot[g][j].token
               /\ slot'[g][j].op \in Ops
               /\ slot'[g][j].op \notin OpsOf(f, ks)
  BY <1>11, TakeFrom
<1>6. ActiveCountExact' /\ activeCount' \in Nat BY <1>5, TakeCount DEF ProcessEvent
<1>7. TypeOK' BY <1>3, <1>6, CalledType, SMT DEF IInv, TypeOK, ProcessEvent
<1>8. NoWaiterOnLatchedSlot' /\ UntrackedIsClean'
  <2>1. tracked' = tracked /\ f \in tracked BY DEF ProcessEvent
  <2>2. NoWaiterOnLatchedSlot' BY <1>3, <1>4, SMT DEF IInv, NoWaiterOnLatchedSlot
  <2>3. UntrackedIsClean' BY <1>3, <2>1, SMT DEF IInv, UntrackedIsClean
  <2> QED BY <2>2, <2>3
<1>9. \A g \in Fds, j \in Kinds : slot'[g][j].op # NoOp =>
        /\ onComplete'[slot'[g][j].op] = onComplete[slot'[g][j].op]
        /\ onAbort'[slot'[g][j].op] = onAbort[slot'[g][j].op]
  <2>1. onComplete \in [Ops -> Nat] /\ onAbort \in [Ops -> Nat] BY DEF IInv, TypeOK
  <2>2. CASE e
    <3>1. onAbort' = Called(onAbort, OpsOf(f, ks)) /\ onComplete' = onComplete
      BY <2>2 DEF ProcessEvent
    <3> QED BY <1>5, <2>1, <3>1, CalledType, SMT
  <2>3. CASE ~e
    <3>1. onComplete' = Called(onComplete, OpsOf(f, ks)) /\ onAbort' = onAbort
      BY <2>3 DEF ProcessEvent
    <3> QED BY <1>5, <2>1, <3>1, CalledType, SMT
  <2> QED BY <2>2, <2>3
<1>10. TokenIdentifiesOp' /\ HandlesArePast' /\ HeldOnce' /\ HeldUncalled'
  <2>1. UNCHANGED <<nextToken, handles>> BY DEF ProcessEvent
  <2> QED BY <1>5, <1>7, <1>9, <2>1, TakingKeepsAgreement
<1> QED BY <1>11, <1>6, <1>7, <1>8, <1>10 DEF IInv

\* cancel takes the one waiter whose token matches, or nothing.
LEMMA CancelFdEventStep == ASSUME IInv, NEW h \in handles, CancelFdEvent(h) PROVE IInv' /\ Takes(h.fd, {h.kind})
<1> DEFINE f == h.fd
           k == h.kind
           v == [slot[f][k] EXCEPT !.op = NoOp, !.token = invalid_token]
<1>1. /\ slot \in [Fds -> [Kinds -> Slot]] /\ f \in Fds /\ k \in Kinds
      /\ slot[f][k] \in Slot
  BY DEF IInv, TypeOK
<1>2. v \in Slot /\ v.op = NoOp /\ v.ready = slot[f][k].ready
  BY <1>1 DEF Slot, invalid_token
<1>3. slot' = [slot EXCEPT ![f][k] = v] BY DEF CancelFdEvent
<1>4. slot[f][k].op # NoOp BY DEF CancelFdEvent, Matches
<1>5. activeCount' = activeCount - 1 /\ onAbort' = Called(onAbort, {slot[f][k].op})
  BY DEF CancelFdEvent
<1>6. UNCHANGED <<tracked, nextToken, handles, onComplete>> BY DEF CancelFdEvent
<1> HIDE DEF f, k, v
<1>7. /\ slot' \in [Fds -> [Kinds -> Slot]]
      /\ slot'[f][k] = v
      /\ \A g \in Fds, j \in Kinds : g # f \/ j \notin {k} => slot'[g][j] = slot[g][j]
  BY <1>1, <1>2, <1>3, SlotUpdate, SMT
<1>8. {k} \in SUBSET Kinds BY <1>1
<1>16. Takes(f, {k}) BY <1>2, <1>7 DEF Takes
<1>9. /\ Occupied' = Occupied \ ({f} \X Waiting(f, {k}))
      /\ \A g \in Fds, j \in Kinds : slot'[g][j].op # NoOp =>
               /\ slot'[g][j].op = slot[g][j].op
               /\ slot'[g][j].token = slot[g][j].token
               /\ slot'[g][j].op \in Ops
               /\ slot'[g][j].op \notin OpsOf(f, {k})
  BY <1>1, <1>8, <1>16, TakeFrom
<1>10. Cardinality(Waiting(f, {k})) = 1
  <2>1. Waiting(f, {k}) = {k} BY <1>4 DEF Waiting
  <2> QED BY <2>1, FS_Singleton
<1>11. ActiveCountExact' /\ activeCount' \in Nat
  BY <1>1, <1>5, <1>8, <1>9, <1>10, TakeCount
<1>12. TypeOK' BY <1>5, <1>6, <1>7, <1>11, CalledType DEF IInv, TypeOK
<1>13. NoWaiterOnLatchedSlot' /\ UntrackedIsClean'
  <2>1. \A g \in Fds, j \in Kinds : /\ slot'[g][j].ready = slot[g][j].ready
                                     /\ slot'[g][j].op \in {NoOp, slot[g][j].op}
    BY <1>2, <1>7
  <2>2. NoWaiterOnLatchedSlot' BY <2>1 DEF IInv, NoWaiterOnLatchedSlot
  <2>3. UntrackedIsClean' BY <1>6, <2>1, SMT DEF IInv, UntrackedIsClean
  <2> QED BY <2>2, <2>3
<1>14. \A g \in Fds, j \in Kinds : slot'[g][j].op # NoOp =>
        /\ onComplete'[slot'[g][j].op] = onComplete[slot'[g][j].op]
        /\ onAbort'[slot'[g][j].op] = onAbort[slot'[g][j].op]
  <2>1. OpsOf(f, {k}) = {slot[f][k].op} BY <1>4 DEF OpsOf
  <2> QED BY <1>5, <1>6, <1>9, <2>1 DEF Called
<1>15. TokenIdentifiesOp' /\ HandlesArePast' /\ HeldOnce' /\ HeldUncalled'
  BY <1>6, <1>9, <1>12, <1>14, TakingKeepsAgreement
<1> QED BY <1>11, <1>12, <1>13, <1>15, <1>16 DEF IInv, f, k

\* track changes no waiter.
LEMMA AddFdStep == ASSUME IInv, NEW f \in Fds, AddFd(f) PROVE IInv'
<1>1. UNCHANGED <<slot, nextToken, activeCount, handles, onComplete, onAbort>>
      /\ tracked' = tracked \cup {f}
  BY DEF AddFd
<1>2. TypeOK' BY <1>1 DEF IInv, TypeOK
<1>3. ActiveCountExact' BY <1>1 DEF IInv, ActiveCountExact, Occupied
<1>4. NoWaiterOnLatchedSlot' /\ UntrackedIsClean'
  BY <1>1 DEF IInv, NoWaiterOnLatchedSlot, UntrackedIsClean
<1>5. TokenIdentifiesOp' /\ HandlesArePast' /\ HeldOnce' /\ HeldUncalled'
  <2>1. TokenIdentifiesOp' /\ HandlesArePast'
    BY <1>1 DEF IInv, TokenIdentifiesOp, Matches, HandlesArePast
  <2>2. HeldOnce' BY <1>1, SMT DEF IInv, HeldOnce
  <2>3. HeldUncalled' BY <1>1 DEF IInv, HeldUncalled
  <2> QED BY <2>1, <2>2, <2>3
<1> QED BY <1>2, <1>3, <1>4, <1>5 DEF IInv

\* drain_all leaves the registry empty.
LEMMA DrainAllStep == ASSUME IInv, DrainAll PROVE IInv'
<1>1. EmptySlot \in Slot /\ EmptySlot.op = NoOp /\ ~EmptySlot.ready
  BY DEF EmptySlot, Slot, invalid_token
<1>2. /\ slot' \in [Fds -> [Kinds -> Slot]]
      /\ \A g \in Fds, j \in Kinds : slot'[g][j] = EmptySlot
  BY <1>1 DEF DrainAll
<1>3. TypeOK' BY <1>2, CalledType DEF IInv, TypeOK, DrainAll
<1>4. ActiveCountExact'
  <2>1. Occupied' = {} BY <1>1, <1>2 DEF Occupied
  <2> QED BY <2>1, FS_EmptySet DEF ActiveCountExact, DrainAll
<1>5. NoWaiterOnLatchedSlot' /\ UntrackedIsClean'
  BY <1>1, <1>2 DEF NoWaiterOnLatchedSlot, UntrackedIsClean
<1>6. TokenIdentifiesOp' /\ HandlesArePast' /\ HeldOnce' /\ HeldUncalled'
  BY <1>1, <1>2, <1>3, TakingKeepsAgreement DEF DrainAll
<1> QED BY <1>3, <1>4, <1>5, <1>6 DEF IInv

\* register_impl, nothing latched: the op is stored under a new token and
\* the op it replaces is taken out.
LEMMA RegisterWaiterStep ==
  ASSUME IInv, NEW f \in Fds, NEW k \in Kinds, NEW o \in Ops, RegisterWaiter(f, k, o)
  PROVE  IInv'
<1> DEFINE v == [slot[f][k] EXCEPT !.op = o, !.token = nextToken]
           h == [fd |-> f, kind |-> k, token |-> nextToken, op |-> o]
<1>1. /\ slot \in [Fds -> [Kinds -> Slot]] /\ slot[f][k] \in Slot
      /\ nextToken \in Nat /\ nextToken > 0
  BY SMT DEF IInv, TypeOK
<1>2. v \in Slot /\ v.op = o /\ v.token = nextToken /\ v.ready = slot[f][k].ready
  BY <1>1 DEF Slot
<1>3. slot' = [slot EXCEPT ![f][k] = v] BY DEF RegisterWaiter
<1>4. /\ nextToken' = nextToken + 1 /\ handles' = handles \cup {h}
      /\ tracked' = tracked \cup {f} /\ onAbort' = Called(onAbort, OpsOf(f, {k}))
      /\ onComplete' = onComplete
  BY DEF RegisterWaiter, FollowingToken
<1>5. /\ h \in [fd : Fds, kind : Kinds, token : Nat, op : Ops]
      /\ h.fd = f /\ h.kind = k /\ h.token = nextToken /\ h.op = o
  BY <1>1
<1> HIDE DEF v, h
<1>6. /\ slot' \in [Fds -> [Kinds -> Slot]]
      /\ slot'[f][k] = v
      /\ \A g \in Fds, j \in Kinds : g # f \/ j # k => slot'[g][j] = slot[g][j]
  BY <1>1, <1>2, <1>3, SlotUpdate, SMT
<1>7. o # NoOp /\ ~slot[f][k].ready
  BY FdAssumption DEF RegisterWaiter, Latched
<1>8. onComplete[o] + onAbort[o] = 0 /\ \A g \in Fds, j \in Kinds : slot[g][j].op # o
  BY DEF RegisterWaiter, Fresh
<1>9. ActiveCountExact' /\ activeCount' \in Nat
  <2>1. Occupied' = Occupied \cup {<<f, k>>}
    BY <1>2, <1>6, <1>7, SMT DEF Occupied
  <2>2. Occupied \subseteq Fds \X Kinds BY DEF Occupied
  <2>3. IsFiniteSet(Occupied) /\ Cardinality(Occupied) \in Nat BY <2>2, FiniteSlots
  <2>4. Cardinality(Occupied \cup {<<f, k>>}) =
          IF <<f, k>> \in Occupied THEN Cardinality(Occupied) ELSE Cardinality(Occupied) + 1
    BY <2>3, FS_AddElement
  <2>5. <<f, k>> \in Occupied <=> slot[f][k].op # NoOp BY DEF Occupied
  <2>6. activeCount' = activeCount + (IF slot[f][k].op = NoOp THEN 1 ELSE 0)
    BY DEF RegisterWaiter, Gain
  <2>7. activeCount = Cardinality(Occupied) BY DEF IInv, ActiveCountExact
  <2>8. activeCount' = Cardinality(Occupied') BY <2>1, <2>3, <2>4, <2>5, <2>6, <2>7, SMT
  <2> QED BY <2>3, <2>6, <2>7, <2>8, SMT DEF ActiveCountExact
<1>10. TypeOK'
  <2>1. onComplete \in [Ops -> Nat] /\ onAbort \in [Ops -> Nat] BY DEF IInv, TypeOK
  <2>2. onComplete' \in [Ops -> Nat] /\ onAbort' \in [Ops -> Nat] BY <1>4, <2>1, CalledType
  <2>3. /\ tracked' \subseteq Fds
        /\ handles' \subseteq [fd : Fds, kind : Kinds, token : Nat, op : Ops]
    BY <1>4, <1>5 DEF IInv, TypeOK
  <2>4. nextToken' \in Nat /\ nextToken' > 0 BY <1>1, <1>4, SMT
  <2> QED BY <1>6, <1>9, <2>2, <2>3, <2>4, SMT DEF TypeOK
<1>11. NoWaiterOnLatchedSlot' /\ UntrackedIsClean'
  <2>1. NoWaiterOnLatchedSlot' BY <1>2, <1>6, <1>7, SMT DEF IInv, NoWaiterOnLatchedSlot
  <2>2. UntrackedIsClean'
    <3>1. tracked' = tracked \cup {f} BY <1>4
    <3> QED BY <1>6, <3>1, SMT DEF IInv, UntrackedIsClean
  <2> QED BY <2>1, <2>2
<1>12. HandlesArePast' /\ TokenIdentifiesOp'
  <2> SUFFICES ASSUME NEW x \in handles'
               PROVE  x.token < nextToken' /\ (Matches(x)' => slot'[x.fd][x.kind].op = x.op)
    BY DEF HandlesArePast, TokenIdentifiesOp
  <2>1. CASE x = h BY <2>1, <1>1, <1>2, <1>4, <1>5, <1>6, SMT
  <2>2. CASE x \in handles
    <3>1. /\ x.fd \in Fds /\ x.kind \in Kinds /\ x.token \in Nat /\ x.token < nextToken
      BY <2>2 DEF IInv, TypeOK, HandlesArePast
    <3>2. CASE x.fd = f /\ x.kind = k
      <4>1. ~Matches(x)' BY <3>1, <3>2, <1>1, <1>2, <1>6, SMT DEF Matches
      <4>2. x.token < nextToken' BY <3>1, <1>1, <1>4, SMT
      <4> QED BY <4>1, <4>2
    <3>3. CASE x.fd # f \/ x.kind # k
      <4>1. slot'[x.fd][x.kind] = slot[x.fd][x.kind] BY <3>1, <3>3, <1>6
      <4>2. Matches(x)' => Matches(x) BY <4>1 DEF Matches
      <4>3. x.token < nextToken' BY <3>1, <1>1, <1>4, SMT
      <4>4. Matches(x) => slot[x.fd][x.kind].op = x.op BY <2>2 DEF IInv, TokenIdentifiesOp
      <4> QED BY <4>1, <4>2, <4>3, <4>4
    <3> QED BY <3>2, <3>3
  <2> QED BY <2>1, <2>2, <1>4
<1>13. HeldOnce' BY <1>2, <1>6, <1>8, SMT DEF IInv, HeldOnce
<1>14. HeldUncalled'
  <2> SUFFICES ASSUME NEW g \in Fds, NEW j \in Kinds, slot'[g][j].op # NoOp
               PROVE  onComplete'[slot'[g][j].op] + onAbort'[slot'[g][j].op] = 0
    BY DEF HeldUncalled
  <2>1. CASE g = f /\ j = k
    <3>1. o \notin OpsOf(f, {k}) BY <1>8 DEF OpsOf
    <3> QED BY <2>1, <3>1, <1>2, <1>4, <1>6, <1>8 DEF Called
  <2>2. CASE g # f \/ j # k
    <3>1. slot'[g][j] = slot[g][j] /\ slot[g][j] \in Slot BY <2>2, <1>1, <1>6
    <3>2. slot[g][j].op \in Ops BY <3>1 DEF Slot
    <3>3. slot[g][j].op \notin OpsOf(f, {k})
      BY <2>2, <3>1, SMT DEF OpsOf, IInv, HeldOnce
    <3>4. onComplete[slot[g][j].op] + onAbort[slot[g][j].op] = 0
      BY <3>1 DEF IInv, HeldUncalled
    <3>5. onAbort'[slot[g][j].op] = onAbort[slot[g][j].op]
      BY <1>4, <3>2, <3>3 DEF Called
    <3> QED BY <1>4, <3>1, <3>4, <3>5
  <2> QED BY <2>1, <2>2
<1> QED BY <1>9, <1>10, <1>11, <1>12, <1>13, <1>14 DEF IInv

\* The registry's invariant is inductive.
LEMMA NextIInv == IInv /\ [Next]_vars => IInv'
<1> SUFFICES ASSUME IInv, [Next]_vars PROVE IInv' OBVIOUS
<1>1. CASE Next
  <2>1. CASE \E f \in Fds, k \in Kinds, o \in Ops : RegisterReadyNow(f, k, o)
    BY <2>1, RegisterReadyNowStep
  <2>2. CASE \E f \in Fds, k \in Kinds, o \in Ops : RegisterWaiter(f, k, o)
    BY <2>2, RegisterWaiterStep
  <2>3. CASE \E h \in handles : CancelFdEvent(h) BY <2>3, CancelFdEventStep
  <2>4. CASE \E f \in Fds : AddFd(f) \/ RemoveFd(f) BY <2>4, AddFdStep, RemoveFdStep
  <2>5. CASE \E f \in Fds, ks \in SUBSET Kinds, e \in BOOLEAN : ProcessEvent(f, ks, e)
    BY <2>5, ProcessEventStep
  <2>6. CASE DrainAll BY <2>6, DrainAllStep
  <2> QED BY <1>1, <2>1, <2>2, <2>3, <2>4, <2>5, <2>6 DEF Next
<1>2. CASE UNCHANGED vars
  <2> USE <1>2 DEF vars, IInv
  <2>1. TypeOK' BY DEF TypeOK
  <2>2. ActiveCountExact' BY DEF ActiveCountExact, Occupied
  <2>3. NoWaiterOnLatchedSlot' /\ UntrackedIsClean'
    BY DEF NoWaiterOnLatchedSlot, UntrackedIsClean
  <2>4. TokenIdentifiesOp' /\ HandlesArePast' BY DEF TokenIdentifiesOp, HandlesArePast, Matches
  <2>5. HeldOnce' BY SMT DEF HeldOnce
  <2>6. HeldUncalled' BY DEF HeldUncalled
  <2> QED BY <2>1, <2>2, <2>3, <2>4, <2>5, <2>6
<1> QED BY <1>1, <1>2

\* Everything below rests on it: the slots, the token and the count are
\* consistent after any sequence of registrations, cancels, events, removals
\* and drains, for any number of descriptors and ops.
THEOREM RegistryInvariant == Spec => []IInv
BY InitIInv, NextIInv, PTL DEF Spec

\* active_count_ never wraps below zero, for any set of descriptors and ops.
THEOREM RegistryTypeOK == Spec => []TypeOK
<1>1. IInv => TypeOK BY DEF IInv
<1> QED BY <1>1, RegistryInvariant, PTL

\* active_count_ is exactly the number of waiters, so has_work() never
\* abandons one and never outlives the last.
THEOREM RegistryCountExact == Spec => []ActiveCountExact
<1>1. IInv => ActiveCountExact BY DEF IInv
<1> QED BY <1>1, RegistryInvariant, PTL

\* No waiter sleeps beside a latched edge.
THEOREM RegistryNoLostEdge == Spec => []NoWaiterOnLatchedSlot
<1>1. IInv => NoWaiterOnLatchedSlot BY DEF IInv
<1> QED BY <1>1, RegistryInvariant, PTL

\* deregister leaves nothing for the next user of the descriptor number.
THEOREM RegistryUntrackedIsClean == Spec => []UntrackedIsClean
<1>1. IInv => UntrackedIsClean BY DEF IInv
<1> QED BY <1>1, RegistryInvariant, PTL

\* A stale event_handle never cancels another op, however long it is kept.
THEOREM RegistryTokens == Spec => []TokenIdentifiesOp
<1>1. IInv => TokenIdentifiesOp BY DEF IInv
<1> QED BY <1>1, RegistryInvariant, PTL

-----------------------------------------------------------------------------
\* The ops in slots, said of slots; t stands for slot and for slot'.
HeldIn(t) == {t[c[1]][c[2]].op : c \in {d \in Fds \X Kinds : t[d[1]][d[2]].op # NoOp}}

\* An op is in HeldIn(t) exactly when some slot of t holds it.
LEMMA HeldBySlots ==
  ASSUME NEW t, NEW o
  PROVE  o \in HeldIn(t) <=> o # NoOp /\ \E f \in Fds, k \in Kinds : t[f][k].op = o
<1>1. ASSUME o \in HeldIn(t) PROVE o # NoOp /\ \E f \in Fds, k \in Kinds : t[f][k].op = o
  <2>1. PICK c \in Fds \X Kinds : t[c[1]][c[2]].op # NoOp /\ o = t[c[1]][c[2]].op
    BY <1>1 DEF HeldIn
  <2> QED BY <2>1
<1>2. ASSUME o # NoOp, NEW f \in Fds, NEW k \in Kinds, t[f][k].op = o PROVE o \in HeldIn(t)
  <2> DEFINE c == <<f, k>>
  <2>1. c \in {d \in Fds \X Kinds : t[d[1]][d[2]].op # NoOp} /\ t[c[1]][c[2]].op = o BY <1>2
  <2> QED BY <2>1 DEF HeldIn
<1> QED BY <1>1, <1>2

\* An op is armed exactly when some slot holds it.
LEMMA ArmedBySlot ==
  ASSUME NEW o
  PROVE  /\ o \in Armed <=> o # NoOp /\ \E f \in Fds, k \in Kinds : slot[f][k].op = o
         /\ o \in Armed' <=> o # NoOp /\ \E f \in Fds, k \in Kinds : slot'[f][k].op = o
<1>1. Armed = HeldIn(slot) BY DEF Armed, Occupied, HeldIn
<1>2. Armed' = HeldIn(slot') BY DEF Armed, Occupied, HeldIn
<1> QED BY <1>1, <1>2, HeldBySlots, SMT

\* A held op is a real op that no callback has been made on.
LEMMA ArmedUncalled == ASSUME IInv, NEW o \in Armed
                       PROVE  o \in Ops /\ onComplete[o] = 0 /\ onAbort[o] = 0
<1>1. PICK f \in Fds, k \in Kinds : o # NoOp /\ slot[f][k].op = o BY ArmedBySlot
<1>2. slot[f][k] \in Slot BY DEF IInv, TypeOK
<1>3. o \in Ops BY <1>1, <1>2 DEF Slot
<1>4. onComplete[o] + onAbort[o] = 0 BY <1>1 DEF IInv, HeldUncalled
<1> QED BY <1>3, <1>4, SMT DEF IInv, TypeOK

\* Taking the ops of S out of the registry and calling one callback on each.
LEMMA TakingEnds ==
  ASSUME IInv, IInv', NEW S, S \subseteq Armed, Armed' = Armed \ S,
         \/ onAbort' = Called(onAbort, S) /\ onComplete' = onComplete
         \/ onComplete' = Called(onComplete, S) /\ onAbort' = onAbort
  PROVE  RO!Next
<1>1. /\ onComplete \in [Ops -> Nat] /\ onAbort \in [Ops -> Nat]
      /\ onComplete' \in [Ops -> Nat] /\ onAbort' \in [Ops -> Nat]
  BY DEF IInv, TypeOK
<1>2. Armed' \subseteq Ops BY ArmedUncalled
<1>3. ASSUME NEW o \in Ops PROVE RO!Stays(o) \/ RO!Ends(o)
  <2>1. CASE o \in S
    <3>1. onComplete[o] = 0 /\ onAbort[o] = 0 BY <2>1, ArmedUncalled
    <3>2. onComplete'[o] + onAbort'[o] = 1 BY <2>1, <3>1, SMT DEF Called
    <3> QED BY <2>1, <3>1, <3>2, SMT DEF RO!Ends, RO!Calls
  <2>2. CASE o \notin S
    <3>1. onComplete'[o] = onComplete[o] /\ onAbort'[o] = onAbort[o] BY <2>2 DEF Called
    <3> QED BY <2>2, <3>1 DEF RO!Stays
  <2> QED BY <2>1, <2>2
<1> QED BY <1>1, <1>2, <1>3 DEF RO!Next

\* What Takes(f, ks) does to the set of held ops.
LEMMA TakesArmed ==
  ASSUME IInv, NEW f \in Fds, NEW ks \in SUBSET Kinds, Takes(f, ks)
  PROVE  OpsOf(f, ks) \subseteq Armed /\ Armed' = Armed \ OpsOf(f, ks)
<1>1. OpsOf(f, ks) \subseteq Armed BY ArmedBySlot, SMT DEF OpsOf
<1>2. ASSUME NEW o \in Armed' PROVE o \in Armed /\ o \notin OpsOf(f, ks)
  <2>1. PICK g \in Fds, j \in Kinds : o # NoOp /\ slot'[g][j].op = o BY ArmedBySlot
  <2>2. slot[g][j].op = o /\ o \notin OpsOf(f, ks) BY <2>1, TakeFrom
  <2> QED BY <2>1, <2>2, ArmedBySlot
<1>3. ASSUME NEW o \in Armed, o \notin OpsOf(f, ks) PROVE o \in Armed'
  <2>1. PICK g \in Fds, j \in Kinds : o # NoOp /\ slot[g][j].op = o BY ArmedBySlot
  <2>2. g # f \/ j \notin ks BY <1>3, <2>1 DEF OpsOf
  <2>3. slot'[g][j].op = o BY <2>1, <2>2 DEF Takes
  <2> QED BY <2>1, <2>3, ArmedBySlot
<1> QED BY <1>1, <1>2, <1>3

\* A registration that finds a latched edge ends its op at once.
LEMMA ReadyNowImplements ==
  ASSUME IInv, IInv', NEW f \in Fds, NEW k \in Kinds, NEW o \in Ops, RegisterReadyNow(f, k, o)
  PROVE  RO!Next
<1>1. /\ onComplete \in [Ops -> Nat] /\ onAbort \in [Ops -> Nat]
      /\ onComplete' \in [Ops -> Nat] /\ onAbort' \in [Ops -> Nat]
      /\ slot \in [Fds -> [Kinds -> Slot]]
  BY DEF IInv, TypeOK
<1>2. \A g \in Fds, j \in Kinds : slot'[g][j].op = slot[g][j].op
  BY <1>1, SMT DEF RegisterReadyNow, Slot
<1>3. Armed' = Armed
  <2>1. ASSUME NEW p PROVE p \in Armed' <=> p \in Armed BY <1>2, ArmedBySlot
  <2> QED BY <2>1
<1>4. onComplete[o] = 0 /\ onAbort[o] = 0 /\ o \notin Armed
  BY <1>1, ArmedBySlot, SMT DEF RegisterReadyNow, Fresh
<1>5. RO!Ends(o)
  BY <1>1, <1>3, <1>4, SMT DEF RO!Ends, RO!Calls, RegisterReadyNow, Called
<1>6. ASSUME NEW p \in Ops, p # o PROVE RO!Stays(p)
  BY <1>3, <1>6 DEF RO!Stays, RegisterReadyNow, Called
<1>7. Armed' \subseteq Ops BY <1>3, ArmedUncalled
<1> QED BY <1>1, <1>5, <1>6, <1>7 DEF RO!Next

\* A registration arms its op and ends the one it replaces.
LEMMA WaiterImplements ==
  ASSUME IInv, IInv', NEW f \in Fds, NEW k \in Kinds, NEW o \in Ops, RegisterWaiter(f, k, o)
  PROVE  RO!Next
<1>1. /\ onComplete \in [Ops -> Nat] /\ onAbort \in [Ops -> Nat]
      /\ onComplete' \in [Ops -> Nat] /\ onAbort' \in [Ops -> Nat]
      /\ slot \in [Fds -> [Kinds -> Slot]]
  BY DEF IInv, TypeOK
<1>2. /\ slot'[f][k].op = o
      /\ \A g \in Fds, j \in Kinds : g # f \/ j # k => slot'[g][j].op = slot[g][j].op
  BY <1>1, SMT DEF RegisterWaiter, Slot
<1>3. onComplete[o] = 0 /\ onAbort[o] = 0 /\ o \notin Armed /\ o # NoOp
  <2>1. onComplete[o] = 0 /\ onAbort[o] = 0 BY <1>1, SMT DEF RegisterWaiter, Fresh
  <2>2. \A g \in Fds, j \in Kinds : slot[g][j].op # o BY DEF RegisterWaiter, Fresh
  <2>3. o \notin Armed BY <2>2, ArmedBySlot
  <2> QED BY <2>1, <2>3, FdAssumption
<1>4. o \in Armed' BY <1>2, <1>3, ArmedBySlot
<1>5. onComplete' = onComplete /\ onAbort' = Called(onAbort, OpsOf(f, {k})) BY DEF RegisterWaiter
<1>6. OpsOf(f, {k}) \subseteq Armed BY ArmedBySlot, SMT DEF OpsOf
<1>7. RO!Arms(o)
  <2>1. o \notin OpsOf(f, {k}) BY <1>3, <1>6
  <2>2. Called(onAbort, OpsOf(f, {k}))[o] = onAbort[o] BY <2>1 DEF Called
  <2>3. onComplete'[o] = 0 /\ onAbort'[o] = 0 BY <1>3, <1>5, <2>2
  <2> QED BY <1>3, <1>4, <2>3, SMT DEF RO!Arms, RO!Calls
<1>8. ASSUME NEW p \in Ops, p # o PROVE RO!Stays(p) \/ RO!Ends(p)
  <2>1. CASE p \in OpsOf(f, {k})
    <3>1. slot[f][k].op = p /\ p # NoOp BY <2>1 DEF OpsOf
    <3>2. onComplete[p] = 0 /\ onAbort[p] = 0 BY <2>1, <1>6, ArmedUncalled
    <3>3. \A g \in Fds, j \in Kinds : slot'[g][j].op # p
      <4> SUFFICES ASSUME NEW g \in Fds, NEW j \in Kinds, g # f \/ j # k
                   PROVE  slot'[g][j].op # p
        BY <1>2, <1>8
      <4>1. slot'[g][j].op = slot[g][j].op BY <1>2
      <4>2. slot[g][j].op = slot[f][k].op => slot[g][j].op = NoOp BY SMT DEF IInv, HeldOnce
      <4> QED BY <3>1, <4>1, <4>2
    <3>4. p \notin Armed' BY <3>3, ArmedBySlot
    <3> QED BY <1>1, <1>5, <2>1, <3>2, <3>4, SMT DEF RO!Ends, RO!Calls, Called
  <2>2. CASE p \notin OpsOf(f, {k})
    <3>1. p # NoOp BY FdAssumption
    <3>2. slot[f][k].op # p BY <2>2, <3>1 DEF OpsOf
    <3>3. p \in Armed' <=> p \in Armed BY <1>2, <1>8, <3>2, ArmedBySlot, SMT
    <3> QED BY <1>5, <2>2, <3>3 DEF RO!Stays, Called
  <2> QED BY <2>1, <2>2
<1>9. Armed' \subseteq Ops
  <2> SUFFICES ASSUME NEW p \in Armed' PROVE p \in Ops OBVIOUS
  <2>1. PICK g \in Fds, j \in Kinds : p # NoOp /\ slot'[g][j].op = p BY ArmedBySlot
  <2>2. slot'[g][j] \in Slot BY DEF IInv, TypeOK
  <2> QED BY <2>1, <2>2 DEF Slot
<1> QED BY <1>1, <1>7, <1>8, <1>9 DEF RO!Next

\* Every step of the registry is a step of the op contract.
LEMMA StepImplements == IInv /\ IInv' /\ [Next]_vars => [RO!Next]_(RO!opVars)
<1> SUFFICES ASSUME IInv, IInv', [Next]_vars
             PROVE  RO!Next \/ UNCHANGED <<Armed, onComplete, onAbort>>
  BY DEF RO!opVars
<1>1. ASSUME NEW f \in Fds, NEW k \in Kinds, NEW o \in Ops,
             RegisterReadyNow(f, k, o) \/ RegisterWaiter(f, k, o)
      PROVE  RO!Next
  BY <1>1, ReadyNowImplements, WaiterImplements
<1>2. ASSUME NEW h \in handles, CancelFdEvent(h) PROVE RO!Next
  <2>1. h.fd \in Fds /\ {h.kind} \in SUBSET Kinds BY DEF IInv, TypeOK
  <2>2. OpsOf(h.fd, {h.kind}) \subseteq Armed /\ Armed' = Armed \ OpsOf(h.fd, {h.kind})
    BY <1>2, <2>1, CancelFdEventStep, TakesArmed
  <2>3. OpsOf(h.fd, {h.kind}) = {slot[h.fd][h.kind].op}
    BY <1>2 DEF CancelFdEvent, Matches, OpsOf
  <2>4. onAbort' = Called(onAbort, OpsOf(h.fd, {h.kind})) /\ onComplete' = onComplete
    BY <1>2, <2>3 DEF CancelFdEvent
  <2> QED BY <2>2, <2>4, TakingEnds
<1>3. ASSUME NEW f \in Fds, AddFd(f) PROVE UNCHANGED <<Armed, onComplete, onAbort>>
  BY <1>3 DEF AddFd, Armed, Occupied
<1>4. ASSUME NEW f \in Fds, RemoveFd(f) PROVE RO!Next
  <2>1. OpsOf(f, Kinds) \subseteq Armed /\ Armed' = Armed \ OpsOf(f, Kinds)
    BY <1>4, RemoveFdStep, TakesArmed
  <2>2. onAbort' = Called(onAbort, OpsOf(f, Kinds)) /\ onComplete' = onComplete
    BY <1>4 DEF RemoveFd
  <2> QED BY <2>1, <2>2, TakingEnds
<1>5. ASSUME NEW f \in Fds, NEW ks \in SUBSET Kinds, NEW e \in BOOLEAN, ProcessEvent(f, ks, e)
      PROVE  RO!Next
  <2>1. OpsOf(f, ks) \subseteq Armed /\ Armed' = Armed \ OpsOf(f, ks)
    BY <1>5, ProcessEventStep, TakesArmed
  <2>2. \/ onAbort' = Called(onAbort, OpsOf(f, ks)) /\ onComplete' = onComplete
        \/ onComplete' = Called(onComplete, OpsOf(f, ks)) /\ onAbort' = onAbort
    BY <1>5 DEF ProcessEvent
  <2> QED BY <2>1, <2>2, TakingEnds
<1>6. ASSUME DrainAll PROVE RO!Next
  <2>1. Armed' = Armed \ Armed
    <3>1. \A g \in Fds, j \in Kinds : slot'[g][j].op = NoOp BY <1>6 DEF DrainAll, EmptySlot
    <3> QED BY <3>1, ArmedBySlot
  <2>2. onAbort' = Called(onAbort, Armed) /\ onComplete' = onComplete BY <1>6 DEF DrainAll
  <2> QED BY <2>1, <2>2, TakingEnds
<1>7. ASSUME UNCHANGED vars PROVE UNCHANGED <<Armed, onComplete, onAbort>>
  BY <1>7 DEF vars, Armed, Occupied
<1> QED BY <1>1, <1>2, <1>3, <1>4, <1>5, <1>6, <1>7 DEF Next

\* fd_registry implements the op contract of reactor_types.hpp: each op is
\* armed once and exactly one of on_complete and on_abort is called on it, at
\* most once, whatever the order of registrations, events and cancels.
THEOREM RegistryImplementsReactorOp == Spec => ImplementsReactorOp
<1>1. Init => RO!Init
  <2> SUFFICES ASSUME Init PROVE RO!Init OBVIOUS
  <2>1. \A f \in Fds, k \in Kinds : slot[f][k].op = NoOp BY DEF Init, EmptySlot
  <2>2. Armed = {} BY <2>1, ArmedBySlot, SMT
  <2> QED BY <2>2 DEF Init, RO!Init
<1> QED BY <1>1, StepImplements, RegistryInvariant, PTL
        DEF Spec, ImplementsReactorOp, RO!Spec
=============================================================================
