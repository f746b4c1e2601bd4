-------------------------- MODULE CoroutineProofs --------------------------
(***************************************************************************)
(* Proofs about MCCoroutines, for any set of runners, any set of executors *)
(* and a stack of any depth.  The first half is about the four ways to     *)
(* wait for several awaitables (Joining, TimeoutRuns), the second about    *)
(* co_spawn and the stack of coroutines (Spawns); a behaviour of the model *)
(* is about one of them.                                                   *)
(***************************************************************************)
EXTENDS MCCoroutines, Sequences, TLAPS

-----------------------------------------------------------------------------
\* What the count of remaining runners uses of finite sets and their sizes;
\* SizesHold, below, has it from FiniteSetTheorems.
Size(S) == Cardinality(S)
Finite(S) == IsFiniteSet(S)
Sizes == /\ Finite(Runners) /\ Size(Runners) \in Nat /\ Size(Runners) > 0
         /\ \A S \in SUBSET Runners : Size(S) \in Nat /\ (Size(S) = 0 => S = {})
         /\ \A S \in SUBSET Runners : \A x \in S : Size(S \ {x}) = Size(S) - 1

-----------------------------------------------------------------------------
\* The count is of the runners that have not tried to complete; of when_any
\* the one winner makes it 0.
ToTry == {r \in Runners : rpc[r] \in {"work", "publish", "try"}}
CountExact == /\ remaining = 0 <=> winner # Nobody
              /\ IF kind = "all" THEN remaining = Size(ToTry) ELSE remaining \in {0, 1}

\* Where a runner may be: past its awaitable it has an outcome, only the winner
\* gets to publish late, to stop the others and to complete, and on one thread
\* a runner under way has the thread.
Placed(r) ==
  /\ rpc[r] = "complete" \/ (kind # "all" /\ rpc[r] = "publish") => r = winner
  /\ rpc[r] = "cancel" => r = winner /\ kind = "cancel_join"
  /\ r = winner => r \in Awaited /\ rpc[r] \notin {"work", "try"} /\ (kind = "all" => rpc[r] # "publish")
  /\ r \in Awaited => (outcome[r] = "none" <=> rpc[r] = "work")
  /\ r \notin Awaited => outcome[r] = "none" /\ rpc[r] = "end"
  /\ serial /\ rpc[r] \in {"publish", "try", "cancel", "complete"} => turn = r
RunnersPlaced == \A r \in Runners : Placed(r)

\* What is stored was published by one that has that outcome, and by the winner
\* unless all are awaited; and once published it is there.
Shown(r) == rpc[r] \in IF kind = "all" THEN {"try", "complete", "end"} ELSE {"complete", "end"}
ResultsStored ==
  /\ \A r \in values : outcome[r] = "value" /\ Shown(r) /\ (kind # "all" => r = winner /\ index = r)
  /\ values = {} => index = First
  /\ firstEp # Nobody => outcome[firstEp] = "throw" /\ Shown(firstEp) /\ (kind # "all" => firstEp = winner)
  /\ \A r \in Runners : Shown(r) /\ (kind = "all" \/ r = winner) =>
       (outcome[r] = "value" => r \in values) /\ (outcome[r] = "throw" => firstEp # Nobody)

\* The winner has stopped the others before it publishes.
LosersStopped ==
  kind = "cancel_join" /\ winner # Nobody /\ rpc[winner] # "cancel" => Awaited \ {winner} \subseteq stopReq

\* The parent, the address it leaves and the one resumption.
ParentPlaced ==
  /\ waiter = "done" <=> winner # Nobody /\ rpc[winner] = "end"
  /\ waiter = "parent" => ppc = "suspended" /\ ex /\ resumes = 0
  /\ ResumedOnce
  /\ ppc = "cas" => ex
  /\ ppc \in {"collect", "join"} \cup Ended => winner # Nobody

\* What the parent read, and that it has joined whom it should.  It found the
\* result if a complete() resumed it, or if there is one thread.
ParentRead ==
  /\ ppc \in {"join"} \cup Ended =>
       /\ got.ep # Nobody => outcome[got.ep] = "throw" /\ (kind # "all" => got.ep = winner /\ Shown(winner))
       /\ got.has => IF kind = "all" THEN \A r \in Runners : outcome[r] = "value"
                     ELSE got.index = winner /\ outcome[winner] = "value" /\ Shown(winner)
       /\ kind = "all" \/ serial \/ resumes = 1 => got.ep # Nobody \/ got.has
       /\ kind # "all" /\ ~got.has => got.index = First
  /\ ppc \in Ended =>
       /\ ppc = IF got.ep # Nobody THEN "rethrown" ELSE IF got.has THEN "returned" ELSE Unpublished
       /\ \A r \in Joins : rpc[r] = "end"

Joining == /\ TypeOK /\ CountExact /\ RunnersPlaced /\ ResultsStored /\ LosersStopped
           /\ ParentPlaced /\ ParentRead

\* with_timeout: the timer is asked to stop by a stop of the caller or by the
\* operation that won; and the result is there once the call is done.
TimeoutRuns ==
  /\ TimeoutTypeOK
  /\ tpc \in {"check", "run", "done"} => kind = "cancel_join"
  /\ Timer \in stopReq \/ payload[Timer] = "aborted" => parentStop \/ winner = First
  /\ final # "none" => tpc = "done"
  /\ TimeoutResult

-----------------------------------------------------------------------------
USE Zenon

LEMMA Assumed == Pair \subseteq Runners /\ First \in Runners /\ Parent \notin Runners /\ Nobody \notin Runners /\ Parent # Nobody
BY WhenAssumption

LEMMA AwaitedType == ASSUME kind \in Kinds PROVE Awaited \subseteq Runners
BY Assumed DEF Awaited, Of

\* The invariant of one runner.
LEMMA PlacedOf == ASSUME Joining, NEW r \in Runners PROVE Placed(r)
BY DEF Joining, RunnersPlaced

LEMMA WinnerIs == ASSUME Joining, winner # Nobody PROVE winner \in Runners /\ Placed(winner) /\ outcome[winner] # "none"
<1>1. winner \in Runners BY DEF Joining, TypeOK
<1> QED BY <1>1, PlacedOf DEF Placed

\* On one thread a step of one leaves no other runner under way.
LEMMA Alone ==
  ASSUME Joining, NEW a \in Runners \cup {Parent}, MayRun(a), NEW r \in Runners, serial,
         rpc[r] \in {"publish", "try", "cancel", "complete"}
  PROVE  r = a
<1>1. turn = r BY PlacedOf DEF Placed
<1> QED BY <1>1, Assumed DEF MayRun

LEMMA InitJoining == ASSUME Init, Sizes PROVE Joining
<1>1. Awaited \subseteq Runners BY AwaitedType DEF Init
<1>2. TypeOK
  <2>1. remaining \in 0..Cardinality(Runners) BY SMT DEF Init, Sizes, Size
  <2> QED BY <2>1, Assumed DEF Init, TypeOK
<1>3. CountExact
  <2>1. ASSUME kind = "all" PROVE ToTry = Runners BY <2>1, Assumed DEF Init, ToTry, Of
  <2>2. kind = "all" => remaining = Size(Runners) BY DEF Init, Size
  <2> QED BY <2>1, <2>2, SMT DEF Init, CountExact, Sizes
<1>4. RunnersPlaced BY Assumed DEF Init, RunnersPlaced, Placed, Awaited
<1>5. ResultsStored BY Assumed DEF Init, ResultsStored
<1>6. LosersStopped /\ ParentPlaced /\ ParentRead
  BY SMT DEF Init, LosersStopped, ParentPlaced, ParentRead, ResumedOnce, Ended
<1> QED BY <1>2, <1>3, <1>4, <1>5, <1>6 DEF Joining

-----------------------------------------------------------------------------
\* What the parent has read stays true while runners go on.
LEMMA ReadStays ==
  ASSUME Joining, UNCHANGED <<kind, serial, ppc, got>>,
         ppc \in {"join"} \cup Ended => resumes' = resumes,
         winner # Nobody => winner' = winner /\ (Shown(winner) => Shown(winner)'),
         \A x \in Runners : (outcome[x] # "none" => outcome'[x] = outcome[x]) /\ (rpc[x] = "end" => rpc'[x] = "end")
  PROVE  ParentRead'
<1> SUFFICES ASSUME ppc \in {"join"} \cup Ended PROVE ParentRead' BY DEF ParentRead
<1>1. winner # Nobody BY DEF Joining, ParentPlaced
<1>2. winner \in Runners BY <1>1, WinnerIs
<1>3. got.ep # Nobody => outcome'[got.ep] = "throw" /\ (kind # "all" => got.ep = winner /\ Shown(winner)')
  <2>1. got.ep \in Runners \cup {Nobody} BY DEF Joining, TypeOK
  <2> QED BY <1>1, <2>1 DEF Joining, ParentRead
<1>4. got.has => IF kind = "all" THEN \A x \in Runners : outcome'[x] = "value"
                 ELSE got.index = winner /\ outcome'[winner] = "value" /\ Shown(winner)'
  BY <1>1, <1>2, SMT DEF Joining, ParentRead
<1>5. /\ kind = "all" \/ serial \/ resumes' = 1 => got.ep # Nobody \/ got.has
      /\ kind # "all" /\ ~got.has => got.index = First
  BY DEF Joining, ParentRead
<1>6. ppc \in Ended => /\ ppc = IF got.ep # Nobody THEN "rethrown" ELSE IF got.has THEN "returned" ELSE Unpublished
                       /\ \A x \in Joins : rpc'[x] = "end"
  <2>1. Joins \subseteq Runners BY AwaitedType DEF Joins, Joining, TypeOK
  <2> QED BY <2>1 DEF Joining, ParentRead
<1>7. Joins' = Joins /\ Unpublished' = Unpublished BY DEF Joins, Awaited, Unpublished
<1> QED BY <1>1, <1>3, <1>4, <1>5, <1>6, <1>7 DEF ParentRead

\* A step that changes no result, and shows none that was not shown.
LEMMA ResultsStay ==
  ASSUME Joining, UNCHANGED <<kind, values, index, firstEp>>,
         winner # Nobody => winner' = winner,
         \A x \in Runners : /\ outcome[x] # "none" => outcome'[x] = outcome[x]
                            /\ Shown(x) => Shown(x)'
                            /\ Shown(x)' /\ (kind = "all" \/ x = winner') =>
                                 Shown(x) /\ outcome'[x] = outcome[x] /\ (kind = "all" \/ x = winner)
  PROVE  ResultsStored'
<1>1. values \subseteq Runners /\ firstEp \in Runners \cup {Nobody} BY DEF Joining, TypeOK
<1>2. ASSUME NEW x \in values
      PROVE  outcome'[x] = "value" /\ Shown(x)' /\ (kind # "all" => x = winner' /\ index = x)
  <2>1. outcome[x] = "value" /\ Shown(x) /\ (kind # "all" => x = winner /\ index = x)
    BY DEF Joining, ResultsStored
  <2> QED BY <1>1, <2>1, Assumed
<1>3. ASSUME firstEp # Nobody
      PROVE  outcome'[firstEp] = "throw" /\ Shown(firstEp)' /\ (kind # "all" => firstEp = winner')
  <2>1. outcome[firstEp] = "throw" /\ Shown(firstEp) /\ (kind # "all" => firstEp = winner)
    BY <1>3 DEF Joining, ResultsStored
  <2> QED BY <1>1, <1>3, <2>1
<1>4. ASSUME NEW x \in Runners, Shown(x)', kind = "all" \/ x = winner'
      PROVE  (outcome'[x] = "value" => x \in values) /\ (outcome'[x] = "throw" => firstEp # Nobody)
  BY <1>4 DEF Joining, ResultsStored
<1>5. values = {} => index = First BY DEF Joining, ResultsStored
<1> QED BY <1>2, <1>3, <1>4, <1>5 DEF ResultsStored

-----------------------------------------------------------------------------
\* The steps of a runner.
LEMMA FinishStep ==
  ASSUME Joining, NEW r \in Runners, NEW o \in {"value", "throw"}, Finish(r, o)
  PROVE  Joining'
<1> DEFINE p == IF kind = "all" THEN "publish" ELSE "try"
<1>1. /\ rpc[r] = "work" /\ MayRun(r) /\ turn' = IF serial THEN r ELSE Nobody
      /\ UNCHANGED <<kind, serial, remaining, waiter, ex, values, index, firstEp, stopReq, winner, ppc, got, resumes>>
      /\ UNCHANGED Awaited /\ UNCHANGED Joins
  BY DEF Finish, Keep, callVars, stateVars, Awaited, Joins
<1>2. /\ rpc' = [rpc EXCEPT ![r] = p] /\ outcome' = [outcome EXCEPT ![r] = o]
      /\ rpc'[r] = p /\ outcome'[r] = o /\ p \in {"publish", "try"}
      /\ \A x \in Runners \ {r} : rpc'[x] = rpc[x] /\ outcome'[x] = outcome[x]
  BY DEF Finish, GoR, Joining, TypeOK
<1> HIDE DEF p
<1>3. r \in Awaited /\ r # winner /\ outcome[r] = "none" BY <1>1, PlacedOf DEF Placed
<1>4. TypeOK' BY <1>1, <1>2, SMT DEF Joining, TypeOK
<1>5. CountExact'
  <2>1. ToTry' = ToTry BY <1>1, <1>2 DEF ToTry
  <2> QED BY <1>1, <2>1 DEF Joining, CountExact
<1>6. RunnersPlaced'
  <2> SUFFICES ASSUME NEW x \in Runners PROVE Placed(x)' BY DEF RunnersPlaced
  <2>1. CASE x = r BY <1>1, <1>2, <1>3, <2>1 DEF Placed, p
  <2>2. CASE x # r
    <3>1. serial => rpc[x] \notin {"publish", "try", "cancel", "complete"} BY <1>1, <2>2, Alone
    <3> QED BY <1>1, <1>2, <2>2, <3>1, PlacedOf DEF Placed
  <2> QED BY <2>1, <2>2
<1>7. \A x \in Runners \ {r} : Shown(x)' <=> Shown(x) BY <1>1, <1>2 DEF Shown
<1>8. ~Shown(r) /\ ~Shown(r)' BY <1>1, <1>2, SMT DEF Shown, p
<1>9. ResultsStored'
  <2>1. \A x \in Runners : /\ outcome[x] # "none" => outcome'[x] = outcome[x]
                           /\ Shown(x) => Shown(x)'
                           /\ Shown(x)' /\ (kind = "all" \/ x = winner') =>
                                Shown(x) /\ outcome'[x] = outcome[x] /\ (kind = "all" \/ x = winner)
    BY <1>1, <1>2, <1>3, <1>7, <1>8
  <2> QED BY <1>1, <2>1, ResultsStay
<1>10. winner # Nobody => rpc'[winner] = rpc[winner] /\ outcome'[winner] = outcome[winner] /\ (Shown(winner)' <=> Shown(winner))
  BY <1>1, <1>2, <1>3, <1>7, WinnerIs
<1>11. LosersStopped' BY <1>1, <1>10 DEF Joining, LosersStopped
<1>12. ParentPlaced' BY <1>1, <1>10 DEF Joining, ParentPlaced, ResumedOnce
<1>13. ParentRead'
  <2>1. \A x \in Runners : /\ outcome[x] # "none" => outcome'[x] = outcome[x]
                           /\ rpc[x] = "end" => rpc'[x] = "end"
    BY <1>1, <1>2, <1>3
  <2> QED BY <1>1, <1>10, <2>1, ReadStays
<1> QED BY <1>4, <1>5, <1>6, <1>9, <1>11, <1>12, <1>13 DEF Joining

LEMMA TryStep ==
  ASSUME Joining, Sizes, NEW r \in Runners, TryComplete(r)
  PROVE  Joining'
<1> DEFINE p == AfterTry
<1>1. /\ rpc[r] = "try" /\ MayRun(r) /\ remaining' = (IF remaining > 0 THEN remaining - 1 ELSE 0)
      /\ winner' = (IF remaining = 1 THEN r ELSE winner)
      /\ turn' = IF p = "end" THEN Nobody ELSE IF serial THEN r ELSE Nobody
      /\ UNCHANGED <<kind, serial, waiter, ex, values, index, firstEp, outcome, stopReq, ppc, got, resumes>>
      /\ UNCHANGED Awaited
  BY DEF TryComplete, Keep, Yield, callVars, Awaited, CountDown, DoneNow, GoR, Joining, TypeOK
<1>2. /\ rpc' = [rpc EXCEPT ![r] = p] /\ rpc'[r] = p
      /\ \A x \in Runners \ {r} : rpc'[x] = rpc[x]
      /\ rpc' \in [Runners -> {"work", "publish", "try", "cancel", "complete", "end"}]
  BY DEF TryComplete, GoR, Joining, TypeOK, AfterTry
<1>3. /\ remaining # 1 => p = "end"
      /\ remaining = 1 => p = IF kind = "all" THEN "complete" ELSE IF kind = "cancel_join" THEN "cancel" ELSE "publish"
  BY SMT DEF AfterTry, DoneNow
<1> HIDE DEF p
<1>4. r \in Awaited /\ r # winner /\ outcome[r] # "none" BY <1>1, PlacedOf DEF Placed
<1>5. remaining \in Nat /\ Cardinality(Runners) \in Nat /\ kind \in Kinds
  BY SMT DEF Joining, TypeOK, Sizes, Size
<1>6. remaining = 1 <=> winner # winner'
  BY <1>1, <1>4
<1>7. remaining = 1 => winner = Nobody BY SMT DEF Joining, CountExact
<1>8. TypeOK' BY <1>1, <1>2, <1>5, SMT DEF Joining, TypeOK
<1>9. CountExact'
  <2>1. ASSUME kind = "all" PROVE remaining' = Size(ToTry') /\ remaining > 0
    <3>1. ToTry' = ToTry \ {r} /\ r \in ToTry BY <1>1, <1>2, <1>3, <2>1 DEF ToTry
    <3>2. ToTry \in SUBSET Runners /\ ToTry \ {r} \in SUBSET Runners BY DEF ToTry
    <3>3. Size(ToTry \ {r}) = Size(ToTry) - 1 /\ Size(ToTry \ {r}) \in Nat BY <3>1, <3>2 DEF Sizes
    <3>4. remaining = Size(ToTry) BY <2>1 DEF Joining, CountExact
    <3> QED BY <1>1, <1>5, <3>1, <3>3, <3>4, SMT
  <2>2. kind # "all" => remaining \in {0, 1} BY DEF Joining, CountExact
  <2>3. remaining = 0 <=> winner # Nobody BY DEF Joining, CountExact
  <2>4. remaining' = 0 <=> winner' # Nobody
    <3>1. CASE remaining = 1 BY <1>1, <3>1, Assumed, SMT
    <3>2. CASE remaining # 1 BY <1>1, <1>5, <2>3, <3>2, SMT
    <3> QED BY <3>1, <3>2
  <2>5. kind # "all" => remaining' \in {0, 1} BY <1>1, <2>2, SMT
  <2> QED BY <1>1, <2>1, <2>4, <2>5 DEF CountExact
<1>10. RunnersPlaced'
  <2> SUFFICES ASSUME NEW x \in Runners PROVE Placed(x)' BY DEF RunnersPlaced
  <2>1. CASE x = r
    <3>1. CASE remaining = 1 BY <1>1, <1>2, <1>3, <1>4, <1>5, <2>1, <3>1 DEF Placed
    <3>2. CASE remaining # 1 BY <1>1, <1>2, <1>3, <1>4, <2>1, <3>2 DEF Placed
    <3> QED BY <3>1, <3>2
  <2>2. CASE x # r
    <3>1. serial => rpc[x] \notin {"publish", "try", "cancel", "complete"} BY <1>1, <2>2, Alone
    <3>2. x = winner' <=> x = winner BY <1>1, <1>7, <2>2, Assumed
    <3> QED BY <1>1, <1>2, <2>2, <3>1, <3>2, PlacedOf DEF Placed
  <2> QED BY <2>1, <2>2
<1>11. winner # Nobody => winner' = winner /\ rpc'[winner] = rpc[winner]
  BY <1>1, <1>2, <1>4, <1>7, WinnerIs
<1>12. \A x \in Runners \ {r} : Shown(x)' <=> Shown(x) BY <1>1, <1>2 DEF Shown
<1>13. Shown(r) => Shown(r)' BY <1>1, <1>2, <1>3 DEF Shown
<1>14. Shown(r)' /\ (kind = "all" \/ r = winner') => Shown(r) /\ (kind = "all" \/ r = winner)
  BY <1>1, <1>2, <1>3, <1>4, <1>5 DEF Shown
<1>15. ResultsStored'
  <2>1. \A x \in Runners \ {r} : x = winner' => x = winner BY <1>1, <1>7
  <2>2. \A x \in Runners : /\ Shown(x) => Shown(x)'
                           /\ Shown(x)' /\ (kind = "all" \/ x = winner') => Shown(x) /\ (kind = "all" \/ x = winner)
    BY <1>12, <1>13, <1>14, <2>1
  <2> QED BY <1>1, <1>11, <2>2, ResultsStay
<1>16. LosersStopped'
  <2>1. CASE remaining = 1 BY <1>1, <1>2, <1>3, <2>1 DEF LosersStopped
  <2>2. CASE remaining # 1 BY <1>1, <1>11, <2>2 DEF Joining, LosersStopped
  <2> QED BY <2>1, <2>2
<1>17. ParentPlaced'
  <2>1. winner' # Nobody /\ rpc'[winner'] = "end" <=> winner # Nobody /\ rpc[winner] = "end"
    <3>1. CASE remaining = 1 BY <1>1, <1>2, <1>3, <1>5, <1>7, <3>1
    <3>2. CASE remaining # 1 BY <1>1, <1>11, <3>2
    <3> QED BY <3>1, <3>2
  <2>2. winner # Nobody => winner' # Nobody BY <1>11
  <2> QED BY <1>1, <2>1, <2>2 DEF Joining, ParentPlaced, ResumedOnce
<1>18. ParentRead'
  <2>1. winner # Nobody => winner \in Runners BY WinnerIs
  <2>2. \A x \in Runners : rpc[x] = "end" => rpc'[x] = "end" BY <1>1, <1>2
  <2> QED BY <1>1, <1>4, <1>11, <1>12, <1>13, <2>1, <2>2, ReadStays
<1> QED BY <1>8, <1>9, <1>10, <1>15, <1>16, <1>17, <1>18 DEF Joining

LEMMA CancelOtherStep ==
  ASSUME Joining, NEW r \in Runners, CancelOther(r)
  PROVE  Joining'
<1>1. /\ rpc[r] = "cancel" /\ MayRun(r) /\ turn' = IF serial THEN r ELSE Nobody
      /\ stopReq' = stopReq \cup (Awaited \ {r})
      /\ UNCHANGED <<kind, serial, remaining, waiter, ex, values, index, firstEp, outcome, winner, ppc, got, resumes>>
      /\ UNCHANGED Awaited
  BY DEF CancelOther, Keep, callVars, stateVars, Awaited
<1>2. /\ rpc' = [rpc EXCEPT ![r] = "publish"] /\ rpc'[r] = "publish"
      /\ \A x \in Runners \ {r} : rpc'[x] = rpc[x]
  BY DEF CancelOther, GoR, Joining, TypeOK
<1>3. r = winner /\ kind = "cancel_join" /\ r \in Awaited /\ outcome[r] # "none" BY <1>1, PlacedOf DEF Placed
<1>4. winner # Nobody BY <1>3, Assumed
<1>5. TypeOK'
  <2>1. stopReq' \subseteq Runners BY <1>1, AwaitedType DEF Joining, TypeOK
  <2> QED BY <1>1, <1>2, <2>1, SMT DEF Joining, TypeOK
<1>6. CountExact' BY <1>1, <1>3 DEF Joining, CountExact
<1>7. RunnersPlaced'
  <2> SUFFICES ASSUME NEW x \in Runners PROVE Placed(x)' BY DEF RunnersPlaced
  <2>1. CASE x = r BY <1>1, <1>2, <1>3, <2>1 DEF Placed
  <2>2. CASE x # r
    <3>1. serial => rpc[x] \notin {"publish", "try", "cancel", "complete"} BY <1>1, <2>2, Alone
    <3> QED BY <1>1, <1>2, <2>2, <3>1, PlacedOf DEF Placed
  <2> QED BY <2>1, <2>2
<1>8. \A x \in Runners : Shown(x)' <=> Shown(x) BY <1>1, <1>2, <1>3, SMT DEF Shown
<1>9. ResultsStored' BY <1>1, <1>8, ResultsStay
<1>10. LosersStopped' BY <1>1, <1>3 DEF LosersStopped
<1>11. ParentPlaced'
  <2>1. rpc[winner] # "end" /\ rpc'[winner] # "end" BY <1>1, <1>2, <1>3
  <2> QED BY <1>1, <1>4, <2>1 DEF Joining, ParentPlaced, ResumedOnce
<1>12. ParentRead'
  <2>1. \A x \in Runners : rpc[x] = "end" => rpc'[x] = "end" BY <1>1, <1>2
  <2> QED BY <1>1, <1>3, <1>8, <2>1, ReadStays
<1> QED BY <1>5, <1>6, <1>7, <1>9, <1>10, <1>11, <1>12 DEF Joining

LEMMA PublishStep ==
  ASSUME Joining, NEW r \in Runners, Publish(r)
  PROVE  Joining'
<1> DEFINE p == IF kind = "all" THEN "try" ELSE "complete"
<1>1. /\ rpc[r] = "publish" /\ MayRun(r) /\ turn' = IF serial THEN r ELSE Nobody
      /\ UNCHANGED <<kind, serial, remaining, waiter, ex, outcome, stopReq, winner, ppc, got, resumes>>
      /\ UNCHANGED Awaited
  BY DEF Publish, Keep, callVars, Awaited
<1>2. /\ rpc' = [rpc EXCEPT ![r] = p] /\ rpc'[r] = p /\ p \in {"try", "complete"} /\ (kind = "all" <=> p = "try")
      /\ \A x \in Runners \ {r} : rpc'[x] = rpc[x]
  BY DEF Publish, GoR, Joining, TypeOK
<1> HIDE DEF p
<1>3. r \in Awaited /\ outcome[r] # "none" /\ (kind # "all" <=> r = winner) BY <1>1, PlacedOf DEF Placed
<1>4. \/ outcome[r] = "value" /\ values' = values \cup {r} /\ index' = r /\ firstEp' = firstEp
      \/ outcome[r] = "throw" /\ values' = values /\ index' = index /\ firstEp' = (IF firstEp = Nobody THEN r ELSE firstEp)
  BY <1>3 DEF Publish, SetValue, SetException, Joining, TypeOK
<1>5. TypeOK'
  <2>1. values' \subseteq Runners /\ index' \in Runners /\ firstEp' \in Runners \cup {Nobody}
    BY <1>4 DEF Joining, TypeOK
  <2> QED BY <1>1, <1>2, <2>1, SMT DEF Joining, TypeOK
<1>6. CountExact'
  <2>1. kind = "all" => ToTry' = ToTry BY <1>1, <1>2 DEF ToTry
  <2> QED BY <1>1, <2>1 DEF Joining, CountExact
<1>7. RunnersPlaced'
  <2> SUFFICES ASSUME NEW x \in Runners PROVE Placed(x)' BY DEF RunnersPlaced
  <2>1. CASE x = r BY <1>1, <1>2, <1>3, <2>1 DEF Placed
  <2>2. CASE x # r
    <3>1. serial => rpc[x] \notin {"publish", "try", "cancel", "complete"} BY <1>1, <2>2, Alone
    <3> QED BY <1>1, <1>2, <2>2, <3>1, PlacedOf DEF Placed
  <2> QED BY <2>1, <2>2
<1>8. Shown(r)' /\ ~Shown(r) BY <1>1, <1>2, SMT DEF Shown
<1>9. \A x \in Runners \ {r} : Shown(x)' <=> Shown(x) BY <1>1, <1>2 DEF Shown
<1>10. values \subseteq Runners /\ firstEp \in Runners \cup {Nobody} /\ outcome[r] \in {"value", "throw"}
  BY <1>4 DEF Joining, TypeOK
<1>11. ResultsStored'
  <2>1. ASSUME NEW x \in values'
        PROVE  outcome'[x] = "value" /\ Shown(x)' /\ (kind' # "all" => x = winner' /\ index' = x)
    <3>1. CASE x = r
      <4>1. outcome[r] = "value" /\ index' = r BY <1>4, <1>8, <2>1, <3>1 DEF Joining, ResultsStored
      <4> QED BY <1>1, <1>3, <1>8, <3>1, <4>1
    <3>2. CASE x # r
      <4>1. x \in values BY <1>4, <2>1, <3>2, SMT
      <4>2. outcome[x] = "value" /\ Shown(x) /\ (kind # "all" => x = winner) BY <4>1 DEF Joining, ResultsStored
      <4> QED BY <1>1, <1>3, <1>9, <1>10, <3>2, <4>1, <4>2
    <3> QED BY <3>1, <3>2
  <2>2. ASSUME firstEp' # Nobody
        PROVE  (outcome[firstEp] = "throw" /\ Shown(firstEp) /\ (kind # "all" => firstEp = winner))'
    <3>1. \E x \in Runners : firstEp' = x /\ outcome[x] = "throw" /\ Shown(x)' /\ (kind # "all" => x = winner)
      <4>1. CASE firstEp # Nobody
        <5>1. firstEp' = firstEp BY <1>4, <4>1
        <5>2. outcome[firstEp] = "throw" /\ Shown(firstEp) /\ (kind # "all" => firstEp = winner)
          BY <4>1 DEF Joining, ResultsStored
        <5> QED BY <1>8, <1>9, <1>10, <4>1, <5>1, <5>2
      <4>2. CASE firstEp = Nobody
        <5>1. firstEp' = r /\ outcome[r] = "throw" BY <1>4, <2>2, <4>2
        <5> QED BY <1>3, <1>8, <5>1
      <4> QED BY <4>1, <4>2
    <3>2. PICK x \in Runners : firstEp' = x /\ outcome[x] = "throw" /\ Shown(x)' /\ (kind # "all" => x = winner)
      BY <3>1
    <3> QED BY <1>1, <3>2 DEF Shown
  <2>3. ASSUME NEW x \in Runners, Shown(x)', kind' = "all" \/ x = winner'
        PROVE  (outcome'[x] = "value" => x \in values') /\ (outcome'[x] = "throw" => firstEp' # Nobody)
    <3>1. CASE x = r BY <1>1, <1>4, <3>1, Assumed
    <3>2. CASE x # r
      <4>1. (outcome[x] = "value" => x \in values) /\ (outcome[x] = "throw" => firstEp # Nobody)
        BY <1>1, <1>9, <2>3, <3>2 DEF Joining, ResultsStored
      <4> QED BY <1>1, <1>4, <4>1, Assumed
    <3> QED BY <3>1, <3>2
  <2>4. values' = {} => index' = First
    <3>1. values' = {} => values = {} /\ index' = index BY <1>4
    <3> QED BY <3>1 DEF Joining, ResultsStored
  <2> QED BY <2>1, <2>2, <2>3, <2>4 DEF ResultsStored
<1>12. LosersStopped'
  <2>1. winner # Nobody /\ rpc'[winner] # "cancel" => rpc[winner] # "cancel" BY <1>1, <1>2, WinnerIs
  <2> QED BY <1>1, <2>1 DEF Joining, LosersStopped
<1>13. ParentPlaced'
  <2>1. winner # Nobody => (rpc'[winner] = "end" <=> rpc[winner] = "end") BY <1>1, <1>2, WinnerIs
  <2> QED BY <1>1, <2>1 DEF Joining, ParentPlaced, ResumedOnce
<1>14. ParentRead'
  <2>1. \A x \in Runners : rpc[x] = "end" => rpc'[x] = "end" BY <1>1, <1>2
  <2>2. winner # Nobody => (Shown(winner) => Shown(winner)') BY <1>1, <1>2, WinnerIs DEF Shown
  <2> QED BY <1>1, <2>1, <2>2, ReadStays
<1> QED BY <1>5, <1>6, <1>7, <1>11, <1>12, <1>13, <1>14 DEF Joining

LEMMA CompleteStep ==
  ASSUME Joining, NEW r \in Runners, Complete(r)
  PROVE  Joining'
<1>1. /\ rpc[r] = "complete" /\ MayRun(r) /\ turn' = Nobody /\ waiter' = "done"
      /\ resumes' = (IF waiter = "parent" THEN resumes + 1 ELSE resumes)
      /\ UNCHANGED <<kind, serial, remaining, ex, values, index, firstEp, outcome, stopReq, winner, ppc, got>>
      /\ UNCHANGED Awaited
  BY DEF Complete, Yield, Resumed, callVars, Awaited
<1>2. /\ rpc' = [rpc EXCEPT ![r] = "end"] /\ rpc'[r] = "end"
      /\ \A x \in Runners \ {r} : rpc'[x] = rpc[x]
  BY DEF Complete, GoR, Joining, TypeOK
<1>3. r = winner /\ r \in Awaited /\ outcome[r] # "none" /\ winner # Nobody BY <1>1, PlacedOf, Assumed DEF Placed
<1>4. waiter # "done" BY <1>1, <1>3 DEF Joining, ParentPlaced
<1>5. TypeOK' BY <1>1, <1>2, SMT DEF Joining, TypeOK
<1>6. CountExact'
  <2>1. ToTry' = ToTry BY <1>1, <1>2 DEF ToTry
  <2> QED BY <1>1, <2>1 DEF Joining, CountExact
<1>7. RunnersPlaced'
  <2> SUFFICES ASSUME NEW x \in Runners PROVE Placed(x)' BY DEF RunnersPlaced
  <2>1. CASE x = r BY <1>1, <1>2, <1>3, <2>1 DEF Placed
  <2>2. CASE x # r
    <3>1. serial => rpc[x] \notin {"publish", "try", "cancel", "complete"} BY <1>1, <2>2, Alone
    <3> QED BY <1>1, <1>2, <2>2, <3>1, PlacedOf DEF Placed
  <2> QED BY <2>1, <2>2
<1>8. \A x \in Runners : Shown(x)' <=> Shown(x) BY <1>1, <1>2, SMT DEF Shown
<1>9. ResultsStored' BY <1>1, <1>8, ResultsStay
<1>10. LosersStopped' BY <1>1, <1>2, <1>3 DEF Joining, LosersStopped
<1>11. ParentPlaced'
  <2>1. resumes \in Nat /\ waiter \in {"null", "parent", "done"} BY DEF Joining, TypeOK
  <2>2. resumes = 0
    <3>1. resumes <= 1 /\ (resumes = 1 => waiter = "done") BY DEF Joining, ParentPlaced, ResumedOnce
    <3> QED BY <1>4, <2>1, <3>1, SMT
  <2>3. waiter = "parent" => ppc = "suspended" /\ ex BY DEF Joining, ParentPlaced
  <2>4. ResumedOnce' BY <1>1, <2>2, <2>3, SMT DEF ResumedOnce
  <2> QED BY <1>1, <1>2, <1>3, <2>4 DEF Joining, ParentPlaced
<1>12. ParentRead'
  <2>1. \A x \in Runners : rpc[x] = "end" => rpc'[x] = "end" BY <1>1, <1>2
  <2>2. ppc \in {"join"} \cup Ended => resumes' = resumes BY <1>1 DEF Joining, ParentPlaced, Ended
  <2> QED BY <1>1, <1>3, <1>8, <2>1, <2>2, ReadStays
<1> QED BY <1>5, <1>6, <1>7, <1>9, <1>10, <1>11, <1>12 DEF Joining

-----------------------------------------------------------------------------
\* The steps of the parent, which leave the runners alone.
LEMMA RunnersStay ==
  ASSUME Joining, MayRun(Parent),
         UNCHANGED <<kind, serial, remaining, values, index, firstEp, rpc, outcome, stopReq, winner>>
  PROVE  CountExact' /\ RunnersPlaced' /\ ResultsStored' /\ LosersStopped'
<1>1. CountExact' /\ LosersStopped' BY DEF Joining, CountExact, ToTry, LosersStopped, Awaited
<1>2. ASSUME NEW x \in Runners PROVE Placed(x)'
  <2>1. serial => rpc[x] \notin {"publish", "try", "cancel", "complete"} BY Alone, Assumed
  <2> QED BY <2>1, PlacedOf DEF Placed, Awaited
<1>3. ResultsStored' BY DEF Joining, ResultsStored, Shown
<1> QED BY <1>1, <1>2, <1>3 DEF RunnersPlaced

LEMMA SuspendingStep ==
  ASSUME Joining, Check \/ StoreExecutor \/ RegisterWaiter \/ Resume
  PROVE  Joining'
<1>1. MayRun(Parent) /\ UNCHANGED <<kind, serial, remaining, values, index, firstEp, rpc, outcome, stopReq, winner, got, resumes>>
  BY DEF Check, StoreExecutor, RegisterWaiter, Resume, Register, callVars, stateVars
<1>2. turn' \in {Parent, Nobody}
  BY DEF Check, StoreExecutor, RegisterWaiter, Resume, Keep, Yield
<1>3. waiter \in {"null", "parent", "done"} /\ resumes \in Nat BY DEF Joining, TypeOK
<1>4. /\ waiter = "done" <=> winner # Nobody /\ rpc[winner] = "end"
      /\ waiter = "parent" => ppc = "suspended" /\ ex /\ resumes = 0
      /\ resumes <= 1 /\ (resumes = 1 => waiter = "done" /\ ex)
      /\ ppc \in {"ready", "suspend", "store", "cas"} => resumes = 0
      /\ ppc = "cas" => ex
  BY DEF Joining, ParentPlaced, ResumedOnce
<1>5. /\ ppc' \in {"ready", "suspend", "store", "cas", "suspended", "collect"}
      /\ waiter' \in {"null", "parent", "done"} /\ ex' \in BOOLEAN
      /\ waiter' = "done" <=> winner # Nobody /\ rpc[winner] = "end"
      /\ waiter' = "parent" => ppc' = "suspended" /\ ex' /\ resumes = 0
      /\ resumes = 1 => waiter' = "done" /\ ex'
      /\ ppc' \in {"ready", "suspend", "store", "cas"} => resumes = 0
      /\ ppc' = "cas" => ex'
      /\ ppc' = "collect" => winner # Nobody
  <2>1. CASE Check
    <3>1. /\ ppc \in {"ready", "suspend"} /\ UNCHANGED <<waiter, ex>>
          /\ ppc' = IF remaining = 0 THEN "collect" ELSE IF ppc = "ready" THEN "suspend" ELSE "store"
      BY <2>1 DEF Check, is_done, stateVars
    <3>2. remaining = 0 => winner # Nobody BY DEF Joining, CountExact
    <3> QED BY <1>3, <1>4, <3>1, <3>2 DEF Joining, TypeOK
  <2>2. CASE StoreExecutor BY <1>3, <1>4, <2>2 DEF StoreExecutor
  <2>3. CASE RegisterWaiter
    <3>1. ppc = "cas" /\ ex' = ex /\ ex \in BOOLEAN BY <2>3 DEF RegisterWaiter, Joining, TypeOK
    <3>2. \/ waiter = "null" /\ ppc' = "suspended" /\ waiter' = "parent"
          \/ waiter # "null" /\ ppc' = "collect" /\ waiter' = waiter
      BY <2>3 DEF RegisterWaiter, Register
    <3> QED BY <1>3, <1>4, <3>1, <3>2
  <2>4. CASE Resume
    <3>1. ppc = "suspended" /\ ppc' = "collect" /\ UNCHANGED <<waiter, ex>> /\ resumes > 0 /\ ex \in BOOLEAN
      BY <2>4 DEF Resume, stateVars, Joining, TypeOK
    <3> QED BY <1>3, <1>4, <3>1, SMT
  <2> QED BY <2>1, <2>2, <2>3, <2>4
<1>6. TypeOK' BY <1>1, <1>2, <1>5 DEF Joining, TypeOK
<1>7. ParentPlaced' BY <1>1, <1>4, <1>5 DEF ParentPlaced, ResumedOnce, Ended
<1>8. ParentRead' BY <1>5 DEF ParentRead, Ended
<1> QED BY <1>1, <1>6, <1>7, <1>8, RunnersStay DEF Joining

LEMMA CollectStep ==
  ASSUME Joining, Sizes, Collect
  PROVE  Joining'
<1>1. /\ ppc = "collect" /\ MayRun(Parent) /\ turn' = Nobody /\ ppc' = "join"
      /\ got' = [ep |-> firstEp, index |-> index, has |-> HasValue]
      /\ UNCHANGED <<kind, serial, remaining, waiter, ex, values, index, firstEp, rpc, outcome, stopReq, winner, resumes>>
  BY DEF Collect, Yield, callVars, stateVars
<1>2. got'.ep = firstEp /\ got'.index = index /\ (got'.has <=> IF kind = "all" THEN values = Runners ELSE index \in values)
  BY <1>1 DEF HasValue
<1>3. winner # Nobody BY <1>1 DEF Joining, ParentPlaced
<1>4. TypeOK'
  <2>1. HasValue \in BOOLEAN
    <3>1. (values = Runners) \in BOOLEAN /\ (index \in values) \in BOOLEAN BY SMT
    <3>2. CASE kind = "all" BY <3>1, <3>2, Zenon DEF HasValue
    <3>3. CASE kind # "all" BY <3>1, <3>3, Zenon DEF HasValue
    <3> QED BY <3>2, <3>3
  <2> QED BY <1>1, <2>1 DEF Joining, TypeOK
<1>5. ParentPlaced' BY <1>1, <1>3 DEF Joining, ParentPlaced, ResumedOnce, Ended
<1>6. ParentRead'
  <2>1. got'.ep # Nobody => outcome[got'.ep] = "throw" /\ (kind # "all" => got'.ep = winner /\ Shown(winner))
    BY <1>2 DEF Joining, ResultsStored
  <2>2. got'.has => IF kind = "all" THEN \A r \in Runners : outcome[r] = "value"
                    ELSE got'.index = winner /\ outcome[winner] = "value" /\ Shown(winner)
    BY <1>2 DEF Joining, ResultsStored
  <2>3. ASSUME kind = "all" PROVE got'.ep # Nobody \/ got'.has
    <3>1. ToTry = {}
      <4>1. Size(ToTry) = 0 BY <1>3, <2>3 DEF Joining, CountExact
      <4>2. ToTry \in SUBSET Runners BY DEF ToTry
      <4> QED BY <4>1, <4>2 DEF Sizes
    <3>2. \A r \in Runners : rpc[r] \notin {"work", "publish", "try"} BY <3>1 DEF ToTry
    <3>3. \A r \in Runners : Shown(r) /\ outcome[r] \in {"value", "throw"}
      <4> TAKE r \in Runners
      <4>1. Placed(r) BY PlacedOf
      <4>2. rpc[r] \in {"complete", "end"} BY <2>3, <3>2, <4>1 DEF Placed, Joining, TypeOK
      <4>3. r \in Awaited BY <2>3 DEF Awaited, Of
      <4> QED BY <2>3, <4>1, <4>2, <4>3 DEF Placed, Shown, Joining, TypeOK
    <3>4. firstEp = Nobody => \A r \in Runners : r \in values BY <2>3, <3>3 DEF Joining, ResultsStored
    <3> QED BY <1>2, <2>3, <3>4 DEF Joining, TypeOK
  <2>4. ASSUME kind # "all", serial \/ resumes = 1 PROVE got'.ep # Nobody \/ got'.has
    <3>1. winner \in Runners /\ Placed(winner) /\ outcome[winner] # "none" BY <1>3, WinnerIs
    <3>2. serial => rpc[winner] \notin {"publish", "try", "cancel", "complete"}
      BY <1>1, <3>1, Alone, Assumed
    <3>3. rpc[winner] = "end"
      <4>1. CASE serial BY <3>1, <3>2, <4>1 DEF Placed, Joining, TypeOK
      <4>2. CASE resumes = 1 BY <4>2 DEF Joining, ParentPlaced, ResumedOnce
      <4> QED BY <2>4, <4>1, <4>2
    <3>4. Shown(winner) /\ outcome[winner] \in {"value", "throw"} BY <3>1, <3>3 DEF Shown, Joining, TypeOK
    <3>5. firstEp # Nobody \/ winner \in values BY <3>1, <3>4 DEF Joining, ResultsStored
    <3>6. winner \in values => index = winner BY <2>4 DEF Joining, ResultsStored
    <3> QED BY <1>2, <2>4, <3>5, <3>6
  <2>5. ASSUME kind # "all", ~got'.has PROVE got'.index = First
    <3>1. index \notin values BY <1>2, <2>5
    <3>2. \A r \in values : index = r BY <2>5 DEF Joining, ResultsStored
    <3>3. values = {} BY <3>1, <3>2
    <3> QED BY <1>2, <3>3 DEF Joining, ResultsStored
  <2>6. ppc' = "join" /\ ppc' \notin Ended BY <1>1 DEF Ended
  <2> QED BY <1>1, <2>1, <2>2, <2>3, <2>4, <2>5, <2>6 DEF ParentRead, Shown
<1> QED BY <1>1, <1>4, <1>5, <1>6, RunnersStay DEF Joining

LEMMA ReturnStep ==
  ASSUME Joining, Return
  PROVE  Joining'
<1>1. /\ ppc = "join" /\ MayRun(Parent) /\ turn' = Nobody
      /\ \A r \in Joins : rpc[r] = "end"
      /\ ppc' = IF got.ep # Nobody THEN "rethrown" ELSE IF got.has THEN "returned" ELSE Unpublished
      /\ UNCHANGED <<kind, serial, remaining, waiter, ex, values, index, firstEp, rpc, outcome, stopReq, winner, got, resumes>>
  BY DEF Return, Yield, callVars, stateVars
<1>2. ppc' \in Ended /\ Unpublished' = Unpublished BY <1>1, SMT DEF Ended, Unpublished
<1>3. TypeOK' BY <1>1, <1>2 DEF Joining, TypeOK, Ended
<1>4. ParentPlaced' BY <1>1, <1>2 DEF Joining, ParentPlaced, ResumedOnce, Ended
<1>5. ParentRead'
  <2>1. Joins' = Joins BY <1>1 DEF Joins, Awaited
  <2> QED BY <1>1, <1>2, <2>1 DEF Joining, ParentRead, Ended, Shown
<1> QED BY <1>1, <1>3, <1>4, <1>5, RunnersStay DEF Joining

\* No step of a call breaks the invariant.
LEMMA RunnerJoining ==
  ASSUME Joining, Sizes, NEW r \in Runners, RunnerStep(r)
  PROVE  Joining'
BY TryStep, CancelOtherStep, PublishStep, CompleteStep DEF RunnerStep

LEMMA ParentJoining ==
  ASSUME Joining, Sizes, ParentStep
  PROVE  Joining'
BY SuspendingStep, CollectStep, ReturnStep DEF ParentStep

LEMMA StillJoining == ASSUME Joining, UNCHANGED vars PROVE Joining'
<1>1. UNCHANGED <<kind, serial, remaining, waiter, ex, values, index, firstEp, rpc, outcome, stopReq, winner, ppc, got,
                  resumes, turn>>
  BY DEF vars, callVars, stateVars
<1>2. TypeOK' /\ CountExact' BY <1>1, SMT DEF Joining, TypeOK, CountExact, ToTry
<1>3. RunnersPlaced' BY <1>1 DEF Joining, RunnersPlaced, Placed, Awaited
<1>4. ResultsStored' /\ LosersStopped' BY <1>1 DEF Joining, ResultsStored, Shown, LosersStopped, Awaited
<1>5. ParentPlaced' BY <1>1 DEF Joining, ParentPlaced, ResumedOnce
<1>6. ParentRead' BY <1>1, ReadStays DEF Shown
<1> QED BY <1>2, <1>3, <1>4, <1>5, <1>6 DEF Joining

-----------------------------------------------------------------------------
\* What the invariant says of a call that has ended.
LEMMA AllMeans == ASSUME Joining, Sizes PROVE AllResults
<1> SUFFICES ASSUME kind = "all", ppc \in Ended
             PROVE  /\ \A r \in Runners : outcome[r] # "none"
                    /\ ppc = IF \A r \in Runners : outcome[r] = "value" THEN "returned" ELSE "rethrown"
  BY DEF AllResults
<1>1. winner # Nobody BY DEF Joining, ParentPlaced
<1>2. ASSUME NEW r \in Runners PROVE outcome[r] # "none"
  <2>1. Size(ToTry) = 0 BY <1>1 DEF Joining, CountExact
  <2>2. r \notin ToTry BY <2>1 DEF Sizes, ToTry
  <2>3. rpc[r] # "work" BY <2>2 DEF ToTry
  <2>4. r \in Awaited BY DEF Awaited, Of
  <2> QED BY <2>3, <2>4, PlacedOf DEF Placed
<1>3. got.ep # Nobody => got.ep \in Runners /\ outcome[got.ep] = "throw" BY DEF Joining, ParentRead, TypeOK
<1>4. got.has => \A r \in Runners : outcome[r] = "value" BY DEF Joining, ParentRead
<1>5. got.ep # Nobody \/ got.has BY DEF Joining, ParentRead
<1>6. ppc = IF got.ep # Nobody THEN "rethrown" ELSE IF got.has THEN "returned" ELSE Unpublished BY DEF Joining, ParentRead
<1> QED BY <1>2, <1>3, <1>4, <1>5, <1>6

LEMMA FirstMeans == ASSUME Joining PROVE FirstResult
<1> SUFFICES ASSUME kind # "all", ppc \in Ended
             PROVE  \/ ppc = "returned" /\ outcome[winner] = "value" /\ got.index = winner
                    \/ ppc = "rethrown" /\ outcome[winner] = "throw" /\ got.ep = winner
                    \/ ppc = Unpublished /\ got.index = First /\ ~serial /\ resumes = 0
  BY DEF FirstResult
<1>1. ppc = IF got.ep # Nobody THEN "rethrown" ELSE IF got.has THEN "returned" ELSE Unpublished
  BY DEF Joining, ParentRead
<1>2. CASE got.ep # Nobody BY <1>1, <1>2 DEF Joining, ParentRead
<1>3. CASE got.ep = Nobody /\ got.has BY <1>1, <1>3 DEF Joining, ParentRead
<1>4. CASE got.ep = Nobody /\ ~got.has
  <2>1. got.index = First /\ ~serial /\ resumes # 1 BY <1>4 DEF Joining, ParentRead
  <2>2. resumes \in Nat /\ resumes <= 1 BY DEF Joining, TypeOK, ParentPlaced, ResumedOnce
  <2>3. resumes = 0 BY <2>1, <2>2, SMT
  <2> QED BY <1>1, <1>4, <2>1, <2>3
<1> QED BY <1>2, <1>3, <1>4

\* when_any_cancel_join has an ENSURE for a result that is not there.
LEMMA JoinEnsures ==
  ASSUME Joining, kind = "cancel_join", ppc \in Ended
  PROVE  Unpublished = "missing" /\ ppc # "bad_access"
<1>1. Unpublished = "missing" BY SMT DEF Unpublished
<1> QED BY <1>1 DEF Joining, ParentRead

LEMMA LoserMeans == ASSUME Joining PROVE LoserJoined
<1> SUFFICES ASSUME kind = "cancel_join", ppc \in {"returned", "rethrown"}, NEW r \in Awaited \ {winner}
             PROVE  rpc[r] = "end" /\ r \in stopReq
  BY DEF LoserJoined
<1>1. /\ got.ep # Nobody \/ got.has
      /\ \A x \in Joins : rpc[x] = "end"
      /\ got.ep # Nobody => got.ep = winner /\ Shown(winner)
      /\ got.has => got.index = winner /\ Shown(winner)
  <2>1. ppc \in Ended BY DEF Ended
  <2>2. ppc # Unpublished BY <2>1, JoinEnsures
  <2> QED BY <2>1, <2>2 DEF Joining, ParentRead
<1>2. r \in Joins BY <1>1 DEF Joins
<1>3. Shown(winner) BY <1>1
<1>4. winner # Nobody BY DEF Joining, ParentPlaced, Ended
<1>5. r \in stopReq BY <1>3, <1>4 DEF Joining, LosersStopped, Shown
<1> QED BY <1>1, <1>2, <1>5

LEMMA ParentMeans == ASSUME Joining PROVE ParentConsistent
BY DEF Joining, ParentPlaced, ParentConsistent

-----------------------------------------------------------------------------
\* with_timeout.
LEMMA TimerIs == Timer \in Runners /\ Timer # First /\ Pair = {First, Timer}
BY WhenAssumption, TimeoutAssumption

LEMMA InitTimeout == ASSUME TimeoutInit, Sizes PROVE Joining /\ TimeoutRuns
<1>1. Joining BY InitJoining DEF TimeoutInit
<1>2. TimeoutRuns BY <1>1, TimerIs DEF Joining, TimeoutInit, Init, TimeoutRuns, TimeoutTypeOK, TimeoutResult
<1> QED BY <1>1, <1>2

\* A stop of the caller reaches both runners.
LEMMA ParentStopStep ==
  ASSUME Joining, TimeoutRuns, RequestParentStop
  PROVE  Joining' /\ TimeoutRuns'
<1>1. /\ UNCHANGED <<kind, serial, remaining, waiter, ex, values, index, firstEp, rpc, outcome, winner, ppc, got, resumes, turn>>
      /\ UNCHANGED <<tpc, payload, final>> /\ parentStop' = TRUE /\ tpc \in {"check", "run"}
      /\ stopReq' = stopReq \/ stopReq' = Awaited
  BY DEF RequestParentStop, callVars, stateVars
<1>2. TypeOK'
  <2>1. stopReq' \subseteq Runners BY <1>1, AwaitedType DEF Joining, TypeOK
  <2> QED BY <1>1, <2>1, SMT DEF Joining, TypeOK
<1>3. CountExact' BY <1>1 DEF Joining, CountExact, ToTry
<1>4. RunnersPlaced' BY <1>1 DEF Joining, RunnersPlaced, Placed, Awaited
<1>5. ResultsStored' BY <1>1 DEF Joining, ResultsStored, Shown
<1>6. LosersStopped' BY <1>1 DEF Joining, LosersStopped, Awaited
<1>7. ParentPlaced' BY <1>1 DEF Joining, ParentPlaced, ResumedOnce
<1>8. ParentRead' BY <1>1, ReadStays DEF Shown
<1>9. TimeoutRuns' BY <1>1, <1>2 DEF TimeoutRuns, TimeoutTypeOK, TimeoutResult
<1> QED BY <1>2, <1>3, <1>4, <1>5, <1>6, <1>7, <1>8, <1>9 DEF Joining

\* While the call runs there is no result yet.
LEMMA CallRuns ==
  ASSUME TimeoutRuns, TypeOK', Started, UNCHANGED <<kind, tpc, parentStop, payload, final>>,
         Timer \in stopReq' => Timer \in stopReq \/ winner' = First,
         winner # Nobody => winner' = winner
  PROVE  TimeoutRuns'
<1>1. tpc # "done" /\ final = "none" BY DEF Started, TimeoutRuns
<1>2. TimeoutTypeOK' BY DEF TimeoutRuns, TimeoutTypeOK
<1>3. (Timer \in stopReq \/ payload[Timer] = "aborted" => parentStop \/ winner = First)'
  BY Assumed DEF TimeoutRuns
<1>4. TimeoutResult' BY <1>1 DEF TimeoutResult
<1> QED BY <1>1, <1>2, <1>3, <1>4 DEF TimeoutRuns

LEMMA CallerTimeout ==
  ASSUME Joining, TimeoutRuns, Sizes, Caller
  PROVE  Joining' /\ TimeoutRuns'
<1>1. Joining' BY ParentJoining DEF Caller
<1>2. Started /\ UNCHANGED <<tpc, parentStop, payload, final>> BY DEF Caller, timeoutVars
<1>3. UNCHANGED <<kind, stopReq, winner>>
  BY DEF Caller, ParentStep, Check, StoreExecutor, RegisterWaiter, Resume, Collect, Return, callVars
<1>4. TypeOK' BY <1>1 DEF Joining
<1> QED BY <1>1, <1>2, <1>3, <1>4, CallRuns

LEMMA RunnerTimeout ==
  ASSUME Joining, TimeoutRuns, Sizes, NEW r \in Runners, Runner(r)
  PROVE  Joining' /\ TimeoutRuns'
<1>1. Joining' BY RunnerJoining DEF Runner
<1>2. Started /\ UNCHANGED <<tpc, parentStop, payload, final>> /\ RunnerStep(r) BY DEF Runner, timeoutVars
<1>3. kind' = kind BY <1>2 DEF RunnerStep, TryComplete, CancelOther, Publish, Complete, callVars
<1>4. Timer \in stopReq' => Timer \in stopReq \/ winner' = First
  <2>1. CASE CancelOther(r)
    <3>1. rpc[r] = "cancel" /\ stopReq' = stopReq \cup (Awaited \ {r}) /\ winner' = winner BY <2>1 DEF CancelOther
    <3>2. r = winner /\ r \in Awaited /\ kind = "cancel_join" BY <3>1, PlacedOf DEF Placed
    <3>3. Awaited = {First, Timer} BY <3>2, TimerIs DEF Awaited, Of
    <3> QED BY <3>1, <3>2, <3>3
  <2>2. CASE ~CancelOther(r) BY <1>2, <2>2 DEF RunnerStep, TryComplete, Publish, Complete
  <2> QED BY <2>1, <2>2
<1>5. winner # Nobody => winner' = winner
  <2>1. CASE TryComplete(r)
    <3>1. winner # Nobody => remaining = 0 BY DEF Joining, CountExact
    <3> QED BY <2>1, <3>1, SMT DEF TryComplete, DoneNow
  <2>2. CASE ~TryComplete(r) BY <1>2, <2>2 DEF RunnerStep, CancelOther, Publish, Complete
  <2> QED BY <2>1, <2>2
<1>6. TypeOK' BY <1>1 DEF Joining
<1> QED BY <1>1, <1>2, <1>3, <1>4, <1>5, <1>6, CallRuns

\* The timer returns "aborted" only when it was asked to stop.
LEMMA AwaitableTimeout ==
  ASSUME Joining, TimeoutRuns, NEW r \in Runners, Awaitable(r)
  PROVE  Joining' /\ TimeoutRuns'
<1>1. Finish(r, "value") \/ Finish(r, "throw") BY DEF Awaitable, Returns, Throws
<1>2. Joining' BY <1>1, FinishStep
<1>3. UNCHANGED <<kind, winner, stopReq, tpc, parentStop, final>> /\ Started
  BY DEF Awaitable, Returns, Throws, Finish, callVars, timeoutVars
<1>4. \/ payload' = payload
      \/ \E p \in {"ok", "failed", "aborted"} :
           payload' = [payload EXCEPT ![r] = p] /\ (r = Timer /\ p = "aborted" => Timer \in stopReq)
  BY Zenon DEF Awaitable, Returns, Throws, timeoutVars, TimerResults, OperationResults
<1>5. /\ payload' \in [Runners -> {"none", "ok", "failed", "aborted"}]
      /\ payload'[Timer] = "aborted" => payload[Timer] = "aborted" \/ Timer \in stopReq
  <2>1. payload \in [Runners -> {"none", "ok", "failed", "aborted"}] BY DEF TimeoutRuns, TimeoutTypeOK
  <2> QED BY <1>4, <2>1, TimerIs
<1>6. final = "none" BY <1>3 DEF TimeoutRuns, Started
<1>7. TimeoutTypeOK' BY <1>2, <1>3, <1>5 DEF Joining, TimeoutRuns, TimeoutTypeOK
<1>8. (Timer \in stopReq \/ payload[Timer] = "aborted" => parentStop \/ winner = First)' BY <1>3, <1>5 DEF TimeoutRuns
<1>9. TimeoutResult' BY <1>3, <1>6 DEF TimeoutResult
<1> QED BY <1>2, <1>3, <1>6, <1>7, <1>8, <1>9 DEF TimeoutRuns

LEMMA TimeoutReturnsStep ==
  ASSUME Joining, TimeoutRuns, TimeoutReturns
  PROVE  Joining' /\ TimeoutRuns'
<1>1. /\ tpc = "run" /\ tpc' = "done" /\ ppc \in Ended /\ UNCHANGED <<parentStop, payload>>
      /\ final' = IF ppc = "returned" THEN Outcome ELSE ppc
      /\ UNCHANGED vars
  BY DEF TimeoutReturns, InTimeout, Ended
<1>2. UNCHANGED <<kind, stopReq, winner, rpc>> BY <1>1 DEF vars, callVars
<1>3. Joining' BY <1>1, StillJoining
<1>4. kind = "cancel_join" /\ payload \in [Runners -> {"none", "ok", "failed", "aborted"}]
  BY <1>1 DEF TimeoutRuns, TimeoutTypeOK
<1>5. final' \in {"none", "ok", "failed", "aborted", "timed_out", "rethrown", "missing"}
  <2>1. Outcome \in {"none", "ok", "failed", "aborted", "timed_out"} BY <1>4, TimerIs, Assumed DEF Outcome
  <2>2. ppc \in {"returned", "rethrown", "missing"} BY <1>1, <1>4, JoinEnsures DEF Ended
  <2> QED BY <1>1, <2>1, <2>2
<1>6. TimeoutTypeOK' BY <1>1, <1>3, <1>5 DEF Joining, TimeoutRuns, TimeoutTypeOK
<1>7. TimeoutResult'
  <2>1. CASE ppc = "returned"
    <3>1. got.index = winner
      <4>1. ppc # Unpublished BY <1>1, <1>4, <2>1, JoinEnsures
      <4> QED BY <1>1, <1>4, <2>1, <4>1, FirstMeans DEF FirstResult
    <3>2. winner \in {First, Timer} /\ Awaited = {First, Timer}
      <4>1. winner # Nobody BY <2>1 DEF Joining, ParentPlaced, Ended
      <4>2. winner \in Awaited BY <4>1, WinnerIs DEF Placed
      <4> QED BY <1>4, <4>2, TimerIs DEF Awaited, Of
    <3>3. final' = IF winner = First THEN payload[First]
                   ELSE IF payload[Timer] = "ok" THEN "timed_out" ELSE payload[Timer]
      BY <1>1, <2>1, <3>1 DEF Outcome
    <3>4. winner = Timer => rpc[First] = "end" BY <1>4, <2>1, <3>2, LoserMeans, TimerIs DEF LoserJoined
    <3>5. payload[Timer] = "aborted" => parentStop \/ winner = First BY DEF TimeoutRuns
    <3>6. payload[First] # "timed_out" /\ payload[Timer] # "timed_out" BY <1>4, TimerIs, Assumed
    <3> QED BY <1>1, <1>2, <3>2, <3>3, <3>4, <3>5, <3>6, TimerIs DEF TimeoutResult
  <2>2. CASE ppc # "returned" BY <1>1, <2>2 DEF TimeoutResult, Ended
  <2> QED BY <2>1, <2>2
<1> QED BY <1>1, <1>2, <1>3, <1>4, <1>6, <1>7 DEF TimeoutRuns

LEMMA BeforeTheCall ==
  ASSUME Joining, TimeoutRuns, Call \/ CheckParentStop
  PROVE  Joining' /\ TimeoutRuns'
<1>1. Joining' BY StillJoining DEF Call, CheckParentStop
<1>2. UNCHANGED <<kind, stopReq, winner, rpc, parentStop, payload>> BY DEF Call, CheckParentStop, vars, callVars
<1>3. /\ tpc' \in {"none", "check", "run", "done"} /\ (tpc' # "none" => kind = "cancel_join")
      /\ tpc # "done" /\ (final' = final \/ (final' = "refused" /\ tpc' = "done"))
  BY DEF Call, CheckParentStop, TimeoutRuns
<1>4. final = "none" BY <1>3 DEF TimeoutRuns
<1>5. TimeoutTypeOK' BY <1>1, <1>2, <1>3, <1>4 DEF Joining, TimeoutRuns, TimeoutTypeOK
<1>6. TimeoutResult' BY <1>3, <1>4 DEF TimeoutResult
<1> QED BY <1>1, <1>2, <1>3, <1>4, <1>5, <1>6 DEF TimeoutRuns

LEMMA NextTimeout ==
  ASSUME Joining, TimeoutRuns, Sizes, [TimeoutNext]_allVars
  PROVE  Joining' /\ TimeoutRuns'
<1>1. CASE UNCHANGED allVars
  <2>1. UNCHANGED vars /\ UNCHANGED <<tpc, parentStop, payload, final>> BY <1>1 DEF allVars, timeoutVars
  <2>2. Joining' BY <2>1, StillJoining
  <2>3. UNCHANGED <<kind, stopReq, winner, rpc>> BY <2>1 DEF vars, callVars
  <2>4. TimeoutTypeOK' BY <2>1, <2>2 DEF Joining, TimeoutRuns, TimeoutTypeOK
  <2> QED BY <2>1, <2>2, <2>3, <2>4 DEF TimeoutRuns, TimeoutResult
<1>2. CASE Call \/ CheckParentStop BY <1>2, BeforeTheCall
<1>3. CASE Caller BY <1>3, CallerTimeout
<1>4. CASE TimeoutReturns BY <1>4, TimeoutReturnsStep
<1>5. CASE RequestParentStop BY <1>5, ParentStopStep
<1>6. ASSUME NEW r \in Runners, Runner(r) PROVE Joining' /\ TimeoutRuns' BY <1>6, RunnerTimeout
<1>7. ASSUME NEW r \in Runners, Awaitable(r) PROVE Joining' /\ TimeoutRuns' BY <1>7, AwaitableTimeout
<1> QED BY <1>1, <1>2, <1>3, <1>4, <1>5, <1>6, <1>7 DEF TimeoutNext, Timeout

-----------------------------------------------------------------------------
\* The stack: where each coroutine is, what it is bound to, and under which
\* executor it runs or will run.
StackType ==
  /\ status \in [CS!Coros -> {"none", "linking", "running", "awaiting", "suspended", "posted", "final"}]
  /\ promiseEx \in [CS!Coros -> Executors \cup {Unbound}] /\ target \in [CS!Coros -> Executors \cup {Unbound}]
  /\ cur \in Executors
  /\ awaited \in [CS!Coros -> {"none", "value", "throw"}] /\ away \in [CS!Coros -> BOOLEAN]
StopType == /\ stop \in [CS!Source -> BOOLEAN]
            /\ parentCb \in [CS!Coros -> {"none", "set", "running", "nested", "gone"}]

Active == {"linking", "running", "suspended", "posted"}
Bound(c) ==
  /\ status[c] = "posted" => target[c] \in Executors /\ (~away[c] => target[c] = promiseEx[c])
  /\ status[c] \in Active \cup {"awaiting"} => promiseEx[c] \in Executors
  /\ status[c] = "running" /\ ~away[c] => cur = promiseEx[c]
  /\ status[c] = "linking" => /\ c < Depth /\ status[c + 1] = "none" /\ promiseEx[c + 1] \in Executors
                              /\ ~away[c + 1] => cur = promiseEx[c + 1]
  /\ status[c] = "final" => c > 1 /\ status[c - 1] = "posted"
Stacked == StackType /\ CS!OneActive /\ \A c \in CS!Coros : Bound(c)

\* The callbacks that chain the stop sources.
Chained(c) ==
  /\ parentCb[c] = "set" => ~stop[c - 1]
  /\ parentCb[c] \in {"nested", "gone"} => stop[c]
  /\ c > 1 => IF status[c] \in {"none", "final"} THEN parentCb[c] = "none"
              ELSE parentCb[c] \in {"set", "running"} \/ stop[c]
Chain == StopType /\ \A c \in CS!Coros : Chained(c)

\* co_spawn: how far the entry coroutine is, and what the completion and the
\* joiner have got.
Entered ==
  /\ spc \in {"call", "link", "post", "dropped", "destroyed"} => status[1] = "none"
  /\ spc = "entry" => status[1] \in {"posted", "running"}
  /\ spc = "awaiting" => \/ status[1] \in {"linking", "awaiting"}
                         \/ status[1] \in {"posted", "running"} /\ awaited[1] # "none"
  /\ spc \in {"complete", "resume", "end"} => status[1] = "running"
  /\ spc \in {"call", "link"} => parentCb[1] = "none"
  /\ spc # "call" => promiseEx[1] \in Executors
SpawnType ==
  /\ mode \in {"detached", "callback", "awaitable"}
  /\ spc \in {"call", "link", "post", "entry", "dropped", "awaiting", "complete", "resume", "end", "destroyed"}
  /\ result \in {"none", "value", "throw"} /\ joined \in {"none", "value", "throw"}
  /\ done \in BOOLEAN /\ joinWaiter \in BOOLEAN /\ resumed \in {0, 1}
  /\ jpc \in {"start", "suspend", "suspended", "resume", "returned", "dropped"}
Late == {"complete", "resume", "end", "destroyed"}
Delivers ==
  /\ spc \notin Late => completions = <<>> /\ result = "none"
  /\ spc \in {"complete", "resume"} => mode = "awaitable"
  /\ spc \in Late => /\ mode = "detached" => completions = <<>>
                     /\ mode = "callback" => \E o \in {"value", "throw"} : completions = <<o>>
                     /\ mode = "awaitable" => result # "none" /\ completions = <<result>>
  /\ done <=> mode = "awaitable" /\ spc \in {"resume", "end", "destroyed"}
  /\ joinWaiter => jpc = "suspended" /\ ~done
  /\ jpc \in {"resume", "returned"} => done
  /\ resumed = 1 => spc \in {"end", "destroyed"} /\ mode = "awaitable"
  /\ jpc = "returned" => joined = result
Spawns == Stacked /\ Chain /\ SpawnType /\ Entered /\ Delivers

-----------------------------------------------------------------------------
LEMMA Places ==
  /\ Depth \in Nat /\ 1 \in CS!Coros /\ 0 \in CS!Source
  /\ \A c \in CS!Coros : /\ c \in Nat /\ c >= 1 /\ c <= Depth /\ c \in CS!Source /\ c - 1 \in CS!Source
                         /\ c < Depth => c + 1 \in CS!Coros
                         /\ c > 1 => c - 1 \in CS!Coros
BY StackAssumption, SMT DEF CS!Coros, CS!Source

LEMMA Order ==
  \A c, d \in CS!Coros :
    /\ d < c => d # c /\ d # c + 1
    /\ d > c => d # c /\ d # c - 1
    /\ d < c + 1 => d = c \/ d < c
    /\ d > c + 1 => d > c /\ d # c + 1
    /\ d < c - 1 => d < c /\ d # c - 1
    /\ d > c - 1 => d = c \/ d > c
<1> SUFFICES ASSUME NEW c \in Nat, NEW d \in Nat
             PROVE  /\ d < c => d # c /\ d # c + 1
                    /\ d > c => d # c /\ d # c - 1
                    /\ d < c + 1 => d = c \/ d < c
                    /\ d > c + 1 => d > c /\ d # c + 1
                    /\ d < c - 1 => d < c /\ d # c - 1
                    /\ d > c - 1 => d = c \/ d > c
  BY Places
<1> QED BY SMT

\* Below the active coroutine all await, above it there are none.
LEMMA Around ==
  ASSUME Stacked, NEW c \in CS!Coros, status[c] \in Active
  PROVE  \A d \in CS!Coros : /\ d < c => status[d] = "awaiting" /\ promiseEx[d] \in Executors
                             /\ d > c => \/ status[d] = "none"
                                         \/ status[d] = "final" /\ d = c + 1 /\ status[c] = "posted"
<1>1. \A e \in CS!Coros : status[e] \notin {"none", "final"} => \A d \in 1..(e - 1) : status[d] = "awaiting"
  BY DEF Stacked, CS!OneActive, CS!Live
<1>2. status[c] \notin {"none", "final", "awaiting"} BY DEF Active
<1>3. ASSUME NEW d \in CS!Coros, d < c PROVE status[d] = "awaiting" /\ promiseEx[d] \in Executors
  <2>1. c \in Nat /\ d \in Nat /\ d >= 1 BY Places
  <2>2. d \in 1..(c - 1) BY <1>3, <2>1, SMT
  <2>3. status[d] = "awaiting" BY <1>1, <1>2, <2>2
  <2> QED BY <2>3 DEF Stacked, Bound
<1>4. ASSUME NEW d \in CS!Coros, d > c PROVE status[d] \in {"none", "final"}
  <2>1. c \in Nat /\ d \in Nat /\ c >= 1 BY Places
  <2>2. c \in 1..(d - 1) BY <1>4, <2>1, SMT
  <2> QED BY <1>1, <1>2, <2>2
<1>5. ASSUME NEW d \in CS!Coros, d > c, status[d] = "final" PROVE d = c + 1 /\ status[c] = "posted"
  <2>1. d > 1 /\ status[d - 1] = "posted" BY <1>5 DEF Stacked, Bound
  <2>2. d - 1 \in CS!Coros BY <2>1, Places
  <2>3. ~(d - 1 > c) BY <1>4, <2>1, <2>2
  <2>4. c \in Nat /\ d \in Nat BY Places
  <2>5. d = c + 1 /\ d - 1 = c BY <1>5, <2>3, <2>4, SMT
  <2> QED BY <2>1, <2>5
<1> QED BY <1>3, <1>4, <1>5

\* A stack with one active coroutine is well-formed if that one is.
LEMMA Restack ==
  ASSUME NEW c \in CS!Coros, status'[c] \in Active, StackType', Bound(c)',
         \A d \in CS!Coros : /\ d < c => status'[d] = "awaiting" /\ promiseEx'[d] \in Executors
                             /\ d > c => \/ status'[d] = "none"
                                         \/ status'[d] = "final" /\ d = c + 1 /\ status'[c] = "posted"
  PROVE  Stacked'
<1>1. ASSUME NEW e \in CS!Coros, status'[e] \notin {"none", "final"}
      PROVE  /\ \A d \in 1..(e - 1) : status'[d] = "awaiting"
             /\ status'[e] = "awaiting" => e + 1 \in CS!Coros /\ status'[e + 1] \notin {"none", "final"}
  <2>1. c \in Nat /\ e \in Nat /\ c <= Depth /\ Depth \in Nat BY Places
  <2>2. ~(e > c) BY <1>1
  <2>3. e <= c BY <2>1, <2>2, SMT
  <2>4. \A d \in 1..(e - 1) : d \in CS!Coros /\ d < c BY <2>1, <2>3, SMT DEF CS!Coros
  <2>5. ASSUME status'[e] = "awaiting" PROVE e + 1 \in CS!Coros /\ status'[e + 1] \notin {"none", "final"}
    <3>1. e # c BY <2>5 DEF Active
    <3>2. e + 1 \in CS!Coros /\ (e + 1 = c \/ e + 1 < c) BY <2>1, <2>3, <3>1, SMT DEF CS!Coros
    <3> QED BY <3>2 DEF Active
  <2> QED BY <2>4, <2>5
<1>2. CS!OneActive' BY <1>1 DEF CS!OneActive, CS!Live, CS!Coros
<1>3. ASSUME NEW d \in CS!Coros PROVE Bound(d)'
  <2>1. c \in Nat /\ d \in Nat BY Places
  <2>2. d = c \/ d < c \/ d > c BY <2>1, SMT
  <2>3. CASE status'[d] = "final" /\ d = c + 1 /\ status'[c] = "posted"
    <3>1. d > 1 /\ d - 1 = c BY <2>1, <2>3, Places, SMT
    <3> QED BY <2>3, <3>1 DEF Bound, Active
  <2>4. CASE status'[d] = "none" BY <2>4 DEF Bound, Active
  <2>5. CASE status'[d] = "awaiting" /\ promiseEx'[d] \in Executors BY <2>5 DEF Bound, Active
  <2> QED BY <2>2, <2>3, <2>4, <2>5
<1> QED BY <1>2, <1>3 DEF Stacked, CS!Coros

\* One without is empty.
LEMMA Unstack ==
  ASSUME StackType', \A d \in CS!Coros : status'[d] = "none"
  PROVE  Stacked'
<1>1. CS!OneActive' BY DEF CS!OneActive, CS!Live, CS!Coros
<1>2. \A d \in CS!Coros : Bound(d)' BY DEF Bound, Active
<1> QED BY <1>1, <1>2 DEF Stacked, CS!Coros

-----------------------------------------------------------------------------
\* The steps of the coroutines.
LEMMA AwaitStacked ==
  ASSUME Stacked, NEW c \in CS!Coros, NEW b \in Executors \cup {Unbound}, CS!Await(c, b)
  PROVE  Stacked'
<1>1. /\ status[c] = "running" /\ c < Depth /\ status[c + 1] = "none" /\ UNCHANGED <<target, cur>>
      /\ promiseEx' = [promiseEx EXCEPT ![c + 1] = IF b = Unbound THEN promiseEx[c] ELSE b]
      /\ awaited' = [awaited EXCEPT ![c] = "none"]
      /\ status' = (IF stop[c] THEN [status EXCEPT ![c] = "awaiting", ![c + 1] = "running"]
                               ELSE [status EXCEPT ![c] = "linking"])
      /\ away' = [away EXCEPT ![c + 1] = cur # promiseEx'[c + 1]]
  BY DEF CS!Await, CS!Running, CS!StartUnder
<1>2. c + 1 \in CS!Coros /\ c + 1 # c BY <1>1, Places, SMT
<1>3. StackType BY DEF Stacked
<1>4. promiseEx[c] \in Executors BY <1>1 DEF Stacked, Bound, Active
<1> DEFINE x == IF b = Unbound THEN promiseEx[c] ELSE b
<1>5. x \in Executors BY <1>4
<1>6. /\ promiseEx' \in [CS!Coros -> Executors \cup {Unbound}] /\ promiseEx'[c + 1] = x
      /\ \A d \in CS!Coros \ {c + 1} : promiseEx'[d] = promiseEx[d]
  <2> HIDE DEF x
  <2>1. promiseEx' = [promiseEx EXCEPT ![c + 1] = x] BY <1>1 DEF x
  <2> QED BY <1>2, <1>3, <1>5, <2>1, SMT DEF StackType
<1>7. away' \in [CS!Coros -> BOOLEAN] /\ (away'[c + 1] <=> cur # promiseEx'[c + 1])
  BY <1>1, <1>2, <1>3 DEF StackType
<1>8. StackType'
  <2>1. status' \in [CS!Coros -> {"none", "linking", "running", "awaiting", "suspended", "posted", "final"}]
    BY <1>1, <1>2, <1>3, SMT DEF StackType
  <2>2. awaited' \in [CS!Coros -> {"none", "value", "throw"}] BY <1>1, <1>3, SMT DEF StackType
  <2> QED BY <1>1, <1>3, <1>6, <1>7, <2>1, <2>2 DEF StackType, CS!Coros
<1>9. \A d \in CS!Coros : (d < c => status[d] = "awaiting" /\ promiseEx[d] \in Executors)
                          /\ (d > c => status[d] = "none")
  BY <1>1, Around DEF Active
<1>10. CASE stop[c]
  <2>1. /\ status'[c] = "awaiting" /\ status'[c + 1] = "running"
        /\ \A d \in CS!Coros \ {c, c + 1} : status'[d] = status[d]
    BY <1>1, <1>2, <1>3, <1>10, SMT DEF StackType
  <2>2. \A d \in CS!Coros : /\ d < c + 1 => status'[d] = "awaiting" /\ promiseEx'[d] \in Executors
                            /\ d > c + 1 => status'[d] = "none"
    BY <1>4, <1>6, <1>9, <2>1, Order
  <2>3. Bound(c + 1)' BY <1>1, <1>5, <1>6, <1>7, <2>1 DEF Bound, Active
  <2> QED BY <1>2, <1>8, <2>1, <2>2, <2>3, Restack DEF Active
<1>11. CASE ~stop[c]
  <2>1. status'[c] = "linking" /\ \A d \in CS!Coros \ {c} : status'[d] = status[d]
    BY <1>1, <1>3, <1>11, SMT DEF StackType
  <2>2. \A d \in CS!Coros : /\ d < c => status'[d] = "awaiting" /\ promiseEx'[d] \in Executors
                            /\ d > c => status'[d] = "none"
    BY <1>6, <1>9, <2>1, Order
  <2>3. promiseEx'[c] \in Executors /\ status'[c + 1] = "none" BY <1>1, <1>2, <1>4, <1>6, <2>1
  <2>4. Bound(c)' BY <1>1, <1>5, <1>6, <1>7, <2>1, <2>3 DEF Bound, Active
  <2> QED BY <1>8, <2>1, <2>2, <2>4, Restack DEF Active
<1> QED BY <1>10, <1>11

LEMMA LinkStacked ==
  ASSUME Stacked, NEW c \in CS!Coros, CS!Link(c)
  PROVE  Stacked'
<1>1. /\ status[c] = "linking" /\ c < Depth /\ UNCHANGED <<promiseEx, target, awaited, away, cur>>
      /\ status' = [status EXCEPT ![c] = "awaiting", ![c + 1] = "running"]
  BY DEF CS!Link
<1>2. c + 1 \in CS!Coros /\ c + 1 # c BY <1>1, Places, SMT
<1>3. StackType BY DEF Stacked
<1>4. /\ promiseEx[c] \in Executors /\ promiseEx[c + 1] \in Executors
      /\ ~away[c + 1] => cur = promiseEx[c + 1]
  BY <1>1 DEF Stacked, Bound, Active
<1>5. \A d \in CS!Coros : (d < c => status[d] = "awaiting" /\ promiseEx[d] \in Executors)
                          /\ (d > c => status[d] = "none")
  BY <1>1, Around DEF Active
<1>6. /\ status'[c] = "awaiting" /\ status'[c + 1] = "running"
      /\ \A d \in CS!Coros \ {c, c + 1} : status'[d] = status[d]
      /\ status' \in [CS!Coros -> {"none", "linking", "running", "awaiting", "suspended", "posted", "final"}]
  BY <1>1, <1>2, <1>3, SMT DEF StackType
<1>7. StackType' BY <1>1, <1>3, <1>6 DEF StackType, CS!Coros
<1>8. \A d \in CS!Coros : /\ d < c + 1 => status'[d] = "awaiting" /\ promiseEx'[d] \in Executors
                          /\ d > c + 1 => status'[d] = "none"
  BY <1>1, <1>4, <1>5, <1>6, Order
<1>9. Bound(c + 1)' BY <1>1, <1>4, <1>6 DEF Bound, Active
<1> QED BY <1>2, <1>6, <1>7, <1>8, <1>9, Restack DEF Active

LEMMA RunStacked ==
  ASSUME Stacked, NEW c \in CS!Coros, CS!Run(c)
  PROVE  Stacked'
<1>1. /\ status[c] = "posted" /\ cur' = target[c] /\ UNCHANGED <<promiseEx, target, awaited, away>>
      /\ status' = [d \in CS!Coros |-> IF d = c THEN "running"
                                       ELSE IF d = c + 1 /\ status[d] = "final" THEN "none" ELSE status[d]]
  BY DEF CS!Run
<1>2. StackType BY DEF Stacked
<1>3. promiseEx[c] \in Executors /\ target[c] \in Executors /\ (~away[c] => target[c] = promiseEx[c])
  BY <1>1 DEF Stacked, Bound, Active
<1>4. \A d \in CS!Coros : /\ d < c => status[d] = "awaiting" /\ promiseEx[d] \in Executors
                          /\ d > c => status[d] = "none" \/ (status[d] = "final" /\ d = c + 1)
  BY <1>1, Around DEF Active
<1>5. /\ status'[c] = "running"
      /\ \A d \in CS!Coros \ {c} : status'[d] = IF d = c + 1 /\ status[d] = "final" THEN "none" ELSE status[d]
      /\ status' \in [CS!Coros -> {"none", "linking", "running", "awaiting", "suspended", "posted", "final"}]
  BY <1>1, <1>2, SMT DEF StackType
<1>6. StackType' BY <1>1, <1>2, <1>3, <1>5 DEF StackType, CS!Coros
<1>7. ASSUME NEW d \in CS!Coros
      PROVE  /\ d < c => status'[d] = "awaiting" /\ promiseEx'[d] \in Executors
             /\ d > c => status'[d] = "none"
  BY <1>1, <1>4, <1>5, Order
<1>8. Bound(c)' BY <1>1, <1>3, <1>5 DEF Bound, Active
<1> QED BY <1>5, <1>6, <1>7, <1>8, Restack DEF Active

\* What keeps its place on the stack.
LEMMA InPlace ==
  ASSUME Stacked, NEW c \in CS!Coros, status[c] \in Active \ {"posted"}, NEW s \in Active,
         status' = [status EXCEPT ![c] = s], cur' = cur,
         target' \in [CS!Coros -> Executors \cup {Unbound}], away' \in [CS!Coros -> BOOLEAN],
         promiseEx' \in [CS!Coros -> Executors \cup {Unbound}],
         \A d \in CS!Coros \ {c} : promiseEx'[d] = promiseEx[d],
         awaited' \in [CS!Coros -> {"none", "value", "throw"}],
         status'[c] = s => Bound(c)'
  PROVE  Stacked'
<1>1. StackType BY DEF Stacked
<1>2. /\ status'[c] = s /\ \A d \in CS!Coros \ {c} : status'[d] = status[d]
      /\ status' \in [CS!Coros -> {"none", "linking", "running", "awaiting", "suspended", "posted", "final"}]
  BY <1>1, SMT DEF StackType, Active
<1>3. StackType' BY <1>1, <1>2 DEF StackType, CS!Coros
<1>4. \A d \in CS!Coros : /\ d < c => status[d] = "awaiting" /\ promiseEx[d] \in Executors
                          /\ d > c => status[d] = "none"
  BY Around
<1>5. \A d \in CS!Coros : /\ d < c => status'[d] = "awaiting" /\ promiseEx'[d] \in Executors
                          /\ d > c => status'[d] = "none"
  BY <1>2, <1>4, Order
<1> QED BY <1>2, <1>3, <1>5, Restack

LEMMA HopStacked ==
  ASSUME Stacked, NEW c \in CS!Coros, NEW e \in Executors, CS!SwitchTo(c, e) \/ CS!On(c, e)
  PROVE  Stacked'
<1>1. status[c] = "running" /\ CS!Hop(c, e) /\ UNCHANGED <<awaited, cur>>
  BY DEF CS!SwitchTo, CS!On, CS!Running
<1>2. StackType BY DEF Stacked
<1>3. promiseEx[c] \in Executors BY <1>1 DEF Stacked, Bound, Active
<1>4. /\ promiseEx' \in [CS!Coros -> Executors \cup {Unbound}] /\ promiseEx'[c] \in Executors
      /\ \A d \in CS!Coros \ {c} : promiseEx'[d] = promiseEx[d]
  <2>1. CASE promiseEx' = [promiseEx EXCEPT ![c] = e] BY <1>2, <2>1, SMT DEF StackType
  <2>2. CASE promiseEx' = promiseEx BY <1>2, <1>3, <2>2 DEF StackType
  <2> QED BY <2>1, <2>2 DEF CS!SwitchTo, CS!On
<1>5. away' \in [CS!Coros -> BOOLEAN] /\ (~away'[c] => e = promiseEx'[c])
  <2>1. CASE CS!SwitchTo(c, e)
    <3>1. promiseEx'[c] = e BY <1>2, <2>1, SMT DEF CS!SwitchTo, StackType
    <3> QED BY <1>2, <2>1, <3>1 DEF CS!SwitchTo, StackType
  <2>2. CASE CS!On(c, e) BY <1>2, <2>2 DEF CS!On, StackType
  <2> QED BY <2>1, <2>2
<1>6. CASE cur = e
  <2>1. UNCHANGED <<status, target>> BY <1>1, <1>6 DEF CS!Hop
  <2>2. status' = [status EXCEPT ![c] = "running"] BY <1>1, <1>2, <2>1, SMT DEF StackType
  <2>3. status'[c] = "running" => Bound(c)' BY <1>1, <1>4, <1>5, <1>6 DEF Bound, Active
  <2> QED BY <1>1, <1>2, <1>4, <1>5, <2>1, <2>2, <2>3, InPlace DEF Active, StackType
<1>7. CASE cur # e
  <2>1. target' = [target EXCEPT ![c] = e] /\ status' = [status EXCEPT ![c] = "posted"]
    BY <1>1, <1>7 DEF CS!Hop, CS!PostOn
  <2>2. target' \in [CS!Coros -> Executors \cup {Unbound}] /\ target'[c] = e BY <1>2, <2>1, SMT DEF StackType
  <2>3. status'[c] = "posted" => Bound(c)' BY <1>4, <1>5, <2>2 DEF Bound, Active
  <2> QED BY <1>1, <1>2, <1>4, <1>5, <2>1, <2>2, <2>3, InPlace DEF Active, StackType
<1> QED BY <1>6, <1>7

LEMMA OperationStacked ==
  ASSUME Stacked, NEW c \in CS!Coros, CS!SuspendOnOperation(c) \/ CS!OperationEnds(c)
  PROVE  Stacked'
<1>1. StackType BY DEF Stacked
<1>2. CASE CS!SuspendOnOperation(c)
  <2>1. /\ status[c] = "running" /\ status' = [status EXCEPT ![c] = "suspended"]
        /\ UNCHANGED <<promiseEx, target, awaited, away, cur>>
    BY <1>2 DEF CS!SuspendOnOperation, CS!Running
  <2>2. promiseEx'[c] \in Executors BY <2>1 DEF Stacked, Bound, Active
  <2>3. status'[c] = "suspended" => Bound(c)' BY <2>2 DEF Bound, Active
  <2> QED BY <1>1, <2>1, <2>3, InPlace DEF Active, StackType
<1>3. CASE CS!OperationEnds(c)
  <2>1. /\ status[c] = "suspended" /\ status' = [status EXCEPT ![c] = "posted"]
        /\ target' = [target EXCEPT ![c] = promiseEx[c]] /\ away' = [away EXCEPT ![c] = FALSE]
        /\ UNCHANGED <<promiseEx, awaited, cur>>
    BY <1>3 DEF CS!OperationEnds, CS!PostOn
  <2>2. promiseEx[c] \in Executors BY <2>1 DEF Stacked, Bound, Active
  <2>3. target' \in [CS!Coros -> Executors \cup {Unbound}] /\ target'[c] = promiseEx[c]
    BY <1>1, <2>1, <2>2, SMT DEF StackType
  <2>4. away' \in [CS!Coros -> BOOLEAN] BY <1>1, <2>1 DEF StackType
  <2>5. status'[c] = "posted" => Bound(c)' BY <2>1, <2>2, <2>3 DEF Bound, Active
  <2> QED BY <1>1, <2>1, <2>3, <2>4, <2>5, InPlace DEF Active, StackType
<1> QED BY <1>2, <1>3

LEMMA FinishStacked ==
  ASSUME Stacked, NEW c \in CS!Coros, NEW o \in {"value", "throw"}, CS!Finish(c, o)
  PROVE  Stacked'
<1>1. /\ status[c] = "running" /\ c > 1 /\ UNCHANGED <<promiseEx, cur>>
      /\ awaited' = [awaited EXCEPT ![c - 1] = o]
      /\ away' = [away EXCEPT ![c - 1] = promiseEx[c] # promiseEx[c - 1]]
  BY DEF CS!Finish, CS!Running
<1>2. c - 1 \in CS!Coros /\ c - 1 # c /\ c - 1 < c /\ (c - 1) + 1 = c /\ c > c - 1 BY <1>1, Places, SMT
<1>3. StackType BY DEF Stacked
<1>4. promiseEx[c] \in Executors BY <1>1 DEF Stacked, Bound, Active
<1>5. \A d \in CS!Coros : /\ d < c => status[d] = "awaiting" /\ promiseEx[d] \in Executors
                          /\ d > c => status[d] = "none"
  BY <1>1, Around DEF Active
<1>6. promiseEx[c - 1] \in Executors BY <1>2, <1>5
<1>7. away' \in [CS!Coros -> BOOLEAN] /\ (away'[c - 1] <=> promiseEx[c] # promiseEx[c - 1])
  BY <1>1, <1>2, <1>3 DEF StackType
<1>8. awaited' \in [CS!Coros -> {"none", "value", "throw"}] BY <1>1, <1>3 DEF StackType
<1>9. CASE cur = promiseEx[c]
  <2>1. status' = [status EXCEPT ![c] = "none", ![c - 1] = "running"] /\ target' = target
    BY <1>9 DEF CS!Finish, CS!SameExecutor
  <2>2. /\ status'[c] = "none" /\ status'[c - 1] = "running"
        /\ \A d \in CS!Coros \ {c, c - 1} : status'[d] = status[d]
        /\ status' \in [CS!Coros -> {"none", "linking", "running", "awaiting", "suspended", "posted", "final"}]
    BY <1>2, <1>3, <2>1, SMT DEF StackType
  <2>3. StackType' BY <1>1, <1>3, <1>7, <1>8, <2>1, <2>2 DEF StackType, CS!Coros
  <2>4. \A d \in CS!Coros : /\ d < c - 1 => status'[d] = "awaiting" /\ promiseEx'[d] \in Executors
                            /\ d > c - 1 => status'[d] = "none"
    BY <1>1, <1>5, <2>2, Order
  <2>5. Bound(c - 1)' BY <1>1, <1>6, <1>7, <1>9, <2>2 DEF Bound, Active
  <2> QED BY <1>2, <2>2, <2>3, <2>4, <2>5, Restack DEF Active
<1>10. CASE cur # promiseEx[c]
  <2>1. /\ status' = [status EXCEPT ![c] = "final", ![c - 1] = "posted"]
        /\ target' = [target EXCEPT ![c - 1] = promiseEx[c]]
    BY <1>10 DEF CS!Finish, CS!SameExecutor, CS!PostOn
  <2>2. /\ status'[c] = "final" /\ status'[c - 1] = "posted"
        /\ \A d \in CS!Coros \ {c, c - 1} : status'[d] = status[d]
        /\ status' \in [CS!Coros -> {"none", "linking", "running", "awaiting", "suspended", "posted", "final"}]
        /\ target' \in [CS!Coros -> Executors \cup {Unbound}] /\ target'[c - 1] = promiseEx[c]
    BY <1>2, <1>3, <1>4, <2>1, SMT DEF StackType
  <2>3. StackType' BY <1>1, <1>3, <1>7, <1>8, <2>1, <2>2 DEF StackType, CS!Coros
  <2>4. \A d \in CS!Coros : /\ d < c - 1 => status'[d] = "awaiting" /\ promiseEx'[d] \in Executors
                            /\ d > c - 1 => \/ status'[d] = "none"
                                            \/ status'[d] = "final" /\ d = (c - 1) + 1 /\ status'[c - 1] = "posted"
    BY <1>1, <1>2, <1>5, <2>2, Order
  <2>5. Bound(c - 1)' BY <1>1, <1>4, <1>6, <1>7, <2>2 DEF Bound, Active
  <2> QED BY <1>2, <2>2, <2>3, <2>4, <2>5, Restack DEF Active
<1> QED BY <1>9, <1>10

-----------------------------------------------------------------------------
\* The callbacks that pass a stop request on.  One that is not on the stack has none.
LEMMA NoCallback ==
  ASSUME Stacked, Chain, NEW c \in CS!Coros, status[c] \in Active, c < Depth, status[c + 1] = "none"
  PROVE  \A d \in CS!Coros : d > c => parentCb[d] = "none"
<1> SUFFICES ASSUME NEW d \in CS!Coros, d > c PROVE parentCb[d] = "none" OBVIOUS
<1>1. status[d] \in {"none", "final"} BY Around
<1>2. c \in Nat /\ d \in Nat /\ c >= 1 BY Places
<1>3. d > 1 BY <1>2, SMT
<1> QED BY <1>1, <1>3 DEF Chain, Chained

LEMMA SameChain ==
  ASSUME Chain, UNCHANGED <<stop, parentCb>>,
         \A d \in CS!Coros : d > 1 => (status'[d] \in {"none", "final"} <=> status[d] \in {"none", "final"})
  PROVE  Chain'
<1>1. StopType' BY DEF Chain, StopType, CS!Coros, CS!Source
<1>2. \A d \in CS!Coros : Chained(d)' BY DEF Chain, Chained
<1> QED BY <1>1, <1>2 DEF Chain, CS!Coros

\* The places beside d that a step at c can reach.
LEMMA Beside ==
  \A c, d \in CS!Coros : (d - 1 = c => d = c + 1 /\ d > c) /\ (d = c + 1 => d - 1 = c /\ d > 1)
BY Places, SMT

LEMMA AwaitChain ==
  ASSUME Stacked, Chain, NEW c \in CS!Coros, NEW b \in Executors \cup {Unbound}, CS!Await(c, b)
  PROVE  Chain'
<1>1. /\ status[c] = "running" /\ c < Depth /\ status[c + 1] = "none" /\ parentCb' = parentCb
      /\ stop' = [stop EXCEPT ![c + 1] = stop[(c + 1) - 1]]
      /\ status' = (IF stop[c] THEN [status EXCEPT ![c] = "awaiting", ![c + 1] = "running"]
                               ELSE [status EXCEPT ![c] = "linking"])
  BY DEF CS!Await, CS!Running, CS!CheckParentStop
<1>2. c + 1 \in CS!Coros /\ c + 1 # c /\ (c + 1) - 1 = c BY <1>1, Places, SMT
<1>3. StackType /\ StopType BY DEF Stacked, Chain
<1>4. \A d \in CS!Coros : d > c => parentCb[d] = "none" BY <1>1, NoCallback DEF Active
<1>5. c + 1 \in CS!Source /\ c \in CS!Source BY <1>2, Places
<1>6. /\ stop' \in [CS!Source -> BOOLEAN] /\ (stop'[c + 1] <=> stop[c])
      /\ \A d \in CS!Source \ {c + 1} : stop'[d] = stop[d]
  BY <1>1, <1>2, <1>3, <1>5 DEF StopType
<1>7. StopType' BY <1>1, <1>3, <1>6 DEF StopType, CS!Coros, CS!Source
<1>8. /\ status'[c] \in {"awaiting", "linking"} /\ (status'[c + 1] = "none" \/ stop[c])
      /\ \A d \in CS!Coros \ {c, c + 1} : status'[d] = status[d]
  <2>1. CASE stop[c]
    <3>1. status' = [status EXCEPT ![c] = "awaiting", ![c + 1] = "running"] BY <1>1, <2>1
    <3> QED BY <1>2, <1>3, <2>1, <3>1, SMT DEF StackType
  <2>2. CASE ~stop[c]
    <3>1. status' = [status EXCEPT ![c] = "linking"] BY <1>1, <2>2
    <3> QED BY <1>1, <1>2, <1>3, <3>1, SMT DEF StackType
  <2> QED BY <2>1, <2>2
<1>9. ASSUME NEW d \in CS!Coros PROVE Chained(d)'
  <2>1. CASE d > c
    <3>1. parentCb[d] = "none" /\ parentCb'[d] = "none" BY <1>1, <1>4, <2>1
    <3>2. CASE d = c + 1 BY <1>6, <1>8, <3>1, <3>2 DEF Chained
    <3>3. CASE d # c + 1
      <4>1. d # c /\ status'[d] = status[d] BY <1>8, <2>1, <3>3, Order
      <4>2. stop'[d] = stop[d] BY <1>6, <3>3, Places
      <4> QED BY <3>1, <4>1, <4>2 DEF Chained, Chain
    <3> QED BY <3>2, <3>3
  <2>2. CASE ~(d > c)
    <3>0. c \in Nat /\ d \in Nat BY Places
    <3>1. d # c + 1 /\ d - 1 # c + 1 BY <2>2, <3>0, SMT
    <3>2. stop'[d] = stop[d] /\ stop'[d - 1] = stop[d - 1] BY <1>6, <3>1, Places
    <3>3. status'[d] \in {"none", "final"} <=> status[d] \in {"none", "final"} BY <1>1, <1>8, <3>1
    <3> QED BY <1>1, <3>2, <3>3 DEF Chained, Chain
  <2> QED BY <2>1, <2>2
<1> QED BY <1>7, <1>9 DEF Chain, CS!Coros

LEMMA LinkChain ==
  ASSUME Stacked, Chain, NEW c \in CS!Coros, CS!Link(c)
  PROVE  Chain'
<1>1. /\ status[c] = "linking" /\ c < Depth
      /\ stop' = [stop EXCEPT ![c + 1] = stop[(c + 1) - 1]]
      /\ parentCb' = [parentCb EXCEPT ![c + 1] = IF stop[(c + 1) - 1] THEN "gone" ELSE "set"]
      /\ status' = [status EXCEPT ![c] = "awaiting", ![c + 1] = "running"]
  BY DEF CS!Link, CS!InstallParentCb, CS!LateStop
<1>2. c + 1 \in CS!Coros /\ c + 1 # c /\ (c + 1) - 1 = c BY <1>1, Places, SMT
<1>3. StackType /\ StopType BY DEF Stacked, Chain
<1>4. status[c + 1] = "none" BY <1>1 DEF Stacked, Bound
<1>5. \A d \in CS!Coros : d > c => parentCb[d] = "none" BY <1>1, <1>4, NoCallback DEF Active
<1>6. c + 1 \in CS!Source /\ c \in CS!Source BY <1>2, Places
<1>7. /\ stop' \in [CS!Source -> BOOLEAN] /\ (stop'[c + 1] <=> stop[c])
      /\ \A d \in CS!Source \ {c + 1} : stop'[d] = stop[d]
  BY <1>1, <1>2, <1>3, <1>6 DEF StopType
<1>8. /\ parentCb' \in [CS!Coros -> {"none", "set", "running", "nested", "gone"}]
      /\ parentCb'[c + 1] \in {"gone", "set"} /\ (parentCb'[c + 1] = "gone" <=> stop[c])
      /\ \A d \in CS!Coros \ {c + 1} : parentCb'[d] = parentCb[d]
  BY <1>1, <1>2, <1>3, SMT DEF StopType
<1>9. StopType' BY <1>7, <1>8 DEF StopType, CS!Coros, CS!Source
<1>10. /\ status'[c] = "awaiting" /\ status'[c + 1] = "running"
       /\ \A d \in CS!Coros \ {c, c + 1} : status'[d] = status[d]
  BY <1>1, <1>2, <1>3, SMT DEF StackType
<1>11. ASSUME NEW d \in CS!Coros PROVE Chained(d)'
  <2>1. CASE d = c + 1
    <3>1. d - 1 = c /\ stop'[c] = stop[c] BY <1>2, <1>6, <1>7, <2>1
    <3> QED BY <1>7, <1>8, <1>10, <2>1, <3>1 DEF Chained
  <2>2. CASE d > c /\ d # c + 1
    <3>1. parentCb[d] = "none" /\ parentCb'[d] = "none" BY <1>5, <1>8, <2>2
    <3>2. d # c /\ status'[d] = status[d] BY <1>10, <2>2, Order
    <3>3. stop'[d] = stop[d] BY <1>7, <2>2, Places
    <3> QED BY <3>1, <3>2, <3>3 DEF Chained, Chain
  <2>3. CASE ~(d > c)
    <3>0. c \in Nat /\ d \in Nat BY Places
    <3>1. d # c + 1 /\ d - 1 # c + 1 BY <2>3, <3>0, SMT
    <3>2. stop'[d] = stop[d] /\ stop'[d - 1] = stop[d - 1] /\ parentCb'[d] = parentCb[d]
      BY <1>7, <1>8, <3>1, Places
    <3>3. status'[d] \in {"none", "final"} <=> status[d] \in {"none", "final"} BY <1>1, <1>10, <3>1
    <3> QED BY <3>2, <3>3 DEF Chained, Chain
  <2> QED BY <2>1, <2>2, <2>3
<1> QED BY <1>9, <1>11 DEF Chain, CS!Coros

LEMMA GoesOnChain ==
  ASSUME Stacked, Chain, NEW c \in CS!Coros,
         \/ CS!Run(c) \/ CS!SuspendOnOperation(c) \/ CS!OperationEnds(c)
         \/ \E e \in Executors : CS!SwitchTo(c, e) \/ CS!On(c, e)
  PROVE  Chain'
<1>1. StackType BY DEF Stacked
<1>2. UNCHANGED <<stop, parentCb>>
  BY DEF CS!Run, CS!SuspendOnOperation, CS!OperationEnds, CS!SwitchTo, CS!On, CS!stopVars
<1>3. status[c] \in {"posted", "suspended", "running"}
  BY DEF CS!Run, CS!SuspendOnOperation, CS!OperationEnds, CS!SwitchTo, CS!On, CS!Running
<1>4. status'[c] \in {"posted", "suspended", "running"}
      /\ \A d \in CS!Coros \ {c} : status'[d] = status[d] \/ (status[d] = "final" /\ status'[d] = "none")
  <2>1. CASE CS!Run(c) BY <1>1, <2>1, SMT DEF CS!Run, StackType
  <2>2. CASE CS!SuspendOnOperation(c) BY <1>1, <2>2, SMT DEF CS!SuspendOnOperation, StackType
  <2>3. CASE CS!OperationEnds(c) BY <1>1, <2>3, SMT DEF CS!OperationEnds, StackType
  <2>4. ASSUME NEW e \in Executors, CS!SwitchTo(c, e) \/ CS!On(c, e)
        PROVE  status' = status \/ status' = [status EXCEPT ![c] = "posted"]
    BY <2>4 DEF CS!SwitchTo, CS!On, CS!Hop
  <2>5. CASE status' = status BY <1>3, <2>5
  <2>6. CASE status' = [status EXCEPT ![c] = "posted"] BY <1>1, <2>6, SMT DEF StackType
  <2> QED BY <2>1, <2>2, <2>3, <2>4, <2>5, <2>6
<1>5. \A d \in CS!Coros : status'[d] \in {"none", "final"} <=> status[d] \in {"none", "final"}
  BY <1>3, <1>4
<1> QED BY <1>2, <1>5, SameChain

LEMMA FinishChain ==
  ASSUME Stacked, Chain, NEW c \in CS!Coros, NEW o \in {"value", "throw"}, CS!Finish(c, o)
  PROVE  Chain'
<1>1. /\ status[c] = "running" /\ c > 1
      /\ parentCb' = [parentCb EXCEPT ![c] = "none"] /\ stop' = [stop EXCEPT ![c] = FALSE]
      /\ \/ status' = [status EXCEPT ![c] = "none", ![c - 1] = "running"]
         \/ status' = [status EXCEPT ![c] = "final", ![c - 1] = "posted"]
  BY DEF CS!Finish, CS!Running, CS!DropParentCb
<1>2. c - 1 \in CS!Coros /\ c - 1 # c /\ c - 1 < c /\ c \in CS!Source BY <1>1, Places, SMT
<1>3. StackType /\ StopType BY DEF Stacked, Chain
<1>4. /\ status'[c] \in {"none", "final"} /\ status'[c - 1] \notin {"none", "final"}
      /\ \A d \in CS!Coros \ {c, c - 1} : status'[d] = status[d]
  BY <1>1, <1>2, <1>3, SMT DEF StackType
<1>5. status[c - 1] = "awaiting" BY <1>1, <1>2, Around DEF Active
<1>6. parentCb'[c] = "none" /\ \A d \in CS!Coros \ {c} : parentCb'[d] = parentCb[d]
  BY <1>1, <1>3, SMT DEF StopType
<1>7. ~stop'[c] /\ \A d \in CS!Source \ {c} : stop'[d] = stop[d] BY <1>1, <1>2, <1>3 DEF StopType
<1>8. StopType'
  <2>1. stop' \in [CS!Source -> BOOLEAN] BY <1>1, <1>3 DEF StopType
  <2>2. parentCb' \in [CS!Coros -> {"none", "set", "running", "nested", "gone"}] BY <1>1, <1>3 DEF StopType
  <2> QED BY <2>1, <2>2 DEF StopType, CS!Coros, CS!Source
<1>9. ASSUME NEW d \in CS!Coros PROVE Chained(d)'
  <2>1. CASE d = c BY <1>4, <1>6, <2>1 DEF Chained
  <2>2. CASE d # c
    <3>1. status'[d] \in {"none", "final"} <=> status[d] \in {"none", "final"} BY <1>4, <1>5, <2>2
    <3>2. parentCb'[d] = parentCb[d] /\ stop'[d] = stop[d] BY <1>6, <1>7, <2>2, Places
    <3>3. stop'[d - 1] = stop[d - 1] \/ ~stop'[d - 1] BY <1>7, Places
    <3> QED BY <3>1, <3>2, <3>3 DEF Chained, Chain
  <2> QED BY <2>1, <2>2
<1> QED BY <1>8, <1>9 DEF Chain, CS!Coros

LEMMA RequestChain ==
  ASSUME Chain, CS!RequestStop, status' = status
  PROVE  Chain'
<1>1. /\ stop' = [stop EXCEPT ![0] = TRUE] /\ parentCb' = CS!Triggered(0) BY DEF CS!RequestStop
<1>2. StopType BY DEF Chain
<1>3. 0 + 1 = 1 /\ 0 < Depth BY StackAssumption, SMT
<1>4. parentCb' = IF parentCb[1] = "set" THEN [parentCb EXCEPT ![1] = "running"] ELSE parentCb
  BY <1>1, <1>3 DEF CS!Triggered
<1>5. /\ parentCb' \in [CS!Coros -> {"none", "set", "running", "nested", "gone"}]
      /\ parentCb'[1] = IF parentCb[1] = "set" THEN "running" ELSE parentCb[1]
      /\ \A d \in CS!Coros \ {1} : parentCb'[d] = parentCb[d]
  BY <1>2, <1>4, Places, SMT DEF StopType
<1>6. stop' \in [CS!Source -> BOOLEAN] /\ \A d \in CS!Source \ {0} : stop'[d] = stop[d]
  BY <1>1, <1>2, Places DEF StopType
<1>7. StopType' BY <1>5, <1>6 DEF StopType, CS!Coros, CS!Source
<1>8. ASSUME NEW d \in CS!Coros PROVE Chained(d)'
  <2>1. d \in Nat /\ d >= 1 /\ d \in CS!Source /\ d - 1 \in CS!Source BY Places
  <2>2. d # 0 /\ (d - 1 = 0 => d = 1) /\ (d > 1 => d # 1) BY <2>1, SMT
  <2>3. stop'[d] = stop[d] BY <1>6, <2>1, <2>2
  <2>4. CASE d = 1 BY <1>5, <2>2, <2>3, <2>4 DEF Chained, Chain
  <2>5. CASE d # 1
    <3>1. stop'[d - 1] = stop[d - 1] /\ parentCb'[d] = parentCb[d] BY <1>5, <1>6, <2>1, <2>2, <2>5
    <3> QED BY <2>3, <3>1 DEF Chained, Chain
  <2> QED BY <2>4, <2>5
<1> QED BY <1>7, <1>8 DEF Chain, CS!Coros

LEMMA PassChain ==
  ASSUME Chain, NEW c \in CS!Coros, CS!PassStop(c), status' = status
  PROVE  Chain'
<1>1. /\ parentCb[c] = "running" /\ stop' = [stop EXCEPT ![c] = TRUE]
      /\ parentCb' = [CS!Triggered(c) EXCEPT ![c] = "nested"]
  BY DEF CS!PassStop
<1>2. StopType BY DEF Chain
<1>3. c \in Nat /\ c \in CS!Source /\ (c < Depth => c + 1 \in CS!Coros) BY Places
<1>4. c + 1 # c BY <1>3, SMT
<1>5. /\ CS!Triggered(c) \in [CS!Coros -> {"none", "set", "running", "nested", "gone"}]
      /\ \A d \in CS!Coros : CS!Triggered(c)[d] = IF d = c + 1 /\ c < Depth /\ parentCb[c + 1] = "set"
                                                  THEN "running" ELSE parentCb[d]
  BY <1>2, <1>3, SMT DEF StopType, CS!Triggered
<1>6. /\ parentCb' \in [CS!Coros -> {"none", "set", "running", "nested", "gone"}]
      /\ parentCb'[c] = "nested" /\ \A d \in CS!Coros \ {c} : parentCb'[d] = CS!Triggered(c)[d]
  BY <1>1, <1>5, SMT
<1>7. stop' \in [CS!Source -> BOOLEAN] /\ stop'[c] /\ \A d \in CS!Source \ {c} : stop'[d] = stop[d]
  BY <1>1, <1>2, <1>3 DEF StopType
<1>8. StopType' BY <1>6, <1>7 DEF StopType, CS!Coros, CS!Source
<1>9. ASSUME NEW d \in CS!Coros PROVE Chained(d)'
  <2>1. CASE d = c BY <1>1, <1>6, <1>7, <2>1 DEF Chained, Chain
  <2>2. CASE d # c
    <3>1. stop'[d] = stop[d] BY <1>7, <2>2, Places
    <3>2. d - 1 = c => d = c + 1 /\ c < Depth
      <4>1. d \in Nat /\ d <= Depth /\ Depth \in Nat BY Places
      <4> QED BY <1>3, <4>1, SMT
    <3>3. parentCb'[d] = IF d = c + 1 /\ c < Depth /\ parentCb[c + 1] = "set" THEN "running" ELSE parentCb[d]
      BY <1>5, <1>6, <2>2
    <3>4. d - 1 # c => stop'[d - 1] = stop[d - 1] BY <1>7, Places
    <3>5. parentCb'[d] = "set" => parentCb[d] = "set" /\ stop'[d - 1] = stop[d - 1] BY <3>2, <3>3, <3>4
    <3>6. /\ parentCb'[d] \in {"nested", "gone"} => parentCb[d] = parentCb'[d]
          /\ parentCb[d] = "none" => parentCb'[d] = "none"
          /\ parentCb[d] \in {"set", "running"} => parentCb'[d] \in {"set", "running"}
      BY <3>3
    <3> QED BY <3>1, <3>5, <3>6 DEF Chained, Chain
  <2> QED BY <2>1, <2>2
<1> QED BY <1>8, <1>9 DEF Chain, CS!Coros

LEMMA PassedChain ==
  ASSUME Chain, NEW c \in CS!Coros, CS!PassedStop(c), status' = status
  PROVE  Chain'
<1>1. parentCb[c] = "nested" /\ stop' = stop /\ parentCb' = [parentCb EXCEPT ![c] = "gone"]
  BY DEF CS!PassedStop
<1>2. StopType BY DEF Chain
<1>3. /\ parentCb' \in [CS!Coros -> {"none", "set", "running", "nested", "gone"}]
      /\ parentCb'[c] = "gone" /\ \A d \in CS!Coros \ {c} : parentCb'[d] = parentCb[d]
  BY <1>1, <1>2, SMT DEF StopType
<1>4. StopType' BY <1>1, <1>2, <1>3 DEF StopType, CS!Coros, CS!Source
<1>5. ASSUME NEW d \in CS!Coros PROVE Chained(d)'
  <2>1. CASE d = c BY <1>1, <1>3, <2>1 DEF Chained, Chain
  <2>2. CASE d # c BY <1>1, <1>3, <2>2 DEF Chained, Chain
  <2> QED BY <2>1, <2>2
<1> QED BY <1>4, <1>5 DEF Chain, CS!Coros

\* A stack whose lowest coroutine is not there is empty.
LEMMA NoStack ==
  ASSUME Stacked, Chain, status[1] = "none"
  PROVE  \A d \in CS!Coros : status[d] = "none" /\ (d > 1 => parentCb[d] = "none")
<1>1. ASSUME NEW d \in CS!Coros PROVE status[d] \in {"none", "final"}
  <2>1. d \in Nat /\ d >= 1 BY Places
  <2>2. d = 1 \/ 1 \in 1..(d - 1) BY <2>1, SMT
  <2> QED BY <2>2 DEF Stacked, CS!OneActive, CS!Live
<1>2. ASSUME NEW d \in CS!Coros, status[d] = "final" PROVE FALSE
  <2>1. d > 1 /\ status[d - 1] = "posted" BY <1>2 DEF Stacked, Bound
  <2>2. d - 1 \in CS!Coros BY <2>1, Places
  <2> QED BY <1>1, <2>1, <2>2
<1>3. \A d \in CS!Coros : status[d] = "none" BY <1>1, <1>2
<1> QED BY <1>3 DEF Chain, Chained

\* The stop source of the entry coroutine is given a value, and its callback.
LEMMA EntryChain ==
  ASSUME Chain, \A d \in CS!Coros : d > 1 => parentCb[d] = "none" \/ ~stop'[1],
         stop' \in [CS!Source -> BOOLEAN], parentCb' \in [CS!Coros -> {"none", "set", "running", "nested", "gone"}],
         \A d \in CS!Source \ {1} : stop'[d] = stop[d],
         \A d \in CS!Coros \ {1} : parentCb'[d] = parentCb[d] /\ (status'[d] = status[d]),
         parentCb'[1] = "set" => ~stop[0],
         parentCb'[1] \in {"nested", "gone"} => stop'[1]
  PROVE  Chain'
<1>1. StopType' BY DEF StopType, CS!Coros, CS!Source
<1>2. ~(1 > 1) /\ 1 - 1 = 0 /\ 0 # 1 BY SMT
<1>3. ASSUME NEW d \in CS!Coros PROVE Chained(d)'
  <2>1. CASE d = 1
    <3>1. stop'[0] = stop[0] BY <1>2, Places
    <3> QED BY <1>2, <2>1, <3>1 DEF Chained
  <2>2. CASE d # 1
    <3>1. d \in Nat /\ d >= 1 /\ d \in CS!Source /\ d - 1 \in CS!Source BY Places
    <3>2. d > 1 BY <2>2, <3>1, SMT
    <3>3. stop'[d] = stop[d] /\ parentCb'[d] = parentCb[d] /\ status'[d] = status[d] BY <2>2, <3>1
    <3>4. parentCb[d] = "set" => ~stop'[d - 1]
      <4>1. CASE d - 1 = 1 BY <3>2, <4>1
      <4>2. CASE d - 1 # 1 BY <3>1, <4>2 DEF Chain, Chained
      <4> QED BY <4>1, <4>2
    <3> QED BY <3>3, <3>4 DEF Chained, Chain
  <2> QED BY <2>1, <2>2
<1> QED BY <1>1, <1>3 DEF Chain, CS!Coros

-----------------------------------------------------------------------------
\* co_spawn.
LEMMA SameStack ==
  ASSUME Spawns, UNCHANGED CS!coroVars
  PROVE  /\ Stacked' /\ Chain'
         /\ UNCHANGED <<status, promiseEx, target, awaited, away, cur, stop, parentCb>>
<1>1. UNCHANGED <<status, promiseEx, target, awaited, away, cur, stop, parentCb>>
  BY DEF CS!coroVars, CS!promiseVars, CS!stopVars
<1>2. Stacked'
  BY <1>1 DEF Spawns, Stacked, StackType, Bound, CS!OneActive, CS!Live, CS!Coros
<1>3. Chain' BY <1>1 DEF Spawns, Chain, StopType, Chained, CS!Coros, CS!Source
<1> QED BY <1>1, <1>2, <1>3

LEMMA SpawnUnchanged ==
  ASSUME Spawns, UNCHANGED CS!spawnVars
  PROVE  SpawnType' /\ Delivers' /\ spc' = spc
<1>1. UNCHANGED <<mode, spc, completions, done, joinWaiter, result, jpc, resumed, joined>>
  BY DEF CS!spawnVars
<1>2. SpawnType /\ Delivers BY DEF Spawns
<1>3. SpawnType' BY <1>1, <1>2, SMT DEF SpawnType
<1>4. Delivers' BY <1>1, <1>2 DEF Delivers, Late
<1> QED BY <1>1, <1>3, <1>4

\* How far the entry coroutine can go while co_spawn is where it is.
LEMMA EntryGoesOn ==
  ASSUME Spawns, spc' = spc, promiseEx'[1] = promiseEx[1],
         parentCb[1] = "none" => parentCb'[1] = "none",
         \/ status'[1] = status[1] /\ awaited'[1] = awaited[1]
         \/ status[1] = "linking" /\ status'[1] = "awaiting"
         \/ status[1] = "posted" /\ status'[1] = "running" /\ awaited'[1] = awaited[1]
         \/ status[1] = "awaiting" /\ status'[1] \in {"running", "posted"} /\ awaited'[1] # "none"
  PROVE  Entered'
BY DEF Spawns, Entered

LEMMA NotFirst == \A c \in CS!Coros : c + 1 # 1 /\ (c - 1 = 1 => 1 < c)
<1> SUFFICES ASSUME NEW c \in Nat, c >= 1 PROVE c + 1 # 1 /\ (c - 1 = 1 => 1 < c) BY Places
<1> QED BY SMT

LEMMA ChoiceStep ==
  ASSUME Spawns, CS!Choice, UNCHANGED CS!spawnVars
  PROVE  Spawns'
<1>1. SpawnType' /\ Delivers' /\ spc' = spc BY SpawnUnchanged
<1>2. Stacked /\ Chain /\ StackType BY DEF Spawns, Stacked
<1>3. PICK c \in CS!Coros \ {1} :
        \/ \E e \in Executors : CS!SwitchTo(c, e) \/ CS!On(c, e)
        \/ \E b \in Executors \cup {Unbound} : CS!Await(c, b)
        \/ CS!SuspendOnOperation(c)
        \/ CS!Finish(c, "value") \/ CS!Finish(c, "throw")
  BY DEF CS!Choice, CS!User
<1>4. 1 \in CS!Coros /\ 1 # c /\ 1 # c + 1 BY Places, NotFirst
<1>5. ASSUME NEW e \in Executors, CS!SwitchTo(c, e) \/ CS!On(c, e) PROVE Spawns'
  <2>1. Stacked' BY <1>2, <1>5, HopStacked
  <2>2. Chain' BY <1>2, <1>5, GoesOnChain
  <2>3. UNCHANGED <<awaited, stop, parentCb>> BY <1>5 DEF CS!SwitchTo, CS!On, CS!stopVars
  <2>4. promiseEx'[1] = promiseEx[1]
    BY <1>2, <1>4, <1>5 DEF CS!SwitchTo, CS!On, StackType
  <2>5. status'[1] = status[1]
    BY <1>2, <1>4, <1>5 DEF CS!SwitchTo, CS!On, CS!Hop, StackType
  <2>6. Entered' BY <1>1, <2>3, <2>4, <2>5, EntryGoesOn
  <2> QED BY <1>1, <2>1, <2>2, <2>6 DEF Spawns
<1>6. ASSUME NEW b \in Executors \cup {Unbound}, CS!Await(c, b) PROVE Spawns'
  <2>1. Stacked' BY <1>2, <1>6, AwaitStacked
  <2>2. Chain' BY <1>2, <1>6, AwaitChain
  <2>3. parentCb' = parentCb BY <1>6 DEF CS!Await
  <2>4. promiseEx'[1] = promiseEx[1] /\ awaited'[1] = awaited[1]
    BY <1>2, <1>4, <1>6 DEF CS!Await, StackType
  <2>5. status'[1] = status[1]
    <3>1. CASE stop[c]
      <4>1. status' = [status EXCEPT ![c] = "awaiting", ![c + 1] = "running"] BY <1>6, <3>1 DEF CS!Await
      <4> QED BY <1>2, <1>4, <4>1, SMT DEF StackType
    <3>2. CASE ~stop[c]
      <4>1. status' = [status EXCEPT ![c] = "linking"] BY <1>6, <3>2 DEF CS!Await
      <4> QED BY <1>2, <1>4, <4>1 DEF StackType
    <3> QED BY <3>1, <3>2
  <2>6. Entered' BY <1>1, <2>3, <2>4, <2>5, EntryGoesOn
  <2> QED BY <1>1, <2>1, <2>2, <2>6 DEF Spawns
<1>7. CASE CS!SuspendOnOperation(c)
  <2>1. Stacked' BY <1>2, <1>7, OperationStacked
  <2>2. Chain' BY <1>2, <1>7, GoesOnChain
  <2>3. UNCHANGED <<promiseEx, awaited, stop, parentCb>> BY <1>7 DEF CS!SuspendOnOperation, CS!stopVars
  <2>4. status'[1] = status[1] BY <1>2, <1>4, <1>7 DEF CS!SuspendOnOperation, StackType
  <2>5. Entered' BY <1>1, <2>3, <2>4, EntryGoesOn
  <2> QED BY <1>1, <2>1, <2>2, <2>5 DEF Spawns
<1>8. ASSUME NEW o \in {"value", "throw"}, CS!Finish(c, o) PROVE Spawns'
  <2>1. Stacked' BY <1>2, <1>8, FinishStacked
  <2>2. Chain' BY <1>2, <1>8, FinishChain
  <2>3. /\ status[c] = "running" /\ promiseEx' = promiseEx /\ awaited' = [awaited EXCEPT ![c - 1] = o]
        /\ parentCb' = [parentCb EXCEPT ![c] = "none"]
        /\ \/ status' = [status EXCEPT ![c] = "none", ![c - 1] = "running"]
           \/ status' = [status EXCEPT ![c] = "final", ![c - 1] = "posted"]
    BY <1>8 DEF CS!Finish, CS!Running, CS!DropParentCb
  <2>4. parentCb[1] = "none" => parentCb'[1] = "none" BY <1>2, <1>4, <2>3 DEF Chain, StopType
  <2>5. CASE c - 1 = 1
    <3>1. status[1] = "awaiting" BY <1>2, <1>4, <2>3, <2>5, NotFirst, Around DEF Active
    <3>2. awaited'[1] = o BY <1>2, <1>4, <2>3, <2>5 DEF StackType
    <3>3. status'[1] \in {"running", "posted"} BY <1>2, <1>4, <2>3, <2>5, SMT DEF StackType
    <3>4. Entered' BY <1>1, <2>3, <2>4, <3>1, <3>2, <3>3, EntryGoesOn
    <3> QED BY <1>1, <2>1, <2>2, <3>4 DEF Spawns
  <2>6. CASE c - 1 # 1
    <3>1. awaited'[1] = awaited[1] BY <1>2, <1>4, <2>3, <2>6 DEF StackType
    <3>2. status'[1] = status[1]
      <4>1. CASE status' = [status EXCEPT ![c] = "none", ![c - 1] = "running"]
        BY <1>2, <1>4, <2>6, <4>1, SMT DEF StackType
      <4>2. CASE status' = [status EXCEPT ![c] = "final", ![c - 1] = "posted"]
        BY <1>2, <1>4, <2>6, <4>2, SMT DEF StackType
      <4> QED BY <2>3, <4>1, <4>2
    <3>3. Entered' BY <1>1, <2>3, <2>4, <3>1, <3>2, EntryGoesOn
    <3> QED BY <1>1, <2>1, <2>2, <3>3 DEF Spawns
  <2> QED BY <2>5, <2>6
<1> QED BY <1>3, <1>5, <1>6, <1>7, <1>8

LEMMA MachineStep ==
  ASSUME Spawns, CS!Machine, UNCHANGED CS!spawnVars
  PROVE  Spawns'
<1>1. SpawnType' /\ Delivers' /\ spc' = spc BY SpawnUnchanged
<1>2. Stacked /\ Chain /\ StackType BY DEF Spawns, Stacked
<1>3. PICK c \in CS!Coros : CS!Link(c) \/ CS!Run(c) \/ CS!OperationEnds(c) BY DEF CS!Machine
<1>4. 1 \in CS!Coros /\ 1 # c + 1 BY Places, NotFirst
<1>5. CASE CS!Link(c)
  <2>1. Stacked' BY <1>2, <1>5, LinkStacked
  <2>2. Chain' BY <1>2, <1>5, LinkChain
  <2>3. /\ UNCHANGED <<promiseEx, awaited>> /\ c < Depth /\ status[c] = "linking"
        /\ status' = [status EXCEPT ![c] = "awaiting", ![c + 1] = "running"]
        /\ parentCb' = [parentCb EXCEPT ![c + 1] = IF stop[(c + 1) - 1] THEN "gone" ELSE "set"]
    BY <1>5 DEF CS!Link, CS!InstallParentCb
  <2>4. parentCb'[1] = parentCb[1] BY <1>2, <1>4, <2>3, SMT DEF Chain, StopType
  <2>5. c # 1 => status'[1] = status[1] BY <1>2, <1>4, <2>3, SMT DEF StackType
  <2>6. c = 1 => status'[1] = "awaiting" BY <1>2, <1>4, <2>3, SMT DEF StackType
  <2>7. Entered' BY <1>1, <2>3, <2>4, <2>5, <2>6, EntryGoesOn
  <2> QED BY <1>1, <2>1, <2>2, <2>7 DEF Spawns
<1>6. CASE CS!Run(c)
  <2>1. Stacked' BY <1>2, <1>6, RunStacked
  <2>2. Chain' BY <1>2, <1>6, GoesOnChain
  <2>3. UNCHANGED <<promiseEx, awaited, parentCb>> /\ status[c] = "posted" BY <1>6 DEF CS!Run, CS!stopVars
  <2>4. status'[1] = IF 1 = c THEN "running" ELSE status[1] BY <1>4, <1>6 DEF CS!Run
  <2>5. Entered' BY <1>1, <2>3, <2>4, EntryGoesOn
  <2> QED BY <1>1, <2>1, <2>2, <2>5 DEF Spawns
<1>7. CASE CS!OperationEnds(c)
  <2>1. Stacked' BY <1>2, <1>7, OperationStacked
  <2>2. Chain' BY <1>2, <1>7, GoesOnChain
  <2>3. /\ UNCHANGED <<promiseEx, awaited, parentCb>> /\ status[c] = "suspended"
        /\ status' = [status EXCEPT ![c] = "posted"]
    BY <1>7 DEF CS!OperationEnds, CS!stopVars
  <2>4. status[1] # "suspended" BY DEF Spawns, Entered, SpawnType
  <2>5. status'[1] = status[1] BY <1>2, <1>4, <2>3, <2>4 DEF StackType
  <2>6. Entered' BY <1>1, <2>3, <2>5, EntryGoesOn
  <2> QED BY <1>1, <2>1, <2>2, <2>6 DEF Spawns
<1> QED BY <1>3, <1>5, <1>6, <1>7

LEMMA StopStep ==
  ASSUME Spawns, CS!Stopping \/ CS!RequestStop, UNCHANGED CS!spawnVars
  PROVE  Spawns'
<1>1. SpawnType' /\ Delivers' /\ spc' = spc BY SpawnUnchanged
<1>2. Stacked /\ Chain BY DEF Spawns
<1>3. UNCHANGED <<status, promiseEx, target, awaited, away, cur>>
  BY DEF CS!Stopping, CS!RequestStop, CS!PassStop, CS!PassedStop, CS!promiseVars
<1>4. Stacked' BY <1>2, <1>3 DEF Stacked, StackType, Bound, CS!OneActive, CS!Live, CS!Coros
<1>5. CASE CS!RequestStop
  <2>1. Chain' BY <1>2, <1>3, <1>5, RequestChain
  <2>2. parentCb[1] = "none" => parentCb'[1] = "none"
    <3>1. 0 + 1 = 1 BY SMT
    <3> QED BY <1>5, <3>1 DEF CS!RequestStop, CS!Triggered
  <2> QED BY <1>1, <1>3, <1>4, <2>1, <2>2, EntryGoesOn DEF Spawns
<1>6. ASSUME NEW c \in CS!Coros, CS!PassStop(c) PROVE Spawns'
  <2>1. Chain' BY <1>2, <1>3, <1>6, PassChain
  <2>2. parentCb[1] = "none" => parentCb'[1] = "none"
    <3>1. 1 \in CS!Coros /\ 1 # c + 1 BY Places, NotFirst
    <3>2. StopType BY <1>2 DEF Chain
    <3>3. CS!Triggered(c)[1] = parentCb[1] /\ CS!Triggered(c) \in [CS!Coros -> {"none", "set", "running", "nested", "gone"}]
      <4>1. CASE CS!Triggered(c) = parentCb BY <3>2, <4>1 DEF StopType
      <4>2. CASE CS!Triggered(c) = [parentCb EXCEPT ![c + 1] = "running"] BY <3>1, <3>2, <4>2 DEF StopType
      <4> QED BY <4>1, <4>2 DEF CS!Triggered
    <3>4. parentCb[c] = "running" /\ parentCb' = [CS!Triggered(c) EXCEPT ![c] = "nested"]
      BY <1>6 DEF CS!PassStop
    <3> QED BY <3>1, <3>3, <3>4
  <2> QED BY <1>1, <1>3, <1>4, <2>1, <2>2, EntryGoesOn DEF Spawns
<1>7. ASSUME NEW c \in CS!Coros, CS!PassedStop(c) PROVE Spawns'
  <2>1. Chain' BY <1>2, <1>3, <1>7, PassedChain
  <2>2. parentCb[c] = "nested" /\ parentCb' = [parentCb EXCEPT ![c] = "gone"] BY <1>7 DEF CS!PassedStop
  <2>3. parentCb[1] = "none" => parentCb'[1] = "none" BY <1>2, <2>2, Places DEF Chain, StopType
  <2> QED BY <1>1, <1>3, <1>4, <2>1, <2>3, EntryGoesOn DEF Spawns
<1> QED BY <1>5, <1>6, <1>7 DEF CS!Stopping

LEMMA CallingStep ==
  ASSUME Spawns, CS!Calling
  PROVE  Spawns'
<1>1. Stacked /\ Chain /\ SpawnType /\ Entered /\ Delivers /\ StackType /\ StopType
  BY DEF Spawns, Stacked, Chain
<1>2. 1 \in CS!Coros /\ 1 \in CS!Source /\ 1 - 1 = 0 BY Places, SMT
<1>3. /\ UNCHANGED <<mode, completions, done, joinWaiter, result, jpc, resumed, joined>>
      /\ spc \in {"call", "link", "post"} /\ spc' \in {"link", "post", "entry", "dropped"}
  BY DEF CS!Calling, CS!InitPromise, CS!LinkEntry, CS!PostEntry, CS!DropEntry, CS!SpawnGo
<1>4. SpawnType' BY <1>1, <1>3, SMT DEF SpawnType
<1>5. Delivers' BY <1>1, <1>3 DEF Delivers, Late
<1>6. status[1] = "none" BY <1>1, <1>3 DEF Entered
<1>7. \A d \in CS!Coros : status[d] = "none" /\ (d > 1 => parentCb[d] = "none") BY <1>1, <1>6, NoStack
<1>8. ASSUME NEW e \in Executors, CS!InitPromise(e) PROVE Spawns'
  <2>1. /\ spc = "call" /\ spc' \in {"post", "link"} /\ promiseEx' = [promiseEx EXCEPT ![1] = e]
        /\ stop' = [stop EXCEPT ![1] = stop[1 - 1]] /\ UNCHANGED <<status, target, awaited, away, cur, parentCb>>
    BY <1>8 DEF CS!InitPromise, CS!SpawnGo, CS!CheckParentStop
  <2>2. promiseEx' \in [CS!Coros -> Executors \cup {Unbound}] /\ promiseEx'[1] = e
    BY <1>1, <1>2, <2>1, SMT DEF StackType
  <2>3. StackType' BY <1>1, <2>1, <2>2 DEF StackType, CS!Coros
  <2>4. Stacked' BY <1>7, <2>1, <2>3, Unstack
  <2>5. stop' \in [CS!Source -> BOOLEAN] /\ \A d \in CS!Source \ {1} : stop'[d] = stop[d]
    BY <1>1, <1>2, <2>1, Places DEF StopType
  <2>6. parentCb[1] = "none" BY <1>1, <2>1 DEF Entered
  <2>7. Chain' BY <1>1, <1>7, <2>1, <2>5, <2>6, EntryChain DEF StopType
  <2>8. Entered' BY <1>6, <2>1, <2>2, <2>6 DEF Entered
  <2> QED BY <1>4, <1>5, <2>4, <2>7, <2>8 DEF Spawns
<1>9. CASE CS!LinkEntry
  <2>1. /\ spc = "link" /\ spc' = "post" /\ stop' = [stop EXCEPT ![1] = stop[1 - 1]]
        /\ parentCb' = [parentCb EXCEPT ![1] = IF stop[1 - 1] THEN "gone" ELSE "set"]
        /\ UNCHANGED <<status, promiseEx, target, awaited, away, cur>>
    BY <1>9 DEF CS!LinkEntry, CS!SpawnGo, CS!InstallParentCb, CS!LateStop, CS!promiseVars
  <2>2. Stacked' BY <1>1, <2>1 DEF Stacked, StackType, Bound, CS!OneActive, CS!Live, CS!Coros
  <2>3. /\ stop' \in [CS!Source -> BOOLEAN] /\ \A d \in CS!Source \ {1} : stop'[d] = stop[d]
        /\ stop'[1] <=> stop[0]
    BY <1>1, <1>2, <2>1, Places DEF StopType
  <2>4. parentCb' = [parentCb EXCEPT ![1] = IF stop[0] THEN "gone" ELSE "set"] BY <1>2, <2>1
  <2>5. /\ parentCb' \in [CS!Coros -> {"none", "set", "running", "nested", "gone"}]
        /\ parentCb'[1] = (IF stop[0] THEN "gone" ELSE "set")
        /\ \A d \in CS!Coros \ {1} : parentCb'[d] = parentCb[d]
    BY <1>1, <1>2, <2>4, SMT DEF StopType
  <2>6. Chain'
    <3>1. (parentCb'[1] = "set" => ~stop[0]) /\ (parentCb'[1] \in {"nested", "gone"} => stop'[1]) BY <2>3, <2>5
    <3> QED BY <1>1, <1>7, <2>1, <2>3, <2>5, <3>1, EntryChain
  <2>7. Entered' BY <1>1, <1>6, <2>1 DEF Entered
  <2> QED BY <1>4, <1>5, <2>2, <2>6, <2>7 DEF Spawns
<1>10. CASE CS!PostEntry
  <2>1. /\ spc = "post" /\ spc' = "entry" /\ status' = [status EXCEPT ![1] = "posted"]
        /\ target' = [target EXCEPT ![1] = promiseEx[1]]
        /\ UNCHANGED <<promiseEx, awaited, away, cur, stop, parentCb>>
    BY <1>10 DEF CS!PostEntry, CS!SpawnGo, CS!PostOn, CS!stopVars
  <2>2. promiseEx[1] \in Executors BY <1>1, <2>1 DEF Entered
  <2>3. /\ status'[1] = "posted" /\ \A d \in CS!Coros \ {1} : status'[d] = status[d]
        /\ status' \in [CS!Coros -> {"none", "linking", "running", "awaiting", "suspended", "posted", "final"}]
        /\ target'[1] = promiseEx[1] /\ target' \in [CS!Coros -> Executors \cup {Unbound}]
    BY <1>1, <1>2, <2>1, <2>2, SMT DEF StackType
  <2>4. StackType' BY <1>1, <2>1, <2>3 DEF StackType, CS!Coros
  <2>5. Bound(1)' BY <2>1, <2>2, <2>3 DEF Bound, Active
  <2>6. \A d \in CS!Coros : ~(d < 1) /\ (d > 1 => d # 1) BY Places, SMT
  <2>7. Stacked'
    <3>1. \A d \in CS!Coros : ~(d < 1) /\ (d > 1 => status'[d] = "none") BY <1>7, <2>3, <2>6
    <3>2. status'[1] \in Active BY <2>3 DEF Active
    <3> QED BY <1>2, <2>4, <2>5, <3>1, <3>2, Restack
  <2>8. \A d \in CS!Coros : d > 1 => status'[d] = status[d] BY <2>3, <2>6
  <2>9. Chain' BY <1>1, <2>1, <2>8, SameChain
  <2>10. Entered' BY <1>1, <2>1, <2>2, <2>3 DEF Entered
  <2> QED BY <1>4, <1>5, <2>7, <2>9, <2>10 DEF Spawns
<1>11. CASE CS!DropEntry
  <2>1. spc = "post" /\ spc' = "dropped" /\ UNCHANGED CS!coroVars BY <1>11 DEF CS!DropEntry, CS!SpawnGo
  <2>2. Stacked' /\ Chain' /\ UNCHANGED <<status, promiseEx, awaited, parentCb>> BY <2>1, SameStack
  <2>3. Entered' BY <1>1, <1>6, <2>1, <2>2 DEF Entered
  <2> QED BY <1>4, <1>5, <2>2, <2>3 DEF Spawns
<1> QED BY <1>8, <1>9, <1>10, <1>11 DEF CS!Calling

LEMMA CompletionIs ==
  ASSUME Spawns, CS!Completion
  PROVE  /\ status[1] = "running" /\ spc = "awaiting" /\ awaited[1] \in {"value", "throw"}
         /\ completions = <<>> /\ CS!Invoked = <<awaited[1]>>
<1>1. status[1] = "running" /\ spc = "awaiting" BY DEF CS!Completion, CS!Running
<1>2. completions = <<>> BY <1>1 DEF Spawns, Delivers, Late
<1>3. awaited[1] # "none" BY <1>1 DEF Spawns, Entered
<1>4. awaited[1] \in {"value", "throw"} BY <1>3, Places DEF Spawns, Stacked, StackType
<1> QED BY <1>1, <1>2, <1>4, SMT DEF CS!Invoked

\* The completion and what comes after it.
LEMMA CompletionStep ==
  ASSUME Spawns,
         \/ CS!InvokeCallback \/ CS!InvokeNothing \/ CS!SetResult \/ CS!CompleteState \/ CS!PostJoiner
  PROVE  Spawns'
<1>1. Stacked /\ Chain /\ SpawnType /\ Entered /\ Delivers BY DEF Spawns
<1>2. UNCHANGED CS!coroVars
  BY DEF CS!InvokeCallback, CS!InvokeNothing, CS!SetResult, CS!CompleteState, CS!PostJoiner
<1>3. Stacked' /\ Chain' /\ UNCHANGED <<status, promiseEx, awaited, parentCb>> BY <1>2, SameStack
<1>4. CASE CS!InvokeCallback
  <2>1. /\ CS!Completion /\ mode = "callback" /\ spc' = "end" /\ completions' = CS!Invoked
        /\ UNCHANGED <<mode, done, joinWaiter, result, jpc, resumed, joined>>
    BY <1>4 DEF CS!InvokeCallback, CS!CallbackThrows
  <2>2. /\ status[1] = "running" /\ spc = "awaiting" /\ awaited[1] \in {"value", "throw"}
        /\ completions' = <<awaited[1]>>
    BY <2>1, CompletionIs
  <2>3. SpawnType' BY <1>1, <2>1 DEF SpawnType
  <2>4. Entered' BY <1>1, <1>3, <2>1, <2>2 DEF Entered
  <2>5. Delivers' BY <1>1, <2>1, <2>2 DEF Delivers, Late
  <2> QED BY <1>3, <2>3, <2>4, <2>5 DEF Spawns
<1>5. CASE CS!InvokeNothing
  <2>1. /\ CS!Completion /\ mode = "detached" /\ spc' = "end"
        /\ UNCHANGED <<mode, completions, done, joinWaiter, result, jpc, resumed, joined>>
    BY <1>5 DEF CS!InvokeNothing
  <2>2. status[1] = "running" /\ spc = "awaiting" /\ completions = <<>> BY <2>1, CompletionIs
  <2>3. SpawnType' BY <1>1, <2>1 DEF SpawnType
  <2>4. Entered' BY <1>1, <1>3, <2>1, <2>2 DEF Entered
  <2>5. Delivers' BY <1>1, <2>1, <2>2 DEF Delivers, Late
  <2> QED BY <1>3, <2>3, <2>4, <2>5 DEF Spawns
<1>6. CASE CS!SetResult
  <2>1. /\ CS!Completion /\ mode = "awaitable" /\ spc' = "complete" /\ completions' = CS!Invoked
        /\ result' = awaited[1] /\ UNCHANGED <<mode, done, joinWaiter, jpc, resumed, joined>>
    BY <1>6 DEF CS!SetResult
  <2>2. /\ status[1] = "running" /\ spc = "awaiting" /\ awaited[1] \in {"value", "throw"}
        /\ completions' = <<awaited[1]>>
    BY <2>1, CompletionIs
  <2>3. SpawnType' BY <1>1, <2>1, <2>2 DEF SpawnType
  <2>4. Entered' BY <1>1, <1>3, <2>1, <2>2 DEF Entered
  <2>5. Delivers' BY <1>1, <2>1, <2>2 DEF Delivers, Late
  <2> QED BY <1>3, <2>3, <2>4, <2>5 DEF Spawns
<1>7. CASE CS!CompleteState
  <2>1. /\ spc = "complete" /\ spc' \in {"resume", "end"} /\ done' = TRUE /\ joinWaiter' = FALSE
        /\ UNCHANGED <<mode, completions, result, jpc, resumed, joined>>
    BY <1>7 DEF CS!CompleteState, CS!SpawnGo
  <2>2. SpawnType' BY <1>1, <2>1 DEF SpawnType
  <2>3. Entered' BY <1>1, <1>3, <2>1 DEF Entered
  <2>4. Delivers' BY <1>1, <2>1 DEF Delivers, Late
  <2> QED BY <1>3, <2>2, <2>3, <2>4 DEF Spawns
<1>8. CASE CS!PostJoiner
  <2>1. /\ spc = "resume" /\ spc' = "end" /\ resumed' = resumed + 1
        /\ UNCHANGED <<mode, completions, done, joinWaiter, result, jpc, joined>>
    BY <1>8 DEF CS!PostJoiner, CS!SpawnGo
  <2>2. resumed = 0 BY <1>1, <2>1 DEF SpawnType, Delivers
  <2>3. resumed' = 1 BY <2>1, <2>2, SMT
  <2>4. SpawnType' BY <1>1, <2>1, <2>3 DEF SpawnType
  <2>5. Entered' BY <1>1, <1>3, <2>1 DEF Entered
  <2>6. Delivers' BY <1>1, <2>1 DEF Delivers, Late
  <2> QED BY <1>3, <2>4, <2>5, <2>6 DEF Spawns
<1> QED BY <1>4, <1>5, <1>6, <1>7, <1>8

LEMMA EntryStep ==
  ASSUME Spawns, CS!Entry
  PROVE  Spawns'
<1>1. Stacked /\ Chain /\ SpawnType /\ Entered /\ Delivers /\ StackType /\ StopType
  BY DEF Spawns, Stacked, Chain
<1>2. 1 \in CS!Coros /\ 1 \in CS!Source BY Places
<1>3. ASSUME NEW b \in Executors \cup {Unbound}, CS!AwaitFactory(b) PROVE Spawns'
  <2>1. /\ spc = "entry" /\ spc' = "awaiting" /\ CS!Await(1, b)
        /\ UNCHANGED <<mode, completions, done, joinWaiter, result, jpc, resumed, joined>>
    BY <1>3 DEF CS!AwaitFactory, CS!SpawnGo
  <2>2. Stacked' BY <1>1, <1>2, <2>1, AwaitStacked
  <2>3. Chain' BY <1>1, <1>2, <2>1, AwaitChain
  <2>4. SpawnType' BY <1>1, <2>1 DEF SpawnType
  <2>5. Delivers' BY <1>1, <2>1 DEF Delivers, Late
  <2>6. 1 + 1 # 1 BY SMT
  <2>7. status'[1] \in {"linking", "awaiting"}
    <3>1. CASE stop[1]
      <4>1. status' = [status EXCEPT ![1] = "awaiting", ![1 + 1] = "running"] BY <2>1, <3>1 DEF CS!Await
      <4> QED BY <1>1, <1>2, <2>6, <4>1, SMT DEF StackType
    <3>2. CASE ~stop[1]
      <4>1. status' = [status EXCEPT ![1] = "linking"] BY <2>1, <3>2 DEF CS!Await
      <4> QED BY <1>1, <1>2, <4>1 DEF StackType
    <3> QED BY <3>1, <3>2
  <2>8. promiseEx'[1] = promiseEx[1] BY <1>1, <1>2, <2>1, <2>6 DEF CS!Await, StackType
  <2>9. Entered' BY <1>1, <2>1, <2>7, <2>8 DEF Entered
  <2> QED BY <2>2, <2>3, <2>4, <2>5, <2>9 DEF Spawns
<1>4. CASE CS!FactoryThrows
  <2>1. /\ status[1] = "running" /\ spc = "entry" /\ spc' = "awaiting"
        /\ awaited' = [awaited EXCEPT ![1] = "throw"]
        /\ UNCHANGED <<status, promiseEx, target, away, cur, stop, parentCb>>
        /\ UNCHANGED <<mode, completions, done, joinWaiter, result, jpc, resumed, joined>>
    BY <1>4 DEF CS!FactoryThrows, CS!SpawnGo, CS!Running, CS!stopVars
  <2>2. awaited' \in [CS!Coros -> {"none", "value", "throw"}] /\ awaited'[1] = "throw"
    BY <1>1, <1>2, <2>1, SMT DEF StackType
  <2>3. StackType' BY <1>1, <2>1, <2>2 DEF StackType, CS!Coros
  <2>4. Stacked' BY <1>1, <2>1, <2>3 DEF Stacked, Bound, CS!OneActive, CS!Live, CS!Coros
  <2>5. Chain' BY <1>1, <2>1, SameChain
  <2>6. SpawnType' BY <1>1, <2>1 DEF SpawnType
  <2>7. Delivers' BY <1>1, <2>1 DEF Delivers, Late
  <2>8. Entered' BY <1>1, <2>1, <2>2 DEF Entered
  <2> QED BY <2>4, <2>5, <2>6, <2>7, <2>8 DEF Spawns
<1>5. CASE CS!EndEntry
  <2>1. /\ status[1] = "running" /\ spc = "end" /\ spc' = "destroyed" /\ status' = [status EXCEPT ![1] = "none"]
        /\ parentCb' = [parentCb EXCEPT ![1] = "none"] /\ stop' = [stop EXCEPT ![1] = FALSE]
        /\ UNCHANGED <<promiseEx, target, awaited, away, cur>>
        /\ UNCHANGED <<mode, completions, done, joinWaiter, result, jpc, resumed, joined>>
    BY <1>5 DEF CS!EndEntry, CS!SpawnGo, CS!Running, CS!DropParentCb
  <2>2. /\ status'[1] = "none" /\ \A d \in CS!Coros \ {1} : status'[d] = status[d]
        /\ status' \in [CS!Coros -> {"none", "linking", "running", "awaiting", "suspended", "posted", "final"}]
    BY <1>1, <1>2, <2>1, SMT DEF StackType
  <2>3. /\ parentCb'[1] = "none" /\ \A d \in CS!Coros \ {1} : parentCb'[d] = parentCb[d]
        /\ parentCb' \in [CS!Coros -> {"none", "set", "running", "nested", "gone"}]
    BY <1>1, <1>2, <2>1, SMT DEF StopType
  <2>4. /\ ~stop'[1] /\ \A d \in CS!Source \ {1} : stop'[d] = stop[d]
        /\ stop' \in [CS!Source -> BOOLEAN]
    BY <1>1, <1>2, <2>1 DEF StopType
  <2>5. \A d \in CS!Coros : d > 1 => status[d] = "none" BY <1>1, <1>2, <2>1, Around DEF Active
  <2>6. \A d \in CS!Coros : d = 1 \/ d > 1 BY Places, SMT
  <2>7. \A d \in CS!Coros : status'[d] = "none" BY <2>2, <2>5, <2>6
  <2>8. StackType' BY <1>1, <2>1, <2>2 DEF StackType, CS!Coros
  <2>9. Stacked' BY <2>7, <2>8, Unstack
  <2>10. Chain' BY <1>1, <2>2, <2>3, <2>4, EntryChain
  <2>11. SpawnType' BY <1>1, <2>1 DEF SpawnType
  <2>12. Delivers' BY <1>1, <2>1 DEF Delivers, Late
  <2>13. Entered' BY <1>1, <2>1, <2>2 DEF Entered
  <2> QED BY <2>9, <2>10, <2>11, <2>12, <2>13 DEF Spawns
<1> QED BY <1>3, <1>4, <1>5, CompletionStep DEF CS!Entry

LEMMA JoinStep ==
  ASSUME Spawns, CS!JoinReady \/ CS!JoinDropped \/ CS!Join
  PROVE  Spawns'
<1>1. SpawnType /\ Entered /\ Delivers BY DEF Spawns
<1>2. /\ UNCHANGED CS!coroVars /\ UNCHANGED <<mode, spc, completions, done, result, resumed>>
  BY DEF CS!JoinReady, CS!JoinDropped, CS!Join, CS!JoinSuspend, CS!JoinResumes, CS!JoinGets
<1>3. Stacked' /\ Chain' /\ UNCHANGED <<status, promiseEx, awaited, parentCb>> BY <1>2, SameStack
<1>4. Entered' BY <1>1, <1>2, <1>3 DEF Entered
<1>5. CASE CS!JoinReady
  <2>1. jpc = "start" /\ jpc' = (IF done THEN "resume" ELSE "suspend") /\ UNCHANGED <<joinWaiter, joined>>
    BY <1>5 DEF CS!JoinReady, CS!JoinGo
  <2>2. SpawnType' BY <1>1, <1>2, <2>1 DEF SpawnType
  <2>3. Delivers' BY <1>1, <1>2, <2>1 DEF Delivers, Late
  <2> QED BY <1>3, <1>4, <2>2, <2>3 DEF Spawns
<1>6. CASE CS!JoinDropped
  <2>1. jpc = "start" /\ jpc' = "dropped" /\ UNCHANGED <<joinWaiter, joined>>
    BY <1>6 DEF CS!JoinDropped, CS!JoinGo
  <2>2. SpawnType' BY <1>1, <1>2, <2>1 DEF SpawnType
  <2>3. Delivers' BY <1>1, <1>2, <2>1 DEF Delivers, Late
  <2> QED BY <1>3, <1>4, <2>2, <2>3 DEF Spawns
<1>7. CASE CS!JoinSuspend
  <2>1. /\ jpc = "suspend" /\ jpc' = (IF ~done THEN "suspended" ELSE "resume")
        /\ joinWaiter' = ~done /\ joined' = joined
    BY <1>7 DEF CS!JoinSuspend, CS!JoinGo, CS!MustSuspend
  <2>2. SpawnType' BY <1>1, <1>2, <2>1 DEF SpawnType
  <2>3. Delivers' BY <1>1, <1>2, <2>1 DEF Delivers, Late
  <2> QED BY <1>3, <1>4, <2>2, <2>3 DEF Spawns
<1>8. CASE CS!JoinResumes
  <2>1. resumed > 0 /\ jpc = "suspended" /\ jpc' = "resume" /\ UNCHANGED <<joinWaiter, joined>>
    BY <1>8 DEF CS!JoinResumes, CS!JoinGo
  <2>2. ~(0 > 0) BY SMT
  <2>3. resumed = 1 BY <1>1, <2>1, <2>2 DEF SpawnType
  <2>4. done /\ ~joinWaiter BY <1>1, <2>3 DEF Delivers
  <2>5. SpawnType' BY <1>1, <1>2, <2>1 DEF SpawnType
  <2>6. Delivers' BY <1>1, <1>2, <2>1, <2>4 DEF Delivers, Late
  <2> QED BY <1>3, <1>4, <2>5, <2>6 DEF Spawns
<1>9. CASE CS!JoinGets
  <2>1. jpc = "resume" /\ jpc' = "returned" /\ joined' = result /\ joinWaiter' = joinWaiter
    BY <1>9 DEF CS!JoinGets, CS!JoinGo
  <2>2. SpawnType' BY <1>1, <1>2, <2>1 DEF SpawnType
  <2>3. Delivers' BY <1>1, <1>2, <2>1 DEF Delivers, Late
  <2> QED BY <1>3, <1>4, <2>2, <2>3 DEF Spawns
<1> QED BY <1>5, <1>6, <1>7, <1>8, <1>9 DEF CS!Join

-----------------------------------------------------------------------------
LEMMA InitSpawns ==
  ASSUME CS!Init
  PROVE  Spawns
<1> DEFINE e == CHOOSE x \in Executors : TRUE
<1>1. e \in Executors BY StackAssumption
<1>2. /\ status = [c \in CS!Coros |-> "none"] /\ promiseEx = [c \in CS!Coros |-> Unbound]
      /\ target = [c \in CS!Coros |-> Unbound] /\ cur = e
      /\ awaited = [c \in CS!Coros |-> "none"] /\ away = [c \in CS!Coros |-> FALSE]
      /\ stop = [c \in CS!Source |-> FALSE] /\ parentCb = [c \in CS!Coros |-> "none"]
      /\ mode \in {"detached", "callback", "awaitable"} /\ spc = "call" /\ completions = <<>>
      /\ done = FALSE /\ joinWaiter = FALSE /\ result = "none"
      /\ jpc = "start" /\ resumed = 0 /\ joined = "none"
  BY DEF CS!Init, CS!CoroInit
<1> HIDE DEF e
<1>3. \A c \in CS!Coros : status[c] = "none" /\ parentCb[c] = "none" BY <1>2
<1>4. StackType BY <1>1, <1>2 DEF StackType
<1>5. Stacked BY <1>3, <1>4 DEF Stacked, CS!OneActive, CS!Live, Bound, Active
<1>6. StopType BY <1>2 DEF StopType
<1>7. Chain BY <1>3, <1>6 DEF Chain, Chained
<1>8. SpawnType BY <1>2 DEF SpawnType
<1>9. Entered BY <1>2, <1>3, Places DEF Entered
<1>10. 0 # 1 BY SMT
<1>11. Delivers BY <1>2, <1>10 DEF Delivers, Late
<1> QED BY <1>5, <1>7, <1>8, <1>9, <1>11 DEF Spawns

LEMMA NextSpawns ==
  ASSUME Spawns, CS!Next \/ UNCHANGED CS!vars
  PROVE  Spawns'
<1>1. CASE CS!Next BY <1>1, ChoiceStep, MachineStep, StopStep, CallingStep, EntryStep, JoinStep DEF CS!Next
<1>2. CASE UNCHANGED CS!vars
  <2>1. UNCHANGED CS!coroVars /\ UNCHANGED CS!spawnVars BY <1>2 DEF CS!vars
  <2>2. Stacked' /\ Chain' /\ UNCHANGED <<status, promiseEx, awaited, parentCb>> BY <2>1, SameStack
  <2>3. SpawnType' /\ Delivers' /\ spc' = spc BY <2>1, SpawnUnchanged
  <2>4. Entered' BY <2>2, <2>3 DEF Spawns, Entered
  <2> QED BY <2>2, <2>3, <2>4 DEF Spawns
<1> QED BY <1>1, <1>2

\* What the invariant says.
LEMMA StackMeans ==
  ASSUME Spawns
  PROVE  CS!StackConsistent
<1>1. StackType /\ StopType /\ SpawnType BY DEF Spawns, Stacked, Chain
<1>2. 0 \in 0..1 /\ 1 \in 0..1 BY SMT
<1>3. CS!CoroTypeOK BY <1>1 DEF CS!CoroTypeOK, StackType, StopType
<1>4. CS!TypeOK BY <1>1, <1>2, <1>3 DEF CS!TypeOK, SpawnType
<1>5. CS!RunsWhereBound BY DEF Spawns, Stacked, Bound, CS!RunsWhereBound, CS!Running
<1> QED BY <1>4, <1>5 DEF CS!StackConsistent, Spawns, Stacked

LEMMA StopMeans ==
  ASSUME Spawns
  PROVE  CS!StopPasses
<1>1. ASSUME NEW c \in CS!Coros, status[c] \notin {"none", "final"}, c > 1, stop[c - 1]
      PROVE  stop[c] \/ parentCb[c] = "running"
  BY <1>1 DEF Spawns, Chain, Chained
<1> QED BY <1>1 DEF CS!StopPasses, CS!Live

LEMMA ResultMeans ==
  ASSUME Spawns
  PROVE  CS!ResultDelivered
<1>1. SpawnType /\ Delivers BY DEF Spawns
<1>2. completions = <<>> \/ \E o \in {"none", "value", "throw"} : completions = <<o>>
  BY <1>1 DEF SpawnType, Delivers, Late
<1>3. Len(completions) <= 1
  <2>1. CASE completions = <<>> BY <2>1, SMT
  <2>2. ASSUME NEW o, completions = <<o>> PROVE Len(completions) <= 1 BY <2>2, SMT
  <2> QED BY <1>2, <2>1, <2>2
<1>4. ASSUME spc = "destroyed", mode # "detached" PROVE Len(completions) = 1
  <2>1. \E o \in {"none", "value", "throw"} : completions = <<o>>
    BY <1>1, <1>4 DEF SpawnType, Delivers, Late
  <2> QED BY <2>1, SMT
<1>5. ASSUME jpc = "returned" PROVE joined # "none" /\ <<joined>> = completions
  BY <1>1, <1>5 DEF Delivers, Late
<1> QED BY <1>3, <1>4, <1>5 DEF CS!ResultDelivered

-----------------------------------------------------------------------------
\* FiniteSetTheorems brings a Cardinality and an IsFiniteSet of its own, so
\* those of the model are first put in terms of their definitions.
LEMMA SizeForm ==
  ASSUME NEW S
  PROVE  /\ Size(S) = LET CS1[T \in SUBSET S] == IF T = {} THEN 0 ELSE 1 + CS1[T \ {CHOOSE x : x \in T}]
                      IN CS1[S]
         /\ Finite(S) <=> \E q \in Seq(S) : \A s \in S : \E n \in 1..Len(q) : q[n] = s
BY DEF Size, Finite, Cardinality, IsFiniteSet

LEMMA RunnersFinite == Finite(Runners) /\ First \in Runners
BY WhenAssumption DEF Finite

LOCAL INSTANCE FiniteSetTheorems

LEMMA SizeIsCardinality ==
  ASSUME NEW S
  PROVE  Size(S) = Cardinality(S) /\ (Finite(S) <=> IsFiniteSet(S))
BY SizeForm DEF Cardinality, IsFiniteSet

LEMMA SizesHold == Sizes
<1>1. ASSUME NEW S, S \subseteq Runners PROVE IsFiniteSet(S)
  BY <1>1, RunnersFinite, SizeIsCardinality, FS_Subset
<1>2. ASSUME NEW S, S \subseteq Runners PROVE Size(S) \in Nat /\ (Size(S) = 0 => S = {})
  BY <1>1, <1>2, SizeIsCardinality, FS_CardinalityType, FS_EmptySet
<1>3. ASSUME NEW S, S \subseteq Runners, NEW x \in S PROVE Size(S \ {x}) = Size(S) - 1
  BY <1>1, <1>3, SizeIsCardinality, FS_RemoveElement
<1>4. Size(Runners) \in Nat /\ Size(Runners) # 0 BY <1>2, RunnersFinite
<1>5. Size(Runners) > 0 BY <1>4, SMT
<1> QED BY <1>2, <1>3, <1>4, <1>5, RunnersFinite DEF Sizes

-----------------------------------------------------------------------------
\* Both, as the run has them.
Coroutines == Joining /\ TimeoutRuns /\ Spawns

LEMMA CoroutinesInvariant == MCSpec => []Coroutines
<1>1. MCInit => Coroutines BY InitTimeout, InitSpawns, SizesHold DEF MCInit, Coroutines
<1>2. Coroutines /\ [MCNext]_<<allVars, spawnVars>> => Coroutines'
  <2> SUFFICES ASSUME Coroutines, [MCNext]_<<allVars, spawnVars>> PROVE Coroutines' OBVIOUS
  <2>1. [TimeoutNext]_allVars BY DEF MCNext
  <2>2. CS!Next \/ UNCHANGED spawnVars BY DEF MCNext
  <2>3. UNCHANGED spawnVars => UNCHANGED CS!vars
    BY DEF spawnVars, CS!vars, CS!coroVars, CS!promiseVars, CS!stopVars, CS!spawnVars
  <2> QED BY <2>1, <2>2, <2>3, NextTimeout, NextSpawns, SizesHold DEF Coroutines
<1> QED BY <1>1, <1>2, PTL DEF MCSpec

\* when_all, when_any, when_any_cancel_join and with_timeout: the parent is
\* resumed at most once, and only if it had suspended, whatever the order of
\* its registration and the completions.  The stack of coroutines: one is
\* active, those below await it, and code runs under the executor its promise
\* is bound to unless it was led away.
THEOREM CoroutinesConsistentInvariant == MCSpec => []CoroutinesConsistent
<1>1. Coroutines => CoroutinesConsistent
  BY ParentMeans, StackMeans DEF Coroutines, TimeoutRuns, CoroutinesConsistent
<1> QED BY <1>1, CoroutinesInvariant, PTL

\* when_all gives all values or the first exception, and with_timeout says
\* timed_out only if the timer expired first.  when_any, in each of its
\* overloads, gives the result of the first completion and of no other, on one
\* thread and to a parent that complete() resumed; a parent on another thread
\* that saw is_done() by itself may also find no result, and then ends the way
\* Unpublished says, with index 0 as a success if the tasks have no value.
THEOREM CallResultsInvariant == MCSpec => []CallResults
<1>1. Coroutines => CallResults
  BY AllMeans, FirstMeans, SizesHold DEF Coroutines, TimeoutRuns, CallResults, RightResult
<1> QED BY <1>1, CoroutinesInvariant, PTL

\* when_any_cancel_join returns once every loser was asked to stop and has ended.
THEOREM LoserJoinedInvariant == MCSpec => []LoserJoined
<1>1. Coroutines => LoserJoined BY LoserMeans DEF Coroutines
<1> QED BY <1>1, CoroutinesInvariant, PTL

\* co_spawn calls the completion at most once, with the coroutine's result or
\* exception, and whoever awaits the result gets that one.
THEOREM ResultDeliveredInvariant == MCSpec => []ResultDelivered
<1>1. Coroutines => ResultDelivered BY ResultMeans DEF Coroutines, ResultDelivered
<1> QED BY <1>1, CoroutinesInvariant, PTL

\* inherit_stop_token: a stop request that falls between the check of the
\* parent's token and the registration of the callback is not lost, at any
\* depth of the stack.
THEOREM StopPassesInvariant == MCSpec => []StopPasses
<1>1. Coroutines => StopPasses BY StopMeans DEF Coroutines, StopPasses
<1> QED BY <1>1, CoroutinesInvariant, PTL
=============================================================================
