--------------------------- MODULE AwaiterProofs ---------------------------
(***************************************************************************)
(* condition_event for every number of waits and notifications, and        *)
(* resolver: one resumption, no notification lost or invented, and the     *)
(* result that the completion decided.  First the invariant of the waits   *)
(* of a condition_event, then the account of its notifications, then the   *)
(* resolver.                                                               *)
(***************************************************************************)
EXTENDS MCAwaiters, TLAPS

-----------------------------------------------------------------------------
\* The list of waiters.
Elems(s) == {s[i] : i \in DOMAIN s}
Distinct(s) == \A i, k \in DOMAIN s : s[i] = s[k] => i = k

USE Zenon

\* push_back.
LEMMA Appended ==
  ASSUME NEW S, NEW s \in Seq(S), NEW w \in S, w \notin Elems(s), Distinct(s)
  PROVE  /\ Append(s, w) \in Seq(S) /\ Distinct(Append(s, w))
         /\ Elems(Append(s, w)) = Elems(s) \cup {w}
<1> DEFINE t == Append(s, w)
<1>1. /\ t \in Seq(S) /\ DOMAIN t = 1..(Len(s) + 1) /\ DOMAIN s = 1..Len(s)
      /\ Len(s) \in Nat /\ t[Len(s) + 1] = w
      /\ \A i \in 1..Len(s) : t[i] = s[i]
  BY SMT
<1> HIDE DEF t
<1>2. \A i \in DOMAIN t : i \in DOMAIN s \/ i = Len(s) + 1 BY <1>1, SMT
<1>3. DOMAIN s \subseteq DOMAIN t /\ Len(s) + 1 \in DOMAIN t BY <1>1, SMT
<1>4. Elems(t) = Elems(s) \cup {w} BY <1>1, <1>2, <1>3 DEF Elems
<1>5. Distinct(t) BY <1>1, <1>2, <1>3 DEF Distinct, Elems
<1> QED BY <1>1, <1>4, <1>5 DEF t

\* front and pop_front.
LEMMA Popped ==
  ASSUME NEW S, NEW s \in Seq(S), s # <<>>, Distinct(s)
  PROVE  /\ Tail(s) \in Seq(S) /\ Head(s) \in Elems(s) /\ Head(s) \in S /\ Distinct(Tail(s))
         /\ Elems(Tail(s)) = Elems(s) \ {Head(s)}
<1> DEFINE t == Tail(s)
<1>1. /\ t \in Seq(S) /\ Len(t) = Len(s) - 1 /\ DOMAIN t = 1..Len(t) /\ DOMAIN s = 1..Len(s)
      /\ Len(s) \in Nat /\ Len(s) > 0 /\ Head(s) = s[1]
      /\ \A i \in 1..Len(t) : t[i] = s[i + 1]
  BY SMT
<1> HIDE DEF t
<1>2. \A i \in DOMAIN t : i + 1 \in DOMAIN s /\ t[i] = s[i + 1] /\ i + 1 # 1 BY <1>1, SMT
<1>3. \A i \in DOMAIN s : i = 1 \/ (i - 1 \in DOMAIN t /\ s[i] = t[i - 1]) BY <1>1, SMT
<1>4. 1 \in DOMAIN s BY <1>1, SMT
<1>5. Elems(t) = Elems(s) \ {Head(s)}
  <2>1. \A i \in DOMAIN t : t[i] \in Elems(s) /\ t[i] # s[1] BY <1>2, <1>4 DEF Distinct, Elems
  <2>2. \A i \in DOMAIN s : s[i] = s[1] \/ s[i] \in Elems(t) BY <1>3 DEF Elems
  <2>3. Elems(t) = Elems(s) \ {s[1]} BY <2>1, <2>2 DEF Elems
  <2> QED BY <1>1, <2>3
<1>6. Distinct(t)
  <2> SUFFICES ASSUME NEW i \in DOMAIN t, NEW k \in DOMAIN t, t[i] = t[k] PROVE i = k BY DEF Distinct
  <2>1. i + 1 = k + 1 BY <1>2 DEF Distinct
  <2> QED BY <1>1, <2>1, SMT
<1>7. Head(s) \in S /\ Head(s) \in Elems(s) BY <1>1, <1>4, SMT DEF Elems
<1> QED BY <1>1, <1>5, <1>6, <1>7 DEF t

\* erase at an iterator.
LEMMA Erased ==
  ASSUME NEW S, NEW s \in Seq(S), NEW it \in DOMAIN s, Distinct(s)
  PROVE  /\ Erase(s, it) \in Seq(S) /\ Distinct(Erase(s, it))
         /\ Elems(Erase(s, it)) = Elems(s) \ {s[it]}
<1> DEFINE t == Erase(s, it)
<1>1. /\ DOMAIN s = 1..Len(s) /\ Len(s) \in Nat /\ it \in 1..Len(s)
      /\ \A i \in 1..Len(s) : s[i] \in S
  BY SMT
<1>2. DOMAIN t = 1..(Len(s) - 1) BY <1>1 DEF Erase
<1>3. \A i \in DOMAIN t : t[i] = IF i < it THEN s[i] ELSE s[i + 1] BY <1>2 DEF Erase
<1>4. t \in [1..(Len(s) - 1) -> S] BY <1>1, SMT DEF Erase
<1>5. t \in Seq(S) BY <1>1, <1>4, SMT
<1> HIDE DEF t
<1>6. \A i \in DOMAIN t : \/ i \in DOMAIN s /\ i < it /\ t[i] = s[i]
                          \/ i + 1 \in DOMAIN s /\ i >= it /\ t[i] = s[i + 1]
  BY <1>1, <1>2, <1>3, SMT
<1>7. \A i \in DOMAIN s : \/ i = it
                          \/ i < it /\ i \in DOMAIN t /\ t[i] = s[i]
                          \/ i > it /\ i - 1 \in DOMAIN t /\ t[i - 1] = s[i]
  BY <1>1, <1>2, <1>3, SMT
<1>8. Distinct(t)
  <2> SUFFICES ASSUME NEW i \in DOMAIN t, NEW k \in DOMAIN t, t[i] = t[k] PROVE i = k BY DEF Distinct
  <2> QED BY <1>1, <1>2, <1>6, SMT DEF Distinct
<1>9. Elems(t) = Elems(s) \ {s[it]}
  <2>1. \A i \in DOMAIN t : t[i] \in Elems(s) /\ t[i] # s[it] BY <1>1, <1>2, <1>6, SMT DEF Distinct, Elems
  <2>2. \A i \in DOMAIN s : s[i] = s[it] \/ s[i] \in Elems(t) BY <1>1, <1>7 DEF Elems
  <2> QED BY <2>1, <2>2 DEF Elems
<1> QED BY <1>5, <1>8, <1>9 DEF t

-----------------------------------------------------------------------------
\* The types one by one, as the provers use them.
JobType(J) == J \subseteq [w : Waiters, ec : {"ok", "aborted"}, by : {"notify", "stop", "self", "destroy"},
                           step : {"unlink", "claim", "deliver"}]
Types ==
  /\ serial \in BOOLEAN /\ pending \in Nat /\ waiters \in Seq(Waiters) /\ destroyed \in BOOLEAN
  /\ done \in [Waiters -> BOOLEAN] /\ suspended \in [Waiters -> BOOLEAN]
  /\ cancelRequested \in [Waiters -> BOOLEAN] /\ didSuspend \in [Waiters -> BOOLEAN]
  /\ ec \in [Waiters -> {"none", "ok", "aborted"}] /\ res \in [Waiters -> {"none", "ok", "aborted"}]
  /\ stopCb \in [Waiters -> {"none", "set", "running", "gone"}]
  /\ apc \in [Waiters -> {"start", "install", "lock", "publish", "flag", "recheck", "cancel",
                          "suspended", "returned"}]
  /\ stopped \subseteq Waiters /\ posted \in [Waiters -> Nat] /\ notifies \in 0..MaxNotifies
  /\ JobType(jobs)

LEMMA TypesFlat == TypeOK <=> Types
BY DEF TypeOK, Types, JobType

LEMMA TypesFlatPrime == TypeOK' <=> Types'
BY DEF TypeOK, Types, JobType

Waits == Types /\ ResumedOnce /\ NeverForgotten /\ ListConsistent /\ CallsConsistent /\ CompletionsConsistent

LEMMA ListForm == Linked = Elems(waiters) /\ Linked' = Elems(waiters')
BY DEF Linked, Elems

\* The invariant for one wait, and for one call.
LEMMA WaitOf ==
  ASSUME Waits, NEW w \in Waiters
  PROVE  /\ done[w] \/ suspended[w] => Waiting(w)
         /\ done[w] <=> posted[w] > 0 \/ \E j \in jobs : j.w = w /\ j.step = "deliver"
         /\ posted[w] > 0 <=> ec[w] # "none"
         /\ res[w] # "none" => apc[w] = "returned" \/ posted[w] > 0
         /\ ec[w] = "aborted" => w \in stopped \/ destroyed
         /\ cancelRequested[w] \/ stopCb[w] = "running" => w \in stopped
         /\ apc[w] \in {"recheck", "cancel", "suspended"} => didSuspend[w]
BY DEF Waits, CompletionsConsistent

LEMMA CallOf ==
  ASSUME Waits, NEW j \in jobs
  PROVE  /\ Waiting(j.w)
         /\ j.by \in {"notify", "destroy"} => j.step # "unlink"
         /\ j.step # "unlink" => j.w \notin Linked
         /\ j.step = "deliver" => done[j.w] /\ posted[j.w] = 0
         /\ j.by \in {"stop", "self"} => j.w \in stopped
         /\ j.by = "destroy" => destroyed
         /\ j.ec = "ok" <=> j.by = "notify"
         /\ j.ec = "ok" => ec[j.w] # "ok"
BY DEF Waits, CallsConsistent

LEMMA CallPairs ==
  ASSUME Waits, NEW j \in jobs, NEW k \in jobs, j.w = k.w
  PROVE  /\ j.step = "deliver" /\ k.step = "deliver" => j = k
         /\ j.ec = "ok" /\ k.ec = "ok" => j = k
BY DEF Waits, CallsConsistent

\* A coroutine that await_suspend has not linked is known to nobody.
LEMMA Unknown ==
  ASSUME Waits, NEW w \in Waiters, ~Waiting(w)
  PROVE  /\ ~done[w] /\ ~suspended[w] /\ posted[w] = 0 /\ ec[w] = "none" /\ w \notin Linked
         /\ \A j \in jobs : j.w # w
         /\ apc[w] # "returned" => res[w] = "none"
<1>1. ~done[w] /\ ~suspended[w] BY WaitOf
<1>2. ~(posted[w] > 0) BY <1>1, WaitOf
<1>3. posted[w] = 0 BY <1>2, SMT DEF Waits, Types
<1>4. ec[w] = "none" BY <1>2, WaitOf
<1>5. w \notin Linked BY DEF Waits, ListConsistent
<1>6. \A j \in jobs : j.w # w BY CallOf
<1>7. apc[w] # "returned" => res[w] = "none" BY <1>2, WaitOf
<1> QED BY <1>1, <1>3, <1>4, <1>5, <1>6, <1>7

\* await_suspend goes on, or tells the coroutine not to suspend, before it has
\* linked the waiter.
LEMMA FreshStep ==
  ASSUME Waits, NEW w \in Waiters, apc[w] \in {"start", "install", "lock"}, Types',
         NEW p \in {"install", "lock", "returned"}, apc' = [apc EXCEPT ![w] = p],
         \A v \in Waiters \ {w} : res'[v] = res[v],
         res'[w] # "none" => p = "returned",
         \A v \in Waiters : cancelRequested'[v] \/ stopCb'[v] = "running" => v \in stopped,
         UNCHANGED <<waiters, destroyed, done, suspended, ec, didSuspend, stopped, jobs, posted>>
  PROVE  Waits'
<1>1. /\ ~done[w] /\ ~suspended[w] /\ posted[w] = 0 /\ ec[w] = "none" /\ w \notin Linked
      /\ \A j \in jobs : j.w # w
  BY Unknown DEF Waiting
<1>2. /\ \A v \in Waiters \ {w} : apc'[v] = apc[v] /\ (Waiting(v)' <=> Waiting(v))
      /\ ~Waiting(w)' /\ apc'[w] = p /\ Linked' = Linked
  BY SMT DEF Waits, Types, Waiting, Linked
<1>3. ResumedOnce' BY <1>1, <1>2 DEF Waits, ResumedOnce
<1>4. NeverForgotten' BY <1>1, <1>2 DEF Waits, NeverForgotten
<1>5. ListConsistent'
  <2>1. \A v \in Linked : v \in Waiters \ {w} BY <1>1, SMT DEF Waits, Types, Linked
  <2> QED BY <1>2, <2>1 DEF Waits, ListConsistent
<1>6. CallsConsistent'
  <2>1. \A j \in jobs : j.w \in Waiters \ {w} BY <1>1, SMT DEF Waits, Types, JobType
  <2> QED BY <1>2, <2>1 DEF Waits, CallsConsistent
<1>7. CompletionsConsistent'
  <2> SUFFICES ASSUME NEW v \in Waiters
               PROVE  /\ done'[v] => Waiting(v)'
                      /\ suspended'[v] => Waiting(v)'
                      /\ done'[v] <=> posted'[v] > 0 \/ \E j \in jobs' : j.w = v /\ j.step = "deliver"
                      /\ posted'[v] > 0 <=> ec'[v] # "none"
                      /\ res'[v] # "none" => apc'[v] = "returned" \/ posted'[v] > 0
                      /\ ec'[v] = "aborted" => v \in stopped' \/ destroyed'
                      /\ cancelRequested'[v] \/ stopCb'[v] = "running" => v \in stopped'
                      /\ apc'[v] \in {"recheck", "cancel", "suspended"} => didSuspend'[v]
    BY DEF CompletionsConsistent
  <2>1. CASE v = w BY <1>1, <1>2, <2>1, SMT
  <2>2. CASE v # w BY <1>2, <2>2, SMT DEF Waits, CompletionsConsistent
  <2> QED BY <2>1, <2>2
<1> QED BY <1>3, <1>4, <1>5, <1>6, <1>7 DEF Waits

LEMMA BeginStep ==
  ASSUME Waits, NEW w \in Waiters, Begin(w)
  PROVE  Waits'
<1> USE DEF Go, Set, ReturnNow, stateVars, waiterVars
<1>0. \A v \in Waiters : cancelRequested[v] \/ stopCb[v] = "running" => v \in stopped
  BY DEF Waits, CompletionsConsistent
<1>1. CASE w \in stopped
  <2>1. /\ apc' = [apc EXCEPT ![w] = "returned"] /\ res' = [res EXCEPT ![w] = "aborted"]
        /\ UNCHANGED <<serial, stateVars, waiterVars, didSuspend, stopped, jobs, posted, notifies>>
    BY <1>1 DEF Begin
  <2>2. Types' BY <2>1, SMT DEF Waits, Types
  <2>3. \A v \in Waiters \ {w} : res'[v] = res[v] BY <2>1 DEF Waits, Types
  <2> QED BY <1>0, <2>1, <2>2, <2>3, FreshStep DEF Begin
<1>2. CASE w \notin stopped
  <2>1. /\ apc' = [apc EXCEPT ![w] = "install"]
        /\ UNCHANGED <<serial, stateVars, waiterVars, didSuspend, res, stopped, jobs, posted, notifies>>
    BY <1>2 DEF Begin
  <2>2. Types' BY <2>1, SMT DEF Waits, Types
  <2>3. res[w] = "none" BY Unknown DEF Begin, Waiting
  <2> QED BY <1>0, <2>1, <2>2, <2>3, FreshStep DEF Begin
<1> QED BY <1>1, <1>2

LEMMA InstallStep ==
  ASSUME Waits, NEW w \in Waiters, InstallStopCallback(w)
  PROVE  Waits'
<1> USE DEF Go, Set, stateVars, waiterVars, InstallStopCallback
<1>0. \A v \in Waiters : cancelRequested[v] \/ stopCb[v] = "running" => v \in stopped
  BY DEF Waits, CompletionsConsistent
<1>1. Types' BY SMT DEF Waits, Types
<1>2. res[w] = "none" BY Unknown DEF Waiting
<1>3. \A v \in Waiters : cancelRequested'[v] \/ stopCb'[v] = "running" => v \in stopped
  BY <1>0 DEF Waits, Types
<1> QED BY <1>1, <1>2, <1>3, FreshStep DEF Waits, Types

LEMMA LockReturnStep ==
  ASSUME Waits, NEW w \in Waiters, LockDestroyed(w) \/ LockPending(w)
  PROVE  Waits'
<1> USE DEF Go, Set, ReturnNow, stateVars, waiterVars
<1>0. \A v \in Waiters : cancelRequested[v] \/ stopCb[v] = "running" => v \in stopped
  BY DEF Waits, CompletionsConsistent
<1>1. /\ apc[w] = "lock" /\ apc' = [apc EXCEPT ![w] = "returned"]
      /\ \/ res' = [res EXCEPT ![w] = "aborted"]
         \/ res' = [res EXCEPT ![w] = "ok"]
      /\ stopCb' = [stopCb EXCEPT ![w] = "gone"]
      /\ \/ pending' = pending
         \/ pending > 0 /\ pending' = pending - 1
      /\ UNCHANGED <<serial, waiters, destroyed, done, suspended, cancelRequested, ec, didSuspend, stopped,
                     jobs, posted, notifies>>
  BY DEF LockDestroyed, LockPending, HasPending
<1>2. Types'
  <2>1. pending' \in Nat BY <1>1, SMT DEF Waits, Types
  <2>2. res' \in [Waiters -> {"none", "ok", "aborted"}] BY <1>1 DEF Waits, Types
  <2> QED BY <1>1, <2>1, <2>2, SMT DEF Waits, Types
<1>3. \A v \in Waiters : cancelRequested'[v] \/ stopCb'[v] = "running" => v \in stopped
  BY <1>0, <1>1 DEF Waits, Types
<1>4. \A v \in Waiters \ {w} : res'[v] = res[v] BY <1>1 DEF Waits, Types
<1> QED BY <1>1, <1>2, <1>3, <1>4, FreshStep

\* The waiter is linked.
LEMMA LinkStep ==
  ASSUME Waits, NEW w \in Waiters, LockLink(w)
  PROVE  Waits'
<1>1. /\ ~done[w] /\ ~suspended[w] /\ posted[w] = 0 /\ ec[w] = "none" /\ w \notin Linked /\ res[w] = "none"
      /\ \A j \in jobs : j.w # w
  BY Unknown DEF Waiting, LockLink
<1>2. /\ waiters' = Append(waiters, w) /\ apc' = [apc EXCEPT ![w] = "publish"]
      /\ UNCHANGED <<serial, pending, destroyed, done, suspended, cancelRequested, ec, stopCb, didSuspend, res,
                     stopped, jobs, posted, notifies>>
  BY DEF LockLink, Go, Set, waiterVars
<1>3. waiters' \in Seq(Waiters) /\ Distinct(waiters') /\ Linked' = Linked \cup {w}
  <2>1. waiters \in Seq(Waiters) /\ Distinct(waiters) BY DEF Waits, Types, ListConsistent, Distinct
  <2>2. /\ Append(waiters, w) \in Seq(Waiters) /\ Distinct(Append(waiters, w))
        /\ Elems(Append(waiters, w)) = Elems(waiters) \cup {w}
    BY <1>1, <2>1, ListForm, Appended, SMT
  <2> QED BY <1>2, <2>2, ListForm
<1>4. Types' BY <1>2, <1>3, SMT DEF Waits, Types
<1>5. /\ \A v \in Waiters \ {w} : apc'[v] = apc[v] /\ (Waiting(v)' <=> Waiting(v))
      /\ Waiting(w)' /\ apc'[w] = "publish"
  BY <1>2 DEF Waits, Types, Waiting
<1>6. ResumedOnce' BY <1>1, <1>2, <1>5 DEF Waits, ResumedOnce
<1>7. NeverForgotten' BY <1>2, <1>3, <1>5 DEF Waits, NeverForgotten
<1>8. ListConsistent'
  <2>1. \A v \in Linked : v \in Waiters \ {w} BY <1>1, SMT DEF Waits, Types, Linked
  <2> QED BY <1>1, <1>2, <1>3, <1>5, <2>1 DEF Waits, ListConsistent, Distinct
<1>9. CallsConsistent'
  <2>1. \A j \in jobs : j.w \in Waiters \ {w} BY <1>1 DEF Waits, Types, JobType
  <2> QED BY <1>2, <1>3, <1>5, <2>1 DEF Waits, CallsConsistent
<1>10. CompletionsConsistent' BY <1>1, <1>2, <1>5, SMT DEF Waits, CompletionsConsistent
<1> QED BY <1>4, <1>6, <1>7, <1>8, <1>9, <1>10 DEF Waits

\* await_suspend of a linked waiter goes on without a call.
LEMMA LinkedStep ==
  ASSUME Waits, NEW w \in Waiters, Waiting(w), Types',
         NEW p \in {"flag", "recheck", "suspended"}, apc' = [apc EXCEPT ![w] = p],
         \A v \in Waiters \ {w} : suspended'[v] = suspended[v] /\ didSuspend'[v] = didSuspend[v],
         p # "flag" => didSuspend'[w],
         UNCHANGED <<waiters, destroyed, done, cancelRequested, ec, stopCb, res, stopped, jobs, posted>>
  PROVE  Waits'
<1>1. /\ \A v \in Waiters \ {w} : apc'[v] = apc[v]
      /\ \A v \in Waiters : (Waiting(v)' <=> Waiting(v)) /\ (apc'[v] = "returned" <=> apc[v] = "returned")
      /\ apc'[w] = p /\ Linked' = Linked
  BY SMT DEF Waits, Types, Waiting, Linked
<1>2. ResumedOnce' BY <1>1 DEF Waits, ResumedOnce
<1>3. NeverForgotten' BY <1>1 DEF Waits, NeverForgotten
<1>4. ListConsistent'
  <2>1. \A v \in Linked : v \in Waiters BY SMT DEF Waits, Types, Linked
  <2> QED BY <1>1, <2>1 DEF Waits, ListConsistent
<1>5. CallsConsistent'
  <2>1. \A j \in jobs : j.w \in Waiters BY SMT DEF Waits, Types, JobType
  <2> QED BY <1>1, <2>1, SMT DEF Waits, CallsConsistent
<1>6. CompletionsConsistent' BY <1>1, SMT DEF Waits, CompletionsConsistent
<1> QED BY <1>2, <1>3, <1>4, <1>5, <1>6 DEF Waits

LEMMA PublishStep ==
  ASSUME Waits, NEW w \in Waiters, Publish(w) \/ SetDidSuspend(w) \/ SelfCancelled(w)
  PROVE  Waits'
<1> USE DEF Go, Set, Flagged, stateVars, waiterVars
<1>1. CASE Publish(w)
  <2>1. Types' /\ (\A v \in Waiters \ {w} : suspended'[v] = suspended[v])
    BY <1>1, SMT DEF Waits, Types, Publish
  <2> QED BY <1>1, <2>1, LinkedStep DEF Publish, Waiting
<1>2. CASE SetDidSuspend(w)
  <2>1. Types' /\ (\A v \in Waiters \ {w} : didSuspend'[v] = didSuspend[v]) /\ didSuspend'[w]
    BY <1>2, SMT DEF Waits, Types, SetDidSuspend
  <2> QED BY <1>2, <2>1, LinkedStep DEF SetDidSuspend, Waiting
<1>3. CASE SelfCancelled(w)
  <2>1. Types' BY <1>3, SMT DEF Waits, Types, SelfCancelled
  <2>2. didSuspend[w] BY <1>3, WaitOf DEF SelfCancelled
  <2> QED BY <1>3, <2>1, <2>2, LinkedStep DEF SelfCancelled, Waiting
<1> QED BY <1>1, <1>2, <1>3

\* cancel_waiter is called, from the stop callback or from await_suspend.
LEMMA CancelStep ==
  ASSUME Waits, NEW w \in Waiters, Waiting(w), w \in stopped, Types', NEW by \in {"stop", "self"},
         jobs' = jobs \cup {Job(w, "aborted", by, "unlink")},
         \A v \in Waiters \ {w} : apc'[v] = apc[v], Waiting(w)', didSuspend[w] \/ apc'[w] = apc[w],
         UNCHANGED <<waiters, destroyed, done, suspended, cancelRequested, ec, stopCb, didSuspend, res,
                     stopped, posted>>
  PROVE  Waits'
<1> DEFINE k == Job(w, "aborted", by, "unlink")
<1>1. /\ \A v \in Waiters : Waiting(v)' <=> Waiting(v)
      /\ \A v \in Waiters : apc'[v] = "returned" <=> apc[v] = "returned"
      /\ Linked' = Linked
  BY DEF Waiting, Linked
<1>2. k.w = w /\ k.ec = "aborted" /\ k.by = by /\ k.step = "unlink" BY DEF Job
<1>3. jobs' = jobs \cup {k} OBVIOUS
<1> HIDE DEF k
<1>4. ResumedOnce' BY <1>1 DEF Waits, ResumedOnce
<1>5. NeverForgotten' BY <1>1, <1>3 DEF Waits, NeverForgotten
<1>6. ListConsistent'
  <2>1. \A v \in Linked : v \in Waiters BY SMT DEF Waits, Types, Linked
  <2> QED BY <1>1, <2>1 DEF Waits, ListConsistent
<1>7. CallsConsistent'
  <2>1. \A j \in jobs : j.w \in Waiters BY SMT DEF Waits, Types, JobType
  <2> QED BY <1>1, <1>2, <1>3, <2>1, SMT DEF Waits, CallsConsistent
<1>8. CompletionsConsistent'
  <2>1. \A v : (\E j \in jobs' : j.w = v /\ j.step = "deliver") <=> (\E j \in jobs : j.w = v /\ j.step = "deliver")
    BY <1>2, <1>3
  <2> QED BY <1>1, <2>1, SMT DEF Waits, CompletionsConsistent
<1> QED BY <1>4, <1>5, <1>6, <1>7, <1>8 DEF Waits

LEMMA NewJob ==
  ASSUME NEW J, JobType(J), NEW w \in Waiters, NEW e \in {"ok", "aborted"},
         NEW by \in {"notify", "stop", "self", "destroy"}, NEW step \in {"unlink", "claim", "deliver"}
  PROVE  JobType(J \cup {Job(w, e, by, step)})
BY SMT DEF JobType, Job

LEMMA RecheckStep ==
  ASSUME Waits, NEW w \in Waiters, Recheck(w)
  PROVE  Waits'
<1> USE DEF Go, Set, MustCancel, stateVars, waiterVars
<1>0. didSuspend[w] /\ Waiting(w) BY DEF Recheck, Waits, CompletionsConsistent, Waiting
<1>1. CASE cancelRequested[w]
  <2>1. /\ apc' = [apc EXCEPT ![w] = "cancel"] /\ jobs' = jobs \cup {Job(w, "aborted", "self", "unlink")}
        /\ UNCHANGED <<serial, stateVars, waiterVars, didSuspend, res, stopped, posted, notifies>>
    BY <1>1 DEF Recheck
  <2>2. JobType(jobs') BY <2>1, NewJob DEF Waits, Types
  <2>3. Types' BY <2>1, <2>2, SMT DEF Waits, Types
  <2>4. Waiting(w)' /\ \A v \in Waiters \ {w} : apc'[v] = apc[v] BY <2>1 DEF Waits, Types, Waiting
  <2>5. w \in stopped BY <1>1, WaitOf
  <2> QED BY <1>0, <2>1, <2>3, <2>4, <2>5, CancelStep
<1>2. CASE ~cancelRequested[w]
  <2>1. /\ apc' = [apc EXCEPT ![w] = "suspended"]
        /\ UNCHANGED <<serial, stateVars, waiterVars, didSuspend, res, stopped, jobs, posted, notifies>>
    BY <1>2 DEF Recheck
  <2>2. Types' BY <2>1, SMT DEF Waits, Types
  <2> QED BY <1>0, <2>1, <2>2, LinkedStep
<1> QED BY <1>1, <1>2
LEMMA ResumeStep ==
  ASSUME Waits, NEW w \in Waiters, Resume(w)
  PROVE  Waits'
<1>1. /\ posted[w] > 0
      /\ \A v \in Waiters \ {w} : res'[v] = res[v]
      /\ UNCHANGED <<serial, pending, waiters, destroyed, done, suspended, cancelRequested, ec, stopCb, apc,
                     didSuspend, stopped, jobs, posted, notifies>>
  BY DEF Resume, Set, stateVars, waiterVars, Waits, Types
<1>2. Types' BY <1>1, SMT DEF Waits, Types, Resume, Set
<1>3. Linked' = Linked /\ \A v : Waiting(v)' <=> Waiting(v) BY <1>1 DEF Linked, Waiting
<1>4. ResumedOnce' BY <1>1 DEF Waits, ResumedOnce
<1>5. NeverForgotten' BY <1>1, <1>3 DEF Waits, NeverForgotten
<1>6. ListConsistent' BY <1>1, <1>3 DEF Waits, ListConsistent
<1>7. CallsConsistent' BY <1>1, <1>3 DEF Waits, CallsConsistent
<1>8. CompletionsConsistent' BY <1>1, <1>3 DEF Waits, CompletionsConsistent
<1> QED BY <1>2, <1>4, <1>5, <1>6, <1>7, <1>8 DEF Waits

\* notify takes the first waiter, or counts.
LEMMA NotifyStep ==
  ASSUME Waits, Notify, EventAssumption
  PROVE  Waits'
<1>0. /\ notifies' \in 0..MaxNotifies
      /\ UNCHANGED <<serial, destroyed, done, suspended, cancelRequested, ec, stopCb, apc, didSuspend, res,
                     stopped, posted>>
      /\ \A v : Waiting(v)' <=> Waiting(v)
  BY SMT DEF Notify, waiterVars, corVars, Waits, Types, EventAssumption, Waiting
<1>1. CASE waiters = <<>>
  <2>1. pending' \in Nat /\ UNCHANGED <<jobs, waiters>> BY <1>1, SMT DEF Notify, Accumulate, Waits, Types
  <2>2. Types' BY <1>0, <2>1, SMT DEF Waits, Types
  <2>3. Linked' = Linked BY <2>1 DEF Linked
  <2>4. ResumedOnce' BY <1>0 DEF Waits, ResumedOnce
  <2>5. NeverForgotten' BY <1>0, <2>1, <2>3 DEF Waits, NeverForgotten
  <2>6. ListConsistent' BY <1>0, <2>1, <2>3 DEF Waits, ListConsistent
  <2>7. CallsConsistent' BY <1>0, <2>1, <2>3 DEF Waits, CallsConsistent
  <2>8. CompletionsConsistent' BY <1>0, <2>1 DEF Waits, CompletionsConsistent
  <2> QED BY <2>2, <2>4, <2>5, <2>6, <2>7, <2>8 DEF Waits
<1>2. CASE waiters # <<>>
  <2> DEFINE w == Head(waiters)
             k == Job(w, "ok", "notify", "claim")
  <2>1. waiters' = Tail(waiters) /\ jobs' = jobs \cup {k} /\ UNCHANGED pending BY <1>2 DEF Notify
  <2>2. waiters \in Seq(Waiters) /\ Distinct(waiters) BY DEF Waits, Types, ListConsistent, Distinct
  <2>3. /\ waiters' \in Seq(Waiters) /\ w \in Linked /\ w \in Waiters /\ Distinct(waiters')
        /\ Linked' = Linked \ {w}
    BY <1>2, <2>1, <2>2, ListForm, Popped
  <2>4. k.w = w /\ k.ec = "ok" /\ k.by = "notify" /\ k.step = "claim" BY DEF Job
  <2>5. JobType(jobs') BY <2>1, <2>3, NewJob DEF Waits, Types
  <2> HIDE DEF k, w
  <2>6. Types' BY <1>0, <2>1, <2>3, <2>5, SMT DEF Waits, Types
  <2>7. Waiting(w) /\ ~done[w] BY <2>3 DEF Waits, ListConsistent
  <2>8. ResumedOnce' BY <1>0 DEF Waits, ResumedOnce
  <2>9. NeverForgotten' BY <1>0, <2>1, <2>3, <2>4 DEF Waits, NeverForgotten
  <2>10. ListConsistent' BY <1>0, <2>3 DEF Waits, ListConsistent, Distinct
  <2>11. CallsConsistent'
    <3>1. ec[w] # "ok" BY <2>3, <2>7, WaitOf
    <3>2. \A j \in jobs : j.ec = "ok" => j.w # w BY <2>3 DEF Waits, CallsConsistent
    <3> QED BY <1>0, <2>1, <2>3, <2>4, <2>7, <3>1, <3>2, SMT DEF Waits, CallsConsistent
  <2>12. CompletionsConsistent'
    <3>1. \A v : (\E j \in jobs' : j.w = v /\ j.step = "deliver") <=> (\E j \in jobs : j.w = v /\ j.step = "deliver")
      BY <2>1, <2>4
    <3> QED BY <1>0, <3>1, SMT DEF Waits, CompletionsConsistent
  <2> QED BY <2>6, <2>8, <2>9, <2>10, <2>11, <2>12 DEF Waits
<1> QED BY <1>1, <1>2

\* The destructor takes the whole list.
LEMMA DestroyStep ==
  ASSUME Waits, Destroy
  PROVE  Waits'
<1>0. /\ waiters' = <<>> /\ destroyed' = TRUE /\ jobs' = jobs \cup AbortAll
      /\ UNCHANGED <<serial, pending, done, suspended, cancelRequested, ec, stopCb, apc, didSuspend, res,
                     stopped, posted, notifies>>
      /\ \A v : Waiting(v)' <=> Waiting(v)
  BY DEF Destroy, waiterVars, corVars, Waiting
<1>1. \A j \in AbortAll : j.w \in Linked /\ j.ec = "aborted" /\ j.by = "destroy" /\ j.step = "claim"
  BY SMT DEF AbortAll, Job
<1>2. \A v \in Linked : \E j \in AbortAll : j.w = v
  <2> TAKE v \in Linked
  <2> DEFINE k == Job(v, "aborted", "destroy", "claim")
  <2>1. k \in AbortAll BY DEF AbortAll
  <2>2. k.w = v BY DEF Job
  <2> QED BY <2>1, <2>2
<1>3. Linked' = {} BY <1>0, SMT DEF Linked
<1>4. Linked \subseteq Waiters BY SMT DEF Linked, Waits, Types
<1>5. JobType(jobs')
  <2>1. JobType(AbortAll) BY <1>4, SMT DEF JobType, AbortAll, Job
  <2> QED BY <1>0, <2>1 DEF Waits, Types, JobType
<1>6. Types' BY <1>0, <1>5, SMT DEF Waits, Types
<1>7. ResumedOnce' BY <1>0 DEF Waits, ResumedOnce
<1>8. NeverForgotten' BY <1>0, <1>2 DEF Waits, NeverForgotten
<1>9. ListConsistent' BY <1>0, <1>3, SMT DEF ListConsistent
<1>10. CallsConsistent'
  <2>1. \A j \in AbortAll : Waiting(j.w) BY <1>1 DEF Waits, ListConsistent
  <2> QED BY <1>0, <1>1, <1>3, <2>1, SMT DEF Waits, CallsConsistent
<1>11. CompletionsConsistent'
  <2>1. \A v : (\E j \in jobs' : j.w = v /\ j.step = "deliver") <=> (\E j \in jobs : j.w = v /\ j.step = "deliver")
    BY <1>0, <1>1
  <2> QED BY <1>0, <2>1, SMT DEF Waits, CompletionsConsistent
<1> QED BY <1>6, <1>7, <1>8, <1>9, <1>10, <1>11 DEF Waits

\* request_stop, and a callback that finds nothing to cancel.
LEMMA StopStep ==
  ASSUME Waits, Types', stopped \subseteq stopped',
         \A v \in Waiters : cancelRequested'[v] \/ stopCb'[v] = "running" => v \in stopped',
         UNCHANGED <<waiters, destroyed, done, suspended, ec, apc, didSuspend, res, jobs, posted>>
  PROVE  Waits'
<1>1. Linked' = Linked /\ \A v : Waiting(v)' <=> Waiting(v) BY DEF Linked, Waiting
<1>2. ResumedOnce' BY DEF Waits, ResumedOnce
<1>3. NeverForgotten' BY <1>1 DEF Waits, NeverForgotten
<1>4. ListConsistent' BY <1>1 DEF Waits, ListConsistent
<1>5. CallsConsistent' BY <1>1 DEF Waits, CallsConsistent
<1>6. CompletionsConsistent' BY <1>1 DEF Waits, CompletionsConsistent
<1> QED BY <1>2, <1>3, <1>4, <1>5, <1>6 DEF Waits
LEMMA RequestStopStep ==
  ASSUME Waits, NEW w \in Waiters, RequestStop(w)
  PROVE  Waits'
<1>0. \A v \in Waiters : cancelRequested[v] \/ stopCb[v] = "running" => v \in stopped
  BY WaitOf
<1>1. /\ stopped' = stopped \cup {w}
      /\ UNCHANGED <<serial, pending, waiters, destroyed, done, suspended, ec, apc, didSuspend, res, jobs, posted,
                     notifies>>
      /\ stopCb' \in [Waiters -> {"none", "set", "running", "gone"}] /\ cancelRequested' \in [Waiters -> BOOLEAN]
      /\ \A v \in Waiters \ {w} : stopCb'[v] = stopCb[v] /\ cancelRequested'[v] = cancelRequested[v]
  BY DEF RequestStop, Set, stateVars, corVars, Waits, Types
<1>2. Types' BY <1>1, SMT DEF Waits, Types
<1>3. \A v \in Waiters : cancelRequested'[v] \/ stopCb'[v] = "running" => v \in stopped' BY <1>0, <1>1
<1> QED BY <1>1, <1>2, <1>3, StopStep

LEMMA StopCallbackStep ==
  ASSUME Waits, NEW w \in Waiters, StopCallback(w)
  PROVE  Waits'
<1>0. \A v \in Waiters : cancelRequested[v] \/ stopCb[v] = "running" => v \in stopped
  BY WaitOf
<1>1. CASE suspended[w]
  <2>1. /\ jobs' = jobs \cup {Job(w, "aborted", "stop", "unlink")}
        /\ UNCHANGED <<serial, pending, waiters, destroyed, done, suspended, cancelRequested, ec, stopCb, apc,
                       didSuspend, res, stopped, posted, notifies>>
    BY <1>1 DEF StopCallback, stateVars, corVars
  <2>2. w \in stopped /\ Waiting(w) /\ Waiting(w)' BY <1>0, <1>1, <2>1, WaitOf DEF StopCallback, Waiting
  <2>3. JobType(jobs') BY <2>1, NewJob DEF Waits, Types
  <2>4. Types' BY <2>1, <2>3, SMT DEF Waits, Types
  <2> QED BY <2>1, <2>2, <2>4, CancelStep
<1>2. CASE ~suspended[w]
  <2>1. /\ stopCb' = [stopCb EXCEPT ![w] = "gone"]
        /\ UNCHANGED <<serial, pending, waiters, destroyed, done, suspended, cancelRequested, ec, apc,
                       didSuspend, res, stopped, jobs, posted, notifies>>
    BY <1>2 DEF StopCallback, Set, stateVars, corVars
  <2>2. Types' BY <2>1, SMT DEF Waits, Types
  <2>3. \A v \in Waiters : cancelRequested'[v] \/ stopCb'[v] = "running" => v \in stopped'
    BY <1>0, <2>1 DEF Waits, Types
  <2> QED BY <2>1, <2>2, <2>3, StopStep
<1> QED BY <1>1, <1>2

-----------------------------------------------------------------------------
\* A call in progress goes one step on.
LEMMA ReplacedJob ==
  ASSUME Waits, NEW j \in jobs, NEW step \in {"unlink", "claim", "deliver"}, Replace(j, step)
  PROVE  \E k : /\ k.w = j.w /\ k.ec = j.ec /\ k.by = j.by /\ k.step = step
                /\ jobs' = (jobs \ {j}) \cup {k} /\ JobType(jobs') /\ j.w \in Waiters
<1> DEFINE k == [j EXCEPT !.step = step]
<1>1. j \in [w : Waiters, ec : {"ok", "aborted"}, by : {"notify", "stop", "self", "destroy"},
             step : {"unlink", "claim", "deliver"}]
  BY DEF Waits, Types, JobType
<1>2. /\ k.w = j.w /\ k.ec = j.ec /\ k.by = j.by /\ k.step = step /\ j.w \in Waiters
      /\ k \in [w : Waiters, ec : {"ok", "aborted"}, by : {"notify", "stop", "self", "destroy"},
                step : {"unlink", "claim", "deliver"}]
  BY <1>1
<1>3. jobs' = (jobs \ {j}) \cup {k} BY DEF Replace
<1>4. JobType(jobs') BY <1>2, <1>3 DEF Waits, Types, JobType
<1> QED BY <1>2, <1>3, <1>4

LEMMA UnlinkStep ==
  ASSUME Waits, NEW j \in jobs, Unlink(j)
  PROVE  Waits'
<1>1. PICK k : /\ k.w = j.w /\ k.ec = j.ec /\ k.by = j.by /\ k.step = "claim"
               /\ jobs' = (jobs \ {j}) \cup {k} /\ JobType(jobs') /\ j.w \in Waiters
  BY ReplacedJob DEF Unlink
<1>2. /\ j.step = "unlink"
      /\ UNCHANGED <<serial, pending, destroyed, done, suspended, cancelRequested, ec, stopCb, apc, didSuspend,
                     res, stopped, posted, notifies>>
      /\ \A v : Waiting(v)' <=> Waiting(v)
  BY DEF Unlink, waiterVars, corVars, Waiting
<1>3. waiters' \in Seq(Waiters) /\ Distinct(waiters') /\ Linked' = Linked \ {j.w}
  <2>1. waiters \in Seq(Waiters) /\ Distinct(waiters) BY DEF Waits, Types, ListConsistent, Distinct
  <2>2. CASE j.w \notin Linked /\ UNCHANGED waiters BY <2>1, <2>2, ListForm
  <2>3. CASE \E it \in DOMAIN waiters : waiters[it] = j.w /\ waiters' = Erase(waiters, it)
    <3>1. PICK it \in DOMAIN waiters : waiters[it] = j.w /\ waiters' = Erase(waiters, it) BY <2>3
    <3> QED BY <2>1, <3>1, ListForm, Erased, SMT
  <2> QED BY <2>2, <2>3 DEF Unlink
<1>4. Types' BY <1>1, <1>2, <1>3, SMT DEF Waits, Types
<1>5. ResumedOnce'
  <2>1. UNCHANGED <<done, posted, apc, suspended, serial>> /\ \A v : Waiting(v)' <=> Waiting(v) BY <1>2
  <2> QED BY <2>1 DEF Waits, ResumedOnce
<1>6. NeverForgotten' BY <1>1, <1>2, <1>3 DEF Waits, NeverForgotten
<1>7. ListConsistent'
  <2>1. UNCHANGED done /\ \A v : Waiting(v)' <=> Waiting(v) BY <1>2
  <2>2. \A v \in Linked : Waiting(v) /\ ~done[v] BY DEF Waits, ListConsistent
  <2> QED BY <1>3, <2>1, <2>2 DEF ListConsistent, Distinct
<1>8. CallsConsistent'
  <2>1. j.ec # "ok" /\ j.by \notin {"notify", "destroy"} /\ Waiting(j.w) /\ (j.by \in {"stop", "self"} => j.w \in stopped)
    BY <1>2, CallOf
  <2>2. ASSUME NEW i \in jobs'
        PROVE  /\ Waiting(i.w) /\ (i.by \in {"notify", "destroy"} => i.step # "unlink")
               /\ (i.step # "unlink" => i.w \notin Linked')
               /\ (i.step = "deliver" => done[i.w] /\ posted[i.w] = 0)
               /\ (i.by \in {"stop", "self"} => i.w \in stopped) /\ (i.by = "destroy" => destroyed)
               /\ (i.ec = "ok" <=> i.by = "notify") /\ (i.ec = "ok" => ec[i.w] # "ok")
    <3>1. CASE i \in jobs BY <1>3, <3>1, CallOf
    <3>2. CASE i = k
      <4>1. i.w = j.w /\ i.ec = j.ec /\ i.by = j.by /\ i.step = "claim" BY <1>1, <3>2
      <4>2. j.ec = "ok" <=> j.by = "notify" BY CallOf
      <4> QED BY <1>3, <2>1, <4>1, <4>2
    <3> QED BY <1>1, <3>1, <3>2
  <2>3. \A i, h \in jobs' : i.w = h.w => /\ (i.step = "deliver" /\ h.step = "deliver" => i = h)
                                         /\ (i.ec = "ok" /\ h.ec = "ok" => i = h)
    BY <1>1, <2>1, CallPairs
  <2>4. UNCHANGED <<done, posted, stopped, destroyed, ec>> /\ \A v : Waiting(v)' <=> Waiting(v) BY <1>2
  <2> QED BY <2>2, <2>3, <2>4 DEF CallsConsistent
<1>9. CompletionsConsistent'
  <2>1. \A v : (\E i \in jobs' : i.w = v /\ i.step = "deliver") <=> (\E i \in jobs : i.w = v /\ i.step = "deliver")
    BY <1>1, <1>2
  <2>2. /\ UNCHANGED <<done, posted, suspended, ec, res, apc, stopped, destroyed, cancelRequested, stopCb, didSuspend>>
        /\ \A v : Waiting(v)' <=> Waiting(v)
    BY <1>2
  <2>3. CompletionsConsistent BY DEF Waits
  <2> QED BY <2>1, <2>2, <2>3, SMT DEF CompletionsConsistent
<1> QED BY <1>4, <1>5, <1>6, <1>7, <1>8, <1>9 DEF Waits

\* The call that is first sets done.
LEMMA ClaimWins ==
  ASSUME Waits, NEW j \in jobs, Claim(j), ~done[j.w]
  PROVE  Waits'
<1>1. PICK k : /\ k.w = j.w /\ k.ec = j.ec /\ k.by = j.by /\ k.step = "deliver"
               /\ jobs' = (jobs \ {j}) \cup {k} /\ JobType(jobs') /\ j.w \in Waiters
  BY ReplacedJob DEF Claim, Claims
<1>2. /\ j.step = "claim" /\ done' = [done EXCEPT ![j.w] = TRUE]
      /\ UNCHANGED <<serial, pending, waiters, destroyed, suspended, cancelRequested, ec, stopCb, apc, didSuspend,
                     res, stopped, posted, notifies>>
      /\ \A v : Waiting(v)' <=> Waiting(v)
      /\ Linked' = Linked
  BY DEF Claim, Claims, Set, stateVars, corVars, Waiting, Linked
<1>3. Types' BY <1>1, <1>2, SMT DEF Waits, Types
<1>4. done'[j.w] /\ \A v \in Waiters \ {j.w} : done'[v] = done[v]
  <2>1. done \in [Waiters -> BOOLEAN] BY DEF Waits, Types
  <2>2. done' = [done EXCEPT ![j.w] = TRUE] /\ j.w \in Waiters BY <1>1, <1>2
  <2> QED BY <2>1, <2>2
<1>5. /\ Waiting(j.w) /\ j.w \notin Linked /\ (\A i \in jobs : i.w = j.w => i.step # "deliver")
      /\ apc[j.w] # "returned" /\ posted[j.w] = 0
  <2>1. Waiting(j.w) /\ j.w \notin Linked BY <1>2, CallOf
  <2>2. \A i \in jobs : i.w = j.w => i.step # "deliver" BY <1>1 DEF Waits, CallsConsistent
  <2>3. ~(posted[j.w] > 0)
    <3>1. j.w \in Waiters BY <1>1
    <3> QED BY <3>1, WaitOf
  <2>4. posted[j.w] \in Nat BY <1>1 DEF Waits, Types
  <2> QED BY <2>1, <2>2, <2>3, <2>4, SMT DEF Waiting
<1>6. ResumedOnce'
  <2>1. UNCHANGED <<posted, apc, suspended, serial>> /\ \A v : Waiting(v)' <=> Waiting(v) BY <1>2
  <2> QED BY <1>4, <1>5, <2>1 DEF Waits, ResumedOnce
<1>7. NeverForgotten' BY <1>1, <1>2 DEF Waits, NeverForgotten
<1>8. ListConsistent'
  <2>1. \A v \in Linked : v \in Waiters \ {j.w} BY <1>5, SMT DEF Waits, Types, Linked
  <2> QED BY <1>2, <1>4, <2>1 DEF Waits, ListConsistent
<1>9. CallsConsistent'
  <2>1. \A i \in jobs' : (i \in jobs /\ i # j) \/ i = k BY <1>1
  <2>2. \A i \in jobs : i.w \in Waiters BY DEF Waits, Types, JobType
  <2>3. \A i \in jobs : i.step = "deliver" => i.w # j.w /\ done'[i.w] BY <1>4, <1>5, <2>2, CallOf
  <2>4. /\ \A i \in jobs : Waiting(i.w) /\ (i.by \in {"notify", "destroy"} => i.step # "unlink")
        /\ \A i \in jobs : (i.by \in {"stop", "self"} => i.w \in stopped) /\ (i.by = "destroy" => destroyed)
        /\ \A i \in jobs : (i.ec = "ok" <=> i.by = "notify") /\ (i.ec = "ok" => ec[i.w] # "ok")
        /\ \A i \in jobs : (i.step # "unlink" => i.w \notin Linked) /\ (i.step = "deliver" => posted[i.w] = 0)
    BY CallOf
  <2>5. \A i, h \in jobs' : i.w = h.w /\ i.step = "deliver" /\ h.step = "deliver" => i = h
    BY <1>1, <2>1, <2>3, CallPairs, SMT
  <2>6. \A i, h \in jobs' : i.w = h.w /\ i.ec = "ok" /\ h.ec = "ok" => i = h
    BY <1>1, <2>1, CallPairs, SMT
  <2>7. ASSUME NEW i \in jobs'
        PROVE  /\ Waiting(i.w) /\ (i.by \in {"notify", "destroy"} => i.step # "unlink")
               /\ (i.step # "unlink" => i.w \notin Linked)
               /\ (i.step = "deliver" => done'[i.w] /\ posted[i.w] = 0)
               /\ (i.by \in {"stop", "self"} => i.w \in stopped) /\ (i.by = "destroy" => destroyed)
               /\ (i.ec = "ok" <=> i.by = "notify") /\ (i.ec = "ok" => ec[i.w] # "ok")
    <3>1. CASE i \in jobs BY <2>3, <2>4, <3>1
    <3>2. CASE i = k
      <4>1. /\ i.w = j.w /\ i.ec = j.ec /\ i.by = j.by /\ i.step = "deliver" BY <1>1, <3>2
      <4>2. /\ (j.by \in {"stop", "self"} => j.w \in stopped) /\ (j.by = "destroy" => destroyed)
            /\ (j.ec = "ok" <=> j.by = "notify") /\ (j.ec = "ok" => ec[j.w] # "ok")
        BY <2>4
      <4> QED BY <1>4, <1>5, <4>1, <4>2
    <3> QED BY <2>1, <3>1, <3>2
  <2>8. UNCHANGED <<posted, stopped, destroyed, ec>> /\ Linked' = Linked /\ \A v : Waiting(v)' <=> Waiting(v) BY <1>2
  <2> QED BY <2>5, <2>6, <2>7, <2>8 DEF CallsConsistent
<1>10. CompletionsConsistent'
  <2>1. \A v \in Waiters \ {j.w} : (\E i \in jobs' : i.w = v /\ i.step = "deliver")
                                     <=> (\E i \in jobs : i.w = v /\ i.step = "deliver")
    BY <1>1
  <2>2. \E i \in jobs' : i.w = j.w /\ i.step = "deliver" BY <1>1
  <2>3. /\ UNCHANGED <<posted, suspended, ec, res, apc, stopped, destroyed, cancelRequested, stopCb, didSuspend>>
        /\ \A v : Waiting(v)' <=> Waiting(v)
    BY <1>2
  <2>4. \A v \in Waiters : /\ done'[v] \/ suspended[v] => Waiting(v)
                           /\ done'[v] <=> posted[v] > 0 \/ \E i \in jobs' : i.w = v /\ i.step = "deliver"
    <3> TAKE v \in Waiters
    <3>1. CASE v = j.w BY <1>4, <1>5, <2>2, <3>1
    <3>2. CASE v # j.w
      <4>1. done'[v] = done[v] BY <1>4, <3>2
      <4>2. /\ done[v] \/ suspended[v] => Waiting(v)
            /\ done[v] <=> posted[v] > 0 \/ \E i \in jobs : i.w = v /\ i.step = "deliver"
        BY WaitOf
      <4> QED BY <2>1, <3>2, <4>1, <4>2
    <3> QED BY <3>1, <3>2
  <2>5. \A v \in Waiters : /\ posted[v] > 0 <=> ec[v] # "none"
                           /\ res[v] # "none" => apc[v] = "returned" \/ posted[v] > 0
                           /\ ec[v] = "aborted" => v \in stopped \/ destroyed
                           /\ cancelRequested[v] \/ stopCb[v] = "running" => v \in stopped
                           /\ apc[v] \in {"recheck", "cancel", "suspended"} => didSuspend[v]
    BY WaitOf
  <2> QED BY <2>3, <2>4, <2>5 DEF CompletionsConsistent
<1> QED BY <1>3, <1>6, <1>7, <1>8, <1>9, <1>10 DEF Waits

\* A call ends: it was not the first, or it has posted the resumption.
LEMMA RemovedJob ==
  ASSUME Waits, NEW j \in jobs, jobs' = jobs \ {j}
  PROVE  JobType(jobs') /\ j.w \in Waiters /\ Waiting(j.w) /\ (\A i \in jobs' : i \in jobs /\ i # j)
BY DEF Waits, Types, JobType, CallsConsistent

LEMMA ClaimLoses ==
  ASSUME Waits, NEW j \in jobs, Claim(j), done[j.w]
  PROVE  Waits'
<1>1. /\ jobs' = jobs \ {j} /\ j.step = "claim"
      /\ UNCHANGED <<serial, pending, waiters, destroyed, done, suspended, cancelRequested, ec, apc, didSuspend,
                     res, stopped, posted, notifies>>
      /\ \A v : Waiting(v)' <=> Waiting(v)
      /\ Linked' = Linked
  BY DEF Claim, Claims, Set, stateVars, corVars, Waiting, Linked
<1>2. JobType(jobs') /\ j.w \in Waiters /\ (\A i \in jobs' : i \in jobs /\ i # j) BY <1>1, RemovedJob
<1>3. stopCb' = stopCb \/ stopCb' = [stopCb EXCEPT ![j.w] = "gone"] BY DEF Claim, Claims, CallbackReturns, Set
<1>4. stopCb' \in [Waiters -> {"none", "set", "running", "gone"}]
  <2>1. stopCb \in [Waiters -> {"none", "set", "running", "gone"}] BY DEF Waits, Types
  <2> QED BY <1>3, <2>1
<1>5. \A v \in Waiters : stopCb'[v] = "running" => stopCb[v] = "running" BY <1>3 DEF Waits, Types
<1>6. Types' BY <1>1, <1>2, <1>4, SMT DEF Waits, Types
<1>7. \A v : (\E i \in jobs' : i.w = v /\ i.step = "deliver") <=> (\E i \in jobs : i.w = v /\ i.step = "deliver")
  BY <1>1
<1>8. ResumedOnce' BY <1>1 DEF Waits, ResumedOnce
<1>9. NeverForgotten'
  <2>1. posted[j.w] > 0 \/ \E i \in jobs' : i.w = j.w BY <1>2, <1>7, WaitOf
  <2> QED BY <1>1, <2>1 DEF Waits, NeverForgotten
<1>10. ListConsistent'
  <2>1. UNCHANGED <<waiters, done>> /\ Linked' = Linked /\ \A v : Waiting(v)' <=> Waiting(v) BY <1>1
  <2> QED BY <2>1 DEF Waits, ListConsistent
<1>11. CallsConsistent'
  <2>1. /\ UNCHANGED <<done, posted, stopped, destroyed, ec>> /\ Linked' = Linked
        /\ \A v : Waiting(v)' <=> Waiting(v)
    BY <1>1
  <2>2. \A i \in jobs' : /\ Waiting(i.w) /\ (i.by \in {"notify", "destroy"} => i.step # "unlink")
                         /\ (i.step # "unlink" => i.w \notin Linked)
                         /\ (i.step = "deliver" => done[i.w] /\ posted[i.w] = 0)
                         /\ (i.by \in {"stop", "self"} => i.w \in stopped) /\ (i.by = "destroy" => destroyed)
                         /\ (i.ec = "ok" <=> i.by = "notify") /\ (i.ec = "ok" => ec[i.w] # "ok")
    BY <1>2, CallOf
  <2>3. \A i, k \in jobs' : i.w = k.w => /\ (i.step = "deliver" /\ k.step = "deliver" => i = k)
                                         /\ (i.ec = "ok" /\ k.ec = "ok" => i = k)
    BY <1>2, CallPairs
  <2> QED BY <2>1, <2>2, <2>3 DEF CallsConsistent
<1>12. CompletionsConsistent'
  <2>1. /\ UNCHANGED <<done, posted, suspended, ec, res, apc, stopped, destroyed, cancelRequested, didSuspend>>
        /\ \A v : Waiting(v)' <=> Waiting(v)
    BY <1>1
  <2>2. \A v \in Waiters : /\ done[v] \/ suspended[v] => Waiting(v)
                           /\ done[v] <=> posted[v] > 0 \/ \E i \in jobs' : i.w = v /\ i.step = "deliver"
                           /\ posted[v] > 0 <=> ec[v] # "none"
                           /\ res[v] # "none" => apc[v] = "returned" \/ posted[v] > 0
                           /\ ec[v] = "aborted" => v \in stopped \/ destroyed
                           /\ cancelRequested[v] \/ stopCb[v] = "running" => v \in stopped
                           /\ apc[v] \in {"recheck", "cancel", "suspended"} => didSuspend[v]
    BY <1>7, WaitOf, SMT
  <2> QED BY <1>5, <2>1, <2>2 DEF CompletionsConsistent
<1> QED BY <1>6, <1>8, <1>9, <1>10, <1>11, <1>12 DEF Waits

LEMMA DeliverStep ==
  ASSUME Waits, NEW j \in jobs, Deliver(j)
  PROVE  Waits'
<1>1. /\ jobs' = jobs \ {j} /\ j.step = "deliver"
      /\ ec' = [ec EXCEPT ![j.w] = j.ec] /\ stopCb' = [stopCb EXCEPT ![j.w] = "gone"]
      /\ posted' = [posted EXCEPT ![j.w] = posted[j.w] + 1]
      /\ UNCHANGED <<serial, pending, waiters, destroyed, done, suspended, cancelRequested, apc, didSuspend, res,
                     stopped, notifies>>
      /\ \A v : Waiting(v)' <=> Waiting(v)
      /\ Linked' = Linked
  BY DEF Deliver, Set, stateVars, corVars, Waiting, Linked
<1>2. JobType(jobs') /\ j.w \in Waiters /\ Waiting(j.w) /\ (\A i \in jobs' : i \in jobs /\ i # j) BY <1>1, RemovedJob
<1>3. /\ done[j.w] /\ posted[j.w] = 0 /\ j.ec \in {"ok", "aborted"} /\ j.w \notin Linked
      /\ (j.ec = "aborted" => j.w \in stopped \/ destroyed)
  <2>1. done[j.w] /\ posted[j.w] = 0 /\ j.w \notin Linked BY <1>1, CallOf
  <2>2. j.ec \in {"ok", "aborted"} /\ j.by \in {"notify", "stop", "self", "destroy"} BY DEF Waits, Types, JobType
  <2>3. j.ec = "aborted" => j.w \in stopped \/ destroyed BY <2>2, CallOf
  <2> QED BY <2>1, <2>2, <2>3
<1>4. /\ ec'[j.w] = j.ec /\ posted'[j.w] = 1 /\ stopCb'[j.w] = "gone"
      /\ \A v \in Waiters \ {j.w} : ec'[v] = ec[v] /\ posted'[v] = posted[v] /\ stopCb'[v] = stopCb[v]
  BY <1>1, <1>2, <1>3, SMT DEF Waits, Types
<1>5. Types'
  <2>1. posted' \in [Waiters -> Nat] BY <1>1, <1>2, SMT DEF Waits, Types
  <2>2. ec' \in [Waiters -> {"none", "ok", "aborted"}] BY <1>1, <1>2, <1>3 DEF Waits, Types
  <2>3. stopCb' \in [Waiters -> {"none", "set", "running", "gone"}] BY <1>1, <1>2 DEF Waits, Types
  <2> QED BY <1>1, <1>2, <2>1, <2>2, <2>3, SMT DEF Waits, Types
<1>6. ResumedOnce' BY <1>1, <1>2, <1>4, SMT DEF Waits, ResumedOnce, Waiting
<1>7. NeverForgotten'
  <2>1. \A v \in Waiters \ {j.w} : (\E i \in jobs : i.w = v) => (\E i \in jobs' : i.w = v) BY <1>1
  <2> QED BY <1>1, <1>4, <2>1, SMT DEF Waits, NeverForgotten
<1>8. ListConsistent'
  <2>1. UNCHANGED <<waiters, done>> /\ Linked' = Linked /\ \A v : Waiting(v)' <=> Waiting(v) BY <1>1
  <2> QED BY <2>1 DEF Waits, ListConsistent
<1>9. CallsConsistent'
  <2>1. \A i \in jobs' : i.w \in Waiters BY <1>2 DEF JobType
  <2>2. \A i \in jobs' : i.step = "deliver" => i.w # j.w BY <1>1, <1>2, CallPairs
  <2>3. \A i \in jobs' : i.ec = "ok" /\ i.w = j.w => j.ec # "ok" BY <1>2, CallPairs
  <2>4. \A i \in jobs' : i.ec = "ok" => ec'[i.w] # "ok" BY <1>2, <1>4, <2>1, <2>3, CallOf
  <2>5. \A i \in jobs' : i.step = "deliver" => done'[i.w] /\ posted'[i.w] = 0
    <3>1. \A i \in jobs' : i.step = "deliver" => done[i.w] /\ posted[i.w] = 0 BY <1>2, CallOf
    <3>2. done' = done BY <1>1
    <3>3. \A i \in jobs' : i.step = "deliver" => posted'[i.w] = posted[i.w] BY <1>4, <2>1, <2>2
    <3> QED BY <3>1, <3>2, <3>3
  <2>6. UNCHANGED <<stopped, destroyed>> /\ Linked' = Linked /\ \A v : Waiting(v)' <=> Waiting(v) BY <1>1
  <2>7. \A i \in jobs' : /\ Waiting(i.w) /\ (i.by \in {"notify", "destroy"} => i.step # "unlink")
                         /\ (i.step # "unlink" => i.w \notin Linked)
                         /\ (i.by \in {"stop", "self"} => i.w \in stopped) /\ (i.by = "destroy" => destroyed)
                         /\ (i.ec = "ok" <=> i.by = "notify")
    BY <1>2, CallOf
  <2>8. \A i, k \in jobs' : i.w = k.w => /\ (i.step = "deliver" /\ k.step = "deliver" => i = k)
                                         /\ (i.ec = "ok" /\ k.ec = "ok" => i = k)
    BY <1>2, CallPairs
  <2> QED BY <2>4, <2>5, <2>6, <2>7, <2>8 DEF CallsConsistent
<1>10. CompletionsConsistent'
  <2>1. \A v \in Waiters \ {j.w} : (\E i \in jobs' : i.w = v /\ i.step = "deliver")
                                     <=> (\E i \in jobs : i.w = v /\ i.step = "deliver")
    BY <1>1
  <2>2. \A v \in Waiters \ {j.w} : ec'[v] = ec[v] /\ posted'[v] = posted[v] /\ stopCb'[v] = stopCb[v] BY <1>4
  <2> SUFFICES ASSUME NEW v \in Waiters
               PROVE  /\ done'[v] \/ suspended'[v] => Waiting(v)'
                      /\ done'[v] <=> posted'[v] > 0 \/ \E i \in jobs' : i.w = v /\ i.step = "deliver"
                      /\ posted'[v] > 0 <=> ec'[v] # "none"
                      /\ res'[v] # "none" => apc'[v] = "returned" \/ posted'[v] > 0
                      /\ ec'[v] = "aborted" => v \in stopped' \/ destroyed'
                      /\ cancelRequested'[v] \/ stopCb'[v] = "running" => v \in stopped'
                      /\ apc'[v] \in {"recheck", "cancel", "suspended"} => didSuspend'[v]
    BY DEF CompletionsConsistent
  <2>3. /\ UNCHANGED <<done, suspended, res, apc, stopped, destroyed, cancelRequested, didSuspend>>
        /\ Waiting(v)' <=> Waiting(v)
    BY <1>1
  <2>4. /\ done[v] \/ suspended[v] => Waiting(v)
        /\ done[v] <=> posted[v] > 0 \/ \E i \in jobs : i.w = v /\ i.step = "deliver"
        /\ posted[v] > 0 <=> ec[v] # "none"
        /\ res[v] # "none" => apc[v] = "returned" \/ posted[v] > 0
        /\ ec[v] = "aborted" => v \in stopped \/ destroyed
        /\ cancelRequested[v] \/ stopCb[v] = "running" => v \in stopped
        /\ apc[v] \in {"recheck", "cancel", "suspended"} => didSuspend[v]
    BY WaitOf
  <2>5. CASE v = j.w
    <3>1. done[v] /\ posted'[v] = 1 /\ ec'[v] = j.ec /\ stopCb'[v] = "gone" BY <1>3, <1>4, <2>5
    <3>2. v = j.w /\ j.ec # "none" /\ (j.ec = "aborted" => v \in stopped \/ destroyed) BY <1>3, <2>5
    <3>3. posted'[v] > 0 /\ ec'[v] # "none" /\ done'[v] /\ Waiting(v)' BY <2>3, <2>4, <3>1, <3>2, SMT
    <3>4. /\ ec'[v] = "aborted" => v \in stopped' \/ destroyed'
          /\ cancelRequested'[v] \/ stopCb'[v] = "running" => v \in stopped'
          /\ apc'[v] \in {"recheck", "cancel", "suspended"} => didSuspend'[v]
      BY <2>3, <2>4, <3>1, <3>2
    <3> QED BY <3>3, <3>4
  <2>6. CASE v # j.w
    <3>1. ec'[v] = ec[v] /\ posted'[v] = posted[v] /\ stopCb'[v] = stopCb[v] BY <2>2, <2>6
    <3>2. (\E i \in jobs' : i.w = v /\ i.step = "deliver") <=> (\E i \in jobs : i.w = v /\ i.step = "deliver")
      BY <2>1, <2>6
    <3> QED BY <2>3, <2>4, <3>1, <3>2
  <2> QED BY <2>5, <2>6
<1> QED BY <1>5, <1>6, <1>7, <1>8, <1>9, <1>10 DEF Waits

-----------------------------------------------------------------------------
\* What the account uses of finite sets and their sizes; SizesHold, below, has
\* it from FiniteSetTheorems.
Size(S) == Cardinality(S)
Finite(S) == IsFiniteSet(S)
Sizes == /\ Finite(Waiters) /\ Size({}) = 0
         /\ \A S : Finite(S) => Size(S) \in Nat
         /\ \A S, T : Finite(S) /\ T \subseteq S => Finite(T) /\ Size(T) <= Size(S)
         /\ \A S, x : Finite(S) => Size(S \cup {x}) = IF x \in S THEN Size(S) ELSE Size(S) + 1
         /\ \A S, x : Finite(S) /\ x \in S => Size(S \ {x}) = Size(S) - 1
         /\ \A S, T, f : Finite(T) /\ f \in [S -> T] /\ (\A i, j \in S : f[i] = f[j] => i = j) => Finite(S)



LEMMA NoneSize == ASSUME Sizes PROVE Size({}) = 0
BY DEF Sizes

LEMMA SizeType == ASSUME Sizes, NEW S, Finite(S) PROVE Size(S) \in Nat
BY DEF Sizes

LEMMA SubsetSize == ASSUME Sizes, NEW S, Finite(S), NEW T, T \subseteq S PROVE Finite(T) /\ Size(T) <= Size(S)
BY DEF Sizes

LEMMA AddedSize ==
  ASSUME Sizes, NEW S, Finite(S), NEW x
  PROVE  Size(S \cup {x}) = IF x \in S THEN Size(S) ELSE Size(S) + 1
BY DEF Sizes

LEMMA RemovedSize == ASSUME Sizes, NEW S, Finite(S), NEW x \in S PROVE Size(S \ {x}) = Size(S) - 1
BY DEF Sizes

LEMMA NamedFinite ==
  ASSUME Sizes, NEW S, NEW T, Finite(T), NEW f \in [S -> T], \A i, j \in S : f[i] = f[j] => i = j
  PROVE  Finite(S)
BY SMT DEF Sizes
-----------------------------------------------------------------------------
\* The account of the notifications: no more were delivered, are being
\* delivered or are pending than there were, and while the event lives each is
\* pending or goes with a wait of its own.
Cared == Delivered \cup Notified \cup EndedByStop
Accounted == /\ pending + Size(Delivered) + Size(OkJobs) <= notifies
             /\ ~destroyed => notifies <= pending + Size(Cared)

LEMMA CaredType ==
  ASSUME Types
  PROVE  Delivered \subseteq Waiters /\ Cared \subseteq Waiters
BY SMT DEF Types, JobType, Cared, Delivered, Notified, OkJobs, EndedByStop

LEMMA CaredTypePrime ==
  ASSUME Types'
  PROVE  Cared' \subseteq Waiters
BY SMT DEF Types, JobType, Cared, Delivered, Notified, OkJobs, EndedByStop

LEMMA AccountFinite ==
  ASSUME Waits, Sizes
  PROVE  /\ Finite(Delivered) /\ Finite(OkJobs) /\ Finite(Cared)
         /\ Size(Delivered) \in Nat /\ Size(OkJobs) \in Nat /\ Size(Cared) \in Nat
<1>1. Finite(Delivered) /\ Finite(Cared)
  BY CaredType, SubsetSize DEF Waits, Sizes
<1>2. Finite(OkJobs)
  <2> DEFINE f == [j \in OkJobs |-> j.w]
  <2>1. f \in [OkJobs -> Waiters] BY DEF Waits, Types, JobType, OkJobs
  <2>2. \A i, j \in OkJobs : f[i] = f[j] => i = j BY DEF Waits, CallsConsistent, OkJobs
  <2> HIDE DEF f
  <2> QED BY <2>1, <2>2, NamedFinite DEF Sizes
<1> QED BY <1>1, <1>2, SizeType

\* A step that moves no notification.
LEMMA QuietAccount ==
  ASSUME Waits, Types', Sizes, Accounted, Delivered' = Delivered, OkJobs' = OkJobs,
         ~destroyed' => ~destroyed /\ Cared \subseteq Cared', UNCHANGED <<pending, notifies>>
  PROVE  Accounted'
<1>1. pending' + Size(Delivered') + Size(OkJobs') <= notifies' BY DEF Accounted
<1>2. ASSUME ~destroyed' PROVE notifies' <= pending' + Size(Cared')
  <2>1. Size(Cared) <= Size(Cared') /\ Size(Cared') \in Nat /\ Size(Cared) \in Nat
    <3>1. Finite(Cared') BY CaredTypePrime, SubsetSize DEF Sizes
    <3> QED BY <1>2, <3>1, AccountFinite, SubsetSize, SizeType
  <2>2. notifies <= pending + Size(Cared) BY <1>2 DEF Accounted
  <2>3. pending \in Nat /\ notifies \in Nat BY SMT DEF Waits, Types
  <2> QED BY <2>1, <2>2, <2>3, SMT
<1> QED BY <1>1, <1>2 DEF Accounted

\* A wait takes a pending notification.
LEMMA TakenAccount ==
  ASSUME Waits, Sizes, Accounted, NEW w, w \notin Cared,
         Delivered' = Delivered \cup {w}, OkJobs' = OkJobs, Cared' = Cared \cup {w},
         pending > 0, pending' = pending - 1, UNCHANGED <<destroyed, notifies>>
  PROVE  Accounted'
<1>1. /\ Size(Delivered') = Size(Delivered) + 1
      /\ Size(Cared') = Size(Cared) + 1
  <2>1. w \notin Delivered BY DEF Cared
  <2> QED BY <2>1, AccountFinite, AddedSize
<1>2. Size(Delivered) \in Nat /\ Size(OkJobs) \in Nat /\ Size(Cared) \in Nat BY AccountFinite
<1>3. pending \in Nat /\ notifies \in Nat BY SMT DEF Waits, Types
<1> QED BY <1>1, <1>2, <1>3, SMT DEF Accounted

\* notify, when nobody waits and when it takes a waiter.
LEMMA CountedAccount ==
  ASSUME Waits, Sizes, Accounted, Delivered' = Delivered, OkJobs' = OkJobs, Cared' = Cared,
         pending' = pending + 1, notifies' = notifies + 1, UNCHANGED destroyed
  PROVE  Accounted'
<1>2. Size(Delivered) \in Nat /\ Size(OkJobs) \in Nat /\ Size(Cared) \in Nat BY AccountFinite
<1>3. pending \in Nat /\ notifies \in Nat BY SMT DEF Waits, Types
<1> QED BY <1>2, <1>3, SMT DEF Accounted

LEMMA PickedAccount ==
  ASSUME Waits, Sizes, Accounted, NEW w, w \notin Cared, NEW k,
         Delivered' = Delivered, OkJobs' = OkJobs \cup {k}, Cared' = Cared \cup {w},
         notifies' = notifies + 1, UNCHANGED <<pending, destroyed>>
  PROVE  Accounted'
<1>1. /\ Size(OkJobs') <= Size(OkJobs) + 1 /\ Size(OkJobs') \in Nat
      /\ Size(Cared') = Size(Cared) + 1
  <2>1. Size(OkJobs) \in Nat /\ Finite(OkJobs) /\ Finite(Cared) BY AccountFinite
  <2>2. Size(OkJobs \cup {k}) = IF k \in OkJobs THEN Size(OkJobs) ELSE Size(OkJobs) + 1
    BY <2>1, AddedSize
  <2>3. Size(Cared \cup {w}) = Size(Cared) + 1 BY <2>1, AddedSize
  <2> QED BY <2>1, <2>2, <2>3, SMT
<1>2. Size(Delivered) \in Nat /\ Size(OkJobs) \in Nat /\ Size(Cared) \in Nat BY AccountFinite
<1>3. pending \in Nat /\ notifies \in Nat BY SMT DEF Waits, Types
<1> QED BY <1>1, <1>2, <1>3, SMT DEF Accounted

\* A call that carries a notification goes a step on, ends without having
\* completed its waiter, or delivers.
LEMMA CallAccount ==
  ASSUME Waits, Types', Sizes, Accounted, NEW j \in OkJobs,
         \/ Delivered' = Delivered /\ OkJobs' = OkJobs \ {j}
         \/ \E k : Delivered' = Delivered /\ OkJobs' = (OkJobs \ {j}) \cup {k}
         \/ \E w : Delivered' = Delivered \cup {w} /\ OkJobs' = OkJobs \ {j},
         ~destroyed => Cared \subseteq Cared', UNCHANGED <<pending, destroyed, notifies>>
  PROVE  Accounted'
<1>1. /\ Finite(OkJobs \ {j}) /\ Size(OkJobs \ {j}) = Size(OkJobs) - 1
      /\ Finite(Delivered) /\ Size(OkJobs \ {j}) \in Nat
  <2>1. Finite(OkJobs) /\ Finite(Delivered) BY AccountFinite
  <2>2. Finite(OkJobs \ {j}) BY <2>1, SubsetSize
  <2> QED BY <2>1, <2>2, RemovedSize, SizeType
<1>2. /\ Size(Delivered) \in Nat /\ Size(OkJobs) \in Nat /\ Size(Cared) \in Nat
      /\ pending \in Nat /\ notifies \in Nat
  BY AccountFinite, SMT DEF Waits, Types
<1>3. Size(Delivered') + Size(OkJobs') <= Size(Delivered) + Size(OkJobs)
      /\ Size(Delivered') \in Nat /\ Size(OkJobs') \in Nat
  <2>1. CASE Delivered' = Delivered /\ OkJobs' = OkJobs \ {j} BY <1>1, <1>2, <2>1, SMT
  <2>2. CASE \E k : Delivered' = Delivered /\ OkJobs' = (OkJobs \ {j}) \cup {k}
    <3>1. PICK k : Delivered' = Delivered /\ OkJobs' = (OkJobs \ {j}) \cup {k} BY <2>2
    <3>2. Size(OkJobs') = IF k \in OkJobs \ {j} THEN Size(OkJobs \ {j})
                                 ELSE Size(OkJobs \ {j}) + 1
      BY <1>1, <3>1, AddedSize
    <3> QED BY <1>1, <1>2, <3>1, <3>2, SMT
  <2>3. CASE \E w : Delivered' = Delivered \cup {w} /\ OkJobs' = OkJobs \ {j}
    <3>1. PICK w : Delivered' = Delivered \cup {w} /\ OkJobs' = OkJobs \ {j} BY <2>3
    <3>2. Size(Delivered') = IF w \in Delivered THEN Size(Delivered) ELSE Size(Delivered) + 1
      BY <1>1, <3>1, AddedSize
    <3> QED BY <1>1, <1>2, <3>1, <3>2, SMT
  <2> QED BY <2>1, <2>2, <2>3
<1>4. ~destroyed => Size(Cared) <= Size(Cared')
  <2>1. Finite(Cared') BY CaredTypePrime, SubsetSize DEF Sizes
  <2> QED BY <2>1, SubsetSize
<1>5. Size(Cared') \in Nat BY CaredTypePrime, SubsetSize, SizeType DEF Sizes
<1>6. pending' + Size(Delivered') + Size(OkJobs') <= notifies' BY <1>2, <1>3, SMT DEF Accounted
<1>7. ~destroyed' => notifies' <= pending' + Size(Cared') BY <1>2, <1>4, <1>5, SMT DEF Accounted
<1> QED BY <1>6, <1>7 DEF Accounted
\* Only await_suspend of a wait that is not suspended, and the call that
\* delivers, change which waits have got a notification.
LEMMA SameDelivered ==
  ASSUME Waits,
         \A w \in Waiters : ec'[w] = ec[w],
         \A w \in Waiters : (res'[w] = "ok" /\ apc'[w] = "returned") <=> (res[w] = "ok" /\ apc[w] = "returned")
  PROVE  Delivered' = Delivered
BY DEF Delivered

\* What a step of await_suspend, of request_stop or of the callback leaves.
LEMMA SameJobsAccount ==
  ASSUME Waits, Types', Sizes, Accounted, Delivered' = Delivered, OkJobs' = OkJobs,
         stopped \subseteq stopped', UNCHANGED <<done, destroyed, pending, notifies>>
  PROVE  Accounted'
<1>1. Notified' = Notified /\ EndedByStop \subseteq EndedByStop' BY DEF Notified, EndedByStop
<1>2. Cared \subseteq Cared' BY <1>1 DEF Cared
<1> QED BY <1>2, QuietAccount

LEMMA AwaitAccount ==
  ASSUME Waits, Types', Sizes, Accounted, NEW w \in Waiters,
         \/ Begin(w) \/ InstallStopCallback(w) \/ LockDestroyed(w) \/ LockLink(w) \/ Publish(w)
         \/ SetDidSuspend(w) \/ Recheck(w) \/ SelfCancelled(w) \/ Resume(w) \/ RequestStop(w) \/ StopCallback(w)
  PROVE  Accounted'
<1> USE DEF Go, Set, ReturnNow, stateVars, waiterVars, corVars
<1>1. UNCHANGED <<done, destroyed, pending, notifies, ec>> /\ stopped \subseteq stopped'
  BY DEF Begin, InstallStopCallback, LockDestroyed, LockLink, Publish, SetDidSuspend, Recheck, SelfCancelled, Resume,
         RequestStop, StopCallback
<1>2. OkJobs' = OkJobs
  <2>1. \/ jobs' = jobs
        \/ jobs' = jobs \cup {Job(w, "aborted", "self", "unlink")}
        \/ jobs' = jobs \cup {Job(w, "aborted", "stop", "unlink")}
    BY DEF Begin, InstallStopCallback, LockDestroyed, LockLink, Publish, SetDidSuspend, Recheck, SelfCancelled,
           Resume, RequestStop, StopCallback
  <2> QED BY <2>1, SMT DEF OkJobs, Job
<1>3. \A v \in Waiters : (res'[v] = "ok" /\ apc'[v] = "returned") <=> (res[v] = "ok" /\ apc[v] = "returned")
  <2>1. CASE Begin(w) \/ LockDestroyed(w)
    <3>1. apc[w] # "returned" BY <2>1 DEF Begin, LockDestroyed
    <3>2. \/ res' = res /\ apc' = [apc EXCEPT ![w] = "install"]
          \/ res' = [res EXCEPT ![w] = "aborted"] /\ apc' = [apc EXCEPT ![w] = "returned"]
      BY <2>1 DEF Begin, LockDestroyed
    <3> QED BY <3>1, <3>2, SMT DEF Waits, Types
  <2>2. CASE Resume(w)
    <3>a. posted[w] > 0 BY <2>2 DEF Resume
    <3>b. apc[w] = "returned" => posted[w] = 0 BY DEF Waits, ResumedOnce
    <3>1. apc[w] # "returned" BY <3>a, <3>b, SMT
    <3> QED BY <2>2, <3>1 DEF Resume, Waits, Types
  <2>3. CASE ~(Begin(w) \/ LockDestroyed(w) \/ Resume(w))
    <3>1. res' = res BY <2>3 DEF InstallStopCallback, LockLink, Publish, SetDidSuspend, Recheck, SelfCancelled, RequestStop, StopCallback
    <3>2. apc' = apc \/ \E p \in {"lock", "publish", "flag", "recheck", "cancel", "suspended"} : apc' = [apc EXCEPT ![w] = p]
      BY <2>3 DEF InstallStopCallback, LockLink, Publish, SetDidSuspend, Recheck, SelfCancelled, RequestStop, StopCallback
    <3>3. apc' = apc \/ apc[w] # "returned"
      BY <2>3 DEF InstallStopCallback, LockLink, Publish, SetDidSuspend, Recheck, SelfCancelled, RequestStop, StopCallback
    <3> QED BY <3>1, <3>2, <3>3, SMT DEF Waits, Types
  <2> QED BY <2>1, <2>2, <2>3
<1>4. Delivered' = Delivered BY <1>1, <1>3, SameDelivered
<1> QED BY <1>1, <1>2, <1>4, SameJobsAccount

LEMMA TakeAccount ==
  ASSUME Waits, Types', Sizes, Accounted, NEW w \in Waiters, LockPending(w)
  PROVE  Accounted'
<1>1. /\ apc[w] = "lock" /\ apc' = [apc EXCEPT ![w] = "returned"] /\ res' = [res EXCEPT ![w] = "ok"]
      /\ UNCHANGED <<ec, done, stopped, jobs, destroyed, notifies>> /\ pending > 0 /\ pending' = pending - 1
  BY DEF LockPending, Go, Set, ReturnNow, HasPending
<1>2. ~done[w] /\ ec[w] = "none" /\ \A j \in jobs : j.w # w BY <1>1, Unknown DEF Waiting
<1>3. OkJobs' = OkJobs /\ Notified' = Notified BY <1>1 DEF OkJobs, Notified
<1>4. Delivered' = Delivered \cup {w} BY <1>1, SMT DEF Delivered, Waits, Types
<1>5. w \notin Cared BY <1>1, <1>2 DEF Cared, Delivered, Notified, OkJobs, EndedByStop
<1>6. EndedByStop' = EndedByStop BY <1>1, <1>2, <1>4 DEF EndedByStop
<1>7. Cared' = Cared \cup {w} BY <1>3, <1>4, <1>6 DEF Cared
<1> QED BY <1>1, <1>3, <1>4, <1>5, <1>7, TakenAccount

LEMMA NotifyAccount ==
  ASSUME Waits, Sizes, Accounted, Notify
  PROVE  Accounted'
<1>1. UNCHANGED <<ec, res, apc, done, stopped, destroyed>> /\ notifies' = notifies + 1
  BY DEF Notify, waiterVars, corVars
<1>2. Delivered' = Delivered /\ EndedByStop' = EndedByStop BY <1>1 DEF Delivered, EndedByStop
<1>3. CASE waiters = <<>>
  <2>1. pending' = pending + 1 /\ jobs' = jobs BY <1>3 DEF Notify, Accumulate
  <2>2. OkJobs' = OkJobs /\ Notified' = Notified BY <2>1 DEF OkJobs, Notified
  <2>3. Cared' = Cared BY <1>2, <2>2 DEF Cared
  <2> QED BY <1>1, <1>2, <2>1, <2>2, <2>3, CountedAccount
<1>4. CASE waiters # <<>>
  <2> DEFINE w == Head(waiters)
             k == Job(w, "ok", "notify", "claim")
  <2>1. jobs' = jobs \cup {k} /\ pending' = pending BY <1>4 DEF Notify
  <2>2. waiters \in Seq(Waiters) /\ Distinct(waiters) BY DEF Waits, Types, ListConsistent, Distinct
  <2>3. w \in Linked /\ w \in Waiters BY <1>4, <2>2, ListForm, Popped
  <2>4. k.w = w /\ k.ec = "ok" BY DEF Job
  <2> HIDE DEF k, w
  <2>5. Waiting(w) /\ ~done[w] BY <2>3 DEF Waits, ListConsistent
  <2>6. ec[w] = "none" BY <2>3, <2>5, WaitOf
  <2>7. \A j \in jobs : j.ec = "ok" => j.w # w BY <2>3, CallOf
  <2>8. OkJobs' = OkJobs \cup {k} BY <2>1, <2>4 DEF OkJobs
  <2>9. Notified' = Notified \cup {w} BY <2>4, <2>8 DEF Notified
  <2>10. w \notin Cared BY <2>5, <2>6, <2>7 DEF Cared, Delivered, Notified, OkJobs, EndedByStop, Waiting
  <2>11. Cared' = Cared \cup {w} BY <1>2, <2>9 DEF Cared
  <2> QED BY <1>1, <1>2, <2>1, <2>8, <2>10, <2>11, PickedAccount
<1> QED BY <1>3, <1>4

LEMMA DestroyAccount ==
  ASSUME Waits, Types', Sizes, Accounted, Destroy
  PROVE  Accounted'
<1>1. UNCHANGED <<ec, res, apc, pending, notifies>> /\ destroyed' = TRUE /\ jobs' = jobs \cup AbortAll
  BY DEF Destroy, waiterVars, corVars
<1>2. Delivered' = Delivered BY <1>1 DEF Delivered
<1>3. OkJobs' = OkJobs BY <1>1, SMT DEF OkJobs, AbortAll, Job
<1> QED BY <1>1, <1>2, <1>3, QuietAccount
LEMMA UnlinkAccount ==
  ASSUME Waits, Types', Sizes, Accounted, NEW j \in jobs, Unlink(j)
  PROVE  Accounted'
<1>1. PICK k : k.ec = j.ec /\ jobs' = (jobs \ {j}) \cup {k} BY ReplacedJob DEF Unlink
<1>2. UNCHANGED <<ec, res, apc, done, stopped, pending, destroyed, notifies>> /\ j.step = "unlink"
  BY DEF Unlink, waiterVars, corVars
<1>3. j.ec # "ok" BY <1>2, CallOf
<1>4. Delivered' = Delivered BY <1>2 DEF Delivered
<1>5. OkJobs' = OkJobs BY <1>1, <1>3 DEF OkJobs
<1> QED BY <1>2, <1>4, <1>5, SameJobsAccount

\* A call that was not the first carries its notification away: then somebody
\* else has completed the wait, as aborted, and a stop request was the cause.
LEMMA ClaimAccount ==
  ASSUME Waits, Types', Sizes, Accounted, NEW j \in jobs, Claim(j)
  PROVE  Accounted'
<1>1. UNCHANGED <<ec, res, apc, stopped, pending, destroyed, notifies>> /\ j.step = "claim"
  BY DEF Claim, stateVars, corVars
<1>2. Delivered' = Delivered BY <1>1 DEF Delivered
<1>3. j.w \in Waiters BY DEF Waits, Types, JobType
<1>4. CASE ~done[j.w]
  <2>1. PICK k : k.w = j.w /\ k.ec = j.ec /\ jobs' = (jobs \ {j}) \cup {k} BY <1>4, ReplacedJob DEF Claim, Claims
  <2>2. done' = [done EXCEPT ![j.w] = TRUE] BY <1>4 DEF Claim, Claims, Set
  <2>3. EndedByStop \subseteq EndedByStop' BY <1>1, <1>2, <2>2 DEF EndedByStop, Waits, Types
  <2>4. OkJobs' = IF j.ec = "ok" THEN (OkJobs \ {j}) \cup {k} ELSE OkJobs BY <2>1 DEF OkJobs
  <2>5. Notified \subseteq Notified' BY <2>1, <2>4 DEF Notified, OkJobs
  <2>6. Cared \subseteq Cared' BY <1>2, <2>3, <2>5 DEF Cared
  <2>7. CASE j.ec = "ok"
    <3>1. j \in OkJobs BY <2>7 DEF OkJobs
    <3>2. \E h : Delivered' = Delivered /\ OkJobs' = (OkJobs \ {j}) \cup {h} BY <1>2, <2>4, <2>7
    <3> QED BY <1>1, <2>6, <3>1, <3>2, CallAccount
  <2>8. CASE j.ec # "ok" BY <1>1, <1>2, <2>4, <2>6, <2>8, QuietAccount
  <2> QED BY <2>7, <2>8
<1>5. CASE done[j.w]
  <2>1. jobs' = jobs \ {j} /\ done' = done BY <1>5 DEF Claim, Claims
  <2>2. EndedByStop' = EndedByStop BY <1>1, <1>2, <2>1 DEF EndedByStop
  <2>3. CASE j.ec = "ok"
    <3>1. j \in OkJobs /\ OkJobs' = OkJobs \ {j} BY <2>1, <2>3 DEF OkJobs
    <3>2. Notified \subseteq Notified' \cup {j.w} BY <3>1 DEF Notified
    <3>3. ASSUME ~destroyed PROVE j.w \in Cared'
      <4>1. ec[j.w] # "ok" /\ Waiting(j.w) BY <2>3, CallOf
      <4>2. j.w \in stopped
        <5>1. CASE posted[j.w] > 0
          <6>1. ec[j.w] = "aborted" BY <1>3, <4>1, <5>1, SMT DEF Waits, CompletionsConsistent, Types
          <6> QED BY <1>3, <3>3, <6>1, WaitOf
        <5>2. CASE \E i \in jobs : i.w = j.w /\ i.step = "deliver"
          <6>1. PICK i \in jobs : i.w = j.w /\ i.step = "deliver" BY <5>2
          <6>2. i.ec # "ok" BY <1>1, <2>3, <6>1, CallPairs
          <6>3. i.by \in {"notify", "stop", "self", "destroy"} BY DEF Waits, Types, JobType
          <6>4. i.by # "notify" /\ i.by # "destroy" BY <3>3, <6>2, CallOf
          <6> QED BY <6>1, <6>3, <6>4, CallOf
        <5> QED BY <1>3, <1>5, <5>1, <5>2, WaitOf
      <4>3. j.w \notin Delivered BY <4>1 DEF Delivered, Waiting
      <4>4. j.w \in EndedByStop BY <1>5, <4>2, <4>3 DEF EndedByStop
      <4> QED BY <2>2, <4>4 DEF Cared
    <3>4. ~destroyed => Cared \subseteq Cared' BY <1>2, <2>2, <3>2, <3>3 DEF Cared
    <3> QED BY <1>1, <1>2, <3>1, <3>4, CallAccount
  <2>4. CASE j.ec # "ok"
    <3>1. OkJobs' = OkJobs BY <2>1, <2>4, SMT DEF OkJobs
    <3> QED BY <1>1, <1>2, <2>1, <3>1, SameJobsAccount
  <2> QED BY <2>3, <2>4
<1> QED BY <1>4, <1>5

LEMMA DeliverAccount ==
  ASSUME Waits, Types', Sizes, Accounted, NEW j \in jobs, Deliver(j)
  PROVE  Accounted'
<1>1. /\ UNCHANGED <<res, apc, done, stopped, pending, destroyed, notifies>> /\ j.step = "deliver"
      /\ jobs' = jobs \ {j} /\ ec' = [ec EXCEPT ![j.w] = j.ec]
  BY DEF Deliver, Set, stateVars, corVars
<1>2. j.w \in Waiters BY DEF Waits, Types, JobType
<1>3. CASE j.ec = "ok"
  <2>1. j \in OkJobs /\ OkJobs' = OkJobs \ {j} BY <1>1, <1>3 DEF OkJobs
  <2>2. Delivered' = Delivered \cup {j.w} BY <1>1, <1>2, <1>3, SMT DEF Delivered, Waits, Types
  <2>3. Notified \subseteq Notified' \cup {j.w} BY <2>1 DEF Notified
  <2>4. EndedByStop \subseteq EndedByStop' \cup {j.w} BY <1>1, <2>2 DEF EndedByStop
  <2>5. Cared \subseteq Cared' BY <2>2, <2>3, <2>4 DEF Cared
  <2>6. \E w : Delivered' = Delivered \cup {w} /\ OkJobs' = OkJobs \ {j} BY <2>1, <2>2
  <2> QED BY <1>1, <2>1, <2>5, <2>6, CallAccount
<1>4. CASE j.ec # "ok"
  <2>1. posted[j.w] = 0 BY <1>1, CallOf
  <2>2. ec[j.w] = "none" BY <1>2, <2>1, WaitOf, SMT
  <2>3. ec'[j.w] # "ok" /\ \A v \in Waiters \ {j.w} : ec'[v] = ec[v] BY <1>1, <1>2, <1>4, SMT DEF Waits, Types
  <2>4. Delivered' = Delivered BY <1>1, <2>2, <2>3 DEF Delivered
  <2>5. OkJobs' = OkJobs BY <1>1, <1>4 DEF OkJobs
  <2> QED BY <1>1, <2>4, <2>5, SameJobsAccount
<1> QED BY <1>3, <1>4

-----------------------------------------------------------------------------
LEMMA EventInit ==
  ASSUME Init, EventAssumption, Sizes
  PROVE  Waits /\ ResultIsCompletion /\ Accounted
<1> USE DEF Init, All
<1>1. jobs = {} /\ Linked = {} BY SMT DEF Linked
<1>2. Types
  <2>1. waiters \in Seq(Waiters) /\ notifies \in 0..MaxNotifies /\ JobType(jobs) BY <1>1, SMT DEF JobType, EventAssumption
  <2>2. /\ done \in [Waiters -> BOOLEAN] /\ suspended \in [Waiters -> BOOLEAN]
        /\ cancelRequested \in [Waiters -> BOOLEAN] /\ didSuspend \in [Waiters -> BOOLEAN]
    OBVIOUS
  <2>3. ec \in [Waiters -> {"none", "ok", "aborted"}] /\ res \in [Waiters -> {"none", "ok", "aborted"}]
    OBVIOUS
  <2>4. /\ stopCb \in [Waiters -> {"none", "set", "running", "gone"}] /\ posted \in [Waiters -> Nat]
        /\ apc \in [Waiters -> {"start", "install", "lock", "publish", "flag", "recheck", "cancel",
                                "suspended", "returned"}]
    OBVIOUS
  <2>5. serial \in BOOLEAN /\ destroyed \in BOOLEAN /\ pending \in Nat /\ stopped \subseteq Waiters OBVIOUS
  <2> QED BY <2>1, <2>2, <2>3, <2>4, <2>5 DEF Types
<1>3. ResumedOnce BY SMT DEF ResumedOnce
<1>4. NeverForgotten BY DEF NeverForgotten, Waiting
<1>5. ListConsistent BY <1>1, SMT DEF ListConsistent
<1>6. CallsConsistent BY <1>1 DEF CallsConsistent
<1>7. CompletionsConsistent BY <1>1, SMT DEF CompletionsConsistent
<1>8. ResultIsCompletion BY DEF ResultIsCompletion
<1>9. Delivered = {} /\ OkJobs = {} BY DEF Delivered, OkJobs
<1>10. Accounted
  <2>1. Size(Delivered) = 0 /\ Size(OkJobs) = 0 BY <1>9, NoneSize
  <2>2. Waits BY <1>2, <1>3, <1>4, <1>5, <1>6, <1>7 DEF Waits
  <2>3. Size(Cared) \in Nat BY <2>2, AccountFinite
  <2> QED BY <2>1, <2>3, SMT DEF Accounted
<1> QED BY <1>2, <1>3, <1>4, <1>5, <1>6, <1>7, <1>8, <1>10 DEF Waits
\* What complete stored is what await_resume returns, on one thread.
LEMMA ResultStep ==
  ASSUME Waits, ResultIsCompletion, Next
  PROVE  ResultIsCompletion'
<1> USE DEF Go, Set, ReturnNow, stateVars, waiterVars, corVars
<1>1. serial' = serial
  BY DEF Next, Await, Call, Begin, InstallStopCallback, LockDestroyed, LockPending, LockLink, Publish, SetDidSuspend,
         Recheck, SelfCancelled, Resume, RequestStop, StopCallback, Unlink, Claim, Deliver, Notify, Destroy
<1>2. ASSUME NEW w \in Waiters, Begin(w) \/ LockDestroyed(w) \/ LockPending(w) PROVE ResultIsCompletion'
  <2>1. ec[w] = "none" BY <1>2, Unknown DEF Waiting, Begin, LockDestroyed, LockPending
  <2>2. /\ ec' = ec
        /\ res' = res \/ res' = [res EXCEPT ![w] = "ok"] \/ res' = [res EXCEPT ![w] = "aborted"]
    BY <1>2 DEF Begin, LockDestroyed, LockPending
  <2> QED BY <1>1, <2>1, <2>2 DEF ResultIsCompletion, Waits, Types
<1>3. ASSUME NEW w \in Waiters, Resume(w) PROVE ResultIsCompletion'
  <2>1. ec' = ec /\ (serial => apc[w] = "suspended") /\ res' = [res EXCEPT ![w] = IF didSuspend[w] THEN ec[w] ELSE "ok"]
    BY <1>3 DEF Resume
  <2>2. serial => didSuspend[w] BY <2>1, WaitOf
  <2> QED BY <1>1, <2>1, <2>2 DEF ResultIsCompletion, Waits, Types
<1>4. ASSUME NEW j \in jobs, Deliver(j) PROVE ResultIsCompletion'
  <2>1. res' = res /\ ec' = [ec EXCEPT ![j.w] = j.ec] /\ j.step = "deliver" BY <1>4 DEF Deliver
  <2>2. j.w \in Waiters BY DEF Waits, Types, JobType
  <2>3. posted[j.w] = 0 /\ Waiting(j.w) BY <2>1, CallOf
  <2>4. res[j.w] = "none" BY <2>2, <2>3, WaitOf, SMT DEF Waiting
  <2> QED BY <1>1, <2>1, <2>2, <2>4 DEF ResultIsCompletion, Waits, Types
<1>5. ASSUME UNCHANGED <<ec, res>> PROVE ResultIsCompletion' BY <1>1, <1>5 DEF ResultIsCompletion
<1>6. ASSUME NEW w \in Waiters, InstallStopCallback(w) \/ LockLink(w) \/ Publish(w) \/ SetDidSuspend(w) \/ Recheck(w)
               \/ SelfCancelled(w) \/ RequestStop(w) \/ StopCallback(w)
      PROVE  UNCHANGED <<ec, res>>
  BY <1>6 DEF InstallStopCallback, LockLink, Publish, SetDidSuspend, Recheck, SelfCancelled, RequestStop, StopCallback
<1>7. ASSUME NEW j \in jobs, Unlink(j) \/ Claim(j) PROVE UNCHANGED <<ec, res>> BY <1>7 DEF Unlink, Claim
<1>8. ASSUME Notify \/ Destroy PROVE UNCHANGED <<ec, res>> BY <1>8 DEF Notify, Destroy
<1> QED BY <1>2, <1>3, <1>4, <1>5, <1>6, <1>7, <1>8 DEF Next, Await, Call

LEMMA EventStep ==
  ASSUME Waits, ResultIsCompletion, Accounted, EventAssumption, Sizes, [Next]_vars
  PROVE  Waits' /\ ResultIsCompletion' /\ Accounted'
<1>1. CASE UNCHANGED vars
  <2> USE <1>1 DEF vars, stateVars, waiterVars, corVars
  <2>1. Types' BY SMT DEF Waits, Types
  <2>2. Delivered' = Delivered /\ OkJobs' = OkJobs BY DEF Delivered, OkJobs
  <2>3. ResultIsCompletion' BY DEF ResultIsCompletion
  <2>4. Accounted' BY <2>1, <2>2, SameJobsAccount
  <2>5. Waits' BY <2>1, StopStep DEF Waits, CompletionsConsistent
  <2> QED BY <2>3, <2>4, <2>5
<1>2. ASSUME NEW w \in Waiters,
             \/ Begin(w) \/ InstallStopCallback(w) \/ LockDestroyed(w) \/ LockLink(w) \/ Publish(w)
             \/ SetDidSuspend(w) \/ Recheck(w) \/ SelfCancelled(w) \/ Resume(w) \/ RequestStop(w) \/ StopCallback(w)
      PROVE  Waits' /\ Accounted'
  <2>1. Waits'
    BY <1>2, BeginStep, InstallStep, LockReturnStep, LinkStep, PublishStep, RecheckStep, ResumeStep, RequestStopStep,
       StopCallbackStep
  <2> QED BY <1>2, <2>1, AwaitAccount DEF Waits
<1>3. ASSUME NEW w \in Waiters, LockPending(w) PROVE Waits' /\ Accounted'
  <2>1. Waits' BY <1>3, LockReturnStep
  <2> QED BY <1>3, <2>1, TakeAccount DEF Waits
<1>4. ASSUME NEW j \in jobs, Call(j) PROVE Waits' /\ Accounted'
  <2>1. Waits' BY <1>4, UnlinkStep, ClaimWins, ClaimLoses, DeliverStep DEF Call
  <2> QED BY <1>4, <2>1, UnlinkAccount, ClaimAccount, DeliverAccount DEF Call, Waits
<1>5. ASSUME Notify PROVE Waits' /\ Accounted' BY <1>5, NotifyStep, NotifyAccount
<1>6. ASSUME Destroy PROVE Waits' /\ Accounted'
  <2>1. Waits' BY <1>6, DestroyStep
  <2> QED BY <1>6, <2>1, DestroyAccount DEF Waits
<1>7. ASSUME Next PROVE Waits' /\ Accounted' BY <1>2, <1>3, <1>4, <1>5, <1>6, <1>7 DEF Next, Await
<1> QED BY <1>1, <1>7, ResultStep

\* "No spurious wakeups" and "notifications are not lost" from the account.
LEMMA AccountMeans ==
  ASSUME Waits, ResultIsCompletion, Accounted, Sizes
  PROVE  NotificationsConserved
<1>1. NoSpuriousWakeup
  <2> SUFFICES ASSUME serial PROVE Size(Oks) + pending <= notifies BY DEF NoSpuriousWakeup, Size
  <2>1. Oks \subseteq Delivered
    <3> SUFFICES ASSUME NEW w \in Waiters, res[w] = "ok" PROVE w \in Delivered BY DEF Oks
    <3>1. apc[w] = "returned" \/ ec[w] # "none" BY WaitOf
    <3> QED BY <3>1 DEF Delivered, ResultIsCompletion
  <2>2. /\ Finite(Delivered) /\ Size(Delivered) \in Nat /\ Size(OkJobs) \in Nat
    BY AccountFinite
  <2>3. Finite(Oks) /\ Size(Oks) <= Size(Delivered) BY <2>1, <2>2, SubsetSize
  <2>4. Size(Oks) \in Nat BY <2>3, SizeType
  <2> QED BY <2>2, <2>3, <2>4, SMT DEF Accounted, Waits, Types
<1> QED BY <1>1 DEF NotificationsConserved, Accounted, Cared, Size
-----------------------------------------------------------------------------
\* The lookup.
Resolves == RS!TypeOK /\ RS!ResolvedOnce /\ RS!OneWinner

LEMMA ResolverInit ==
  ASSUME RS!Init
  PROVE  Resolves
<1> USE DEF RS!Init
<1>1. RS!TypeOK
  <2>1. {stored, answer, seen} \subseteq RS!Results /\ resumes \in Nat BY DEF RS!Results
  <2> QED BY <2>1 DEF RS!TypeOK
<1>2. RS!ResolvedOnce BY SMT DEF RS!ResolvedOnce
<1>3. RS!OneWinner BY SMT DEF RS!OneWinner
<1> QED BY <1>1, <1>2, <1>3 DEF Resolves

LEMMA ResolverStep ==
  ASSUME Resolves, [RS!Next]_resolveVars
  PROVE  Resolves'
<1> USE DEF Resolves, RS!TypeOK, RS!ResolvedOnce, RS!OneWinner, RS!Results, RS!Deliver
<1>1. CASE UNCHANGED resolveVars BY <1>1, SMT DEF resolveVars
<1>2. CASE RS!Begin
  <2>1. CASE rstopped BY <1>2, <2>1, SMT DEF RS!Begin
  <2>2. CASE ~rstopped BY <1>2, <2>2 DEF RS!Begin
  <2> QED BY <2>1, <2>2
<1>3. CASE RS!InstallCallback
  <2>1. CASE rstopped BY <1>3, <2>1, SMT DEF RS!InstallCallback
  <2>2. CASE ~rstopped BY <1>3, <2>2 DEF RS!InstallCallback
  <2> QED BY <2>1, <2>2
<1>4. CASE RS!Dispatch BY <1>4 DEF RS!Dispatch
<1>5. CASE RS!RequestStop BY <1>5 DEF RS!RequestStop
<1>6. CASE RS!CallbackClaims BY <1>6, SMT DEF RS!CallbackClaims
<1>7. CASE RS!CallbackDelivers BY <1>7, SMT DEF RS!CallbackDelivers
<1>8. CASE RS!Lookup BY <1>8 DEF RS!Lookup
<1>9. CASE RS!WorkerClaims BY <1>9, SMT DEF RS!WorkerClaims, RS!WorkerWins
<1>10. CASE RS!WorkerDelivers BY <1>10, SMT DEF RS!WorkerDelivers
<1>11. CASE RS!Resume BY <1>11, SMT DEF RS!Resume, RS!Scheduled
<1> QED BY <1>1, <1>2, <1>3, <1>4, <1>5, <1>6, <1>7, <1>8, <1>9, <1>10, <1>11
        DEF RS!Next, RS!Await, RS!Stopper, RS!Worker

LEMMA LookupMeans ==
  ASSUME Resolves
  PROVE  RS!ResultHasCause
BY DEF Resolves, RS!TypeOK, RS!Results, RS!OneWinner, RS!ResultHasCause
-----------------------------------------------------------------------------
\* FiniteSetTheorems brings a Cardinality and an IsFiniteSet of its own, so
\* those of the model are first put in terms of their definitions.
LEMMA SizeForm ==
  ASSUME NEW S
  PROVE  /\ Size(S) = LET CS[T \in SUBSET S] == IF T = {} THEN 0 ELSE 1 + CS[T \ {CHOOSE x : x \in T}]
                      IN CS[S]
         /\ Finite(S) <=> \E q \in Seq(S) : \A s \in S : \E n \in 1..Len(q) : q[n] = s
BY DEF Size, Finite, Cardinality, IsFiniteSet

LEMMA WaitersFinite == Finite(Waiters)
BY EventAssumption DEF Finite

LOCAL INSTANCE FiniteSetTheorems

LEMMA SizeIsCardinality ==
  ASSUME NEW S
  PROVE  Size(S) = Cardinality(S) /\ (Finite(S) <=> IsFiniteSet(S))
BY SizeForm DEF Cardinality, IsFiniteSet

LEMMA SizesHold == Sizes
<1>1. Size({}) = 0 BY SizeIsCardinality, FS_EmptySet
<1>2. ASSUME NEW S, Finite(S) PROVE Size(S) \in Nat BY <1>2, SizeIsCardinality, FS_CardinalityType
<1>3. ASSUME NEW S, NEW T, Finite(S), T \subseteq S PROVE Finite(T) /\ Size(T) <= Size(S)
  BY <1>3, SizeIsCardinality, FS_Subset, SMT
<1>4. ASSUME NEW S, NEW x, Finite(S) PROVE Size(S \cup {x}) = IF x \in S THEN Size(S) ELSE Size(S) + 1
  BY <1>4, SizeIsCardinality, FS_AddElement, SMT
<1>5. ASSUME NEW S, NEW x, Finite(S), x \in S PROVE Size(S \ {x}) = Size(S) - 1
  BY <1>5, SizeIsCardinality, FS_RemoveElement
<1>6. ASSUME NEW S, NEW T, NEW f, Finite(T), f \in [S -> T], \A i, j \in S : f[i] = f[j] => i = j
      PROVE  Finite(S)
  <2>1. f \in Injection(S, T) BY <1>6 DEF Injection, IsInjective
  <2> QED BY <1>6, <2>1, SizeIsCardinality, FS_Injection
<1> QED BY <1>1, <1>2, <1>3, <1>4, <1>5, <1>6, WaitersFinite, SMT DEF Sizes
-----------------------------------------------------------------------------
\* Both, as the run has them.
Awaits == Waits /\ ResultIsCompletion /\ Accounted /\ Resolves

LEMMA AwaitsInvariant == MCSpec => []Awaits
<1>1. MCInit => Awaits BY EventInit, ResolverInit, EventAssumption, SizesHold DEF MCInit, Awaits
<1>2. Awaits /\ [MCNext]_<<vars, resolveVars>> => Awaits'
  <2> SUFFICES ASSUME Awaits, [MCNext]_<<vars, resolveVars>> PROVE Awaits' OBVIOUS
  <2>1. [Next]_vars /\ [RS!Next]_resolveVars BY DEF MCNext
  <2> QED BY <2>1, EventStep, ResolverStep, EventAssumption, SizesHold DEF Awaits
<1> QED BY <1>1, <1>2, PTL DEF MCSpec

\* condition_event: a waiter that suspends is in the list, or a call is
\* completing it, until its resumption is posted, once; and one of the calls
\* that race for it wins.  resolver: the answer and the stop request race for
\* one resumption.
THEOREM AwaitersInvariant == MCSpec => []AwaitersConsistent
<1>1. Awaits => AwaitersConsistent BY TypesFlat DEF Awaits, Waits, Resolves, AwaitersConsistent, WaitersConsistent
<1> QED BY <1>1, AwaitsInvariant, PTL

\* "Notifications are not lost" and "no spurious wakeups" (condition_event.hpp):
\* every notification is pending, delivered or being delivered, or goes with a
\* wait of its own that a stop request has ended; and none is invented.
THEOREM NotificationsInvariant == MCSpec => []NotificationsConserved
<1>1. Awaits => NotificationsConserved BY AccountMeans, SizesHold DEF Awaits
<1> QED BY <1>1, AwaitsInvariant, PTL

\* async_wait returns what complete decided, async_resolve what getaddrinfo
\* answered, or operation_aborted if a stop was requested.
THEOREM AwaitedResultInvariant == MCSpec => []AwaitedResult
<1>1. Awaits => AwaitedResult BY LookupMeans DEF Awaits, AwaitedResult
<1> QED BY <1>1, AwaitsInvariant, PTL
=============================================================================
