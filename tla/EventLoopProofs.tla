-------------------------- MODULE EventLoopProofs --------------------------
(***************************************************************************)
(* The event loop for every number of threads, callbacks and guards: no    *)
(* posted callback is lost, run twice or overtaken, and there is one wake  *)
(* token.                                                                  *)
(***************************************************************************)
EXTENDS EventLoop, FiniteSetTheorems, SequenceTheorems, TLAPS

-----------------------------------------------------------------------------
\* What posted_queue keeps of its callbacks: e has run, w waits, o was posted.
Once(w) == \A i, j \in DOMAIN w : w[i] \in Tasks /\ w[i] = w[j] => i = j
Accounted(e, w, o) ==
  /\ e \in Seq(Tasks) /\ o \in Seq(Tasks) /\ w \in Seq(Tasks \cup Reposters)
  /\ NoRepeats(o) /\ NoRepeats(e) /\ Once(w)
  /\ Elements(e) \cap Elements(w) = {}
  /\ Elements(o) = Elements(e) \cup (Elements(w) \cap Tasks)

Before(f, g, o) == \E i, j \in DOMAIN o : i < j /\ o[i] = f /\ o[j] = g
RanFirst(e, o) == \A i \in DOMAIN e : i \in DOMAIN o /\ e[i] = o[i]
InLine(w, o) == \A i, j \in DOMAIN w : i < j /\ w[i] \in Tasks /\ w[j] \in Tasks
                                         => Before(w[i], w[j], o)

USE Zenon

\* push_back.
LEMMA AppendFacts ==
  ASSUME NEW S, NEW s \in Seq(S), NEW f \in S
  PROVE  /\ Append(s, f) \in Seq(S) /\ DOMAIN Append(s, f) = 1..(Len(s) + 1)
         /\ Len(s) \in Nat /\ DOMAIN s = 1..Len(s) /\ Append(s, f)[Len(s) + 1] = f
         /\ \A i \in DOMAIN s : i \in DOMAIN Append(s, f) /\ Append(s, f)[i] = s[i]
         /\ \A i \in DOMAIN Append(s, f) : i \in DOMAIN s \/ i = Len(s) + 1
         /\ Elements(Append(s, f)) = Elements(s) \cup {f}
<1> DEFINE t == Append(s, f)
<1>1. /\ t \in Seq(S) /\ DOMAIN t = 1..(Len(s) + 1) /\ DOMAIN s = 1..Len(s)
      /\ Len(s) \in Nat /\ t[Len(s) + 1] = f
      /\ \A i \in 1..Len(s) : t[i] = s[i]
  BY SMT
<1> HIDE DEF t
<1>2. \A i \in DOMAIN t : i \in DOMAIN s \/ i = Len(s) + 1 BY <1>1, SMT
<1>3. DOMAIN s \subseteq DOMAIN t /\ Len(s) + 1 \in DOMAIN t BY <1>1, SMT
<1>4. Elements(t) = Elements(s) \cup {f} BY <1>1, <1>2, <1>3 DEF Elements
<1> QED BY <1>1, <1>2, <1>3, <1>4 DEF t

\* front and pop_front.
LEMMA TailFacts ==
  ASSUME NEW S, NEW s \in Seq(S), s # <<>>
  PROVE  /\ Tail(s) \in Seq(S) /\ Head(s) \in S /\ 1 \in DOMAIN s /\ Head(s) = s[1]
         /\ Len(s) \in Nat /\ DOMAIN s = 1..Len(s) /\ DOMAIN Tail(s) = 1..(Len(s) - 1)
         /\ \A i \in DOMAIN Tail(s) : i + 1 \in DOMAIN s /\ Tail(s)[i] = s[i + 1]
         /\ \A i \in DOMAIN s : i = 1 \/ (i - 1 \in DOMAIN Tail(s) /\ s[i] = Tail(s)[i - 1])
         /\ Elements(s) = Elements(Tail(s)) \cup {Head(s)}
<1> DEFINE t == Tail(s)
<1>1. /\ t \in Seq(S) /\ Len(t) = Len(s) - 1 /\ DOMAIN t = 1..Len(t) /\ DOMAIN s = 1..Len(s)
      /\ Len(s) \in Nat /\ Len(s) > 0 /\ Head(s) = s[1]
      /\ \A i \in 1..Len(t) : t[i] = s[i + 1]
  BY SMT
<1> HIDE DEF t
<1>2. \A i \in DOMAIN t : i + 1 \in DOMAIN s /\ t[i] = s[i + 1] BY <1>1, SMT
<1>3. \A i \in DOMAIN s : i = 1 \/ (i - 1 \in DOMAIN t /\ s[i] = t[i - 1]) BY <1>1, SMT
<1>4. 1 \in DOMAIN s BY <1>1, SMT
<1>5. Elements(s) = Elements(t) \cup {Head(s)} BY <1>1, <1>2, <1>3, <1>4, SMT DEF Elements
<1>6. Head(s) \in S BY <1>1, <1>4, SMT
<1> QED BY <1>1, <1>2, <1>3, <1>4, <1>5, <1>6 DEF t

\* Posting a callback that was not posted before.
LEMMA PostKeeps ==
  ASSUME NEW e, NEW w, NEW o, Accounted(e, w, o), NEW f \in Tasks, f \notin Elements(o)
  PROVE  /\ Accounted(e, Append(w, f), Append(o, f))
         /\ RanFirst(e, o) => RanFirst(e, Append(o, f))
         /\ InLine(w, o) => InLine(Append(w, f), Append(o, f))
<1> DEFINE w2 == Append(w, f)
           o2 == Append(o, f)
<1>1. /\ w2 \in Seq(Tasks \cup Reposters) /\ DOMAIN w2 = 1..(Len(w) + 1)
      /\ Len(w) \in Nat /\ DOMAIN w = 1..Len(w) /\ w2[Len(w) + 1] = f
      /\ \A i \in DOMAIN w : i \in DOMAIN w2 /\ w2[i] = w[i]
      /\ \A i \in DOMAIN w2 : i \in DOMAIN w \/ i = Len(w) + 1
      /\ Elements(w2) = Elements(w) \cup {f}
  BY AppendFacts, SMT DEF Accounted
<1>2. /\ o2 \in Seq(Tasks) /\ DOMAIN o2 = 1..(Len(o) + 1)
      /\ Len(o) \in Nat /\ DOMAIN o = 1..Len(o) /\ o2[Len(o) + 1] = f
      /\ \A i \in DOMAIN o : i \in DOMAIN o2 /\ o2[i] = o[i]
      /\ \A i \in DOMAIN o2 : i \in DOMAIN o \/ i = Len(o) + 1
      /\ Elements(o2) = Elements(o) \cup {f}
  BY AppendFacts DEF Accounted
<1> HIDE DEF w2, o2
<1>3. f \notin Elements(e) /\ f \notin Elements(w) BY DEF Accounted
<1>4. NoRepeats(o2) BY <1>2 DEF Accounted, NoRepeats, Elements
<1>5. Once(w2) BY <1>1, <1>3 DEF Accounted, Once, Elements
<1>6. Accounted(e, w2, o2) BY <1>1, <1>2, <1>3, <1>4, <1>5 DEF Accounted
<1>7. RanFirst(e, o) => RanFirst(e, o2) BY <1>2 DEF RanFirst
<1>8. ASSUME InLine(w, o) PROVE InLine(w2, o2)
  <2> SUFFICES ASSUME NEW i \in DOMAIN w2, NEW j \in DOMAIN w2, i < j, w2[i] \in Tasks, w2[j] \in Tasks
               PROVE  Before(w2[i], w2[j], o2)
    BY DEF InLine
  <2>1. i \in DOMAIN w BY <1>1, SMT
  <2>2. CASE j \in DOMAIN w
    <3>1. Before(w[i], w[j], o) BY <1>1, <1>8, <2>1, <2>2 DEF InLine
    <3> QED BY <1>1, <1>2, <2>1, <2>2, <3>1 DEF Before
  <2>3. CASE j = Len(w) + 1
    <3>1. w[i] \in Elements(o) BY <1>1, <2>1 DEF Accounted, Elements
    <3>2. PICK k \in DOMAIN o : o[k] = w[i] BY <3>1 DEF Elements
    <3>3. k \in DOMAIN o2 /\ Len(o) + 1 \in DOMAIN o2 /\ k < Len(o) + 1 BY <1>2, <3>2, SMT
    <3> QED BY <1>1, <1>2, <2>1, <2>3, <3>2, <3>3 DEF Before
  <2> QED BY <1>1, <2>2, <2>3
<1> QED BY <1>6, <1>7, <1>8 DEF w2, o2

\* Posting a callback that posts itself again.
LEMMA RepostKeeps ==
  ASSUME NEW e, NEW w, NEW o, Accounted(e, w, o), NEW f \in Reposters
  PROVE  /\ Accounted(e, Append(w, f), o)
         /\ InLine(w, o) => InLine(Append(w, f), o)
<1> DEFINE w2 == Append(w, f)
<1>1. /\ w2 \in Seq(Tasks \cup Reposters) /\ DOMAIN w2 = 1..(Len(w) + 1)
      /\ Len(w) \in Nat /\ DOMAIN w = 1..Len(w) /\ w2[Len(w) + 1] = f
      /\ \A i \in DOMAIN w : i \in DOMAIN w2 /\ w2[i] = w[i]
      /\ \A i \in DOMAIN w2 : i \in DOMAIN w \/ i = Len(w) + 1
      /\ Elements(w2) = Elements(w) \cup {f}
  <2>1. f \in Tasks \cup Reposters /\ w \in Seq(Tasks \cup Reposters) BY DEF Accounted
  <2> QED BY <2>1, AppendFacts, SMT
<1> HIDE DEF w2
<1>2. f \notin Tasks BY LoopAssumption
<1>3. Elements(e) \subseteq Tasks BY SMT DEF Accounted, Elements
<1>4. Once(w2) BY <1>1, <1>2 DEF Accounted, Once
<1>5. Accounted(e, w2, o) BY <1>1, <1>2, <1>3, <1>4 DEF Accounted
<1>6. InLine(w, o) => InLine(w2, o) BY <1>1, <1>2 DEF InLine
<1> QED BY <1>5, <1>6 DEF w2

\* The first callback in line starts.
LEMMA RunKeeps ==
  ASSUME NEW e, NEW w, NEW o, Accounted(e, w, o), w # <<>>, Head(w) \in Tasks
  PROVE  /\ Accounted(Append(e, Head(w)), Tail(w), o)
         /\ RanFirst(e, o) /\ InLine(w, o) =>
              RanFirst(Append(e, Head(w)), o) /\ InLine(Tail(w), o)
<1> DEFINE f == Head(w)
           e2 == Append(e, f)
           w2 == Tail(w)
<1>1. /\ w2 \in Seq(Tasks \cup Reposters) /\ f \in Tasks /\ 1 \in DOMAIN w /\ f = w[1]
      /\ Len(w) \in Nat /\ DOMAIN w = 1..Len(w) /\ DOMAIN w2 = 1..(Len(w) - 1)
      /\ \A i \in DOMAIN w2 : i + 1 \in DOMAIN w /\ w2[i] = w[i + 1]
      /\ \A i \in DOMAIN w : i = 1 \/ (i - 1 \in DOMAIN w2 /\ w[i] = w2[i - 1])
      /\ Elements(w) = Elements(w2) \cup {f}
  BY TailFacts, SMT DEF Accounted
<1> HIDE DEF f
<1>2. /\ e2 \in Seq(Tasks) /\ DOMAIN e2 = 1..(Len(e) + 1)
      /\ Len(e) \in Nat /\ DOMAIN e = 1..Len(e) /\ e2[Len(e) + 1] = f
      /\ \A i \in DOMAIN e : i \in DOMAIN e2 /\ e2[i] = e[i]
      /\ \A i \in DOMAIN e2 : i \in DOMAIN e \/ i = Len(e) + 1
      /\ Elements(e2) = Elements(e) \cup {f}
  BY <1>1, AppendFacts, SMT DEF Accounted
<1> HIDE DEF e2, w2
<1>3. f \in Elements(w) /\ f \notin Elements(e) BY <1>1 DEF Accounted
<1>4. f \notin Elements(w2)
  <2>1. \A i \in DOMAIN w2 : i + 1 # 1 BY <1>1, SMT
  <2> QED BY <1>1, <2>1, SMT DEF Accounted, Once, Elements
<1>5. NoRepeats(e2) BY <1>2, <1>3 DEF Accounted, NoRepeats, Elements
<1>6. Once(w2) BY <1>1, SMT DEF Accounted, Once
<1>7. Accounted(e2, w2, o) BY <1>1, <1>2, <1>3, <1>4, <1>5, <1>6, SMT DEF Accounted
<1>8. ASSUME RanFirst(e, o), InLine(w, o) PROVE RanFirst(e2, o)
  <2>1. PICK k \in DOMAIN o : o[k] = f BY <1>1, <1>3, SMT DEF Accounted, Elements
  <2>2. DOMAIN o = 1..Len(o) /\ Len(o) \in Nat BY SMT DEF Accounted
  <2>3. k \notin DOMAIN e BY <1>3, <1>8, <2>1 DEF RanFirst, Elements
  <2>4. k >= Len(e) + 1 /\ Len(e) + 1 \in DOMAIN o BY <1>2, <2>1, <2>2, <2>3, SMT
  <2>5. k = Len(e) + 1
    <3> SUFFICES ASSUME k # Len(e) + 1 PROVE FALSE OBVIOUS
    <3> DEFINE g == o[Len(e) + 1]
    <3>1. g # f BY <2>1, <2>4 DEF Accounted, NoRepeats
    <3>2. g \notin Elements(e)
      <4>1. \A i \in DOMAIN e : i # Len(e) + 1 BY <1>2, SMT
      <4> QED BY <1>8, <2>4, <4>1 DEF Elements, RanFirst, Accounted, NoRepeats
    <3>3. g \in Elements(w) /\ g \in Tasks BY <2>4, <3>2 DEF Accounted, Elements
    <3>4. PICK j \in DOMAIN w : w[j] = g BY <3>3 DEF Elements
    <3>5. 1 < j BY <1>1, <3>1, <3>4, SMT
    <3>6. Before(f, g, o) BY <1>1, <1>8, <3>3, <3>4, <3>5 DEF InLine
    <3>7. PICK m \in DOMAIN o, n \in DOMAIN o : m < n /\ o[m] = f /\ o[n] = g
      BY <3>6 DEF Before
    <3>8. m = k /\ n = Len(e) + 1 BY <2>1, <2>4, <3>7 DEF Accounted, NoRepeats
    <3> QED BY <1>2, <2>2, <2>4, <3>7, <3>8, SMT
  <2> QED BY <1>2, <1>8, <2>1, <2>4, <2>5 DEF RanFirst
<1>9. InLine(w, o) => InLine(w2, o) BY <1>1, SMT DEF InLine
<1> QED BY <1>7, <1>8, <1>9 DEF e2, f, w2

\* A callback that posts itself starts.
LEMMA RerunKeeps ==
  ASSUME NEW e, NEW w, NEW o, Accounted(e, w, o), w # <<>>, Head(w) \in Reposters
  PROVE  /\ Accounted(e, Tail(w), o)
         /\ InLine(w, o) => InLine(Tail(w), o)
<1> DEFINE f == Head(w)
           w2 == Tail(w)
<1>1. /\ w2 \in Seq(Tasks \cup Reposters) /\ f = w[1]
      /\ Len(w) \in Nat /\ DOMAIN w = 1..Len(w) /\ DOMAIN w2 = 1..(Len(w) - 1)
      /\ \A i \in DOMAIN w2 : i + 1 \in DOMAIN w /\ w2[i] = w[i + 1]
      /\ Elements(w) = Elements(w2) \cup {f}
  BY TailFacts, SMT DEF Accounted
<1>2. f \notin Tasks BY LoopAssumption
<1> HIDE DEF f, w2
<1>3. Once(w2) BY <1>1, SMT DEF Accounted, Once
<1>4. Accounted(e, w2, o) BY <1>1, <1>2, <1>3 DEF Accounted
<1>5. InLine(w, o) => InLine(w2, o) BY <1>1, SMT DEF InLine
<1> QED BY <1>4, <1>5 DEF w2

\* The rest of a batch is put behind what was posted meanwhile.
LEMMA RequeueKeeps ==
  ASSUME NEW e, NEW p, NEW q, NEW o, p \in Seq(Tasks \cup Reposters), q \in Seq(Tasks \cup Reposters),
         Accounted(e, p \o q, o)
  PROVE  Accounted(e, q \o p, o)
<1> DEFINE m == Len(p)
           n == Len(q)
           w == p \o q
           w2 == q \o p
<1>1. /\ m \in Nat /\ n \in Nat
      /\ w \in Seq(Tasks \cup Reposters) /\ DOMAIN w = 1..(m + n)
      /\ \A i \in 1..(m + n) : w[i] = IF i <= m THEN p[i] ELSE q[i - m]
      /\ w2 \in Seq(Tasks \cup Reposters) /\ DOMAIN w2 = 1..(m + n)
      /\ \A i \in 1..(m + n) : w2[i] = IF i <= n THEN q[i] ELSE p[i - n]
  BY SMT
<1> DEFINE at(i) == IF i <= n THEN i + m ELSE i - n
<1>2. \A i \in DOMAIN w2 : at(i) \in DOMAIN w /\ w2[i] = w[at(i)] BY <1>1, SMT
<1>3. \A i, j \in DOMAIN w2 : at(i) = at(j) => i = j BY <1>1, SMT
<1>4. \A i \in DOMAIN w : \E j \in DOMAIN w2 : w[i] = w2[j]
  <2> TAKE i \in DOMAIN w
  <2>1. CASE i <= m
    <3>1. i + n \in DOMAIN w2 /\ w2[i + n] = p[i] /\ w[i] = p[i] BY <1>1, <2>1, SMT
    <3> QED BY <3>1
  <2>2. CASE ~(i <= m)
    <3>1. i - m \in DOMAIN w2 /\ w2[i - m] = q[i - m] /\ w[i] = q[i - m] BY <1>1, <2>2, SMT
    <3> QED BY <3>1
  <2> QED BY <2>1, <2>2
<1>5. w2 \in Seq(Tasks \cup Reposters) /\ Accounted(e, w, o) BY <1>1
<1> HIDE DEF m, n, w, w2, at
<1>6. Once(w2) BY <1>2, <1>3, <1>5 DEF Accounted, Once
<1>7. Elements(w2) = Elements(w) BY <1>2, <1>4, SMT DEF Elements
<1>8. Accounted(e, w2, o) BY <1>5, <1>6, <1>7 DEF Accounted
<1> QED BY <1>8 DEF w2

\* The batch and the queue behind it as one sequence.
LEMMA ConcatAppend ==
  ASSUME NEW S, NEW p \in Seq(S), NEW q \in Seq(S), NEW f \in S
  PROVE  /\ p \o Append(q, f) = Append(p \o q, f)
         /\ Append(q, f) \in Seq(S) /\ Len(Append(q, f)) = Len(q) + 1
<1>1. /\ p \o Append(q, f) \in Seq(S) /\ Append(p \o q, f) \in Seq(S)
      /\ Len(p \o Append(q, f)) = Len(Append(p \o q, f))
      /\ Append(q, f) \in Seq(S) /\ Len(Append(q, f)) = Len(q) + 1
  BY SMT
<1>2. \A i \in 1..Len(p \o Append(q, f)) : (p \o Append(q, f))[i] = Append(p \o q, f)[i]
  BY SMT
<1> QED BY <1>1, <1>2, SeqEqual

LEMMA ConcatTail ==
  ASSUME NEW S, NEW p \in Seq(S), NEW q \in Seq(S), p # <<>>
  PROVE  /\ p \o q # <<>> /\ Head(p \o q) = Head(p) /\ Tail(p \o q) = Tail(p) \o q
         /\ Tail(p) \in Seq(S) /\ Len(Tail(p)) = Len(p) - 1 /\ Len(p) > 0 /\ Head(p) \in S
<1>1. /\ Tail(p) \o q \in Seq(S) /\ Tail(p \o q) \in Seq(S) /\ p \o q # <<>>
      /\ Head(p \o q) = Head(p) /\ Len(Tail(p) \o q) = Len(Tail(p \o q))
      /\ Tail(p) \in Seq(S) /\ Len(Tail(p)) = Len(p) - 1 /\ Len(p) > 0 /\ Head(p) \in S
  BY SMT
<1>2. \A i \in 1..Len(Tail(p \o q)) : Tail(p \o q)[i] = (Tail(p) \o q)[i]
  BY SMT
<1> QED BY <1>1, <1>2, SeqEqual

-----------------------------------------------------------------------------
\* posted_queue under every step of the loop and of the other threads.

LEMMA QueueForm ==
  ASSUME QueueConsistent
  PROVE  /\ Accounted(executed, Unstarted, order)
         /\ ~threw => RanFirst(executed, order) /\ InLine(Unstarted, order)
         /\ queue \in Seq(Tasks \cup Reposters) /\ local \in Seq(Tasks \cup Reposters)
<1>1. /\ executed \in Seq(Tasks) /\ order \in Seq(Tasks)
      /\ queue \in Seq(Tasks \cup Reposters) /\ local \in Seq(Tasks \cup Reposters)
  BY DEF QueueConsistent, TypeOK
<1>2. Unstarted \in Seq(Tasks \cup Reposters) BY <1>1, SMT DEF Unstarted
<1>3. Accounted(executed, Unstarted, order)
  BY <1>1, <1>2 DEF QueueConsistent, NothingLost, Accounted, Once
<1>4. ~threw => RanFirst(executed, order) /\ InLine(Unstarted, order)
  BY DEF QueueConsistent, RunsInOrder, RanFirst, InLine, Before, PostedBefore
<1> QED BY <1>1, <1>3, <1>4

LEMMA QueueFormPrime ==
  ASSUME Accounted(executed', Unstarted', order'),
         ~threw' => RanFirst(executed', order') /\ InLine(Unstarted', order')
  PROVE  NothingLost' /\ RunsInOrder'
BY DEF NothingLost, Accounted, Once, RunsInOrder, RanFirst, InLine, Before, PostedBefore

\* A step that leaves the queue alone.
Places == {"out", "check1", "swap", "tasks", "check2", "timers", "check3", "wait", "prepare",
           "block", "drain", "consume", "finish", "drain_posted", "exit"}
LoopTypes ==
  /\ pc \in Places /\ mode \in {"run", "run_one", "run_for"}
  /\ progress \in BOOLEAN /\ fatal \in BOOLEAN /\ stopped \in BOOLEAN
  /\ timeout \in {"inf", "finite", "zero"} /\ timer \in {"none", "armed", "expired"}
  /\ guards \in Nat /\ eventfd \in Nat /\ phase \in {"running", "waiting", "notified"}
  /\ fpc \in [Threads -> {"idle", "notify", "write"}]

LEMMA QuietStep ==
  ASSUME QueueConsistent, UNCHANGED queueVars, LoopTypes', pc' = pc \/ pc # "tasks" \/ local = <<>>
  PROVE  QueueConsistent'
<1>5. TypeOK' BY DEF QueueConsistent, TypeOK, LoopTypes, Places, queueVars
<1>1. PendingCountExact' BY DEF QueueConsistent, PendingCountExact, queueVars
<1>2. BatchInProcess' BY DEF QueueConsistent, BatchInProcess, queueVars
<1>3. UNCHANGED <<executed, Unstarted, order, threw>> BY DEF queueVars, Unstarted
<1>4. NothingLost' /\ RunsInOrder' BY <1>3, QueueForm, QueueFormPrime
<1> QED BY <1>1, <1>2, <1>4, <1>5 DEF QueueConsistent

\* process() takes the whole queue.
LEMMA SwapStep == ASSUME QueueConsistent, Swap PROVE QueueConsistent'
<1>1. local = <<>> /\ queue \in Seq(Tasks \cup Reposters)
  BY DEF QueueConsistent, TypeOK, BatchInProcess, Swap
<1>2. Unstarted' = Unstarted
  <2>1. Unstarted = queue BY <1>1, ConcatEmptySeq DEF Unstarted
  <2>2. Unstarted' = queue BY <1>1, ConcatEmptySeq DEF Unstarted, Swap
  <2> QED BY <2>1, <2>2
<1>3. UNCHANGED <<executed, order, threw>> BY DEF Swap
<1>4. NothingLost' /\ RunsInOrder' BY <1>2, <1>3, QueueForm, QueueFormPrime
<1>5. PendingCountExact' BY <1>1, SMT DEF QueueConsistent, PendingCountExact, Swap
<1>6. BatchInProcess' BY DEF BatchInProcess, Swap, Go
<1>7. TypeOK'
  <2>1. queue' \in Seq(Tasks \cup Reposters) /\ local' \in Seq(Tasks \cup Reposters)
    BY <1>1, SMT DEF Swap
  <2>2. /\ pc' = "tasks" /\ progress' = FALSE
        /\ UNCHANGED <<mode, fatal, timeout, pending, order, executed, threw, phase, eventfd, fpc,
                       stopped, guards, timer>>
    BY DEF Swap, Go, loopVars, wakeVars
  <2> QED BY <2>1, <2>2 DEF QueueConsistent, TypeOK
<1> QED BY <1>4, <1>5, <1>6, <1>7 DEF QueueConsistent

\* Another thread posts.
LEMMA PostStep ==
  ASSUME QueueConsistent, NEW t \in Threads, NEW f \in Tasks \cup Reposters, Post(t, f)
  PROVE  QueueConsistent'
<1>1. /\ queue' = Append(queue, f) /\ pending' = pending + 1
      /\ order' = IF f \in Tasks THEN Append(order, f) ELSE order
      /\ fpc' = [fpc EXCEPT ![t] = "notify"] /\ f \notin Elements(order)
      /\ UNCHANGED <<pc, progress, loopVars, local, executed, threw, phase, eventfd, stopped, guards,
                     timer>>
  BY DEF Post, Call, Enqueue
<1>2. /\ Accounted(executed, Unstarted, order)
      /\ ~threw => RanFirst(executed, order) /\ InLine(Unstarted, order)
      /\ queue \in Seq(Tasks \cup Reposters) /\ local \in Seq(Tasks \cup Reposters)
  BY QueueForm
<1>3. /\ Unstarted' = Append(Unstarted, f)
      /\ queue' \in Seq(Tasks \cup Reposters) /\ Len(queue') = Len(queue) + 1
  <2>1. /\ local \o Append(queue, f) = Append(local \o queue, f)
        /\ Append(queue, f) \in Seq(Tasks \cup Reposters) /\ Len(Append(queue, f)) = Len(queue) + 1
    BY <1>2, ConcatAppend
  <2> QED BY <1>1, <2>1 DEF Unstarted
<1>4. /\ Accounted(executed', Unstarted', order')
      /\ ~threw' => RanFirst(executed', order') /\ InLine(Unstarted', order')
  <2>1. CASE f \in Tasks BY <1>1, <1>2, <1>3, <2>1, PostKeeps
  <2>2. CASE f \notin Tasks
    <3>1. f \in Reposters BY <2>2
    <3> QED BY <1>1, <1>2, <1>3, <2>2, <3>1, RepostKeeps
  <2> QED BY <2>1, <2>2
<1>5. NothingLost' /\ RunsInOrder' BY <1>4, QueueFormPrime
<1>6. PendingCountExact'
  <2>1. Len(queue) \in Nat /\ Len(local) \in Nat BY <1>2, SMT
  <2> QED BY <1>1, <1>3, <2>1, SMT DEF QueueConsistent, PendingCountExact
<1>7. BatchInProcess' BY <1>1 DEF QueueConsistent, BatchInProcess
<1>8. TypeOK'
  <2>1. order' \in Seq(Tasks) BY <1>4 DEF Accounted
  <2>2. fpc' \in [Threads -> {"idle", "notify", "write"}] BY <1>1 DEF QueueConsistent, TypeOK
  <2> QED BY <1>1, <1>3, <2>1, <2>2, SMT DEF QueueConsistent, TypeOK, loopVars
<1> QED BY <1>5, <1>6, <1>7, <1>8 DEF QueueConsistent

\* A callback starts and returns: it leaves the line, and what it posts goes to
\* the end.
LEMMA ReturnStep == ASSUME QueueConsistent, TaskReturns PROVE QueueConsistent'
<1> DEFINE f == Head(local)
           e2 == IF f \in Tasks THEN Append(executed, f) ELSE executed
           w2 == Tail(local) \o queue
<1>1. /\ pc = "tasks" /\ local # <<>> /\ executed' = e2 /\ local' = Tail(local)
      /\ progress' = TRUE /\ UNCHANGED <<pc, mode, fatal, timeout, threw, fpc, guards>>
  BY DEF TaskReturns, Taken, loopVars
<1>2. /\ Accounted(executed, Unstarted, order)
      /\ ~threw => RanFirst(executed, order) /\ InLine(Unstarted, order)
      /\ queue \in Seq(Tasks \cup Reposters) /\ local \in Seq(Tasks \cup Reposters)
  BY QueueForm
<1>3. /\ Unstarted # <<>> /\ Head(Unstarted) = f /\ Tail(Unstarted) = w2
      /\ Tail(local) \in Seq(Tasks \cup Reposters) /\ Len(Tail(local)) = Len(local) - 1
      /\ Len(local) > 0 /\ f \in Tasks \cup Reposters
  BY <1>1, <1>2, ConcatTail DEF Unstarted
<1>4. Len(queue) \in Nat /\ Len(local) \in Nat BY <1>2, SMT
<1> HIDE DEF f
<1>5. /\ Accounted(e2, w2, order)
      /\ ~threw => RanFirst(e2, order) /\ InLine(w2, order)
  <2>1. CASE f \in Tasks
    <3>1. Head(Unstarted) \in Tasks BY <1>3, <2>1
    <3>2. /\ Accounted(Append(executed, Head(Unstarted)), Tail(Unstarted), order)
          /\ RanFirst(executed, order) /\ InLine(Unstarted, order) =>
               RanFirst(Append(executed, Head(Unstarted)), order) /\ InLine(Tail(Unstarted), order)
      BY <1>2, <1>3, <3>1, RunKeeps
    <3>3. e2 = Append(executed, Head(Unstarted)) BY <1>3, <2>1
    <3> QED BY <1>2, <1>3, <3>2, <3>3
  <2>2. CASE f \notin Tasks
    <3>1. f \in Reposters BY <1>3, <2>2
    <3>2. e2 = executed BY <2>2
    <3>3. Head(Unstarted) \in Reposters BY <1>3, <3>1
    <3>4. Accounted(executed, Tail(Unstarted), order)
          /\ (InLine(Unstarted, order) => InLine(Tail(Unstarted), order))
      BY <1>2, <1>3, <3>3, RerunKeeps
    <3> QED BY <1>2, <1>3, <3>2, <3>4
  <2> QED BY <2>1, <2>2
<1> HIDE DEF e2, w2
<1>6. \/ /\ f \in Reposters /\ queue' = Append(queue, f) /\ pending' = pending - 1 + 1
         /\ UNCHANGED order
      \/ /\ \E g \in Tasks \ Elements(order) : queue' = Append(queue, g) /\ order' = Append(order, g)
         /\ pending' = pending - 1 + 1
      \/ UNCHANGED <<queue, order>> /\ pending' = pending - 1
  BY DEF TaskReturns, CountTaken, Enqueue, f
<1>7. ASSUME f \in Reposters, queue' = Append(queue, f), UNCHANGED order
      PROVE  /\ Accounted(executed', Unstarted', order')
             /\ ~threw' => RanFirst(executed', order') /\ InLine(Unstarted', order')
             /\ queue' \in Seq(Tasks \cup Reposters) /\ Len(queue') = Len(queue) + 1
  <2>1. /\ Unstarted' = Append(w2, f)
        /\ queue' \in Seq(Tasks \cup Reposters) /\ Len(queue') = Len(queue) + 1
    <3>1. f \in Tasks \cup Reposters BY <1>7
    <3>2. /\ Tail(local) \o Append(queue, f) = Append(Tail(local) \o queue, f)
          /\ Append(queue, f) \in Seq(Tasks \cup Reposters) /\ Len(Append(queue, f)) = Len(queue) + 1
      <4>1. Tail(local) \in Seq(Tasks \cup Reposters) /\ queue \in Seq(Tasks \cup Reposters)
        BY <1>2, <1>3
      <4> QED BY <3>1, <4>1, ConcatAppend, SMT
    <3> QED BY <1>1, <1>7, <3>2 DEF Unstarted, w2
  <2>2. /\ Accounted(e2, Append(w2, f), order)
        /\ InLine(w2, order) => InLine(Append(w2, f), order)
    BY <1>5, <1>7, RepostKeeps
  <2> QED BY <1>1, <1>5, <1>7, <2>1, <2>2
<1>8. ASSUME NEW g \in Tasks \ Elements(order), queue' = Append(queue, g), order' = Append(order, g)
      PROVE  /\ Accounted(executed', Unstarted', order')
             /\ ~threw' => RanFirst(executed', order') /\ InLine(Unstarted', order')
             /\ queue' \in Seq(Tasks \cup Reposters) /\ Len(queue') = Len(queue) + 1
  <2>1. /\ Unstarted' = Append(w2, g)
        /\ queue' \in Seq(Tasks \cup Reposters) /\ Len(queue') = Len(queue) + 1
    <3>1. g \in Tasks \cup Reposters BY <1>8
    <3>2. /\ Tail(local) \o Append(queue, g) = Append(Tail(local) \o queue, g)
          /\ Append(queue, g) \in Seq(Tasks \cup Reposters) /\ Len(Append(queue, g)) = Len(queue) + 1
      <4>1. Tail(local) \in Seq(Tasks \cup Reposters) /\ queue \in Seq(Tasks \cup Reposters)
        BY <1>2, <1>3
      <4> QED BY <3>1, <4>1, ConcatAppend, SMT
    <3> QED BY <1>1, <1>8, <3>2 DEF Unstarted, w2
  <2>2. /\ Accounted(e2, Append(w2, g), Append(order, g))
        /\ RanFirst(e2, order) => RanFirst(e2, Append(order, g))
        /\ InLine(w2, order) => InLine(Append(w2, g), Append(order, g))
    BY <1>5, <1>8, PostKeeps
  <2> QED BY <1>1, <1>5, <1>8, <2>1, <2>2
<1>9. ASSUME UNCHANGED <<queue, order>>
      PROVE  /\ Accounted(executed', Unstarted', order')
             /\ ~threw' => RanFirst(executed', order') /\ InLine(Unstarted', order')
  BY <1>1, <1>5, <1>9 DEF Unstarted, w2
<1>10. /\ Accounted(executed', Unstarted', order')
       /\ ~threw' => RanFirst(executed', order') /\ InLine(Unstarted', order')
       /\ queue' \in Seq(Tasks \cup Reposters)
       /\ \/ pending' = pending - 1 + 1 /\ Len(queue') = Len(queue) + 1
          \/ pending' = pending - 1 /\ Len(queue') = Len(queue)
  <2>1. CASE f \in Reposters /\ queue' = Append(queue, f) /\ UNCHANGED order /\ pending' = pending - 1 + 1
    BY <1>7, <2>1
  <2>2. CASE /\ \E g \in Tasks \ Elements(order) : queue' = Append(queue, g) /\ order' = Append(order, g)
             /\ pending' = pending - 1 + 1
    BY <1>8, <2>2
  <2>3. CASE UNCHANGED <<queue, order>> /\ pending' = pending - 1
    BY <1>2, <1>9, <2>3
  <2> QED BY <1>6, <2>1, <2>2, <2>3
<1>11. NothingLost' /\ RunsInOrder' BY <1>10, QueueFormPrime
<1>12. PendingCountExact' /\ pending' \in Nat
  <2>1. pending = Len(queue) + Len(local) BY DEF QueueConsistent, PendingCountExact
  <2>2. Len(local') = Len(local) - 1 BY <1>1, <1>3
  <2>3. \/ pending' = pending - 1 + 1 /\ Len(queue') = Len(queue) + 1
        \/ pending' = pending - 1 /\ Len(queue') = Len(queue)
    BY <1>10
  <2>4. pending' = Len(queue') + Len(local') /\ pending' \in Nat BY <1>3, <1>4, <2>1, <2>2, <2>3, SMT
  <2> QED BY <2>4 DEF PendingCountExact
<1>13. BatchInProcess' BY <1>1 DEF BatchInProcess
<1>14. TypeOK'
  <2>1. executed' \in Seq(Tasks) /\ order' \in Seq(Tasks) BY <1>10 DEF Accounted
  <2>2. /\ stopped' \in BOOLEAN /\ timer' \in {"none", "armed", "expired"}
        /\ phase' \in {"running", "waiting", "notified"} /\ eventfd' \in Nat
    <3>1. /\ stopped \in BOOLEAN /\ timer \in {"none", "armed", "expired"}
          /\ phase \in {"running", "waiting", "notified"} /\ eventfd \in Nat
      BY DEF QueueConsistent, TypeOK
    <3>2. \/ UNCHANGED <<stopped, phase, eventfd>> /\ (timer' = timer \/ timer' = "armed")
          \/ /\ stopped' = TRUE /\ timer' = timer
             /\ \/ phase' = "notified" /\ eventfd' = eventfd + 1
                \/ UNCHANGED <<phase, eventfd>>
      BY DEF TaskReturns
    <3>3. eventfd' \in Nat BY <3>1, <3>2, SMT
    <3> QED BY <3>1, <3>2, <3>3
  <2> QED BY <1>1, <1>3, <1>10, <1>12, <2>1, <2>2 DEF QueueConsistent, TypeOK
<1> QED BY <1>11, <1>12, <1>13, <1>14 DEF QueueConsistent

\* A callback throws: the rest of the batch changes places with what was posted
\* meanwhile, and the order is given up.
LEMMA ThrowStep == ASSUME QueueConsistent, TaskThrows PROVE QueueConsistent'
<1> DEFINE f == Head(local)
<1>1. /\ local # <<>> /\ f \in Tasks /\ executed' = Append(executed, f)
      /\ queue' = queue \o Tail(local) /\ local' = <<>> /\ threw' = TRUE /\ pending' = pending - 1
      /\ progress' = FALSE /\ pc' \in {"drain_posted", "exit"}
      /\ UNCHANGED <<mode, fatal, timeout, order, phase, eventfd, fpc, stopped, guards, timer>>
  BY DEF TaskThrows, Taken, CountTaken, Requeue, Go, loopVars, wakeVars
<1>2. /\ Accounted(executed, Unstarted, order)
      /\ queue \in Seq(Tasks \cup Reposters) /\ local \in Seq(Tasks \cup Reposters)
  BY QueueForm
<1>3. /\ Unstarted # <<>> /\ Head(Unstarted) = f /\ Tail(Unstarted) = Tail(local) \o queue
      /\ Tail(local) \in Seq(Tasks \cup Reposters) /\ Len(Tail(local)) = Len(local) - 1
      /\ Len(local) > 0
  BY <1>1, <1>2, ConcatTail DEF Unstarted
<1>4. Accounted(Append(executed, f), Tail(local) \o queue, order)
  BY <1>1, <1>2, <1>3, RunKeeps
<1>5. Accounted(Append(executed, f), queue \o Tail(local), order)
  BY <1>2, <1>3, <1>4, RequeueKeeps
<1>6. /\ queue' \in Seq(Tasks \cup Reposters) /\ Unstarted' = queue'
      /\ Len(queue') = Len(queue) + Len(local) - 1
      /\ Len(queue) \in Nat /\ Len(local) \in Nat
  <2>1. queue' \in Seq(Tasks \cup Reposters) /\ Len(queue') = Len(queue) + Len(Tail(local))
    BY <1>1, <1>2, <1>3, SMT
  <2> QED BY <1>1, <1>2, <1>3, <2>1, ConcatEmptySeq, SMT DEF Unstarted
<1>7. NothingLost' /\ RunsInOrder' BY <1>1, <1>5, <1>6, QueueFormPrime
<1>8. PendingCountExact' /\ pending' \in Nat
  <2>1. pending = Len(queue) + Len(local) BY DEF QueueConsistent, PendingCountExact
  <2>2. Len(local') = 0 BY <1>1
  <2> QED BY <1>1, <1>3, <1>6, <2>1, <2>2, SMT DEF PendingCountExact
<1>9. BatchInProcess' BY <1>1 DEF BatchInProcess
<1>10. TypeOK'
  <2>1. executed' \in Seq(Tasks) /\ local' \in Seq(Tasks \cup Reposters)
    BY <1>1, <1>5, SMT DEF Accounted
  <2>2. pc' \in Places BY <1>1 DEF Places
  <2> QED BY <1>1, <1>6, <1>8, <2>1, <2>2 DEF QueueConsistent, TypeOK, Places
<1> QED BY <1>7, <1>8, <1>9, <1>10 DEF QueueConsistent

-----------------------------------------------------------------------------
\* The other steps of the loop and the other threads.

\* A step that moves no token.
LEMMA TokenKept ==
  ASSUME WakeTokenUnique, eventfd' = eventfd, Writers' = Writers,
         phase' = "notified" <=> phase = "notified",
         pc' = pc \/ (pc # "consume" /\ pc' \notin {"consume", "drain"})
  PROVE  WakeTokenUnique'
BY DEF WakeTokenUnique

\* The loop between its stages.
Between == \/ \E m \in {"run", "run_one", "run_for"} : Enter(m)
           \/ Leave \/ Check \/ Deadline \/ BatchDone \/ Timers \/ ComputeWait \/ PrepareWait
           \/ WaitTimeout \/ WaitOther \/ WaitThrows \/ Finish \/ DrainPosted

LEMMA BetweenStep ==
  ASSUME QueueConsistent, WakeTokenUnique, Between
  PROVE  QueueConsistent' /\ WakeTokenUnique'
<1>1. LoopTypes BY DEF QueueConsistent, TypeOK, LoopTypes, Places
<1>2. UNCHANGED <<queueVars, eventfd, fpc, guards>>
  BY DEF Between, Enter, Leave, Check, Deadline, BatchDone, Timers, ComputeWait, PrepareWait,
         WaitTimeout, WaitOther, WaitThrows, Finish, DrainPosted, wakeVars
<1>3. /\ pc # "consume" /\ (pc # "tasks" \/ local = <<>>)
      /\ pc' \in Places \ {"consume", "drain"}
  BY DEF Between, Enter, Leave, Check, Deadline, BatchDone, Timers, ComputeWait, PrepareWait,
         WaitTimeout, WaitOther, WaitThrows, Finish, DrainPosted, Go, Places, AfterPosted,
         AfterTimers, AfterEvents
<1>4. phase' = phase \/ phase' = BeginWait(phase) \/ phase' = FinishWait(phase)
  BY DEF Between, Enter, Leave, Check, Deadline, BatchDone, Timers, ComputeWait, PrepareWait,
         WaitTimeout, WaitOther, WaitThrows, Finish, DrainPosted, wakeVars
<1>5. /\ phase' = "notified" <=> phase = "notified"
      /\ phase' \in {"running", "waiting", "notified"}
  BY <1>1, <1>4 DEF LoopTypes, BeginWait, FinishWait
<1>6. /\ progress' \in BOOLEAN /\ fatal' \in BOOLEAN /\ stopped' \in BOOLEAN
      /\ mode' \in {"run", "run_one", "run_for"}
      /\ timeout' \in {"inf", "finite", "zero"} /\ timer' \in {"none", "armed", "expired"}
  <2>1. progress' \in BOOLEAN /\ fatal' \in BOOLEAN /\ stopped' \in BOOLEAN
    BY <1>1 DEF LoopTypes, Between, Enter, Leave, Check, Deadline, BatchDone, Timers, ComputeWait,
         PrepareWait, WaitTimeout, WaitOther, WaitThrows, Finish, DrainPosted, loopVars
  <2>2. mode' \in {"run", "run_one", "run_for"} /\ timer' \in {"none", "armed", "expired"}
    BY <1>1 DEF LoopTypes, Between, Enter, Leave, Check, Deadline, BatchDone, Timers, ComputeWait,
         PrepareWait, WaitTimeout, WaitOther, WaitThrows, Finish, DrainPosted, loopVars
  <2>3. timeout' \in {"inf", "finite", "zero"}
    BY <1>1 DEF LoopTypes, Between, Enter, Leave, Check, Deadline, BatchDone, Timers, ComputeWait,
         PrepareWait, WaitTimeout, WaitOther, WaitThrows, Finish, DrainPosted, loopVars,
         WaitChoices, TimerWait
  <2> QED BY <2>1, <2>2, <2>3
<1>7. LoopTypes' BY <1>1, <1>2, <1>3, <1>5, <1>6 DEF LoopTypes
<1>8. WakeTokenUnique' BY <1>2, <1>3, <1>5, TokenKept DEF Writers
<1> QED BY <1>2, <1>3, <1>7, <1>8, QuietStep

\* A timer expires; other threads stop, restart and hold work guards.
Outside == \/ TimerExpires
           \/ \E t \in Threads : Stop(t) \/ Restart(t) \/ AddGuard(t) \/ RemoveGuard(t)

LEMMA OutsideStep ==
  ASSUME QueueConsistent, WakeTokenUnique, Outside
  PROVE  QueueConsistent' /\ WakeTokenUnique'
<1>1. LoopTypes BY DEF QueueConsistent, TypeOK, LoopTypes, Places
<1>2. UNCHANGED <<pc, mode, progress, fatal, timeout, queueVars, phase, eventfd>>
  BY DEF Outside, TimerExpires, Stop, Restart, AddGuard, RemoveGuard, wakeVars, loopVars
<1>3. /\ fpc' \in [Threads -> {"idle", "notify", "write"}]
      /\ \A t \in Threads : fpc'[t] = "write" <=> fpc[t] = "write"
  BY <1>1 DEF LoopTypes, Outside, TimerExpires, Stop, Restart, AddGuard, RemoveGuard, wakeVars, Call
<1>4. guards' \in Nat
  BY <1>1, SMT DEF LoopTypes, Outside, TimerExpires, Stop, Restart, AddGuard, RemoveGuard
<1>5. stopped' \in BOOLEAN /\ timer' \in {"none", "armed", "expired"}
  BY <1>1 DEF LoopTypes, Outside, TimerExpires, Stop, Restart, AddGuard, RemoveGuard
<1>6. LoopTypes' BY <1>1, <1>2, <1>3, <1>4, <1>5 DEF LoopTypes
<1>7. WakeTokenUnique' BY <1>2, <1>3, TokenKept DEF Writers
<1> QED BY <1>2, <1>6, <1>7, QuietStep

\* The number of threads about to write.
LEMMA WritersFinite == IsFiniteSet(Writers) /\ Cardinality(Writers) \in Nat
BY LoopAssumption, FS_Subset, FS_CardinalityType DEF Writers

\* The wake token is passed on: a waker claims it, writes it or gives it back,
\* the loop sees it, drains it and consumes it.
LEMMA TokenStep ==
  ASSUME QueueConsistent, WakeTokenUnique,
         \/ WaitEventfd \/ DrainEventfd \/ ConsumeNotification
         \/ \E t \in Threads : Notify(t) \/ WriteEventfd(t) \/ WriteFails(t)
  PROVE  QueueConsistent' /\ WakeTokenUnique'
<1>1. LoopTypes BY DEF QueueConsistent, TypeOK, LoopTypes, Places
<1>2. /\ UNCHANGED <<queueVars, mode, progress, fatal, stopped, guards, timer>>
      /\ pc' = pc \/ pc # "tasks"
      /\ timeout' = timeout \/ timeout' = "inf"
  BY DEF WaitEventfd, DrainEventfd, ConsumeNotification, Notify, WriteEventfd, WriteFails, loopVars
<1> DEFINE n == Cardinality(Writers)
<1>3. n \in Nat /\ IsFiniteSet(Writers) BY WritersFinite
<1> HIDE DEF n
<1>4. /\ n + eventfd + (IF pc = "consume" THEN 1 ELSE 0) = (IF phase = "notified" THEN 1 ELSE 0)
      /\ pc = "drain" => eventfd = 1
      /\ eventfd \in Nat
  BY <1>1 DEF WakeTokenUnique, LoopTypes, n
<1>5. CASE WaitEventfd
  <2>1. Writers' = Writers /\ UNCHANGED <<eventfd, fpc, phase>> /\ pc' = "drain" /\ pc = "block" /\ eventfd > 0
    BY <1>5 DEF WaitEventfd, wakeVars, Writers, Go
  <2>2. WakeTokenUnique' BY <1>3, <1>4, <2>1, SMT DEF WakeTokenUnique, n
  <2>3. LoopTypes' BY <1>1, <1>2, <2>1 DEF LoopTypes, Places
  <2> QED BY <1>2, <2>2, <2>3, QuietStep
<1>6. CASE DrainEventfd
  <2>1. Writers' = Writers /\ UNCHANGED <<fpc, phase>> /\ pc' = "consume" /\ pc = "drain" /\ eventfd' = 0
    BY <1>6 DEF DrainEventfd, Writers, Go
  <2>2. WakeTokenUnique' BY <1>3, <1>4, <2>1, SMT DEF WakeTokenUnique, n
  <2>3. LoopTypes' BY <1>1, <1>2, <2>1 DEF LoopTypes, Places
  <2> QED BY <1>2, <2>2, <2>3, QuietStep
<1>7. CASE ConsumeNotification
  <2>1. /\ Writers' = Writers /\ UNCHANGED <<fpc, eventfd>> /\ pc' = "finish" /\ pc = "consume"
        /\ phase' = "running"
    BY <1>7 DEF ConsumeNotification, Writers, Go
  <2>2. WakeTokenUnique' BY <1>3, <1>4, <2>1, SMT DEF WakeTokenUnique, n
  <2>3. LoopTypes' BY <1>1, <1>2, <2>1 DEF LoopTypes, Places
  <2> QED BY <1>2, <2>2, <2>3, QuietStep
<1>8. ASSUME NEW t \in Threads, Notify(t) PROVE QueueConsistent' /\ WakeTokenUnique'
  <2>1. CASE phase = "waiting"
    <3>1. /\ fpc' = [fpc EXCEPT ![t] = "write"] /\ fpc[t] = "notify" /\ phase' = "notified"
          /\ UNCHANGED <<pc, eventfd>>
      BY <1>8, <2>1 DEF Notify, NotifyClaims
    <3>2. LoopTypes' BY <1>1, <1>2, <3>1 DEF LoopTypes
    <3>3. Writers' = Writers \cup {t} /\ t \notin Writers BY <1>1, <3>1 DEF Writers, LoopTypes
    <3>4. Cardinality(Writers') = n + 1 BY <1>3, <3>3, FS_AddElement DEF n
    <3>5. WakeTokenUnique' BY <1>3, <1>4, <2>1, <3>1, <3>4, SMT DEF WakeTokenUnique
    <3> QED BY <1>2, <3>2, <3>5, QuietStep
  <2>2. CASE phase # "waiting"
    <3>1. /\ fpc' = [fpc EXCEPT ![t] = "idle"] /\ fpc[t] = "notify"
          /\ UNCHANGED <<pc, eventfd, phase>>
      BY <1>8, <2>2 DEF Notify, NotifyClaims
    <3>2. LoopTypes' BY <1>1, <1>2, <3>1 DEF LoopTypes
    <3>3. Writers' = Writers BY <1>1, <3>1 DEF Writers, LoopTypes
    <3> QED BY <1>2, <3>1, <3>2, <3>3, TokenKept, QuietStep
  <2> QED BY <2>1, <2>2
<1>9. ASSUME NEW t \in Threads, WriteEventfd(t) \/ WriteFails(t)
      PROVE  QueueConsistent' /\ WakeTokenUnique'
  <2>1. /\ fpc' = [fpc EXCEPT ![t] = "idle"] /\ fpc[t] = "write" /\ UNCHANGED pc
        /\ \/ phase' = "waiting" /\ eventfd' = eventfd
           \/ phase' = phase /\ eventfd' = eventfd + 1
    BY <1>9 DEF WriteEventfd, WriteFails, Written
  <2>2. LoopTypes' BY <1>1, <1>2, <2>1, SMT DEF LoopTypes
  <2>3. Writers' = Writers \ {t} /\ t \in Writers BY <1>1, <2>1 DEF Writers, LoopTypes
  <2>4. Cardinality(Writers') = n - 1 /\ Cardinality(Writers') \in Nat
    <3>1. Cardinality(Writers') = n - 1 BY <1>3, <2>3, FS_RemoveElement DEF n
    <3>2. IsFiniteSet(Writers') BY <1>3, <2>3, FS_Subset
    <3> QED BY <3>1, <3>2, FS_CardinalityType
  <2>5. n = 1 /\ eventfd = 0 /\ phase = "notified" /\ pc # "consume" /\ pc # "drain"
    BY <1>3, <1>4, <2>4, SMT
  <2>6. WakeTokenUnique' BY <2>1, <2>4, <2>5, SMT DEF WakeTokenUnique
  <2> QED BY <1>2, <2>2, <2>6, QuietStep
<1> QED BY <1>5, <1>6, <1>7, <1>8, <1>9

\* The steps of posted_queue.
LEMMA BatchStep ==
  ASSUME QueueConsistent, WakeTokenUnique,
         \/ Swap \/ TaskReturns \/ TaskThrows
         \/ \E t \in Threads, f \in Tasks \cup Reposters : Post(t, f)
  PROVE  QueueConsistent' /\ WakeTokenUnique'
<1>1. QueueConsistent' BY SwapStep, ReturnStep, ThrowStep, PostStep
<1>2. LoopTypes BY DEF QueueConsistent, TypeOK, LoopTypes, Places
<1>3. CASE Swap \/ TaskThrows
  <2>1. UNCHANGED <<phase, eventfd, fpc>> /\ pc # "consume" /\ pc' \notin {"consume", "drain"}
    BY <1>3 DEF Swap, TaskThrows, wakeVars, Go
  <2> QED BY <1>1, <2>1, TokenKept DEF Writers
<1>4. CASE \E t \in Threads, f \in Tasks \cup Reposters : Post(t, f)
  <2>1. UNCHANGED <<pc, phase, eventfd>> BY <1>4 DEF Post
  <2>2. Writers' = Writers BY <1>2, <1>4 DEF Post, Call, Writers, LoopTypes
  <2> QED BY <1>1, <2>1, <2>2, TokenKept
<1>5. CASE TaskReturns
  <2>1. /\ pc = "tasks" /\ pc' = pc /\ fpc' = fpc
        /\ \/ UNCHANGED <<phase, eventfd>>
           \/ phase = "waiting" /\ phase' = "notified" /\ eventfd' = eventfd + 1
    BY <1>5 DEF TaskReturns
  <2>2. CASE UNCHANGED <<phase, eventfd>> BY <1>1, <2>1, <2>2, TokenKept DEF Writers
  <2>3. CASE phase = "waiting" /\ phase' = "notified" /\ eventfd' = eventfd + 1
    <3>1. Writers' = Writers BY <2>1 DEF Writers
    <3> QED BY <1>1, <1>2, <2>1, <2>3, <3>1, WritersFinite, SMT DEF WakeTokenUnique, LoopTypes
  <2> QED BY <2>1, <2>2, <2>3
<1> QED BY <1>3, <1>4, <1>5

-----------------------------------------------------------------------------
LEMMA LoopInit == Init => QueueConsistent /\ WakeTokenUnique
<1> SUFFICES ASSUME Init PROVE QueueConsistent /\ WakeTokenUnique OBVIOUS
<1>1. <<>> \in Seq(Tasks) /\ <<>> \in Seq(Tasks \cup Reposters) BY SMT
<1>2. TypeOK BY <1>1 DEF Init, TypeOK
<1>3. Unstarted = <<>> BY <1>1, ConcatEmptySeq DEF Init, Unstarted
<1>4. PendingCountExact BY SMT DEF Init, PendingCountExact
<1>5. BatchInProcess BY DEF Init, BatchInProcess
<1>6. NothingLost BY <1>3, SMT DEF Init, NothingLost, Elements, NoRepeats
<1>7. RunsInOrder BY <1>3, SMT DEF Init, RunsInOrder
<1>8. Writers = {} BY DEF Init, Writers
<1>9. Cardinality(Writers) = 0 BY <1>8, FS_EmptySet
<1>10. WakeTokenUnique BY <1>9, SMT DEF Init, WakeTokenUnique
<1> QED BY <1>2, <1>4, <1>5, <1>6, <1>7, <1>10 DEF QueueConsistent

LEMMA LoopStep ==
  QueueConsistent /\ WakeTokenUnique /\ [Next]_vars => QueueConsistent' /\ WakeTokenUnique'
<1> SUFFICES ASSUME QueueConsistent, WakeTokenUnique, [Next]_vars
             PROVE  QueueConsistent' /\ WakeTokenUnique'
  OBVIOUS
<1>1. CASE UNCHANGED vars
  <2>1. UNCHANGED <<pc, queueVars, phase, eventfd, fpc>>
    BY <1>1 DEF vars, wakeVars
  <2>2. LoopTypes' BY <1>1, SMT DEF vars, wakeVars, loopVars, LoopTypes, Places, QueueConsistent, TypeOK
  <2>3. WakeTokenUnique' BY <2>1, TokenKept DEF Writers
  <2> QED BY <2>1, <2>2, <2>3, QuietStep
<1>2. Next => \/ Between \/ Outside
              \/ WaitEventfd \/ DrainEventfd \/ ConsumeNotification
              \/ \E t \in Threads : Notify(t) \/ WriteEventfd(t) \/ WriteFails(t)
              \/ Swap \/ TaskReturns \/ TaskThrows
              \/ \E t \in Threads, f \in Tasks \cup Reposters : Post(t, f)
  BY DEF Next, Reactor, Wakeup, Between, Outside
<1> QED BY <1>1, <1>2, BetweenStep, OutsideStep, TokenStep, BatchStep

\* posted_queue with any number of threads and callbacks: pending_count_ is
\* exact; every posted callback has run or waits, once, whatever throws; and
\* they run in the order of posting until one throws.
THEOREM QueueInvariant == FairSpec => []QueueConsistent
BY LoopInit, LoopStep, PTL DEF FairSpec, Spec

\* wake_state and the eventfd with any number of threads: one token while the
\* phase is notified, none otherwise, so a thread that blocks while notified is
\* about to be woken and no wakeup is written twice.
THEOREM TokenInvariant == FairSpec => []WakeTokenUnique
BY LoopInit, LoopStep, PTL DEF FairSpec, Spec
=============================================================================
