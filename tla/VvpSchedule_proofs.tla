-------------------------- MODULE VvpSchedule_proofs --------------------------
(***************************************************************************)
(* The scheduler keeps one step per time, runs events in the order they    *)
(* were scheduled and implements the event queue, for every number of      *)
(* events and every latest time.  First lemmas about the list of time      *)
(* steps: what its relative delays add up to, and what schedule_event_,    *)
(* the removal of a step and the advance of time do to the queues it       *)
(* stands for.                                                             *)
(***************************************************************************)
EXTENDS VvpSchedule, SequenceTheorems, WellFoundedInduction, TLAPS

-----------------------------------------------------------------------------
(* Induction, with a set in the place of a predicate.                      *)

\* Every set of numbers that is not empty has a least one.
LEMMA LeastNumber ==
    ASSUME NEW T \in SUBSET Nat, T # {}
    PROVE  \E x \in T : \A y \in T : x <= y
<1>1. PICK x \in T : \A y \in T : ~(<<y, x>> \in OpToRel(<, Nat))
  BY NatLessThanWellFounded, WFMin
<1>2. \A y \in T : ~(y < x)
  BY <1>1 DEF OpToRel
<1>. QED  BY <1>2

\* A set with 0 and with the successor of each of its numbers has them all.
LEMMA SetInduction ==
    ASSUME NEW S \in SUBSET Nat, 0 \in S, \A n \in S : n + 1 \in S
    PROVE  S = Nat
<1>. SUFFICES ASSUME S # Nat PROVE FALSE
  OBVIOUS
<1>1. PICK x \in Nat \ S : \A y \in Nat \ S : x <= y
  BY LeastNumber
<1>2. x # 0 /\ x - 1 \in Nat
  BY <1>1
<1>3. x - 1 \in S
  BY <1>1, <1>2
<1>. QED  BY <1>1, <1>3

-----------------------------------------------------------------------------
(* Sums of delays.                                                         *)

\* A list of steps, as far as its delays go.
Delayed(l) == /\ l = [k \in 1..Len(l) |-> l[k]]
              /\ Len(l) \in Nat
              /\ \A k \in 1..Len(l) : l[k].delay \in Nat

\* A function that sums up exists, so that the recursion defines one.
LEMMA DelaySumsDefined ==
    ASSUME NEW l, Len(l) \in Nat
    PROVE  DelaySums(l) = [k \in 0..Len(l) |->
              IF k = 0 THEN 0 ELSE DelaySums(l)[k - 1] + l[k].delay]
<1>. DEFINE Sums(f, n) == f = [k \in 0..n |-> IF k = 0 THEN 0 ELSE f[k - 1] + l[k].delay]
            S == {n \in Nat : \E f : Sums(f, n)}
<1>1. 0 \in S
  <2>1. Sums([k \in 0..0 |-> 0], 0)
    OBVIOUS
  <2>. QED  BY <2>1
<1>2. ASSUME NEW n \in S PROVE n + 1 \in S
  <2>1. PICK f : Sums(f, n)
    BY <1>2
  <2>. DEFINE g == [k \in 0..(n + 1) |-> IF k <= n THEN f[k] ELSE f[n] + l[n + 1].delay]
  <2>2. \A k \in 0..(n + 1) : g[k] = IF k = 0 THEN 0 ELSE g[k - 1] + l[k].delay
    <3>1. ASSUME NEW k \in 0..n PROVE f[k] = IF k = 0 THEN 0 ELSE f[k - 1] + l[k].delay
      BY <2>1
    <3>2. n \in Nat
      OBVIOUS
    <3>3. ASSUME NEW k \in 0..(n + 1)
          PROVE  g[k] = IF k = 0 THEN 0 ELSE g[k - 1] + l[k].delay
      <4>1. CASE k <= n
        <5>1. k \in 0..n
          BY <3>2, <4>1
        <5>2. g[k] = f[k]
          BY <4>1
        <5>3. k # 0 => g[k - 1] = f[k - 1]
          BY <3>2, <4>1
        <5>. HIDE DEF g
        <5>. QED  BY <3>1, <5>1, <5>2, <5>3
      <4>2. CASE k = n + 1
        <5>1. g[k] = f[n] + l[n + 1].delay
          BY <3>2, <4>2
        <5>2. g[k - 1] = f[n] /\ k # 0
          BY <3>2, <4>2
        <5>. HIDE DEF g
        <5>. QED  BY <4>2, <5>1, <5>2
      <4>. QED  BY <3>2, <4>1, <4>2
    <3>. QED  BY <3>3
  <2>3. Sums(g, n + 1)
    <3>1. g = [k \in 0..(n + 1) |-> g[k]]
      OBVIOUS
    <3>. HIDE DEF g
    <3>. QED  BY <2>2, <3>1
  <2>. HIDE DEF g, Sums
  <2>. QED  BY <2>3
<1>3. S = Nat
  <2>. HIDE DEF S
  <2>1. S \in SUBSET Nat
    BY DEF S
  <2>. QED  BY <1>1, <1>2, <2>1, SetInduction
<1>4. \E f : Sums(f, Len(l))
  BY <1>3
<1>. QED  BY <1>4 DEF DelaySums

\* The sums start at zero and grow by the delay of each step.
LEMMA SumsStep ==
    ASSUME NEW l, Delayed(l)
    PROVE  /\ DelaySums(l) \in [0..Len(l) -> Nat]
           /\ DelaySums(l)[0] = 0
           /\ \A k \in 1..Len(l) :
                 DelaySums(l)[k] = DelaySums(l)[k - 1] + l[k].delay
<1>. DEFINE at == DelaySums(l)
            S == {n \in Nat : n \in 0..Len(l) => at[n] \in Nat}
<1>1. at = [k \in 0..Len(l) |-> IF k = 0 THEN 0 ELSE at[k - 1] + l[k].delay]
  BY DelaySumsDefined DEF Delayed
<1>. HIDE DEF at
<1>2. at[0] = 0
  BY <1>1 DEF Delayed
<1>3. \A k \in 1..Len(l) : at[k] = at[k - 1] + l[k].delay
  BY <1>1 DEF Delayed
<1>4. S = Nat
  <2>1. 0 \in S
    BY <1>2
  <2>2. ASSUME NEW n \in S PROVE n + 1 \in S
    <3>1. CASE n + 1 \in 0..Len(l)
      <4>1. n \in 0..Len(l) /\ n + 1 \in 1..Len(l) /\ at[n] \in Nat
        BY <2>2, <3>1 DEF Delayed
      <4>2. at[n + 1] = at[n] + l[n + 1].delay
        BY <1>3, <4>1
      <4>. QED  BY <4>1, <4>2 DEF Delayed
    <3>. QED  BY <3>1
  <2>. HIDE DEF S
  <2>3. S \in SUBSET Nat
    BY DEF S
  <2>. QED  BY <2>1, <2>2, <2>3, SetInduction
<1>5. \A k \in 0..Len(l) : at[k] \in Nat
  BY <1>4 DEF Delayed
<1>6. at \in [0..Len(l) -> Nat]
  BY <1>1, <1>5
<1>. QED  BY <1>2, <1>3, <1>6 DEF at

\* Steps stand for later and later times; the first may stand for now.
Spaced(l) == \A k \in 2..Len(l) : l[k].delay > 0

\* Later steps stand for later times.
LEMMA SumsIncrease ==
    ASSUME NEW l, Delayed(l), Spaced(l), NEW i \in 0..Len(l), NEW j \in 0..Len(l), i < j
    PROVE  /\ DelaySums(l)[i] <= DelaySums(l)[j]
           /\ i > 0 => DelaySums(l)[i] < DelaySums(l)[j]
<1>. DEFINE at == DelaySums(l)
            S == {n \in Nat : i + 1 + n \in 0..Len(l) =>
                     /\ at[i] <= at[i + 1 + n]
                     /\ i > 0 => at[i] < at[i + 1 + n]}
<1>1. /\ at \in [0..Len(l) -> Nat] /\ Len(l) \in Nat
      /\ \A k \in 1..Len(l) : at[k] = at[k - 1] + l[k].delay /\ l[k].delay \in Nat
      /\ \A k \in 2..Len(l) : l[k].delay > 0
  BY SumsStep DEF Delayed, Spaced
<1>. HIDE DEF at
<1>2. 0 \in S
  BY <1>1
<1>3. ASSUME NEW n \in S PROVE n + 1 \in S
  <2>. SUFFICES ASSUME i + 1 + (n + 1) \in 0..Len(l)
                PROVE  /\ at[i] <= at[i + 1 + (n + 1)]
                       /\ i > 0 => at[i] < at[i + 1 + (n + 1)]
    OBVIOUS
  <2>1. PICK k \in Nat : k = i + 1 + n
    OBVIOUS
  <2>2. /\ i + 1 + (n + 1) = k + 1 /\ k \in 0..Len(l) /\ k + 1 \in 1..Len(l)
        /\ at[i] <= at[k]
        /\ i > 0 => at[i] < at[k]
    BY <1>1, <1>3, <2>1
  <2>3. at[k + 1] = at[k] + l[k + 1].delay /\ l[k + 1].delay \in Nat
    BY <1>1, <2>2
  <2>4. at[i] <= at[k + 1] /\ (i > 0 => at[i] < at[k + 1])
    <3>1. at[i] \in Nat /\ at[k] \in Nat
      BY <1>1, <2>2
    <3>. QED  BY <2>2, <2>3, <3>1
  <2>. QED  BY <2>2, <2>4
<1>4. S = Nat
  <2>. HIDE DEF S
  <2>1. S \in SUBSET Nat
    BY DEF S
  <2>. QED  BY <1>2, <1>3, <2>1, SetInduction
<1>5. PICK n \in Nat : i + 1 + n = j
  <2>1. j - i - 1 \in Nat /\ i + 1 + (j - i - 1) = j
    BY <1>1
  <2>. QED  BY <2>1
<1>6. n \in S
  BY <1>4
<1>. QED  BY <1>5, <1>6 DEF at

\* Sums are the same as far as the delays are.
LEMMA SumsAgree ==
    ASSUME NEW l, NEW m, Delayed(l), Delayed(m),
           NEW n \in Nat, n <= Len(l), n <= Len(m),
           \A k \in 1..n : m[k].delay = l[k].delay
    PROVE  \A k \in 0..n : DelaySums(m)[k] = DelaySums(l)[k]
<1>. DEFINE S == {k \in Nat : k <= n => DelaySums(m)[k] = DelaySums(l)[k]}
<1>1. 0 \in S
  BY SumsStep
<1>2. ASSUME NEW k \in S PROVE k + 1 \in S
  <2>. SUFFICES ASSUME k + 1 <= n
                PROVE  DelaySums(m)[k + 1] = DelaySums(l)[k + 1]
    OBVIOUS
  <2>0. k \in Nat /\ (k <= n => DelaySums(m)[k] = DelaySums(l)[k])
    BY <1>2
  <2>. HIDE DEF S
  <2>1. /\ k + 1 \in 1..n /\ k + 1 \in 1..Len(l) /\ k + 1 \in 1..Len(m)
        /\ (k + 1) - 1 = k /\ k <= n
    BY <2>0 DEF Delayed
  <2>2. DelaySums(m)[k] = DelaySums(l)[k]
    BY <2>0, <2>1
  <2>3. /\ DelaySums(m)[k + 1] = DelaySums(m)[k] + m[k + 1].delay
        /\ DelaySums(l)[k + 1] = DelaySums(l)[k] + l[k + 1].delay
    BY <2>1, SumsStep
  <2>4. m[k + 1].delay = l[k + 1].delay
    BY <2>1
  <2>. QED  BY <2>2, <2>3, <2>4
<1>3. S = Nat
  <2>. HIDE DEF S
  <2>1. S \in SUBSET Nat
    BY DEF S
  <2>. QED  BY <1>1, <1>2, <2>1, SetInduction
<1>. QED  BY <1>3

\* Behind an inserted step the sums are those of the list before.
LEMMA SumsShift ==
    ASSUME NEW l, NEW m, Delayed(l), Delayed(m), Len(m) = Len(l) + 1,
           NEW k \in 1..Len(l), DelaySums(m)[k + 1] = DelaySums(l)[k],
           \A j \in (k + 1)..Len(l) : m[j + 1].delay = l[j].delay
    PROVE  \A j \in k..Len(l) : DelaySums(m)[j + 1] = DelaySums(l)[j]
<1>. DEFINE S == {n \in Nat : k + n <= Len(l) =>
                                DelaySums(m)[k + n + 1] = DelaySums(l)[k + n]}
<1>1. 0 \in S
  OBVIOUS
<1>2. ASSUME NEW n \in S PROVE n + 1 \in S
  <2>1. n \in Nat /\ (k + n <= Len(l) => DelaySums(m)[k + n + 1] = DelaySums(l)[k + n])
    BY <1>2
  <2>. HIDE DEF S
  <2>2. ASSUME NEW j \in Nat, j = k + n + 1, j <= Len(l)
        PROVE  DelaySums(m)[j + 1] = DelaySums(l)[j]
    <3>1. /\ j \in (k + 1)..Len(l) /\ j \in 1..Len(l) /\ j + 1 \in 1..Len(m)
          /\ j - 1 = k + n /\ (j + 1) - 1 = j /\ k + n <= Len(l)
      BY <2>1, <2>2 DEF Delayed
    <3>2. DelaySums(m)[j] = DelaySums(l)[j - 1]
      BY <2>1, <2>2, <3>1
    <3>3. /\ DelaySums(m)[j + 1] = DelaySums(m)[j] + m[j + 1].delay
          /\ DelaySums(l)[j] = DelaySums(l)[j - 1] + l[j].delay
      BY <3>1, SumsStep
    <3>4. m[j + 1].delay = l[j].delay
      BY <3>1
    <3>. QED  BY <3>2, <3>3, <3>4
  <2>3. k + (n + 1) \in Nat /\ k + (n + 1) = k + n + 1
    BY <2>1
  <2>4. k + (n + 1) <= Len(l) =>
           DelaySums(m)[k + (n + 1) + 1] = DelaySums(l)[k + (n + 1)]
    BY <2>2, <2>3
  <2>. QED  BY <2>1, <2>4 DEF S
<1>3. S = Nat
  <2>. HIDE DEF S
  <2>1. S \in SUBSET Nat
    BY DEF S
  <2>. QED  BY <1>1, <1>2, <2>1, SetInduction
<1>. SUFFICES ASSUME NEW j \in k..Len(l)
              PROVE  DelaySums(m)[j + 1] = DelaySums(l)[j]
  OBVIOUS
<1>4. PICK n \in Nat : j = k + n
  <2>1. j - k \in Nat /\ j = k + (j - k)
    BY DEF Delayed
  <2>. QED  BY <2>1
<1>5. n \in S /\ k + n <= Len(l)
  BY <1>3, <1>4 DEF Delayed
<1>. QED  BY <1>4, <1>5

-----------------------------------------------------------------------------
(* schedule_event_: the step it finds or makes.                            *)

StepRec == [delay: Nat, start: Seq(Event), active: Seq(Event),
            nbassign: Seq(Event), rwsync: Seq(Event), rosync: Seq(Event),
            del_thr: Seq(Event)]

Steps(l) == l \in Seq(StepRec) /\ Spaced(l)

\* A list of steps has delays that can be summed.
LEMMA StepsDelayed == ASSUME NEW l \in Seq(StepRec) PROVE Delayed(l)
<1>1. Len(l) \in Nat /\ l \in [1..Len(l) -> StepRec]
  BY LenProperties
<1>2. \A s \in StepRec : s.delay \in Nat
  BY DEF StepRec
<1>. QED  BY <1>1, <1>2 DEF Delayed

\* Each list of a step is a sequence of events.
LEMMA StepRecLists ==
    ASSUME NEW s \in StepRec
    PROVE  s.delay \in Nat /\ \A L \in Lists : s[L] \in Seq(Event)
  BY DEF StepRec, Lists

\* A new step has its delay and no event.
LEMMA TimeStepType ==
    ASSUME NEW d \in Nat
    PROVE  /\ TimeStep(d) \in StepRec /\ TimeStep(d).delay = d
           /\ \A L \in Lists : TimeStep(d)[L] = <<>>
<1>1. <<>> \in Seq(Event)
  OBVIOUS
<1>. QED  BY <1>1 DEF TimeStep, StepRec, Lists

\* Position is the first step that is not before d, or the end of the list.
LEMMA PositionFirst ==
    ASSUME NEW l, Delayed(l), NEW d \in Nat
    PROVE  /\ Position(l, d) \in 1..(Len(l) + 1)
           /\ Position(l, d) <= Len(l) => DelaySums(l)[Position(l, d)] >= d
           /\ \A j \in 1..(Position(l, d) - 1) : DelaySums(l)[j] < d
<1>. DEFINE at == DelaySums(l)
            T == {i \in 1..(Len(l) + 1) : i <= Len(l) => at[i] >= d}
<1>1. at \in [0..Len(l) -> Nat] /\ Len(l) \in Nat
  BY SumsStep DEF Delayed
<1>. HIDE DEF at
<1>2. T \in SUBSET Nat /\ Len(l) + 1 \in T
  BY <1>1
<1>3. PICK x \in T : \A y \in T : x <= y
  <2>. HIDE DEF T
  <2>. QED  BY <1>2, LeastNumber
<1>4. \A j \in 1..(x - 1) : at[j] < d
  <2>. SUFFICES ASSUME NEW j \in 1..(x - 1), ~(at[j] < d) PROVE FALSE
    OBVIOUS
  <2>1. j \in 1..Len(l) /\ at[j] >= d
    BY <1>1
  <2>2. j \in T
    BY <1>1, <2>1
  <2>. QED  BY <1>3, <2>2
<1>5. /\ x \in 1..(Len(l) + 1)
      /\ x <= Len(l) => DelaySums(l)[x] >= d
      /\ \A j \in 1..(x - 1) : DelaySums(l)[j] < d
  BY <1>4 DEF at
<1>. HIDE DEF T
<1>6. \E i \in 1..(Len(l) + 1) :
         /\ i <= Len(l) => DelaySums(l)[i] >= d
         /\ \A j \in 1..(i - 1) : DelaySums(l)[j] < d
  BY <1>5
<1>. QED  BY <1>6 DEF Position

\* The step at d was there.
Reused(l, m, d) == m = l /\ \E k \in 1..Len(l) : DelaySums(l)[k] = d

\* A step without events was put in place k; no other stands for another time.
Inserted(l, m, d, k) ==
    /\ k \in 1..(Len(l) + 1)
    /\ Len(m) = Len(l) + 1
    /\ DelaySums(m)[k] = d
    /\ \A L \in Lists : m[k][L] = <<>>
    /\ \A j \in 1..(k - 1) :
          m[j] = l[j] /\ DelaySums(m)[j] = DelaySums(l)[j] /\ DelaySums(l)[j] < d
    /\ \A j \in k..Len(l) : /\ \A L \in Lists : m[j + 1][L] = l[j][L]
                            /\ DelaySums(m)[j + 1] = DelaySums(l)[j]
                            /\ DelaySums(l)[j] > d

\* What a sequence has after an insertion (InsertAt of SequencesExt).
LEMMA InsertAtProperties ==
    ASSUME NEW S, NEW s \in Seq(S), NEW i \in 1..(Len(s) + 1), NEW e \in S
    PROVE  /\ InsertAt(s, i, e) \in Seq(S)
           /\ Len(InsertAt(s, i, e)) = Len(s) + 1
           /\ InsertAt(s, i, e)[i] = e
           /\ \A j \in 1..(i - 1) : InsertAt(s, i, e)[j] = s[j]
           /\ \A j \in i..Len(s) : InsertAt(s, i, e)[j + 1] = s[j]
<1>. DEFINE a == SubSeq(s, 1, i - 1)
            b == SubSeq(s, i, Len(s))
<1>1. /\ a \in Seq(S) /\ Len(a) = i - 1
      /\ \A j \in 1..(i - 1) : a[j] = s[j]
  BY SubSeqProperties
<1>2. /\ b \in Seq(S) /\ Len(b) = Len(s) + 1 - i
      /\ \A j \in 1..(Len(s) + 1 - i) : b[j] = s[i + j - 1]
  BY SubSeqProperties
<1>3. InsertAt(s, i, e) = a \o <<e>> \o b
  BY DEF InsertAt
<1>. HIDE DEF a, b
<1>. DEFINE c == a \o <<e>>
<1>4. /\ c \in Seq(S) /\ Len(c) = i /\ c[i] = e
      /\ \A j \in 1..(i - 1) : c[j] = s[j]
  BY <1>1
<1>. HIDE DEF c
<1>5. /\ c \o b \in Seq(S) /\ Len(c \o b) = Len(s) + 1
      /\ \A j \in 1..i : (c \o b)[j] = c[j]
      /\ \A j \in 1..Len(b) : (c \o b)[i + j] = b[j]
  <2>1. c \o b \in Seq(S) /\ Len(c \o b) = Len(c) + Len(b)
    BY <1>2, <1>4, ConcatProperties
  <2>2. \A j \in 1..Len(c) + Len(b) :
           (c \o b)[j] = IF j <= Len(c) THEN c[j] ELSE b[j - Len(c)]
    BY <1>2, <1>4, ConcatProperties
  <2>3. ASSUME NEW j \in 1..Len(b) PROVE (c \o b)[i + j] = b[j]
    <3>1. i + j \in 1..Len(c) + Len(b) /\ ~(i + j <= i) /\ i + j - i = j
      BY <1>2, <1>4
    <3>. QED  BY <1>4, <2>2, <3>1
  <2>4. ASSUME NEW j \in 1..i PROVE (c \o b)[j] = c[j]
    BY <1>2, <1>4, <2>2
  <2>. QED  BY <1>2, <1>4, <2>1, <2>3, <2>4
<1>6. \A j \in i..Len(s) : (c \o b)[j + 1] = s[j]
  <2>. SUFFICES ASSUME NEW j \in i..Len(s) PROVE (c \o b)[j + 1] = s[j]
    OBVIOUS
  <2>1. PICK n \in 1..(Len(s) + 1 - i) : n = j + 1 - i
    OBVIOUS
  <2>2. i + n = j + 1 /\ i + n - 1 = j
    BY <2>1
  <2>3. b[n] = s[j]
    BY <1>2, <2>2
  <2>4. (c \o b)[i + n] = b[n]
    BY <1>2, <1>5
  <2>. QED  BY <2>2, <2>3, <2>4
<1>. QED  BY <1>3, <1>4, <1>5, <1>6 DEF c

\* EnsureStep finds the step at d or puts one in its place.
LEMMA EnsureStepResult ==
    ASSUME NEW l, Steps(l), NEW d \in Nat
    PROVE  LET m == EnsureStep(l, d) IN
             /\ Steps(m)
             /\ Reused(l, m, d) \/ \E k : Inserted(l, m, d, k)
<1>. DEFINE m == EnsureStep(l, d)
            at == DelaySums(l)
<1>1. l \in Seq(StepRec) /\ Delayed(l) /\ Spaced(l) /\ Len(l) \in Nat
  BY StepsDelayed DEF Steps
<1>2. /\ at \in [0..Len(l) -> Nat] /\ at[0] = 0
      /\ \A k \in 1..Len(l) : at[k] = at[k - 1] + l[k].delay /\ l[k].delay \in Nat
  BY <1>1, SumsStep DEF Delayed
<1>3. PICK k \in 1..(Len(l) + 1) :
         /\ k = Position(l, d)
         /\ k <= Len(l) => at[k] >= d
         /\ \A j \in 1..(k - 1) : at[j] < d
  BY <1>1, PositionFirst
<1>4. PICK new \in StepRec :
         /\ new = TimeStep(d - at[k - 1])
         /\ new.delay = d - at[k - 1]
         /\ \A L \in Lists : new[L] = <<>>
  <2>1. d - at[k - 1] \in Nat
    <3>1. CASE k = 1
      BY <1>2, <3>1
    <3>2. CASE k # 1
      <4>1. k - 1 \in 1..(k - 1) /\ k - 1 \in 0..Len(l)
        BY <1>1, <3>2
      <4>. QED  BY <1>2, <1>3, <4>1
    <3>. QED  BY <3>1, <3>2
  <2>. QED  BY <2>1, TimeStepType
<1>5. /\ at[k - 1] \in Nat /\ at[k - 1] <= d
      /\ k > 1 => new.delay > 0
  <2>1. CASE k = 1
    BY <1>2, <2>1
  <2>2. CASE k # 1
    <3>1. k - 1 \in 1..(k - 1) /\ k - 1 \in 0..Len(l)
      BY <1>1, <2>2
    <3>. QED  BY <1>2, <1>3, <1>4, <3>1
  <2>. QED  BY <2>1, <2>2
<1>. HIDE DEF at
<1>6. CASE k <= Len(l) /\ at[k] = d
  <2>1. m = l
    BY <1>1, <1>3, <1>6 DEF EnsureStep, at
  <2>2. k \in 1..Len(l) /\ DelaySums(l)[k] = d
    BY <1>1, <1>6 DEF at
  <2>. HIDE DEF m
  <2>. QED  BY <2>1, <2>2 DEF Reused, m
<1>7. CASE k > Len(l)
  <2>1. m = Append(l, new) /\ k = Len(l) + 1
    BY <1>1, <1>3, <1>4, <1>7 DEF EnsureStep, at
  <2>. HIDE DEF m
  <2>2. /\ m \in Seq(StepRec) /\ Len(m) = Len(l) + 1 /\ m[k] = new
        /\ \A j \in 1..Len(l) : m[j] = l[j]
    BY <1>1, <2>1
  <2>3. Spaced(m)
    <3>. SUFFICES ASSUME NEW j \in 2..Len(m) PROVE m[j].delay > 0
      BY DEF Spaced
    <3>1. CASE j = k
      BY <1>5, <2>2, <3>1
    <3>2. CASE j # k
      <4>1. j \in 2..Len(l) /\ j \in 1..Len(l)
        BY <1>1, <2>1, <2>2, <3>2
      <4>. QED  BY <1>1, <2>2, <4>1 DEF Spaced
    <3>. QED  BY <3>1, <3>2
  <2>4. Delayed(m)
    BY <2>2, StepsDelayed
  <2>5. \A j \in 0..Len(l) : DelaySums(m)[j] = at[j]
    BY <1>1, <2>2, <2>4, SumsAgree DEF at
  <2>6. DelaySums(m)[k] = d
    <3>1. k \in 1..Len(m) /\ k - 1 \in 0..Len(l)
      BY <1>1, <2>1, <2>2
    <3>2. DelaySums(m)[k] = DelaySums(m)[k - 1] + m[k].delay
      BY <2>4, <3>1, SumsStep
    <3>. QED  BY <1>4, <1>5, <2>2, <2>5, <3>1, <3>2
  <2>7. Inserted(l, m, d, k)
    BY <1>1, <1>3, <1>4, <2>1, <2>2, <2>5, <2>6 DEF Inserted, at
  <2>. QED  BY <2>2, <2>3, <2>7 DEF Steps, m
<1>8. CASE k <= Len(l) /\ at[k] # d
  <2>. DEFINE r == [l EXCEPT ![k].delay = at[k] - d]
  <2>0. k \in 1..Len(l) /\ at[k] > d
    BY <1>1, <1>2, <1>3, <1>8
  <2>1. m = InsertAt(r, k, new)
    BY <1>1, <1>3, <1>4, <1>8, <2>0 DEF EnsureStep, at
  <2>2. at[k] - d \in Nat /\ at[k] - d > 0
    BY <1>2, <2>0
  <2>3. /\ r \in Seq(StepRec) /\ Len(r) = Len(l)
        /\ \A j \in 1..Len(l) : j # k => r[j] = l[j]
        /\ r[k].delay = at[k] - d
        /\ \A L \in Lists : r[k][L] = l[k][L]
    <3>1. l[k] \in StepRec
      BY <1>1, <2>0
    <3>2. /\ [l[k] EXCEPT !.delay = at[k] - d] \in StepRec
          /\ [l[k] EXCEPT !.delay = at[k] - d].delay = at[k] - d
          /\ \A L \in Lists : [l[k] EXCEPT !.delay = at[k] - d][L] = l[k][L]
      BY <2>2, <3>1 DEF StepRec, Lists
    <3>3. r = [l EXCEPT ![k] = [l[k] EXCEPT !.delay = at[k] - d]]
      OBVIOUS
    <3>. HIDE DEF r
    <3>4. r \in Seq(StepRec) /\ Len(r) = Len(l)
      BY <1>1, <2>0, <3>2, <3>3, ExceptSeq
    <3>5. r[k] = [l[k] EXCEPT !.delay = at[k] - d]
      BY <1>1, <2>0, <3>3
    <3>6. \A j \in 1..Len(l) : j # k => r[j] = l[j]
      BY <1>1, <2>0, <3>3
    <3>. QED  BY <3>2, <3>4, <3>5, <3>6
  <2>. HIDE DEF m, r
  <2>4. /\ m \in Seq(StepRec) /\ Len(m) = Len(l) + 1 /\ m[k] = new
        /\ \A j \in 1..(k - 1) : m[j] = l[j]
        /\ \A j \in k..Len(l) : m[j + 1] = r[j]
    <3>1. /\ m \in Seq(StepRec) /\ Len(m) = Len(r) + 1 /\ m[k] = new
          /\ \A j \in 1..(k - 1) : m[j] = r[j]
          /\ \A j \in k..Len(r) : m[j + 1] = r[j]
      <4>1. r \in Seq(StepRec) /\ new \in StepRec /\ k \in 1..(Len(r) + 1)
        BY <1>4, <2>3
      <4>. QED  BY <2>1, <4>1, InsertAtProperties
    <3>2. \A j \in 1..(k - 1) : r[j] = l[j]
      BY <2>0, <2>3
    <3>. QED  BY <2>3, <3>1, <3>2
  <2>5. Spaced(m)
    <3>. SUFFICES ASSUME NEW j \in 2..Len(m) PROVE m[j].delay > 0
      BY DEF Spaced
    <3>1. CASE j < k
      <4>1. j \in 1..(k - 1) /\ j \in 2..Len(l)
        BY <2>0, <3>1
      <4>. QED  BY <1>1, <2>4, <4>1 DEF Spaced
    <3>2. CASE j = k
      BY <1>5, <2>4, <3>2
    <3>3. CASE j > k
      <4>1. PICK i \in k..Len(l) : j = i + 1
        <5>1. j - 1 \in k..Len(l) /\ j = (j - 1) + 1
          BY <2>0, <2>4, <3>3
        <5>. QED  BY <5>1
      <4>2. m[j] = r[i] /\ i \in 1..Len(l)
        BY <2>0, <2>4, <4>1
      <4>3. CASE i = k
        BY <2>2, <2>3, <4>2, <4>3
      <4>4. CASE i # k
        <5>1. i \in 2..Len(l)
          BY <2>0, <4>1, <4>4
        <5>. QED  BY <1>1, <2>3, <4>2, <4>4, <5>1 DEF Spaced
      <4>. QED  BY <4>3, <4>4
    <3>. QED  BY <2>0, <3>1, <3>2, <3>3
  <2>6. Delayed(m)
    BY <2>4, StepsDelayed
  <2>7. \A j \in 0..(k - 1) : DelaySums(m)[j] = at[j]
    <3>1. k - 1 \in Nat /\ k - 1 <= Len(l) /\ k - 1 <= Len(m)
      BY <1>1, <2>0, <2>4
    <3>. QED  BY <1>1, <2>4, <2>6, <3>1, SumsAgree DEF at
  <2>8. DelaySums(m)[k] = d
    <3>1. k \in 1..Len(m) /\ k - 1 \in 0..(k - 1)
      BY <1>1, <2>0, <2>4
    <3>2. DelaySums(m)[k] = DelaySums(m)[k - 1] + m[k].delay
      BY <2>6, <3>1, SumsStep
    <3>. QED  BY <1>4, <1>5, <2>4, <2>7, <3>1, <3>2
  <2>9. DelaySums(m)[k + 1] = at[k]
    <3>1. k + 1 \in 1..Len(m) /\ (k + 1) - 1 = k /\ k \in k..Len(l)
      BY <1>1, <2>0, <2>4
    <3>2. DelaySums(m)[k + 1] = DelaySums(m)[k] + m[k + 1].delay
      BY <2>6, <3>1, SumsStep
    <3>3. m[k + 1].delay = at[k] - d
      BY <2>3, <2>4, <3>1
    <3>. QED  BY <1>2, <2>0, <2>8, <3>2, <3>3
  <2>10. \A j \in k..Len(l) : DelaySums(m)[j + 1] = at[j]
    <3>1. \A j \in (k + 1)..Len(l) : m[j + 1].delay = l[j].delay
      <4>. SUFFICES ASSUME NEW j \in (k + 1)..Len(l)
                    PROVE  m[j + 1].delay = l[j].delay
        OBVIOUS
      <4>1. j \in k..Len(l) /\ j \in 1..Len(l) /\ j # k
        BY <2>0
      <4>. QED  BY <2>3, <2>4, <4>1
    <3>. QED  BY <1>1, <2>0, <2>4, <2>6, <2>9, <3>1, SumsShift DEF at
  <2>11. \A j \in k..Len(l) : at[j] > d
    <3>. SUFFICES ASSUME NEW j \in k..Len(l) PROVE at[j] > d
      OBVIOUS
    <3>1. CASE j = k
      BY <2>0, <3>1
    <3>2. CASE j # k
      <4>1. j \in 0..Len(l) /\ k \in 0..Len(l) /\ k < j
        BY <2>0, <3>2
      <4>2. at[k] <= at[j]
        BY <1>1, <4>1, SumsIncrease DEF at
      <4>3. at[j] \in Nat /\ at[k] \in Nat /\ at[k] > d
        BY <1>2, <2>0, <4>1
      <4>. HIDE DEF at
      <4>. QED  BY <4>2, <4>3
    <3>. QED  BY <3>1, <3>2
  <2>12. \A j \in k..Len(l) : \A L \in Lists : m[j + 1][L] = l[j][L]
    <3>. SUFFICES ASSUME NEW j \in k..Len(l), NEW L \in Lists
                  PROVE  m[j + 1][L] = l[j][L]
      OBVIOUS
    <3>1. j \in 1..Len(l) /\ m[j + 1] = r[j]
      BY <2>0, <2>4
    <3>. QED  BY <2>3, <3>1
  <2>13. \A j \in 1..(k - 1) : DelaySums(m)[j] = at[j]
    BY <2>0, <2>7
  <2>14. Inserted(l, m, d, k)
    BY <1>3, <1>4, <2>0, <2>4, <2>8, <2>10, <2>11, <2>12, <2>13 DEF Inserted, at
  <2>. QED  BY <2>4, <2>5, <2>14 DEF Steps, m
<1>. QED  BY <1>1, <1>3, <1>6, <1>7, <1>8

-----------------------------------------------------------------------------
(* The list of steps as what it stands for: the times it has a step for,   *)
(* and what is queued for each time and list.                              *)

TimesOf(l) == {DelaySums(l)[k] : k \in 1..Len(l)}

StepOf(l, d) == CHOOSE k \in 1..Len(l) : DelaySums(l)[k] = d

QueueAt(l, d, L) == IF d \in TimesOf(l) THEN l[StepOf(l, d)][L] ELSE <<>>

\* No two steps stand for the same time.
LEMMA OneStep ==
    ASSUME NEW l, Steps(l), NEW j \in 1..Len(l), NEW k \in 1..Len(l),
           DelaySums(l)[j] = DelaySums(l)[k]
    PROVE  j = k
<1>1. Delayed(l) /\ Spaced(l) /\ Len(l) \in Nat
  BY StepsDelayed DEF Steps
<1>2. DelaySums(l) \in [0..Len(l) -> Nat]
  BY <1>1, SumsStep
<1>3. CASE j < k
  <2>1. DelaySums(l)[j] < DelaySums(l)[k]
    BY <1>1, <1>3, SumsIncrease
  <2>. QED  BY <1>1, <1>2, <2>1
<1>4. CASE k < j
  <2>1. DelaySums(l)[k] < DelaySums(l)[j]
    BY <1>1, <1>4, SumsIncrease
  <2>. QED  BY <1>1, <1>2, <2>1
<1>. QED  BY <1>1, <1>3, <1>4

\* What is queued for the time of a step is what that step holds.
LEMMA QueueAtStep ==
    ASSUME NEW l, Steps(l), NEW k \in 1..Len(l)
    PROVE  /\ DelaySums(l)[k] \in TimesOf(l)
           /\ StepOf(l, DelaySums(l)[k]) = k
           /\ \A L \in Lists : QueueAt(l, DelaySums(l)[k], L) = l[k][L]
<1>. DEFINE d == DelaySums(l)[k]
<1>1. d \in TimesOf(l)
  BY DEF TimesOf
<1>2. PICK j \in 1..Len(l) : j = StepOf(l, d) /\ DelaySums(l)[j] = d
  BY DEF StepOf
<1>3. j = k
  BY <1>2, OneStep
<1>. QED  BY <1>1, <1>2, <1>3 DEF QueueAt

\* A queue is a sequence of events, empty where there is no step.
LEMMA QueueAtType ==
    ASSUME NEW l, Steps(l), NEW d, NEW L \in Lists
    PROVE  /\ QueueAt(l, d, L) \in Seq(Event)
           /\ TimesOf(l) \in SUBSET Nat
           /\ d \notin TimesOf(l) => QueueAt(l, d, L) = <<>>
           /\ d \in TimesOf(l) => \E k \in 1..Len(l) :
                 DelaySums(l)[k] = d /\ QueueAt(l, d, L) = l[k][L]
<1>1. l \in Seq(StepRec) /\ Delayed(l) /\ Len(l) \in Nat
  BY StepsDelayed DEF Steps
<1>2. TimesOf(l) \in SUBSET Nat
  BY <1>1, SumsStep DEF TimesOf
<1>3. CASE d \notin TimesOf(l)
  BY <1>2, <1>3 DEF QueueAt
<1>4. CASE d \in TimesOf(l)
  <2>1. PICK k \in 1..Len(l) : DelaySums(l)[k] = d
    BY <1>4 DEF TimesOf
  <2>2. QueueAt(l, d, L) = l[k][L]
    BY <2>1, QueueAtStep
  <2>3. l[k][L] \in Seq(Event)
    BY <1>1, StepRecLists
  <2>. QED  BY <1>2, <1>4, <2>1, <2>2, <2>3
<1>. QED  BY <1>3, <1>4

\* EnsureStep adds a time, and nothing to any queue.
LEMMA EnsureKeepsQueues ==
    ASSUME NEW l, Steps(l), NEW d \in Nat
    PROVE  LET m == EnsureStep(l, d) IN
             /\ Steps(m)
             /\ TimesOf(m) = TimesOf(l) \cup {d}
             /\ \A t \in Nat, L \in Lists : QueueAt(m, t, L) = QueueAt(l, t, L)
<1>. DEFINE m == EnsureStep(l, d)
<1>1. Steps(m) /\ (Reused(l, m, d) \/ \E k : Inserted(l, m, d, k))
  BY EnsureStepResult
<1>. HIDE DEF m
<1>2. CASE Reused(l, m, d)
  BY <1>1, <1>2 DEF Reused, TimesOf, m
<1>3. CASE \E k : Inserted(l, m, d, k)
  <2>1. PICK k : Inserted(l, m, d, k)
    BY <1>3
  <2>0. Len(l) \in Nat
    BY DEF Steps
  <2>2. /\ k \in 1..Len(m) /\ DelaySums(m)[k] = d
        /\ \A L \in Lists : m[k][L] = <<>>
    BY <2>0, <2>1 DEF Inserted
  <2>3. \A j \in 1..Len(l) : \E i \in 1..Len(m) :
            /\ DelaySums(m)[i] = DelaySums(l)[j]
            /\ \A L \in Lists : m[i][L] = l[j][L]
    <3>. SUFFICES ASSUME NEW j \in 1..Len(l)
                  PROVE  \E i \in 1..Len(m) :
                            /\ DelaySums(m)[i] = DelaySums(l)[j]
                            /\ \A L \in Lists : m[i][L] = l[j][L]
      OBVIOUS
    <3>1. CASE j < k
      <4>1. j \in 1..(k - 1) /\ j \in 1..Len(m)
        BY <2>0, <2>1, <3>1 DEF Inserted
      <4>2. m[j] = l[j] /\ DelaySums(m)[j] = DelaySums(l)[j]
        BY <2>1, <4>1 DEF Inserted
      <4>. QED  BY <4>1, <4>2
    <3>2. CASE ~(j < k)
      <4>1. j \in k..Len(l) /\ j + 1 \in 1..Len(m)
        BY <2>0, <2>1, <3>2 DEF Inserted
      <4>2. /\ DelaySums(m)[j + 1] = DelaySums(l)[j]
            /\ \A L \in Lists : m[j + 1][L] = l[j][L]
        BY <2>1, <4>1 DEF Inserted
      <4>. QED  BY <4>1, <4>2
    <3>. QED  BY <3>1, <3>2
  <2>4. \A i \in 1..Len(m) : i = k \/ \E j \in 1..Len(l) :
            DelaySums(m)[i] = DelaySums(l)[j]
    <3>. SUFFICES ASSUME NEW i \in 1..Len(m), i # k
                  PROVE  \E j \in 1..Len(l) : DelaySums(m)[i] = DelaySums(l)[j]
      OBVIOUS
    <3>1. CASE i < k
      <4>1. i \in 1..(k - 1) /\ i \in 1..Len(l)
        BY <2>0, <2>1, <3>1 DEF Inserted
      <4>. QED  BY <2>1, <4>1 DEF Inserted
    <3>2. CASE ~(i < k)
      <4>1. PICK j \in k..Len(l) : i = j + 1
        <5>1. i - 1 \in k..Len(l) /\ i = (i - 1) + 1
          BY <2>0, <2>1, <3>2 DEF Inserted
        <5>. QED  BY <5>1
      <4>2. j \in 1..Len(l) /\ DelaySums(m)[j + 1] = DelaySums(l)[j]
        BY <2>0, <2>1 DEF Inserted
      <4>. QED  BY <4>1, <4>2
    <3>. QED  BY <3>1, <3>2
  <2>5. d \notin TimesOf(l)
    <3>. SUFFICES ASSUME NEW j \in 1..Len(l), DelaySums(l)[j] = d PROVE FALSE
      BY DEF TimesOf
    <3>1. j \in 1..(k - 1) \/ j \in k..Len(l)
      BY <2>0, <2>1 DEF Inserted
    <3>2. ~(DelaySums(l)[j] < d) /\ ~(DelaySums(l)[j] > d)
      OBVIOUS
    <3>. QED  BY <2>1, <3>1, <3>2 DEF Inserted
  <2>6. TimesOf(m) = TimesOf(l) \cup {d}
    <3>1. ASSUME NEW t \in TimesOf(m) PROVE t \in TimesOf(l) \cup {d}
      BY <2>2, <2>4, <3>1 DEF TimesOf
    <3>2. ASSUME NEW t \in TimesOf(l) \cup {d} PROVE t \in TimesOf(m)
      BY <2>2, <2>3, <3>2 DEF TimesOf
    <3>. QED  BY <3>1, <3>2
  <2>7. ASSUME NEW t \in Nat, NEW L \in Lists PROVE QueueAt(m, t, L) = QueueAt(l, t, L)
    <3>1. CASE t = d
      <4>1. QueueAt(m, d, L) = m[k][L]
        BY <1>1, <2>2, QueueAtStep
      <4>. QED  BY <2>2, <2>5, <3>1, <4>1 DEF QueueAt
    <3>2. CASE t # d /\ t \in TimesOf(l)
      <4>1. PICK j \in 1..Len(l) : DelaySums(l)[j] = t
        BY <3>2 DEF TimesOf
      <4>2. PICK i \in 1..Len(m) : DelaySums(m)[i] = t /\ m[i][L] = l[j][L]
        BY <2>3, <4>1
      <4>3. QueueAt(l, t, L) = l[j][L]
        BY <4>1, QueueAtStep
      <4>4. QueueAt(m, t, L) = m[i][L]
        BY <1>1, <4>2, QueueAtStep
      <4>. QED  BY <4>2, <4>3, <4>4
    <3>3. CASE t # d /\ t \notin TimesOf(l)
      BY <2>6, <3>3 DEF QueueAt
    <3>. QED  BY <3>1, <3>2, <3>3
  <2>. QED  BY <1>1, <2>6, <2>7 DEF m
<1>. QED  BY <1>1, <1>2, <1>3

\* Step k is s, and the others are as they were.
Replaced(l, m, k, s) ==
    /\ m \in Seq(StepRec) /\ Len(m) = Len(l)
    /\ m[k] = s
    /\ \A j \in 1..Len(l) : j # k => m[j] = l[j]

\* A step whose delay is kept may be replaced.
LEMMA ReplaceStep ==
    ASSUME NEW l, Steps(l), NEW k \in 1..Len(l), NEW s \in StepRec,
           s.delay = l[k].delay,
           NEW m, Replaced(l, m, k, s)
    PROVE  /\ Steps(m)
           /\ TimesOf(m) = TimesOf(l)
           /\ \A t \in Nat, L \in Lists :
                 QueueAt(m, t, L) = IF t = DelaySums(l)[k] THEN s[L]
                                    ELSE QueueAt(l, t, L)
<1>1. l \in Seq(StepRec) /\ Delayed(l) /\ Spaced(l) /\ Len(l) \in Nat
  BY StepsDelayed DEF Steps
<1>2. /\ m \in Seq(StepRec) /\ Len(m) = Len(l)
      /\ m[k] = s /\ \A j \in 1..Len(l) : j # k => m[j] = l[j]
  BY DEF Replaced
<1>3. \A j \in 1..Len(l) : m[j].delay = l[j].delay
  BY <1>2
<1>4. Delayed(m) /\ Steps(m)
  BY <1>1, <1>2, <1>3, StepsDelayed DEF Spaced, Steps
<1>5. \A j \in 0..Len(l) : DelaySums(m)[j] = DelaySums(l)[j]
  BY <1>1, <1>2, <1>3, <1>4, SumsAgree
<1>6. \A j \in 1..Len(l) : DelaySums(m)[j] = DelaySums(l)[j]
  BY <1>1, <1>5
<1>7. TimesOf(m) = TimesOf(l)
  BY <1>2, <1>6 DEF TimesOf
<1>8. ASSUME NEW t \in Nat, NEW L \in Lists
      PROVE  QueueAt(m, t, L) = IF t = DelaySums(l)[k] THEN s[L]
                                ELSE QueueAt(l, t, L)
  <2>1. CASE t \notin TimesOf(l)
    <3>1. t # DelaySums(l)[k]
      BY <2>1, QueueAtStep
    <3>. QED  BY <1>7, <2>1, <3>1 DEF QueueAt
  <2>2. CASE t \in TimesOf(l)
    <3>1. PICK j \in 1..Len(l) : DelaySums(l)[j] = t
      BY <2>2 DEF TimesOf
    <3>2. QueueAt(m, t, L) = m[j][L] /\ QueueAt(l, t, L) = l[j][L]
      <4>1. j \in 1..Len(m) /\ DelaySums(m)[j] = t
        BY <1>2, <1>6, <3>1
      <4>. QED  BY <1>4, <3>1, <4>1, QueueAtStep
    <3>3. j = k <=> t = DelaySums(l)[k]
      BY <3>1, OneStep
    <3>. QED  BY <1>2, <3>2, <3>3
  <2>. QED  BY <2>1, <2>2
<1>. QED  BY <1>4, <1>7, <1>8

\* The sum of the first delay is that delay.
LEMMA FirstSum ==
    ASSUME NEW l, Steps(l), l # <<>>
    PROVE  /\ Len(l) \in Nat /\ 1 \in 1..Len(l) /\ l[1] \in StepRec
           /\ DelaySums(l)[1] = l[1].delay /\ l[1].delay \in Nat
           /\ l[1].delay \in TimesOf(l)
           /\ \A t \in TimesOf(l) : t >= l[1].delay
           /\ \A L \in Lists : QueueAt(l, l[1].delay, L) = l[1][L]
<1>1. l \in Seq(StepRec) /\ Delayed(l) /\ Spaced(l) /\ Len(l) \in Nat
  BY StepsDelayed DEF Steps
<1>2. 1 \in 1..Len(l) /\ l[1] \in StepRec
  BY <1>1, EmptySeq
<1>3. DelaySums(l)[1] = l[1].delay /\ l[1].delay \in Nat
  <2>1. DelaySums(l)[1] = DelaySums(l)[1 - 1] + l[1].delay /\ DelaySums(l)[0] = 0
    BY <1>1, <1>2, SumsStep
  <2>2. l[1].delay \in Nat
    BY <1>1, <1>2 DEF Delayed
  <2>. QED  BY <2>1, <2>2
<1>4. ASSUME NEW t \in TimesOf(l) PROVE t >= l[1].delay
  <2>1. PICK k \in 1..Len(l) : DelaySums(l)[k] = t
    BY <1>4 DEF TimesOf
  <2>2. CASE k = 1
    BY <1>3, <2>1, <2>2
  <2>3. CASE k # 1
    <3>1. 1 \in 0..Len(l) /\ k \in 0..Len(l) /\ 1 < k
      BY <1>1, <2>3
    <3>2. DelaySums(l)[1] < DelaySums(l)[k]
      BY <1>1, <3>1, SumsIncrease
    <3>3. DelaySums(l)[k] \in Nat
      BY <1>1, <3>1, SumsStep
    <3>. QED  BY <1>3, <2>1, <3>2, <3>3
  <2>. QED  BY <2>2, <2>3
<1>5. /\ l[1].delay \in TimesOf(l)
      /\ \A L \in Lists : QueueAt(l, l[1].delay, L) = l[1][L]
  BY <1>2, <1>3, QueueAtStep
<1>. QED  BY <1>1, <1>2, <1>3, <1>4, <1>5

\* The first step is the current one exactly if there is a step for now.
LEMMA CurrentStep ==
    ASSUME NEW l, Steps(l), l # <<>>
    PROVE  l[1].delay = 0 <=> 0 \in TimesOf(l)
  BY FirstSum

\* One list of the current step is replaced.
LEMMA SetList ==
    ASSUME NEW l, Steps(l), l # <<>>, l[1].delay = 0,
           NEW s \in StepRec, s.delay = 0,
           NEW m, Replaced(l, m, 1, s)
    PROVE  /\ Steps(m) /\ m # <<>> /\ m[1] = s
           /\ TimesOf(m) = TimesOf(l)
           /\ \A t \in Nat, L \in Lists :
                 QueueAt(m, t, L) = IF t = 0 THEN s[L] ELSE QueueAt(l, t, L)
<1>1. 1 \in 1..Len(l) /\ DelaySums(l)[1] = 0 /\ l \in Seq(StepRec)
  BY FirstSum DEF Steps
<1>2. m # <<>> /\ m[1] = s
  <2>1. m \in Seq(StepRec) /\ Len(m) = Len(l) /\ m[1] = s
    BY DEF Replaced
  <2>. QED  BY <1>1, <2>1
<1>3. /\ Steps(m)
      /\ TimesOf(m) = TimesOf(l)
      /\ \A t \in Nat, L \in Lists :
            QueueAt(m, t, L) = IF t = DelaySums(l)[1] THEN s[L] ELSE QueueAt(l, t, L)
  BY <1>1, ReplaceStep
<1>. QED  BY <1>1, <1>2, <1>3

\* The first step is deleted.
LEMMA DropHead ==
    ASSUME NEW l, Steps(l), l # <<>>, l[1].delay = 0
    PROVE  /\ Steps(Tail(l))
           /\ TimesOf(Tail(l)) = TimesOf(l) \ {0}
           /\ \A t \in Nat, L \in Lists :
                 QueueAt(Tail(l), t, L) = IF t = 0 THEN <<>> ELSE QueueAt(l, t, L)
<1>. DEFINE m == Tail(l)
<1>1. /\ l \in Seq(StepRec) /\ Delayed(l) /\ Spaced(l) /\ Len(l) \in Nat
      /\ 1 \in 1..Len(l) /\ DelaySums(l)[1] = 0
  BY StepsDelayed, FirstSum DEF Steps
<1>2. /\ m \in Seq(StepRec) /\ Len(m) = Len(l) - 1
      /\ \A j \in 1..Len(m) : m[j] = l[j + 1]
  <2>1. m \in Seq(StepRec) /\ Len(m) = Len(l) - 1
    BY <1>1, HeadTailProperties
  <2>2. \A j \in 1..Len(m) : m[j] = l[j + 1]
    BY <1>1
  <2>. QED  BY <2>1, <2>2
<1>. HIDE DEF m
<1>3. Delayed(m) /\ Steps(m)
  <2>. SUFFICES ASSUME NEW j \in 2..Len(m) PROVE m[j].delay > 0
    BY <1>2, StepsDelayed DEF Steps, Spaced
  <2>1. j \in 1..Len(m) /\ j + 1 \in 2..Len(l)
    BY <1>1, <1>2
  <2>. QED  BY <1>1, <1>2, <2>1 DEF Spaced
<1>4. \A j \in 1..Len(m) : DelaySums(m)[j] = DelaySums(l)[j + 1]
  <2>. DEFINE S == {n \in Nat : n <= Len(m) => DelaySums(m)[n] = DelaySums(l)[n + 1]}
  <2>1. 0 \in S
    BY <1>1, <1>3, SumsStep
  <2>2. ASSUME NEW n \in S PROVE n + 1 \in S
    <3>1. n \in Nat /\ (n <= Len(m) => DelaySums(m)[n] = DelaySums(l)[n + 1])
      BY <2>2
    <3>. HIDE DEF S
    <3>2. ASSUME n + 1 <= Len(m)
          PROVE  DelaySums(m)[n + 1] = DelaySums(l)[n + 1 + 1]
      <4>1. /\ n + 1 \in 1..Len(m) /\ (n + 1) - 1 = n /\ n <= Len(m)
            /\ n + 1 + 1 \in 1..Len(l) /\ (n + 1 + 1) - 1 = n + 1
        BY <1>1, <1>2, <3>1, <3>2
      <4>2. DelaySums(m)[n + 1] = DelaySums(m)[n] + m[n + 1].delay
        BY <1>3, <4>1, SumsStep
      <4>3. DelaySums(l)[n + 1 + 1] = DelaySums(l)[n + 1] + l[n + 1 + 1].delay
        BY <1>1, <4>1, SumsStep
      <4>4. m[n + 1] = l[n + 1 + 1]
        BY <1>2, <4>1
      <4>. QED  BY <3>1, <4>1, <4>2, <4>3, <4>4
    <3>. QED  BY <3>1, <3>2 DEF S
  <2>3. S = Nat
    <3>. HIDE DEF S
    <3>1. S \in SUBSET Nat
      BY DEF S
    <3>. QED  BY <2>1, <2>2, <3>1, SetInduction
  <2>. QED  BY <1>1, <1>2, <2>3
<1>5. ASSUME NEW k \in 1..Len(l), k # 1
      PROVE  \E j \in 1..Len(m) : k = j + 1
  <2>1. k - 1 \in 1..Len(m) /\ k = (k - 1) + 1
    BY <1>1, <1>2, <1>5
  <2>. QED  BY <2>1
<1>6. TimesOf(m) = TimesOf(l) \ {0}
  <2>1. ASSUME NEW t \in TimesOf(m) PROVE t \in TimesOf(l) \ {0}
    <3>1. PICK j \in 1..Len(m) : DelaySums(m)[j] = t
      BY <2>1 DEF TimesOf
    <3>2. j + 1 \in 1..Len(l) /\ j + 1 # 1 /\ DelaySums(l)[j + 1] = t
      BY <1>1, <1>2, <1>4, <3>1
    <3>3. t # 0
      BY <1>1, <3>2, OneStep
    <3>. QED  BY <3>2, <3>3 DEF TimesOf
  <2>2. ASSUME NEW t \in TimesOf(l) \ {0} PROVE t \in TimesOf(m)
    <3>1. PICK k \in 1..Len(l) : DelaySums(l)[k] = t
      BY <2>2 DEF TimesOf
    <3>2. k # 1
      BY <1>1, <3>1
    <3>. QED  BY <1>4, <1>5, <3>1, <3>2 DEF TimesOf
  <2>. QED  BY <2>1, <2>2
<1>7. ASSUME NEW t \in Nat, NEW L \in Lists
      PROVE  QueueAt(m, t, L) = IF t = 0 THEN <<>> ELSE QueueAt(l, t, L)
  <2>1. CASE t \notin TimesOf(m)
    BY <1>6, <2>1 DEF QueueAt
  <2>2. CASE t \in TimesOf(m)
    <3>1. PICK j \in 1..Len(m) : DelaySums(m)[j] = t
      BY <2>2 DEF TimesOf
    <3>2. j + 1 \in 1..Len(l) /\ DelaySums(l)[j + 1] = t
      BY <1>1, <1>2, <1>4, <3>1
    <3>3. QueueAt(m, t, L) = m[j][L]
      BY <1>3, <3>1, QueueAtStep
    <3>4. QueueAt(l, t, L) = l[j + 1][L]
      BY <3>2, QueueAtStep
    <3>. QED  BY <1>2, <1>6, <2>2, <3>3, <3>4
  <2>. QED  BY <2>1, <2>2
<1>. QED  BY <1>3, <1>6, <1>7 DEF m

\* Time advances to the first step: every other one is that much nearer.
LEMMA AdvanceHead ==
    ASSUME NEW l, Steps(l), l # <<>>
    PROVE  LET m == [l EXCEPT ![1].delay = 0] IN
             /\ Steps(m) /\ m # <<>> /\ m[1].delay = 0
             /\ \A t \in Nat : t \in TimesOf(m) <=> t + l[1].delay \in TimesOf(l)
             /\ \A t \in Nat, L \in Lists :
                   QueueAt(m, t, L) = QueueAt(l, t + l[1].delay, L)
<1>. DEFINE m == [l EXCEPT ![1].delay = 0]
            s == [l[1] EXCEPT !.delay = 0]
            D == l[1].delay
<1>1. /\ l \in Seq(StepRec) /\ Delayed(l) /\ Spaced(l) /\ Len(l) \in Nat
      /\ 1 \in 1..Len(l) /\ DelaySums(l)[1] = D /\ l[1] \in StepRec /\ D \in Nat
      /\ \A t \in TimesOf(l) : t >= D
  BY StepsDelayed, FirstSum DEF Steps
<1>2. s \in StepRec /\ s.delay = 0 /\ \A L \in Lists : s[L] = l[1][L]
  BY <1>1 DEF StepRec, Lists
<1>3. /\ m \in Seq(StepRec) /\ Len(m) = Len(l) /\ m[1] = s
      /\ \A j \in 1..Len(l) : j # 1 => m[j] = l[j]
  <2>1. m = [l EXCEPT ![1] = s]
    OBVIOUS
  <2>. HIDE DEF m, s
  <2>. QED  BY <1>1, <1>2, <2>1, ExceptSeq
<1>. HIDE DEF m, s
<1>4. Delayed(m) /\ Steps(m)
  <2>. SUFFICES ASSUME NEW j \in 2..Len(m) PROVE m[j].delay > 0
    BY <1>3, StepsDelayed DEF Steps, Spaced
  <2>1. j \in 1..Len(l) /\ j # 1 /\ j \in 2..Len(l)
    BY <1>1, <1>3
  <2>. QED  BY <1>1, <1>3, <2>1 DEF Spaced
<1>5. \A j \in 1..Len(l) : DelaySums(l)[j] = DelaySums(m)[j] + D
  <2>. DEFINE S == {n \in Nat : n + 1 <= Len(l) =>
                        DelaySums(l)[n + 1] = DelaySums(m)[n + 1] + D}
  <2>0. DelaySums(m)[1] = 0
    <3>1. m # <<>>
      BY <1>1, <1>3
    <3>. QED  BY <1>2, <1>3, <1>4, <3>1, FirstSum
  <2>1. 0 \in S
    BY <1>1, <2>0
  <2>2. ASSUME NEW n \in S PROVE n + 1 \in S
    <3>1. n \in Nat /\ (n + 1 <= Len(l) => DelaySums(l)[n + 1] = DelaySums(m)[n + 1] + D)
      BY <2>2
    <3>. HIDE DEF S
    <3>2. ASSUME n + 1 + 1 <= Len(l)
          PROVE  DelaySums(l)[n + 1 + 1] = DelaySums(m)[n + 1 + 1] + D
      <4>1. /\ n + 1 \in 0..Len(l) /\ n + 1 <= Len(l) /\ n + 1 + 1 # 1
            /\ n + 1 + 1 \in 1..Len(l) /\ (n + 1 + 1) - 1 = n + 1
        BY <1>1, <3>1, <3>2
      <4>2. DelaySums(l)[n + 1 + 1] = DelaySums(l)[n + 1] + l[n + 1 + 1].delay
        BY <1>1, <4>1, SumsStep
      <4>3. DelaySums(m)[n + 1 + 1] = DelaySums(m)[n + 1] + m[n + 1 + 1].delay
        BY <1>3, <1>4, <4>1, SumsStep
      <4>4. m[n + 1 + 1] = l[n + 1 + 1]
        BY <1>3, <4>1
      <4>5. DelaySums(m)[n + 1] \in Nat /\ l[n + 1 + 1].delay \in Nat
        BY <1>1, <1>3, <1>4, <4>1, SumsStep DEF Delayed
      <4>. QED  BY <1>1, <3>1, <4>1, <4>2, <4>3, <4>4, <4>5
    <3>. QED  BY <3>1, <3>2 DEF S
  <2>3. S = Nat
    <3>. HIDE DEF S
    <3>1. S \in SUBSET Nat
      BY DEF S
    <3>. QED  BY <2>1, <2>2, <3>1, SetInduction
  <2>. HIDE DEF S
  <2>. SUFFICES ASSUME NEW j \in 1..Len(l)
                PROVE  DelaySums(l)[j] = DelaySums(m)[j] + D
    OBVIOUS
  <2>4. j - 1 \in S /\ (j - 1) + 1 = j /\ j <= Len(l)
    BY <1>1, <2>3
  <2>. QED  BY <2>4 DEF S
<1>6. \A j \in 1..Len(l) : DelaySums(m)[j] \in Nat
  BY <1>1, <1>3, <1>4, SumsStep
<1>7. ASSUME NEW t \in Nat PROVE t \in TimesOf(m) <=> t + D \in TimesOf(l)
  <2>1. ASSUME t \in TimesOf(m) PROVE t + D \in TimesOf(l)
    BY <1>3, <1>5, <2>1 DEF TimesOf
  <2>2. ASSUME t + D \in TimesOf(l) PROVE t \in TimesOf(m)
    <3>1. PICK j \in 1..Len(l) : DelaySums(l)[j] = t + D
      BY <2>2 DEF TimesOf
    <3>2. DelaySums(m)[j] = t
      BY <1>1, <1>5, <1>6, <3>1
    <3>. QED  BY <1>3, <3>2 DEF TimesOf
  <2>. QED  BY <2>1, <2>2
<1>8. ASSUME NEW t \in Nat, NEW L \in Lists
      PROVE  QueueAt(m, t, L) = QueueAt(l, t + D, L)
  <2>1. CASE t \notin TimesOf(m)
    BY <1>7, <2>1 DEF QueueAt
  <2>2. CASE t \in TimesOf(m)
    <3>1. PICK j \in 1..Len(l) : DelaySums(m)[j] = t
      BY <1>3, <2>2 DEF TimesOf
    <3>2. QueueAt(m, t, L) = m[j][L]
      BY <1>3, <1>4, <3>1, QueueAtStep
    <3>3. QueueAt(l, t + D, L) = l[j][L]
      BY <1>5, <3>1, QueueAtStep
    <3>4. m[j][L] = l[j][L]
      BY <1>2, <1>3
    <3>. QED  BY <3>2, <3>3, <3>4
  <2>. QED  BY <2>1, <2>2
<1>9. m # <<>> /\ m[1].delay = 0
  BY <1>1, <1>2, <1>3
<1>. QED  BY <1>4, <1>7, <1>8, <1>9 DEF m

-----------------------------------------------------------------------------
(* schedule_event_ and schedule_event_push_.                               *)

\* m is l with e behind, or ahead of, the queue Q of time d.
Posted(l, m, d, Q, q) ==
    /\ Steps(m)
    /\ TimesOf(m) = TimesOf(l) \cup {d}
    /\ \A t \in Nat, L \in Lists :
          QueueAt(m, t, L) = IF t = d /\ L = Q THEN q ELSE QueueAt(l, t, L)

\* A cell is linked in at the end of one list.
LEMMA LinkInList ==
    ASSUME NEW s \in StepRec, NEW L \in Lists, NEW e \in Event
    PROVE  /\ Slot(s, L) \in Lists
           /\ LinkIn(s, L, e) \in StepRec
           /\ LinkIn(s, L, e).delay = s.delay
           /\ \A Q \in Lists :
                 LinkIn(s, L, e)[Q] = IF Q = Slot(s, L) THEN Append(s[Q], e) ELSE s[Q]
<1>1. Slot(s, L) \in Lists
  BY DEF Slot, Lists
<1>2. ASSUME NEW Q \in Lists
      PROVE  LET m == [s EXCEPT ![Q] = Append(@, e)] IN
               /\ m \in StepRec /\ m.delay = s.delay
               /\ \A P \in Lists : m[P] = IF P = Q THEN Append(s[P], e) ELSE s[P]
  <2>1. s[Q] \in Seq(Event)
    BY StepRecLists
  <2>2. Append(s[Q], e) \in Seq(Event)
    BY <2>1
  <2>. QED  BY <2>2 DEF StepRec, Lists
<1>. QED  BY <1>1, <1>2 DEF LinkIn

\* The step at d is found again.
LEMMA StepAtIs ==
    ASSUME NEW l, Steps(l), NEW k \in 1..Len(l)
    PROVE  StepAt(l, DelaySums(l)[k]) = k
<1>1. Delayed(l) /\ Spaced(l) /\ Len(l) \in Nat
  BY StepsDelayed DEF Steps
<1>2. k > 1 => DelaySums(l)[k - 1] < DelaySums(l)[k]
  <2>. SUFFICES ASSUME k > 1 PROVE DelaySums(l)[k - 1] < DelaySums(l)[k]
    OBVIOUS
  <2>1. k - 1 \in 0..Len(l) /\ k \in 0..Len(l) /\ k - 1 < k /\ k - 1 > 0
    BY <1>1
  <2>. QED  BY <1>1, <2>1, SumsIncrease
<1>3. PICK j \in 1..Len(l) :
         j = StepAt(l, DelaySums(l)[k]) /\ DelaySums(l)[j] = DelaySums(l)[k]
  BY <1>2 DEF StepAt
<1>. QED  BY <1>3, OneStep

\* An event goes to the end of its queue.  A start event that is not the first
\* of its time goes to the active one instead, or vvp crashes.
LEMMA ScheduleEvent ==
    ASSUME Steps(sched_list), NEW e \in Event, NEW d \in Nat, NEW L \in Lists,
           schedule_event_(e, d, L)
    PROVE  LET Q == IF L = "start" /\ QueueAt(sched_list, d, "start") # <<>>
                    THEN "active" ELSE L IN
           \/ /\ pc' = "crashed" /\ sched_list' = sched_list
              /\ L = "start" /\ QueueAt(sched_list, d, "start") # <<>>
           \/ /\ pc' = pc
              /\ Posted(sched_list, sched_list', d, Q,
                        Append(QueueAt(sched_list, d, Q), e))
<1>. DEFINE m == EnsureStep(sched_list, d)
            k == StepAt(m, d)
            Q == IF L = "start" /\ QueueAt(sched_list, d, "start") # <<>>
                 THEN "active" ELSE L
<1>1. /\ Steps(m)
      /\ TimesOf(m) = TimesOf(sched_list) \cup {d}
      /\ \A t \in Nat, P \in Lists : QueueAt(m, t, P) = QueueAt(sched_list, t, P)
  BY EnsureKeepsQueues
<1>2. \/ Crashes(m[k], L) /\ pc' = "crashed" /\ sched_list' = sched_list
      \/ sched_list' = [m EXCEPT ![k] = LinkIn(@, L, e)] /\ pc' = pc
  BY DEF schedule_event_
<1>. HIDE DEF m, k
<1>3. PICK i \in 1..Len(m) : DelaySums(m)[i] = d
  BY <1>1 DEF TimesOf
<1>4. i = k
  BY <1>1, <1>3, StepAtIs DEF k
<1>5. \A P \in Lists : m[k][P] = QueueAt(sched_list, d, P)
  BY <1>1, <1>3, <1>4, QueueAtStep
<1>6. "start" \in Lists /\ "active" \in Lists /\ Q \in Lists
  BY DEF Lists
<1>7. CASE Crashes(m[k], L) /\ pc' = "crashed" /\ sched_list' = sched_list
  BY <1>5, <1>6, <1>7 DEF Crashes
<1>8. CASE sched_list' = [m EXCEPT ![k] = LinkIn(@, L, e)] /\ pc' = pc
  <2>1. m[k] \in StepRec
    BY <1>1, <1>3, <1>4 DEF Steps
  <2>. DEFINE s == LinkIn(m[k], L, e)
  <2>2. Slot(m[k], L) = Q
    BY <1>5, <1>6 DEF Slot
  <2>3. /\ s \in StepRec /\ s.delay = m[k].delay
        /\ \A P \in Lists : s[P] = IF P = Q THEN Append(m[k][P], e) ELSE m[k][P]
    BY <2>1, <2>2, LinkInList
  <2>4. Replaced(m, sched_list', k, s)
    <3>1. sched_list' = [m EXCEPT ![k] = s]
      BY <1>8
    <3>2. m \in Seq(StepRec) /\ k \in 1..Len(m)
      BY <1>1, <1>3, <1>4 DEF Steps
    <3>. HIDE DEF s
    <3>. QED  BY <2>3, <3>1, <3>2, ExceptSeq DEF Replaced
  <2>. HIDE DEF s, Q
  <2>5. /\ Steps(sched_list') /\ TimesOf(sched_list') = TimesOf(m)
        /\ \A t \in Nat, P \in Lists :
              QueueAt(sched_list', t, P) =
                IF t = d THEN s[P] ELSE QueueAt(m, t, P)
    BY <1>1, <1>3, <1>4, <2>3, <2>4, ReplaceStep
  <2>6. ASSUME NEW t \in Nat, NEW P \in Lists
        PROVE  QueueAt(sched_list', t, P) =
                 IF t = d /\ P = Q THEN Append(QueueAt(sched_list, d, Q), e)
                 ELSE QueueAt(sched_list, t, P)
    BY <1>1, <1>5, <1>6, <2>3, <2>5
  <2>7. Posted(sched_list, sched_list', d, Q, Append(QueueAt(sched_list, d, Q), e))
    BY <1>1, <2>5, <2>6 DEF Posted
  <2>. QED  BY <1>8, <2>7 DEF Q
<1>. QED  BY <1>2, <1>7, <1>8

\* A pushed event goes ahead of the active events of now.
LEMMA ScheduleEventPush ==
    ASSUME Steps(sched_list), NEW e \in Event, schedule_event_push_(e)
    PROVE  /\ pc' = pc
           /\ Posted(sched_list, sched_list', 0, "active",
                     <<e>> \o QueueAt(sched_list, 0, "active"))
<1>0. "active" \in Lists /\ "active" # "start"
  BY DEF Lists
<1>1. CASE sched_list = <<>> \/ sched_list[1].delay > 0
  <2>1. schedule_event_(e, 0, "active")
    BY <1>1 DEF schedule_event_push_, Ctim
  <2>2. 0 \notin TimesOf(sched_list)
    <3>1. CASE sched_list = <<>>
      BY <3>1 DEF TimesOf
    <3>2. CASE sched_list # <<>>
      BY <1>1, <3>2, FirstSum
    <3>. QED  BY <3>1, <3>2
  <2>3. QueueAt(sched_list, 0, "active") = <<>>
    BY <2>2 DEF QueueAt
  <2>4. /\ pc' = pc
        /\ Posted(sched_list, sched_list', 0, "active",
                  Append(QueueAt(sched_list, 0, "active"), e))
    <3>1. "active" = IF "active" = "start" /\ QueueAt(sched_list, 0, "start") # <<>>
                     THEN "active" ELSE "active"
      OBVIOUS
    <3>. QED  BY <1>0, <2>1, <3>1, ScheduleEvent
  <2>5. Append(<<>>, e) = <<e>> \o <<>>
    OBVIOUS
  <2>. QED  BY <2>3, <2>4, <2>5
<1>2. CASE ~(sched_list = <<>> \/ sched_list[1].delay > 0)
  <2>. DEFINE s == [sched_list[1] EXCEPT !.active = <<e>> \o @]
  <2>0. sched_list # <<>>
    BY <1>2
  <2>1. /\ sched_list[1] \in StepRec /\ sched_list[1].delay = 0
        /\ 0 \in TimesOf(sched_list)
        /\ \A L \in Lists : QueueAt(sched_list, 0, L) = sched_list[1][L]
    BY <1>2, <2>0, FirstSum
  <2>2. sched_list[1].active \in Seq(Event)
    BY <2>1 DEF StepRec
  <2>3. <<e>> \o sched_list[1].active \in Seq(Event)
    BY <2>2
  <2>4. /\ s \in StepRec /\ s.delay = 0
        /\ \A L \in Lists : s[L] = IF L = "active" THEN <<e>> \o sched_list[1].active
                                   ELSE sched_list[1][L]
    BY <2>1, <2>3 DEF StepRec, Lists
  <2>5. sched_list' = [sched_list EXCEPT ![1] = s] /\ pc' = pc
    BY <1>2 DEF schedule_event_push_, Ctim
  <2>. HIDE DEF s
  <2>51. Replaced(sched_list, sched_list', 1, s)
    <3>1. sched_list \in Seq(StepRec) /\ 1 \in 1..Len(sched_list)
      BY <2>0, FirstSum DEF Steps
    <3>. QED  BY <2>4, <2>5, <3>1, ExceptSeq DEF Replaced
  <2>6. /\ Steps(sched_list') /\ TimesOf(sched_list') = TimesOf(sched_list)
        /\ \A t \in Nat, L \in Lists :
              QueueAt(sched_list', t, L) =
                 IF t = 0 THEN s[L] ELSE QueueAt(sched_list, t, L)
    BY <2>0, <2>1, <2>4, <2>51, SetList
  <2>7. sched_list[1].active = QueueAt(sched_list, 0, "active")
    <3>1. sched_list[1].active = sched_list[1]["active"]
      OBVIOUS
    <3>. QED  BY <1>0, <2>1, <3>1
  <2>. DEFINE q == <<e>> \o sched_list[1].active
  <2>8. q = <<e>> \o QueueAt(sched_list, 0, "active")
    BY <2>7
  <2>9. \A L \in Lists : s[L] = IF L = "active" THEN q ELSE sched_list[1][L]
    BY <2>4
  <2>. HIDE DEF q
  <2>10. ASSUME NEW t \in Nat, NEW L \in Lists
        PROVE  QueueAt(sched_list', t, L) =
                 IF t = 0 /\ L = "active" THEN q ELSE QueueAt(sched_list, t, L)
    BY <2>1, <2>6, <2>9
  <2>. QED  BY <2>1, <2>5, <2>6, <2>8, <2>10 DEF Posted
<1>. QED  BY <1>1, <1>2

\* The head of a list of the current step is unlinked.
LEMMA TakeHead ==
    ASSUME NEW l, Steps(l), l # <<>>, l[1].delay = 0,
           NEW L \in Lists, l[1][L] # <<>>
    PROVE  LET m == [l EXCEPT ![1][L] = Tail(@)] IN
             /\ m # <<>> /\ m[1].delay = 0
             /\ Posted(l, m, 0, L, Tail(QueueAt(l, 0, L)))
<1>. DEFINE s == [l[1] EXCEPT ![L] = Tail(@)]
            m == [l EXCEPT ![1][L] = Tail(@)]
<1>1. /\ l[1] \in StepRec /\ 0 \in TimesOf(l)
      /\ \A Q \in Lists : QueueAt(l, 0, Q) = l[1][Q]
  BY FirstSum
<1>2. l[1][L] \in Seq(Event)
  BY <1>1, StepRecLists
<1>3. Tail(l[1][L]) \in Seq(Event)
  BY <1>2, HeadTailProperties
<1>4. /\ s \in StepRec /\ s.delay = 0
      /\ \A Q \in Lists : s[Q] = IF Q = L THEN Tail(l[1][L]) ELSE l[1][Q]
  BY <1>1, <1>3 DEF StepRec, Lists
<1>5. Replaced(l, m, 1, s)
  <2>1. m = [l EXCEPT ![1] = s]
    OBVIOUS
  <2>2. l \in Seq(StepRec) /\ 1 \in 1..Len(l)
    BY FirstSum DEF Steps
  <2>. HIDE DEF m, s
  <2>. QED  BY <1>4, <2>1, <2>2, ExceptSeq DEF Replaced
<1>. HIDE DEF m, s
<1>6. /\ Steps(m) /\ m # <<>> /\ m[1] = s
      /\ TimesOf(m) = TimesOf(l)
      /\ \A t \in Nat, Q \in Lists :
            QueueAt(m, t, Q) = IF t = 0 THEN s[Q] ELSE QueueAt(l, t, Q)
  BY <1>4, <1>5, SetList
<1>. DEFINE q == Tail(l[1][L])
<1>7. q = Tail(QueueAt(l, 0, L))
  BY <1>1
<1>8. \A Q \in Lists : s[Q] = IF Q = L THEN q ELSE l[1][Q]
  BY <1>4
<1>. HIDE DEF q
<1>9. ASSUME NEW t \in Nat, NEW Q \in Lists
      PROVE  QueueAt(m, t, Q) = IF t = 0 /\ Q = L THEN q ELSE QueueAt(l, t, Q)
  BY <1>1, <1>6, <1>8
<1>10. Posted(l, m, 0, L, q)
  BY <1>1, <1>6, <1>9 DEF Posted
<1>. QED  BY <1>4, <1>6, <1>7, <1>10 DEF m

\* Another list of the current step becomes the active one, without its head.
LEMMA PromoteList ==
    ASSUME NEW l, Steps(l), l # <<>>, l[1].delay = 0,
           NEW L \in {"nbassign", "rwsync"}, l[1][L] # <<>>
    PROVE  LET m == [l EXCEPT ![1][L] = <<>>, ![1].active = Tail(l[1][L])] IN
             /\ Steps(m) /\ m # <<>> /\ m[1].delay = 0
             /\ TimesOf(m) = TimesOf(l)
             /\ \A t \in Nat, Q \in Lists :
                   QueueAt(m, t, Q) =
                      IF t = 0 /\ Q = "active" THEN Tail(QueueAt(l, 0, L))
                      ELSE IF t = 0 /\ Q = L THEN <<>>
                      ELSE QueueAt(l, t, Q)
<1>. DEFINE s == [l[1] EXCEPT ![L] = <<>>, !.active = Tail(l[1][L])]
            m == [l EXCEPT ![1][L] = <<>>, ![1].active = Tail(l[1][L])]
<1>1. /\ l[1] \in StepRec /\ 0 \in TimesOf(l) /\ 1 \in DOMAIN l
      /\ \A Q \in Lists : QueueAt(l, 0, Q) = l[1][Q]
  BY FirstSum DEF Steps
<1>2. L \in Lists /\ L # "active" /\ "active" \in Lists
  BY DEF Lists
<1>3. l[1][L] \in Seq(Event)
  BY <1>1, <1>2, StepRecLists
<1>4. Tail(l[1][L]) \in Seq(Event)
  BY <1>3, HeadTailProperties
<1>5. /\ s \in StepRec /\ s.delay = 0
      /\ \A Q \in Lists : s[Q] = IF Q = "active" THEN Tail(l[1][L])
                                 ELSE IF Q = L THEN <<>> ELSE l[1][Q]
  <2>. DEFINE r == [l[1] EXCEPT ![L] = <<>>]
  <2>1. <<>> \in Seq(Event)
    OBVIOUS
  <2>2. /\ r \in StepRec /\ r.delay = 0
        /\ \A Q \in Lists : r[Q] = IF Q = L THEN <<>> ELSE l[1][Q]
    BY <1>1, <1>2, <2>1 DEF StepRec, Lists
  <2>3. s = [r EXCEPT !.active = Tail(l[1][L])]
    OBVIOUS
  <2>. HIDE DEF r, s
  <2>4. /\ s \in StepRec /\ s.delay = 0
        /\ \A Q \in Lists : s[Q] = IF Q = "active" THEN Tail(l[1][L]) ELSE r[Q]
    BY <1>4, <2>2, <2>3 DEF StepRec, Lists
  <2>. QED  BY <1>2, <2>2, <2>4
<1>6. Replaced(l, m, 1, s)
  <2>0. m = [l EXCEPT ![1] = s]
   <3>1. l = [k \in DOMAIN l |-> l[k]]
     BY DEF Steps
   <3>2. [l EXCEPT ![1][L] = <<>>] = [l EXCEPT ![1] = [l[1] EXCEPT ![L] = <<>>]]
     OBVIOUS
   <3>. QED  BY <1>1, <3>1, <3>2
  <2>2. l \in Seq(StepRec) /\ 1 \in 1..Len(l)
    BY FirstSum DEF Steps
  <2>. HIDE DEF m, s
  <2>. QED  BY <1>5, <2>0, <2>2, ExceptSeq DEF Replaced
<1>. HIDE DEF m, s
<1>7. /\ Steps(m) /\ m # <<>> /\ m[1] = s
      /\ TimesOf(m) = TimesOf(l)
      /\ \A t \in Nat, Q \in Lists :
            QueueAt(m, t, Q) = IF t = 0 THEN s[Q] ELSE QueueAt(l, t, Q)
  BY <1>5, <1>6, SetList
<1>. DEFINE q == Tail(l[1][L])
<1>8. q = Tail(QueueAt(l, 0, L))
  BY <1>1, <1>2
<1>9. \A Q \in Lists : s[Q] = IF Q = "active" THEN q
                               ELSE IF Q = L THEN <<>> ELSE l[1][Q]
  BY <1>5
<1>. HIDE DEF q
<1>10. ASSUME NEW t \in Nat, NEW Q \in Lists
      PROVE  QueueAt(m, t, Q) =
                IF t = 0 /\ Q = "active" THEN q
                ELSE IF t = 0 /\ Q = L THEN <<>>
                ELSE QueueAt(l, t, Q)
  BY <1>1, <1>2, <1>7, <1>9
<1>. QED  BY <1>5, <1>7, <1>8, <1>10 DEF m

-----------------------------------------------------------------------------
(* The inductive invariant.                                                *)

Scalars ==
    /\ schedule_init_list \in Seq(Event)
    /\ schedule_time \in 0..MaxTime
    /\ schedule_runnable \in BOOLEAN /\ schedule_stopped_flag \in BOOLEAN
    /\ pc \in {"compile", "start_of_sim", "top", "start", "queues", "rosync",
               "stopped", "done", "crashed"}
    /\ busy \in BOOLEAN
    /\ current \in Event \cup {NoEvent}
    /\ created \in 0..MaxEvents
    /\ stops \in 0..MaxStops

\* No step is for a time after the last one.
Shape == /\ Steps(sched_list)
         /\ \A d \in TimesOf(sched_list) : schedule_time + d <= MaxTime

\* Inside a time step the first step is the current one.
CurrentHeld ==
    pc \in {"start", "queues", "rosync"} =>
        sched_list # <<>> /\ sched_list[1].delay = 0

\* A later step is there for the sake of an event.
Filled(l) == \A d \in TimesOf(l) : d > 0 => \E L \in Lists : QueueAt(l, d, L) # <<>>

\* An event is in the list it was meant for or was moved to the active one,
\* at its time; a pushed one is an active event of now.
Belongs(e, d, L, now, made) ==
    /\ e.id <= made
    /\ e.due = now + d
    /\ e.list = L \/ L = "active"
    /\ e.pushed => d = 0 /\ L = "active" /\ e.list = "active"

Placed(l, now, made) ==
    \A d \in Nat, L \in Lists : \A i \in 1..Len(QueueAt(l, d, L)) :
        Belongs(QueueAt(l, d, L)[i], d, L, now, made)

\* In one queue, events meant for the same list are in the order of creation.
Ordered(l) ==
    \A d \in Nat, L \in Lists : \A i, j \in 1..Len(QueueAt(l, d, L)) :
        LET e == QueueAt(l, d, L)[i]
            f == QueueAt(l, d, L)[j] IN
          i < j /\ e.list = f.list /\ ~e.pushed /\ ~f.pushed => e.id < f.id

\* Pushed events are ahead of the others, the last pushed first.
PushedFirst(l) ==
    \A d \in Nat, L \in Lists : \A i, j \in 1..Len(QueueAt(l, d, L)) :
        LET e == QueueAt(l, d, L)[i]
            f == QueueAt(l, d, L)[j] IN
          i < j /\ f.pushed => e.pushed /\ f.id < e.id

\* What was moved from a list to the active one is older than what is in that
\* list now, except for the start events, whose first stays behind.
Moved(l) ==
    \A d \in Nat, L \in Lists \ {"active"} :
      \A i \in 1..Len(QueueAt(l, d, "active")), j \in 1..Len(QueueAt(l, d, L)) :
        LET e == QueueAt(l, d, "active")[i]
            f == QueueAt(l, d, L)[j] IN
          e.list = L => IF L = "start" THEN f.id < e.id ELSE e.id < f.id

\* Only one cell holds an event.
Distinct(l) ==
    \A c, d \in Nat, K, L \in Lists :
      \A i \in 1..Len(QueueAt(l, c, K)), j \in 1..Len(QueueAt(l, d, L)) :
        QueueAt(l, c, K)[i].id = QueueAt(l, d, L)[j].id => c = d /\ K = L /\ i = j

Queued(l, now, made) ==
    Placed(l, now, made) /\ Ordered(l) /\ PushedFirst(l) /\ Moved(l) /\ Distinct(l)

\* A later step with a start event among the active ones has the first one
\* in its start list.
FirstStartKept(l) ==
    \A d \in Nat : d > 0 =>
        \A i \in 1..Len(QueueAt(l, d, "active")) :
            QueueAt(l, d, "active")[i].list = "start" => QueueAt(l, d, "start") # <<>>

\* Start events of now are there only while they have their turn.
StartsDone ==
    pc \notin {"start", "crashed"} => QueueAt(sched_list, 0, "start") = <<>>

\* Nothing that may write is left when the read-only callbacks run.
WritersDone ==
    pc = "rosync" => \A L \in {"active", "nbassign", "rwsync"} :
                        QueueAt(sched_list, 0, L) = <<>>

NotCrashed == pc # "crashed"

NoCrash == MaxStarts <= 1 => NotCrashed

TypeInv == Scalars /\ Shape /\ CurrentHeld /\ Filled(sched_list)

OrderInv ==
    /\ Queued(sched_list, schedule_time, created)
    /\ FirstStartKept(sched_list)
    /\ StartsDone /\ WritersDone /\ NoCrash

-----------------------------------------------------------------------------
(* What the changes of the list of steps do to its queues.                 *)

\* The queues of m are ends of those of l, D later.
Suffix(m, l, D) ==
    \A d \in Nat, L \in Lists : \E n \in Nat :
        /\ Len(QueueAt(l, d + D, L)) = n + Len(QueueAt(m, d, L))
        /\ \A i \in 1..Len(QueueAt(m, d, L)) :
              QueueAt(m, d, L)[i] = QueueAt(l, d + D, L)[n + i]

\* Distinct, for two cells.
LEMMA DistinctCells ==
    ASSUME NEW l, Distinct(l), NEW c \in Nat, NEW d \in Nat,
           NEW K \in Lists, NEW L \in Lists,
           NEW i \in 1..Len(QueueAt(l, c, K)), NEW j \in 1..Len(QueueAt(l, d, L)),
           QueueAt(l, c, K)[i].id = QueueAt(l, d, L)[j].id
    PROVE  c = d /\ K = L /\ i = j
  BY DEF Distinct

\* Events that leave and time that passes keep the queues in order.
LEMMA SuffixKeeps ==
    ASSUME NEW l, NEW m, NEW D \in Nat, NEW now \in Nat, NEW made \in Nat,
           Steps(l), Steps(m), Queued(l, now, made), Suffix(m, l, D)
    PROVE  Queued(m, now + D, made)
<1>1. \A d \in Nat, L \in Lists :
         Len(QueueAt(m, d, L)) \in Nat /\ Len(QueueAt(l, d, L)) \in Nat
  <2>. SUFFICES ASSUME NEW d \in Nat, NEW L \in Lists
                PROVE  Len(QueueAt(m, d, L)) \in Nat /\ Len(QueueAt(l, d, L)) \in Nat
    OBVIOUS
  <2>1. QueueAt(m, d, L) \in Seq(Event) /\ QueueAt(l, d, L) \in Seq(Event)
    BY QueueAtType
  <2>. QED  BY <2>1
<1>2. ASSUME NEW d \in Nat, NEW L \in Lists
      PROVE  \E n \in Nat : \A i \in 1..Len(QueueAt(m, d, L)) :
                /\ n + i \in 1..Len(QueueAt(l, d + D, L))
                /\ QueueAt(m, d, L)[i] = QueueAt(l, d + D, L)[n + i]
  <2>1. PICK n \in Nat :
          /\ Len(QueueAt(l, d + D, L)) = n + Len(QueueAt(m, d, L))
          /\ \A i \in 1..Len(QueueAt(m, d, L)) :
                QueueAt(m, d, L)[i] = QueueAt(l, d + D, L)[n + i]
    BY DEF Suffix
  <2>2. \A i \in 1..Len(QueueAt(m, d, L)) : n + i \in 1..Len(QueueAt(l, d + D, L))
    BY <1>1, <2>1
  <2>. QED  BY <2>1, <2>2
<1>3. Placed(m, now + D, made)
  <2>. SUFFICES ASSUME NEW d \in Nat, NEW L \in Lists,
                       NEW i \in 1..Len(QueueAt(m, d, L)),
                       NEW e, e = QueueAt(m, d, L)[i]
                PROVE  Belongs(e, d, L, now + D, made)
    BY DEF Placed
  <2>1. PICK n \in Nat : /\ n + i \in 1..Len(QueueAt(l, d + D, L))
                         /\ e = QueueAt(l, d + D, L)[n + i]
    BY <1>2
  <2>2. d + D \in Nat
    OBVIOUS
  <2>3. /\ e.id <= made
        /\ e.due = now + (d + D)
        /\ e.list = L \/ L = "active"
        /\ e.pushed => d + D = 0 /\ L = "active" /\ e.list = "active"
    BY <2>1, <2>2 DEF Queued, Placed, Belongs
  <2>4. now + (d + D) = now + D + d /\ (d + D = 0 => d = 0)
    OBVIOUS
  <2>. QED  BY <2>3, <2>4 DEF Belongs
<1>4. Ordered(m)
  <2>. SUFFICES ASSUME NEW d \in Nat, NEW L \in Lists,
                       NEW i \in 1..Len(QueueAt(m, d, L)),
                       NEW j \in 1..Len(QueueAt(m, d, L)),
                       NEW e, e = QueueAt(m, d, L)[i],
                       NEW f, f = QueueAt(m, d, L)[j],
                       i < j, e.list = f.list, ~e.pushed, ~f.pushed
                PROVE  e.id < f.id
    BY DEF Ordered
  <2>1. PICK n \in Nat : \A k \in 1..Len(QueueAt(m, d, L)) :
                /\ n + k \in 1..Len(QueueAt(l, d + D, L))
                /\ QueueAt(m, d, L)[k] = QueueAt(l, d + D, L)[n + k]
    BY <1>2
  <2>2. n + i < n + j /\ d + D \in Nat
    BY <1>1
  <2>3. /\ n + i \in 1..Len(QueueAt(l, d + D, L)) /\ e = QueueAt(l, d + D, L)[n + i]
        /\ n + j \in 1..Len(QueueAt(l, d + D, L)) /\ f = QueueAt(l, d + D, L)[n + j]
    BY <2>1
  <2>. QED  BY <2>2, <2>3 DEF Queued, Ordered
<1>5. PushedFirst(m)
  <2>. SUFFICES ASSUME NEW d \in Nat, NEW L \in Lists,
                       NEW i \in 1..Len(QueueAt(m, d, L)),
                       NEW j \in 1..Len(QueueAt(m, d, L)),
                       NEW e, e = QueueAt(m, d, L)[i],
                       NEW f, f = QueueAt(m, d, L)[j],
                       i < j, f.pushed
                PROVE  e.pushed /\ f.id < e.id
    BY DEF PushedFirst
  <2>1. PICK n \in Nat : \A k \in 1..Len(QueueAt(m, d, L)) :
                /\ n + k \in 1..Len(QueueAt(l, d + D, L))
                /\ QueueAt(m, d, L)[k] = QueueAt(l, d + D, L)[n + k]
    BY <1>2
  <2>2. n + i < n + j /\ d + D \in Nat
    BY <1>1
  <2>3. /\ n + i \in 1..Len(QueueAt(l, d + D, L)) /\ e = QueueAt(l, d + D, L)[n + i]
        /\ n + j \in 1..Len(QueueAt(l, d + D, L)) /\ f = QueueAt(l, d + D, L)[n + j]
    BY <2>1
  <2>. QED  BY <2>2, <2>3 DEF Queued, PushedFirst
<1>6. Moved(m)
  <2>. SUFFICES ASSUME NEW d \in Nat, NEW L \in Lists \ {"active"},
                       NEW i \in 1..Len(QueueAt(m, d, "active")),
                       NEW j \in 1..Len(QueueAt(m, d, L)),
                       NEW e, e = QueueAt(m, d, "active")[i],
                       NEW f, f = QueueAt(m, d, L)[j],
                       e.list = L
                PROVE  IF L = "start" THEN f.id < e.id ELSE e.id < f.id
    BY DEF Moved
  <2>1. PICK n \in Nat : /\ n + i \in 1..Len(QueueAt(l, d + D, "active"))
                         /\ e = QueueAt(l, d + D, "active")[n + i]
    BY <1>2 DEF Lists
  <2>2. PICK k \in Nat : /\ k + j \in 1..Len(QueueAt(l, d + D, L))
                         /\ f = QueueAt(l, d + D, L)[k + j]
    BY <1>2
  <2>3. d + D \in Nat
    OBVIOUS
  <2>. QED  BY <2>1, <2>2, <2>3 DEF Queued, Moved
<1>7. Distinct(m)
  <2>. SUFFICES ASSUME NEW c \in Nat, NEW d \in Nat, NEW K \in Lists, NEW L \in Lists,
                       NEW i \in 1..Len(QueueAt(m, c, K)),
                       NEW j \in 1..Len(QueueAt(m, d, L)),
                       QueueAt(m, c, K)[i].id = QueueAt(m, d, L)[j].id
                PROVE  c = d /\ K = L /\ i = j
    BY DEF Distinct
  <2>1. PICK n \in Nat : \A h \in 1..Len(QueueAt(m, c, K)) :
                /\ n + h \in 1..Len(QueueAt(l, c + D, K))
                /\ QueueAt(m, c, K)[h] = QueueAt(l, c + D, K)[n + h]
    BY <1>2
  <2>2. PICK k \in Nat : /\ k + j \in 1..Len(QueueAt(l, d + D, L))
                         /\ QueueAt(m, d, L)[j] = QueueAt(l, d + D, L)[k + j]
    BY <1>2
  <2>3. c + D \in Nat /\ d + D \in Nat
    OBVIOUS
  <2>4. c + D = d + D /\ K = L
    <3>1. n + i \in 1..Len(QueueAt(l, c + D, K)) /\ k + j \in 1..Len(QueueAt(l, d + D, L))
      BY <2>1, <2>2
    <3>2. QueueAt(l, c + D, K)[n + i].id = QueueAt(l, d + D, L)[k + j].id
      BY <2>1, <2>2
    <3>. QED  BY <2>3, <3>1, <3>2, DistinctCells DEF Queued
  <2>5. c = d
    BY <2>4
  <2>6. /\ n + i \in 1..Len(QueueAt(l, d + D, L))
        /\ n + j \in 1..Len(QueueAt(l, d + D, L))
        /\ QueueAt(l, d + D, L)[n + i].id = QueueAt(l, d + D, L)[n + j].id
    BY <2>1, <2>4, <2>5
  <2>7. n + i = n + j
    BY <2>3, <2>6 DEF Queued, Distinct
  <2>. QED  BY <1>1, <2>4, <2>5, <2>7
<1>. QED  BY <1>3, <1>4, <1>5, <1>6, <1>7 DEF Queued

\* The length of a queue is a number, and what is in it has its type.
LEMMA QueueItems ==
    ASSUME NEW l, Steps(l), NEW d \in Nat, NEW L \in Lists
    PROVE  /\ Len(QueueAt(l, d, L)) \in Nat
           /\ \A i \in 1..Len(QueueAt(l, d, L)) :
                 /\ QueueAt(l, d, L)[i] \in Event
                 /\ QueueAt(l, d, L)[i].id \in Nat
                 /\ QueueAt(l, d, L)[i].due \in 0..MaxTime
<1>. DEFINE q == QueueAt(l, d, L)
<1>1. q \in Seq(Event)
  BY QueueAtType
<1>2. \A e \in Event : e.id \in Nat /\ e.due \in 0..MaxTime
  BY DEF Event, Ids
<1>. HIDE DEF q
<1>3. Len(q) \in Nat /\ \A i \in 1..Len(q) : q[i] \in Event
  BY <1>1
<1>. QED  BY <1>2, <1>3 DEF q

\* A new event behind the others of its list.
LEMMA AppendKeeps ==
    ASSUME NEW l, NEW m, NEW now \in Nat, NEW made \in Nat,
           NEW d \in Nat, NEW Q \in Lists, NEW e \in Event,
           Steps(l), Queued(l, now, made),
           Posted(l, m, d, Q, Append(QueueAt(l, d, Q), e)),
           e.id = made + 1, e.due = now + d, ~e.pushed,
           e.list = Q \/ (Q = "active" /\ e.list = "start"),
           Q = "start" =>
              /\ QueueAt(l, d, "start") = <<>>
              /\ \A i \in 1..Len(QueueAt(l, d, "active")) :
                    QueueAt(l, d, "active")[i].list # "start"
    PROVE  Queued(m, now, made + 1)
<1>1. ASSUME NEW t \in Nat, NEW L \in Lists, NEW i \in 1..Len(QueueAt(m, t, L))
      PROVE  \/ /\ i \in 1..Len(QueueAt(l, t, L))
                /\ QueueAt(m, t, L)[i] = QueueAt(l, t, L)[i]
             \/ /\ t = d /\ L = Q /\ i = Len(QueueAt(l, t, L)) + 1
                /\ QueueAt(m, t, L)[i] = e
  <2>1. QueueAt(m, t, L) = IF t = d /\ L = Q THEN Append(QueueAt(l, d, Q), e)
                           ELSE QueueAt(l, t, L)
    BY DEF Posted
  <2>2. QueueAt(l, d, Q) \in Seq(Event)
    BY QueueAtType
  <2>3. CASE t = d /\ L = Q
    <3>1. QueueAt(m, t, L) = Append(QueueAt(l, d, Q), e)
      BY <2>1, <2>3
    <3>. QED  BY <2>2, <2>3, <3>1
  <2>4. CASE ~(t = d /\ L = Q)
    BY <2>1, <2>4
  <2>. QED  BY <2>3, <2>4
<1>2. ASSUME NEW t \in Nat, NEW L \in Lists, NEW i \in 1..Len(QueueAt(l, t, L))
      PROVE  /\ QueueAt(l, t, L)[i].id \in Nat
             /\ QueueAt(l, t, L)[i].id < e.id
             /\ QueueAt(l, t, L)[i].id <= made
             /\ QueueAt(l, t, L)[i].due = now + t
  <2>1. QueueAt(l, t, L)[i].id \in Nat
    BY QueueItems
  <2>2. QueueAt(l, t, L)[i].id <= made /\ QueueAt(l, t, L)[i].due = now + t
    BY DEF Queued, Placed, Belongs
  <2>. QED  BY <2>1, <2>2
<1>3. Placed(m, now, made + 1)
  <2>. SUFFICES ASSUME NEW t \in Nat, NEW L \in Lists,
                       NEW i \in 1..Len(QueueAt(m, t, L)),
                       NEW g, g = QueueAt(m, t, L)[i]
                PROVE  Belongs(g, t, L, now, made + 1)
    BY DEF Placed
  <2>1. CASE i \in 1..Len(QueueAt(l, t, L)) /\ g = QueueAt(l, t, L)[i]
    <3>1. g.id \in Nat /\ g.id <= made /\ g.due = now + t
      BY <1>2, <2>1
    <3>2. /\ g.list = L \/ L = "active"
          /\ g.pushed => t = 0 /\ L = "active" /\ g.list = "active"
      BY <2>1 DEF Queued, Placed, Belongs
    <3>. QED  BY <3>1, <3>2 DEF Belongs
  <2>2. CASE t = d /\ L = Q /\ g = e
    BY <2>2 DEF Belongs
  <2>. QED  BY <1>1, <2>1, <2>2
<1>4. Ordered(m)
  <2>. SUFFICES ASSUME NEW t \in Nat, NEW L \in Lists,
                       NEW i \in 1..Len(QueueAt(m, t, L)),
                       NEW j \in 1..Len(QueueAt(m, t, L)),
                       NEW g, g = QueueAt(m, t, L)[i],
                       NEW f, f = QueueAt(m, t, L)[j],
                       i < j, g.list = f.list, ~g.pushed, ~f.pushed
                PROVE  g.id < f.id
    BY DEF Ordered
  <2>0. Len(QueueAt(l, t, L)) \in Nat
    BY QueueItems
  <2>1. CASE j \in 1..Len(QueueAt(l, t, L)) /\ f = QueueAt(l, t, L)[j]
    <3>1. i \in 1..Len(QueueAt(l, t, L)) /\ g = QueueAt(l, t, L)[i]
      BY <1>1, <2>0, <2>1
    <3>. QED  BY <2>1, <3>1 DEF Queued, Ordered
  <2>2. CASE f = e /\ j = Len(QueueAt(l, t, L)) + 1
    <3>1. i \in 1..Len(QueueAt(l, t, L)) /\ g = QueueAt(l, t, L)[i]
      BY <1>1, <2>0, <2>2
    <3>. QED  BY <1>2, <2>2, <3>1
  <2>. QED  BY <1>1, <2>1, <2>2
<1>5. PushedFirst(m)
  <2>. SUFFICES ASSUME NEW t \in Nat, NEW L \in Lists,
                       NEW i \in 1..Len(QueueAt(m, t, L)),
                       NEW j \in 1..Len(QueueAt(m, t, L)),
                       NEW g, g = QueueAt(m, t, L)[i],
                       NEW f, f = QueueAt(m, t, L)[j],
                       i < j, f.pushed
                PROVE  g.pushed /\ f.id < g.id
    BY DEF PushedFirst
  <2>0. Len(QueueAt(l, t, L)) \in Nat
    BY QueueItems
  <2>1. j \in 1..Len(QueueAt(l, t, L)) /\ f = QueueAt(l, t, L)[j]
    BY <1>1
  <2>2. i \in 1..Len(QueueAt(l, t, L)) /\ g = QueueAt(l, t, L)[i]
    BY <1>1, <2>0, <2>1
  <2>. QED  BY <2>1, <2>2 DEF Queued, PushedFirst
<1>6. Moved(m)
  <2>. SUFFICES ASSUME NEW t \in Nat, NEW L \in Lists \ {"active"},
                       NEW i \in 1..Len(QueueAt(m, t, "active")),
                       NEW j \in 1..Len(QueueAt(m, t, L)),
                       NEW g, g = QueueAt(m, t, "active")[i],
                       NEW f, f = QueueAt(m, t, L)[j],
                       g.list = L
                PROVE  IF L = "start" THEN f.id < g.id ELSE g.id < f.id
    BY DEF Moved
  <2>0. "active" \in Lists
    BY DEF Lists
  <2>1. CASE /\ i \in 1..Len(QueueAt(l, t, "active")) /\ g = QueueAt(l, t, "active")[i]
             /\ j \in 1..Len(QueueAt(l, t, L)) /\ f = QueueAt(l, t, L)[j]
    BY <2>1 DEF Queued, Moved
  <2>2. CASE /\ i \in 1..Len(QueueAt(l, t, "active")) /\ g = QueueAt(l, t, "active")[i]
             /\ t = d /\ L = Q /\ f = e
    <3>1. L # "start"
      BY <2>2
    <3>. QED  BY <1>2, <2>0, <2>2, <3>1
  <2>3. CASE /\ t = d /\ Q = "active" /\ g = e
             /\ j \in 1..Len(QueueAt(l, t, L)) /\ f = QueueAt(l, t, L)[j]
    <3>1. L = "start"
      BY <2>3
    <3>. QED  BY <1>2, <2>3, <3>1
  <2>. QED  BY <1>1, <2>0, <2>1, <2>2, <2>3
<1>7. Distinct(m)
  <2>. SUFFICES ASSUME NEW c \in Nat, NEW t \in Nat, NEW K \in Lists, NEW L \in Lists,
                       NEW i \in 1..Len(QueueAt(m, c, K)),
                       NEW j \in 1..Len(QueueAt(m, t, L)),
                       QueueAt(m, c, K)[i].id = QueueAt(m, t, L)[j].id
                PROVE  c = t /\ K = L /\ i = j
    BY DEF Distinct
  <2>1. CASE /\ i \in 1..Len(QueueAt(l, c, K)) /\ QueueAt(m, c, K)[i] = QueueAt(l, c, K)[i]
             /\ j \in 1..Len(QueueAt(l, t, L)) /\ QueueAt(m, t, L)[j] = QueueAt(l, t, L)[j]
    <3>1. QueueAt(l, c, K)[i].id = QueueAt(l, t, L)[j].id
      BY <2>1
    <3>2. i \in 1..Len(QueueAt(l, c, K)) /\ j \in 1..Len(QueueAt(l, t, L)) /\ Distinct(l)
      BY <2>1 DEF Queued
    <3>. QED  BY <3>1, <3>2, DistinctCells
  <2>2. CASE /\ i \in 1..Len(QueueAt(l, c, K)) /\ QueueAt(m, c, K)[i] = QueueAt(l, c, K)[i]
             /\ QueueAt(m, t, L)[j] = e
    <3>1. QueueAt(l, c, K)[i].id < e.id /\ QueueAt(l, c, K)[i].id \in Nat
      BY <1>2, <2>2
    <3>2. QueueAt(l, c, K)[i].id = e.id
      BY <2>2
    <3>. QED  BY <3>1, <3>2
  <2>3. CASE /\ QueueAt(m, c, K)[i] = e
             /\ j \in 1..Len(QueueAt(l, t, L)) /\ QueueAt(m, t, L)[j] = QueueAt(l, t, L)[j]
    <3>1. QueueAt(l, t, L)[j].id < e.id /\ QueueAt(l, t, L)[j].id \in Nat
      BY <1>2, <2>3
    <3>2. QueueAt(l, t, L)[j].id = e.id
      BY <2>3
    <3>. QED  BY <3>1, <3>2
  <2>4. CASE /\ c = d /\ K = Q /\ i = Len(QueueAt(l, c, K)) + 1
             /\ t = d /\ L = Q /\ j = Len(QueueAt(l, t, L)) + 1
    BY <2>4
  <2>. QED  BY <1>1, <2>1, <2>2, <2>3, <2>4
<1>. QED  BY <1>3, <1>4, <1>5, <1>6, <1>7 DEF Queued

\* A pushed event ahead of the active ones of now.
LEMMA PushKeeps ==
    ASSUME NEW l, NEW m, NEW now \in Nat, NEW made \in Nat, NEW e \in Event,
           Steps(l), Queued(l, now, made),
           Posted(l, m, 0, "active", <<e>> \o QueueAt(l, 0, "active")),
           e.id = made + 1, e.due = now, e.pushed, e.list = "active"
    PROVE  Queued(m, now, made + 1)
<1>. DEFINE old == QueueAt(l, 0, "active")
<1>0. "active" \in Lists
  BY DEF Lists
<1>1. ASSUME NEW t \in Nat, NEW L \in Lists, NEW i \in 1..Len(QueueAt(m, t, L))
      PROVE  \/ /\ i \in 1..Len(QueueAt(l, t, L)) /\ ~(t = 0 /\ L = "active")
                /\ QueueAt(m, t, L)[i] = QueueAt(l, t, L)[i]
             \/ /\ t = 0 /\ L = "active"
                /\ i - 1 \in 1..Len(QueueAt(l, t, L)) /\ i > 1
                /\ QueueAt(m, t, L)[i] = QueueAt(l, t, L)[i - 1]
             \/ /\ t = 0 /\ L = "active" /\ i = 1
                /\ QueueAt(m, t, L)[i] = e
  <2>1. QueueAt(m, t, L) = IF t = 0 /\ L = "active" THEN <<e>> \o old
                           ELSE QueueAt(l, t, L)
    BY DEF Posted
  <2>2. old \in Seq(Event)
    BY <1>0, QueueAtType
  <2>3. CASE t = 0 /\ L = "active"
    <3>1. QueueAt(m, t, L) = <<e>> \o old /\ QueueAt(l, t, L) = old
      BY <2>1, <2>3
    <3>. HIDE DEF old
    <3>2. /\ Len(<<e>> \o old) = 1 + Len(old)
          /\ \A k \in 1..(1 + Len(old)) :
                (<<e>> \o old)[k] = IF k <= 1 THEN e ELSE old[k - 1]
      BY <2>2
    <3>3. Len(old) \in Nat
      BY <2>2
    <3>. QED  BY <2>3, <3>1, <3>2, <3>3
  <2>4. CASE ~(t = 0 /\ L = "active")
    BY <2>1, <2>4
  <2>. QED  BY <2>3, <2>4
<1>2. ASSUME NEW t \in Nat, NEW L \in Lists, NEW i \in 1..Len(QueueAt(l, t, L))
      PROVE  /\ QueueAt(l, t, L)[i].id \in Nat
             /\ QueueAt(l, t, L)[i].id < e.id
             /\ QueueAt(l, t, L)[i].id <= made
             /\ QueueAt(l, t, L)[i].due = now + t
  <2>1. QueueAt(l, t, L)[i].id \in Nat
    BY QueueItems
  <2>2. QueueAt(l, t, L)[i].id <= made /\ QueueAt(l, t, L)[i].due = now + t
    BY DEF Queued, Placed, Belongs
  <2>. QED  BY <2>1, <2>2
<1>3. ASSUME NEW t \in Nat, NEW L \in Lists, NEW i \in 1..Len(QueueAt(m, t, L))
      PROVE  \/ t = 0 /\ L = "active" /\ i = 1 /\ QueueAt(m, t, L)[i] = e
             \/ \E k \in 1..Len(QueueAt(l, t, L)) :
                  QueueAt(m, t, L)[i] = QueueAt(l, t, L)[k]
  <2>1. CASE /\ i \in 1..Len(QueueAt(l, t, L))
             /\ QueueAt(m, t, L)[i] = QueueAt(l, t, L)[i]
    BY <2>1
  <2>2. CASE /\ i - 1 \in 1..Len(QueueAt(l, t, L))
             /\ QueueAt(m, t, L)[i] = QueueAt(l, t, L)[i - 1]
    BY <2>2
  <2>. QED  BY <1>1, <2>1, <2>2
<1>4. Placed(m, now, made + 1)
  <2>. SUFFICES ASSUME NEW t \in Nat, NEW L \in Lists,
                       NEW i \in 1..Len(QueueAt(m, t, L)),
                       NEW g, g = QueueAt(m, t, L)[i]
                PROVE  Belongs(g, t, L, now, made + 1)
    BY DEF Placed
  <2>1. CASE \E k \in 1..Len(QueueAt(l, t, L)) : g = QueueAt(l, t, L)[k]
    <3>1. PICK k \in 1..Len(QueueAt(l, t, L)) : g = QueueAt(l, t, L)[k]
      BY <2>1
    <3>2. g.id \in Nat /\ g.id <= made /\ g.due = now + t
      BY <1>2, <3>1
    <3>3. /\ g.list = L \/ L = "active"
          /\ g.pushed => t = 0 /\ L = "active" /\ g.list = "active"
      BY <3>1 DEF Queued, Placed, Belongs
    <3>. QED  BY <3>2, <3>3 DEF Belongs
  <2>2. CASE t = 0 /\ L = "active" /\ g = e
    BY <2>2 DEF Belongs
  <2>. QED  BY <1>3, <2>1, <2>2
<1>5. Ordered(m)
  <2>. SUFFICES ASSUME NEW t \in Nat, NEW L \in Lists,
                       NEW i \in 1..Len(QueueAt(m, t, L)),
                       NEW j \in 1..Len(QueueAt(m, t, L)),
                       NEW g, g = QueueAt(m, t, L)[i],
                       NEW f, f = QueueAt(m, t, L)[j],
                       i < j, g.list = f.list, ~g.pushed, ~f.pushed
                PROVE  g.id < f.id
    BY DEF Ordered
  <2>1. CASE ~(t = 0 /\ L = "active")
    <3>1. /\ i \in 1..Len(QueueAt(l, t, L)) /\ g = QueueAt(l, t, L)[i]
          /\ j \in 1..Len(QueueAt(l, t, L)) /\ f = QueueAt(l, t, L)[j]
      BY <1>1, <2>1
    <3>. QED  BY <3>1 DEF Queued, Ordered
  <2>2. CASE t = 0 /\ L = "active"
    <3>1. /\ i - 1 \in 1..Len(QueueAt(l, t, L)) /\ g = QueueAt(l, t, L)[i - 1]
          /\ j - 1 \in 1..Len(QueueAt(l, t, L)) /\ f = QueueAt(l, t, L)[j - 1]
      BY <1>1, <2>2
    <3>2. i - 1 < j - 1
      OBVIOUS
    <3>. QED  BY <3>1, <3>2 DEF Queued, Ordered
  <2>. QED  BY <2>1, <2>2
<1>6. PushedFirst(m)
  <2>. SUFFICES ASSUME NEW t \in Nat, NEW L \in Lists,
                       NEW i \in 1..Len(QueueAt(m, t, L)),
                       NEW j \in 1..Len(QueueAt(m, t, L)),
                       NEW g, g = QueueAt(m, t, L)[i],
                       NEW f, f = QueueAt(m, t, L)[j],
                       i < j, f.pushed
                PROVE  g.pushed /\ f.id < g.id
    BY DEF PushedFirst
  <2>1. CASE ~(t = 0 /\ L = "active")
    <3>1. /\ i \in 1..Len(QueueAt(l, t, L)) /\ g = QueueAt(l, t, L)[i]
          /\ j \in 1..Len(QueueAt(l, t, L)) /\ f = QueueAt(l, t, L)[j]
      BY <1>1, <2>1
    <3>. QED  BY <3>1 DEF Queued, PushedFirst
  <2>2. CASE t = 0 /\ L = "active" /\ i > 1
    <3>1. /\ i - 1 \in 1..Len(QueueAt(l, t, L)) /\ g = QueueAt(l, t, L)[i - 1]
          /\ j - 1 \in 1..Len(QueueAt(l, t, L)) /\ f = QueueAt(l, t, L)[j - 1]
      BY <1>1, <2>2
    <3>2. i - 1 < j - 1
      OBVIOUS
    <3>. QED  BY <3>1, <3>2 DEF Queued, PushedFirst
  <2>3. CASE t = 0 /\ L = "active" /\ i = 1
    <3>1. j - 1 \in 1..Len(QueueAt(l, t, L)) /\ f = QueueAt(l, t, L)[j - 1]
      BY <1>1, <2>3
    <3>2. g = e
      BY <1>1, <2>3
    <3>. QED  BY <1>2, <3>1, <3>2
  <2>. QED  BY <2>1, <2>2, <2>3
<1>7. Moved(m)
  <2>. SUFFICES ASSUME NEW t \in Nat, NEW L \in Lists \ {"active"},
                       NEW i \in 1..Len(QueueAt(m, t, "active")),
                       NEW j \in 1..Len(QueueAt(m, t, L)),
                       NEW g, g = QueueAt(m, t, "active")[i],
                       NEW f, f = QueueAt(m, t, L)[j],
                       g.list = L
                PROVE  IF L = "start" THEN f.id < g.id ELSE g.id < f.id
    BY DEF Moved
  <2>1. j \in 1..Len(QueueAt(l, t, L)) /\ f = QueueAt(l, t, L)[j]
    BY <1>1
  <2>2. g # e
    OBVIOUS
  <2>4. \/ QueueAt(m, t, "active")[i] = e
        \/ \E k \in 1..Len(QueueAt(l, t, "active")) :
              QueueAt(m, t, "active")[i] = QueueAt(l, t, "active")[k]
    BY <1>0, <1>3
  <2>3. PICK k \in 1..Len(QueueAt(l, t, "active")) : g = QueueAt(l, t, "active")[k]
    BY <2>2, <2>4
  <2>. QED  BY <2>1, <2>3 DEF Queued, Moved
<1>8. Distinct(m)
  <2>. SUFFICES ASSUME NEW c \in Nat, NEW t \in Nat, NEW K \in Lists, NEW L \in Lists,
                       NEW i \in 1..Len(QueueAt(m, c, K)),
                       NEW j \in 1..Len(QueueAt(m, t, L)),
                       NEW g, g = QueueAt(m, c, K)[i],
                       NEW f, f = QueueAt(m, t, L)[j],
                       g.id = f.id
                PROVE  c = t /\ K = L /\ i = j
    BY DEF Distinct
  <2>1. CASE c = 0 /\ K = "active" /\ i = 1 /\ g = e
    <3>1. ASSUME NEW k \in 1..Len(QueueAt(l, t, L)), f = QueueAt(l, t, L)[k]
          PROVE  FALSE
      <4>1. f.id \in Nat /\ f.id < e.id
        BY <1>2, <3>1
      <4>2. f.id = e.id
        BY <2>1
      <4>. QED  BY <4>1, <4>2
    <3>. QED  BY <1>3, <2>1, <3>1
  <2>2. CASE t = 0 /\ L = "active" /\ j = 1 /\ f = e
    <3>1. ASSUME NEW k \in 1..Len(QueueAt(l, c, K)), g = QueueAt(l, c, K)[k]
          PROVE  FALSE
      <4>1. g.id \in Nat /\ g.id < e.id
        BY <1>2, <3>1
      <4>2. g.id = e.id
        BY <2>2
      <4>. QED  BY <4>1, <4>2
    <3>. QED  BY <1>3, <2>2, <3>1
  <2>3. CASE /\ ~(c = 0 /\ K = "active" /\ i = 1)
             /\ ~(t = 0 /\ L = "active" /\ j = 1)
    <3>1. PICK x \in 1..Len(QueueAt(l, c, K)) :
            /\ g = QueueAt(l, c, K)[x]
            /\ x = IF c = 0 /\ K = "active" THEN i - 1 ELSE i
      BY <1>1, <2>3
    <3>2. PICK y \in 1..Len(QueueAt(l, t, L)) :
            /\ f = QueueAt(l, t, L)[y]
            /\ y = IF t = 0 /\ L = "active" THEN j - 1 ELSE j
      BY <1>1, <2>3
    <3>3. c = t /\ K = L /\ x = y
      <4>1. QueueAt(l, c, K)[x].id = QueueAt(l, t, L)[y].id
        BY <3>1, <3>2
      <4>. QED  BY <4>1, DistinctCells DEF Queued
    <3>. QED  BY <3>1, <3>2, <3>3
  <2>. QED  BY <1>3, <1>1, <2>1, <2>2, <2>3
<1>. QED  BY <1>4, <1>5, <1>6, <1>7, <1>8 DEF Queued

\* What is behind the head of a queue.
LEMMA TailItems ==
    ASSUME NEW o \in Seq(Event), o # <<>>, NEW q, q = Tail(o)
    PROVE  /\ q \in Seq(Event) /\ Len(q) \in Nat
           /\ Len(o) = 1 + Len(q)
           /\ \A k \in 1..Len(q) : q[k] = o[1 + k]
<1>1. Tail(o) \in Seq(Event) /\ Len(Tail(o)) = Len(o) - 1 /\ Len(o) \in Nat
  BY HeadTailProperties
<1>2. \A k \in 1..Len(Tail(o)) : Tail(o)[k] = o[1 + k]
  OBVIOUS
<1>3. q \in Seq(Event) /\ Len(q) = Len(o) - 1
  BY <1>1
<1>4. \A k \in 1..Len(q) : q[k] = o[1 + k]
  BY <1>2
<1>. QED  BY <1>1, <1>3, <1>4

\* Another list becomes the active one, which was empty, without its head.
LEMMA PromoteKeeps ==
    ASSUME NEW l, NEW m, NEW now \in Nat, NEW made \in Nat,
           NEW Q \in {"nbassign", "rwsync"}, NEW q, q = Tail(QueueAt(l, 0, Q)),
           Steps(l), Queued(l, now, made), QueueAt(l, 0, Q) # <<>>,
           QueueAt(l, 0, "active") = <<>>,
           \A t \in Nat, L \in Lists :
              QueueAt(m, t, L) = IF t = 0 /\ L = "active" THEN q
                                 ELSE IF t = 0 /\ L = Q THEN <<>>
                                 ELSE QueueAt(l, t, L)
    PROVE  Queued(m, now, made)
<1>0. "active" \in Lists /\ Q \in Lists /\ Q # "active" /\ Q # "start"
  BY DEF Lists
\* Where a cell of m was in l.
<1>. DEFINE From(t, L) == IF t = 0 /\ L = "active" THEN Q ELSE L
            Off(t, L) == IF t = 0 /\ L = "active" THEN 1 ELSE 0
<1>1. ASSUME NEW t \in Nat, NEW L \in Lists, NEW i \in 1..Len(QueueAt(m, t, L))
      PROVE  /\ From(t, L) \in Lists
             /\ Off(t, L) + i \in 1..Len(QueueAt(l, t, From(t, L)))
             /\ QueueAt(m, t, L)[i] = QueueAt(l, t, From(t, L))[Off(t, L) + i]
             /\ ~(t = 0 /\ L = Q)
  <2>1. QueueAt(l, 0, Q) \in Seq(Event)
    BY <1>0, QueueAtType
  <2>2. CASE t = 0 /\ L = "active"
    <3>1. QueueAt(m, t, L) = q
      BY <1>0, <2>2
    <3>. DEFINE o == QueueAt(l, 0, Q)
    <3>2. o \in Seq(Event) /\ o # <<>> /\ q = Tail(o)
      BY <2>1
    <3>. HIDE DEF o
    <3>3. Len(o) = 1 + Len(q) /\ Len(q) \in Nat /\ \A k \in 1..Len(q) : q[k] = o[1 + k]
      BY <3>2, TailItems
    <3>4. 1 + i \in 1..Len(o) /\ q[i] = o[1 + i]
      BY <3>1, <3>3
    <3>. QED  BY <1>0, <2>2, <3>1, <3>4 DEF o
  <2>3. CASE ~(t = 0 /\ L = "active")
    <3>1. ~(t = 0 /\ L = Q)
      <4>. SUFFICES ASSUME t = 0, L = Q PROVE FALSE
        OBVIOUS
      <4>1. QueueAt(m, t, L) = <<>>
        BY <1>0
      <4>. QED  BY <4>1
    <3>2. QueueAt(m, t, L) = QueueAt(l, t, L)
      BY <2>3, <3>1
    <3>3. 0 + i = i
      BY <3>2, QueueItems
    <3>. QED  BY <2>3, <3>1, <3>2, <3>3
  <2>. QED  BY <2>2, <2>3
<1>2. ASSUME NEW i \in 1..Len(QueueAt(l, 0, Q))
      PROVE  QueueAt(l, 0, Q)[i].list = Q /\ ~QueueAt(l, 0, Q)[i].pushed
  BY <1>0 DEF Queued, Placed, Belongs
<1>3. Placed(m, now, made)
  <2>. SUFFICES ASSUME NEW t \in Nat, NEW L \in Lists,
                       NEW i \in 1..Len(QueueAt(m, t, L)),
                       NEW g, g = QueueAt(m, t, L)[i]
                PROVE  Belongs(g, t, L, now, made)
    BY DEF Placed
  <2>. DEFINE K == From(t, L)
              k == Off(t, L) + i
  <2>1. K \in Lists /\ k \in 1..Len(QueueAt(l, t, K)) /\ g = QueueAt(l, t, K)[k]
    BY <1>1
  <2>. HIDE DEF k
  <2>2. /\ g.id <= made
        /\ g.due = now + t
        /\ g.list = K \/ K = "active"
        /\ g.pushed => t = 0 /\ K = "active" /\ g.list = "active"
    <3>. HIDE DEF K
    <3>. QED  BY <2>1 DEF Queued, Placed, Belongs
  <2>. QED  BY <1>0, <2>2 DEF Belongs
<1>4. Ordered(m)
  <2>. SUFFICES ASSUME NEW t \in Nat, NEW L \in Lists,
                       NEW i \in 1..Len(QueueAt(m, t, L)),
                       NEW j \in 1..Len(QueueAt(m, t, L)),
                       NEW g, g = QueueAt(m, t, L)[i],
                       NEW f, f = QueueAt(m, t, L)[j],
                       i < j, g.list = f.list, ~g.pushed, ~f.pushed
                PROVE  g.id < f.id
    BY DEF Ordered
  <2>. DEFINE K == From(t, L)
              k == Off(t, L) + i
              h == Off(t, L) + j
  <2>1. /\ K \in Lists
        /\ k \in 1..Len(QueueAt(l, t, K)) /\ g = QueueAt(l, t, K)[k]
        /\ h \in 1..Len(QueueAt(l, t, K)) /\ f = QueueAt(l, t, K)[h]
    BY <1>1
  <2>2. k < h
    <3>1. i \in Nat /\ j \in Nat /\ Off(t, L) \in Nat
      OBVIOUS
    <3>. HIDE DEF Off
    <3>. QED  BY <3>1
  <2>. HIDE DEF K, k, h
  <2>. QED  BY <2>1, <2>2 DEF Queued, Ordered
<1>5. PushedFirst(m)
  <2>. SUFFICES ASSUME NEW t \in Nat, NEW L \in Lists,
                       NEW i \in 1..Len(QueueAt(m, t, L)),
                       NEW j \in 1..Len(QueueAt(m, t, L)),
                       NEW g, g = QueueAt(m, t, L)[i],
                       NEW f, f = QueueAt(m, t, L)[j],
                       i < j, f.pushed
                PROVE  g.pushed /\ f.id < g.id
    BY DEF PushedFirst
  <2>. DEFINE K == From(t, L)
              k == Off(t, L) + i
              h == Off(t, L) + j
  <2>1. /\ K \in Lists
        /\ k \in 1..Len(QueueAt(l, t, K)) /\ g = QueueAt(l, t, K)[k]
        /\ h \in 1..Len(QueueAt(l, t, K)) /\ f = QueueAt(l, t, K)[h]
    BY <1>1
  <2>2. k < h
    <3>1. i \in Nat /\ j \in Nat /\ Off(t, L) \in Nat
      OBVIOUS
    <3>. HIDE DEF Off
    <3>. QED  BY <3>1
  <2>. HIDE DEF K, k, h
  <2>. QED  BY <2>1, <2>2 DEF Queued, PushedFirst
<1>6. Moved(m)
  <2>. SUFFICES ASSUME NEW t \in Nat, NEW L \in Lists \ {"active"},
                       NEW i \in 1..Len(QueueAt(m, t, "active")),
                       NEW j \in 1..Len(QueueAt(m, t, L)),
                       NEW g, g = QueueAt(m, t, "active")[i],
                       NEW f, f = QueueAt(m, t, L)[j],
                       g.list = L
                PROVE  IF L = "start" THEN f.id < g.id ELSE g.id < f.id
    BY DEF Moved
  <2>1. /\ Off(t, L) + j \in 1..Len(QueueAt(l, t, From(t, L)))
        /\ f = QueueAt(l, t, From(t, L))[Off(t, L) + j]
        /\ ~(t = 0 /\ L = Q)
    BY <1>1
  <2>2. From(t, L) = L
    OBVIOUS
  <2>3. CASE t = 0
    <3>1. Off(t, "active") + i \in 1..Len(QueueAt(l, 0, Q)) /\ g = QueueAt(l, 0, Q)[Off(t, "active") + i]
      BY <1>0, <1>1, <2>3
    <3>2. g.list = Q
      BY <1>2, <3>1
    <3>. QED  BY <2>1, <2>3, <3>2
  <2>4. CASE t # 0
    <3>1. QueueAt(m, t, "active") = QueueAt(l, t, "active")
      BY <1>0, <2>4
    <3>2. QueueAt(m, t, L) = QueueAt(l, t, L)
      BY <2>4
    <3>3. /\ i \in 1..Len(QueueAt(l, t, "active")) /\ g = QueueAt(l, t, "active")[i]
          /\ j \in 1..Len(QueueAt(l, t, L)) /\ f = QueueAt(l, t, L)[j]
      BY <3>1, <3>2
    <3>. QED  BY <3>3 DEF Queued, Moved
  <2>. QED  BY <2>3, <2>4
<1>7. Distinct(m)
  <2>. SUFFICES ASSUME NEW c \in Nat, NEW t \in Nat, NEW A \in Lists, NEW B \in Lists,
                       NEW i \in 1..Len(QueueAt(m, c, A)),
                       NEW j \in 1..Len(QueueAt(m, t, B)),
                       QueueAt(m, c, A)[i].id = QueueAt(m, t, B)[j].id
                PROVE  c = t /\ A = B /\ i = j
    BY DEF Distinct
  <2>. DEFINE x == Off(c, A) + i
              y == Off(t, B) + j
  <2>1. /\ From(c, A) \in Lists /\ x \in 1..Len(QueueAt(l, c, From(c, A)))
        /\ QueueAt(m, c, A)[i] = QueueAt(l, c, From(c, A))[x]
        /\ ~(c = 0 /\ A = Q)
    BY <1>1
  <2>2. /\ From(t, B) \in Lists /\ y \in 1..Len(QueueAt(l, t, From(t, B)))
        /\ QueueAt(m, t, B)[j] = QueueAt(l, t, From(t, B))[y]
        /\ ~(t = 0 /\ B = Q)
    BY <1>1
  <2>3. c = t /\ From(c, A) = From(t, B) /\ x = y
    <3>. HIDE DEF x, y, From
    <3>1. QueueAt(l, c, From(c, A))[x].id = QueueAt(l, t, From(t, B))[y].id
      BY <2>1, <2>2
    <3>2. Distinct(l)
      BY DEF Queued
    <3>. QED  BY <2>1, <2>2, <3>1, <3>2, DistinctCells
  <2>4. A = B
    BY <2>1, <2>2, <2>3
  <2>5. Off(c, A) = Off(t, B)
    BY <2>3, <2>4
  <2>6. Off(c, A) \in Nat
    OBVIOUS
  <2>. HIDE DEF Off
  <2>7. i = j
    <3>1. i \in Nat /\ j \in Nat
      OBVIOUS
    <3>. QED  BY <2>3, <2>5, <2>6, <3>1
  <2>. QED  BY <2>3, <2>4, <2>7
<1>. QED  BY <1>3, <1>4, <1>5, <1>6, <1>7 DEF Queued

-----------------------------------------------------------------------------
(* Type correctness, and one step per time.                                *)

\* There is a current step exactly if the first step is for now.
LEMMA CurrentIsZero ==
    ASSUME NEW l, Steps(l)
    PROVE  (l # <<>> /\ l[1].delay = 0) <=> 0 \in TimesOf(l)
<1>1. CASE l = <<>>
  BY <1>1 DEF TimesOf
<1>2. CASE l # <<>>
  BY <1>2, CurrentStep
<1>. QED  BY <1>1, <1>2

\* An event for a time that can be asked for keeps the shape of the list.
LEMMA PostedShape ==
    ASSUME Scalars, Shape, Filled(sched_list),
           NEW d \in Nat, schedule_time + d <= MaxTime,
           NEW Q \in Lists, NEW q, q # <<>> \/ d = 0,
           Posted(sched_list, sched_list', d, Q, q), schedule_time' = schedule_time
    PROVE  /\ Shape' /\ Filled(sched_list')
           /\ 0 \in TimesOf(sched_list) => 0 \in TimesOf(sched_list')
<1>1. /\ Steps(sched_list')
      /\ TimesOf(sched_list') = TimesOf(sched_list) \cup {d}
      /\ \A t \in Nat, L \in Lists :
            QueueAt(sched_list', t, L) =
               IF t = d /\ L = Q THEN q ELSE QueueAt(sched_list, t, L)
  BY DEF Posted
<1>2. Shape'
  BY <1>1 DEF Shape
<1>3. TimesOf(sched_list) \in SUBSET Nat
  BY QueueAtType DEF Shape, Lists
<1>4. ASSUME NEW t \in TimesOf(sched_list'), t > 0
      PROVE  \E L \in Lists : QueueAt(sched_list', t, L) # <<>>
  <2>1. CASE t = d
    BY <1>1, <1>4, <2>1
  <2>2. CASE t # d
    <3>1. t \in TimesOf(sched_list) /\ t \in Nat
      BY <1>1, <1>3, <1>4, <2>2
    <3>2. PICK L \in Lists : QueueAt(sched_list, t, L) # <<>>
      BY <1>4, <3>1 DEF Filled
    <3>. QED  BY <1>1, <2>2, <3>1, <3>2
  <2>. QED  BY <2>1, <2>2
<1>. QED  BY <1>1, <1>2, <1>4 DEF Filled

\* What Legal and the bound of Schedule give.
LEMMA ScheduleFacts ==
    ASSUME TypeInv, Schedule
    PROVE  \E L \in Lists, d \in Nat, e \in Event :
              /\ e = [id |-> created + 1, list |-> L, pushed |-> FALSE,
                      due |-> schedule_time + d]
              /\ schedule_time + d <= MaxTime
              /\ Legal(L, schedule_time + d)
              /\ L = "start" =>
                    \A f \in StartsPosted : f.due = schedule_time + d => MaxStarts > 1
              /\ schedule_event_(e, d, L)
<1>1. PICK L \in Queues, due \in schedule_time..MaxTime :
        /\ Legal(L, due)
        /\ L = "start" => \A f \in StartsPosted : f.due = due => MaxStarts > 1
        /\ schedule_event_([id |-> created + 1, list |-> L, pushed |-> FALSE,
                            due |-> due], due - schedule_time, L)
  BY DEF Schedule
<1>2. L \in Lists
  BY QueuesAssumption
<1>3. PICK d \in Nat : d = due - schedule_time /\ schedule_time + d = due
  BY BoundsAssumption DEF TypeInv, Scalars
<1>. DEFINE e == [id |-> created + 1, list |-> L, pushed |-> FALSE, due |-> due]
<1>4. e \in Event
  <2>1. created + 1 \in Ids
    BY BoundsAssumption DEF Schedule, TypeInv, Scalars, Ids
  <2>2. due \in 0..MaxTime
    BY BoundsAssumption DEF TypeInv, Scalars
  <2>. QED  BY <1>2, <2>1, <2>2 DEF Event
<1>5. schedule_time + d <= MaxTime
  BY <1>3, BoundsAssumption DEF TypeInv, Scalars
<1>6. /\ e = [id |-> created + 1, list |-> L, pushed |-> FALSE,
              due |-> schedule_time + d]
      /\ Legal(L, schedule_time + d)
      /\ L = "start" =>
            \A f \in StartsPosted : f.due = schedule_time + d => MaxStarts > 1
      /\ schedule_event_(e, d, L)
  BY Zenon, <1>1, <1>3
<1>. HIDE DEF e
<1>. QED  BY <1>2, <1>4, <1>5, <1>6

\* The event of a pushed thread.
LEMMA PushedEvent ==
    ASSUME TypeInv, SchedulePushed
    PROVE  \E e \in Event :
              /\ e = [id |-> created + 1, list |-> "active", pushed |-> TRUE,
                      due |-> schedule_time]
              /\ schedule_event_push_(e)
<1>1. created + 1 \in Ids
  BY BoundsAssumption DEF SchedulePushed, TypeInv, Scalars, Ids
<1>2. [id |-> created + 1, list |-> "active", pushed |-> TRUE,
       due |-> schedule_time] \in Event
  BY <1>1 DEF TypeInv, Scalars, Event, Lists
<1>. QED  BY <1>2 DEF SchedulePushed

\* What leaves a list of the current step.
LEMMA RunFacts ==
    ASSUME TypeInv, NEW L \in Lists, 0 \in TimesOf(sched_list),
           Ctim[L] # <<>>, sched_list' = [sched_list EXCEPT ![1][L] = Tail(@)]
    PROVE  /\ QueueAt(sched_list, 0, L) = Ctim[L]
           /\ Head(Ctim[L]) \in Event
           /\ Posted(sched_list, sched_list', 0, L, Tail(QueueAt(sched_list, 0, L)))
<1>1. /\ Steps(sched_list) /\ sched_list # <<>> /\ sched_list[1].delay = 0
      /\ Ctim = sched_list[1]
  BY CurrentIsZero DEF TypeInv, Shape, Ctim
<1>2. QueueAt(sched_list, 0, L) = Ctim[L] /\ sched_list[1] \in StepRec
  BY <1>1, FirstSum
<1>3. Ctim[L] \in Seq(Event)
  BY <1>1, <1>2, StepRecLists
<1>4. Head(Ctim[L]) \in Event
  BY <1>3, HeadTailProperties
<1>5. Posted(sched_list, sched_list', 0, L, Tail(QueueAt(sched_list, 0, L)))
  BY <1>1, TakeHead
<1>. QED  BY <1>2, <1>4, <1>5

\* The list that becomes the active one.
LEMMA AdvanceFacts ==
    ASSUME TypeInv, AdvanceQueue, 0 \in TimesOf(sched_list)
    PROVE  \E L \in {"nbassign", "rwsync"} :
             /\ QueueAt(sched_list, 0, L) # <<>>
             /\ QueueAt(sched_list, 0, "active") = <<>>
             /\ current' = Head(QueueAt(sched_list, 0, L))
             /\ current' \in Event
             /\ L = "rwsync" => QueueAt(sched_list, 0, "nbassign") = <<>>
             /\ Steps(sched_list')
             /\ TimesOf(sched_list') = TimesOf(sched_list)
             /\ \A t \in Nat, Q \in Lists :
                   QueueAt(sched_list', t, Q) =
                      IF t = 0 /\ Q = "active" THEN Tail(QueueAt(sched_list, 0, L))
                      ELSE IF t = 0 /\ Q = L THEN <<>>
                      ELSE QueueAt(sched_list, t, Q)
<1>1. /\ Steps(sched_list) /\ sched_list # <<>> /\ sched_list[1].delay = 0
      /\ Ctim = sched_list[1]
  BY CurrentIsZero DEF TypeInv, Shape, Ctim
<1>2. /\ \A Q \in Lists : QueueAt(sched_list, 0, Q) = Ctim[Q]
      /\ sched_list[1] \in StepRec
  BY <1>1, FirstSum
<1>3. PICK L \in {"nbassign", "rwsync"} :
        /\ Ctim[L] # <<>>
        /\ L = "rwsync" => Ctim["nbassign"] = <<>>
        /\ sched_list' = [sched_list EXCEPT ![1][L] = <<>>,
                                            ![1].active = Tail(Ctim[L])]
        /\ current' = Head(Ctim[L])
  BY DEF AdvanceQueue, NextList
<1>4. /\ L \in Lists /\ "nbassign" \in Lists /\ "active" \in Lists
      /\ Ctim["active"] = <<>>
  BY DEF Lists, AdvanceQueue
<1>5. Ctim[L] \in Seq(Event)
  BY <1>1, <1>2, <1>4, StepRecLists
<1>6. Head(Ctim[L]) \in Event
  BY <1>3, <1>5, HeadTailProperties
<1>7. /\ Steps(sched_list')
      /\ TimesOf(sched_list') = TimesOf(sched_list)
      /\ \A t \in Nat, Q \in Lists :
            QueueAt(sched_list', t, Q) =
               IF t = 0 /\ Q = "active" THEN Tail(QueueAt(sched_list, 0, L))
               ELSE IF t = 0 /\ Q = L THEN <<>>
               ELSE QueueAt(sched_list, t, Q)
  <2>. DEFINE m == [sched_list EXCEPT ![1][L] = <<>>,
                                     ![1].active = Tail(sched_list[1][L])]
  <2>1. sched_list' = m
    BY <1>1, <1>3
  <2>2. /\ Steps(m)
        /\ TimesOf(m) = TimesOf(sched_list)
        /\ \A t \in Nat, Q \in Lists :
              QueueAt(m, t, Q) =
                 IF t = 0 /\ Q = "active" THEN Tail(QueueAt(sched_list, 0, L))
                 ELSE IF t = 0 /\ Q = L THEN <<>>
                 ELSE QueueAt(sched_list, t, Q)
    BY <1>1, <1>3, PromoteList
  <2>. HIDE DEF m
  <2>. QED  BY <2>1, <2>2
<1>8. /\ QueueAt(sched_list, 0, L) = Ctim[L]
      /\ QueueAt(sched_list, 0, "active") = Ctim["active"]
      /\ QueueAt(sched_list, 0, "nbassign") = Ctim["nbassign"]
  BY <1>2, <1>4
<1>. QED  BY <1>3, <1>4, <1>6, <1>7, <1>8

\* Nothing is scheduled when linking begins.
LEMMA TypeInvInit == Init => TypeInv
<1>. SUFFICES ASSUME Init PROVE TypeInv
  OBVIOUS
<1>1. Scalars
  <2>1. <<>> \in Seq(Event) /\ NoEvent \in Event \cup {NoEvent}
    OBVIOUS
  <2>2. 0 \in 0..MaxTime /\ 0 \in 0..MaxEvents /\ 0 \in 0..MaxStops
    BY BoundsAssumption
  <2>. QED  BY <2>1, <2>2 DEF Init, Scalars
<1>2. TimesOf(sched_list) = {}
  BY DEF Init, TimesOf
<1>3. Steps(sched_list)
  BY DEF Init, Steps, Spaced
<1>. QED  BY <1>1, <1>2, <1>3 DEF Init, TypeInv, Shape, CurrentHeld, Filled

\* Every step of the scheduler keeps its types, the shape of the list of steps
\* and an event in every later one.
LEMMA TypeInvStep == TypeInv /\ [Next]_vars => TypeInv'
<1>. SUFFICES ASSUME TypeInv, [Next]_vars PROVE TypeInv'
  OBVIOUS
<1>. USE DEF TypeInv
<1>1. /\ Steps(sched_list)
      /\ \A d \in TimesOf(sched_list) : schedule_time + d <= MaxTime
      /\ TimesOf(sched_list) \in SUBSET Nat
      /\ schedule_time \in Nat
  BY QueueAtType DEF Shape, Scalars, Lists
<1>2. (sched_list # <<>> /\ sched_list[1].delay = 0) <=> 0 \in TimesOf(sched_list)
  BY <1>1, CurrentIsZero
<1>3. ASSUME UNCHANGED <<sched_list, schedule_time>>
      PROVE  Shape' /\ Filled(sched_list')
  BY <1>3 DEF Shape
<1>4. ASSUME Shape', pc' = pc,
             0 \in TimesOf(sched_list) => 0 \in TimesOf(sched_list')
      PROVE  CurrentHeld'
  <2>1. (sched_list' # <<>> /\ sched_list'[1].delay = 0) <=> 0 \in TimesOf(sched_list')
    <3>1. Steps(sched_list')
      BY <1>4 DEF Shape
    <3>. QED  BY <3>1, CurrentIsZero
  <2>. QED  BY <1>2, <1>4, <2>1 DEF CurrentHeld
<1>5. CASE Schedule
  <2>1. PICK L \in Lists, d \in Nat, e \in Event :
          /\ schedule_time + d <= MaxTime
          /\ schedule_event_(e, d, L)
    BY <1>5, ScheduleFacts
  <2>2. Scalars'
    <3>1. pc' = pc \/ pc' = "crashed"
      BY <2>1 DEF schedule_event_
    <3>. QED  BY <1>5, <3>1, BoundsAssumption DEF Schedule, Scalars
  <2>3. schedule_time' = schedule_time
    BY <1>5 DEF Schedule
  <2>4. CASE pc' = "crashed" /\ sched_list' = sched_list
    BY <1>3, <2>2, <2>3, <2>4 DEF CurrentHeld
  <2>5. ASSUME NEW Q \in Lists, pc' = pc,
               Posted(sched_list, sched_list', d, Q,
                      Append(QueueAt(sched_list, d, Q), e))
        PROVE  TypeInv'
    <3>1. Append(QueueAt(sched_list, d, Q), e) # <<>>
      <4>1. QueueAt(sched_list, d, Q) \in Seq(Event)
        BY <1>1, QueueAtType
      <4>. QED  BY <4>1
    <3>2. /\ Shape' /\ Filled(sched_list')
          /\ 0 \in TimesOf(sched_list) => 0 \in TimesOf(sched_list')
      BY <2>1, <2>3, <2>5, <3>1, PostedShape
    <3>. QED  BY <1>4, <2>2, <2>5, <3>2
  <2>6. "active" \in Lists
    BY DEF Lists
  <2>. QED  BY <1>1, <2>1, <2>4, <2>5, <2>6, ScheduleEvent
<1>6. CASE SchedulePushed
  <2>1. PICK e \in Event : schedule_event_push_(e)
    BY <1>6, PushedEvent
  <2>. DEFINE q == <<e>> \o QueueAt(sched_list, 0, "active")
  <2>2. pc' = pc /\ Posted(sched_list, sched_list', 0, "active", q)
    BY <1>1, <2>1, ScheduleEventPush
  <2>. HIDE DEF q
  <2>3. Scalars' /\ schedule_time' = schedule_time
    BY <1>6, <2>2, BoundsAssumption DEF SchedulePushed, Scalars
  <2>4. /\ Shape' /\ Filled(sched_list')
        /\ 0 \in TimesOf(sched_list) => 0 \in TimesOf(sched_list')
    <3>1. schedule_time + 0 <= MaxTime /\ "active" \in Lists
      BY BoundsAssumption DEF Scalars, Lists
    <3>. QED  BY <2>2, <2>3, <3>1, PostedShape
  <2>. QED  BY <1>4, <2>2, <2>3, <2>4
<1>7. CASE ScheduleInit
  <2>1. [id |-> created + 1, list |-> "active", pushed |-> FALSE, due |-> 0] \in Event
    BY <1>7, BoundsAssumption DEF ScheduleInit, Scalars, Event, Ids, Lists
  <2>2. schedule_init_list' \in Seq(Event)
    BY <1>7, <2>1 DEF ScheduleInit, Scalars
  <2>3. Scalars'
    BY <1>7, <2>2, BoundsAssumption DEF ScheduleInit, Scalars
  <2>. QED  BY <1>3, <1>7, <2>3 DEF ScheduleInit, CurrentHeld
<1>8. CASE schedule_finish
  BY <1>3, <1>8 DEF schedule_finish, Scalars, CurrentHeld
<1>9. CASE schedule_stop
  <2>1. Scalars'
    BY <1>9, BoundsAssumption DEF schedule_stop, Scalars
  <2>. QED  BY <1>3, <1>9, <2>1 DEF schedule_stop, CurrentHeld
<1>10. CASE Return
  BY <1>3, <1>10 DEF Return, Scalars, CurrentHeld
<1>11. CASE RunInitEvent
  <2>1. /\ Tail(schedule_init_list) \in Seq(Event)
        /\ Head(schedule_init_list) \in Event
    BY <1>11, HeadTailProperties DEF RunInitEvent, Scalars
  <2>. QED  BY <1>3, <1>11, <2>1 DEF RunInitEvent, Scalars, CurrentHeld
<1>12. CASE StartOfSim
  BY <1>3, <1>12 DEF StartOfSim, Scalars, CurrentHeld
<1>13. CASE EnterLoop
  BY <1>3, <1>13 DEF EnterLoop, Scalars, CurrentHeld
<1>14. CASE LoopEnds
  BY <1>3, <1>14 DEF LoopEnds, Scalars, CurrentHeld
<1>15. CASE stop_handler
  BY <1>3, <1>15 DEF stop_handler, Scalars, CurrentHeld
<1>16. CASE Resume
  BY <1>3, <1>16 DEF Resume, Scalars, CurrentHeld
<1>17. CASE FinishBeforeAdvance
  BY <1>3, <1>17 DEF FinishBeforeAdvance, Scalars, CurrentHeld
<1>18. CASE AdvanceTime
  <2>1. sched_list # <<>> /\ Ctim = sched_list[1] /\ Ctim.delay > 0
    BY <1>18 DEF AdvanceTime, TimeAdvances, Ctim
  <2>. DEFINE D == sched_list[1].delay
  <2>2. D \in Nat /\ D \in TimesOf(sched_list) /\ schedule_time' = schedule_time + D
    BY <1>1, <1>18, <2>1, FirstSum DEF AdvanceTime
  <2>. DEFINE m == [sched_list EXCEPT ![1].delay = 0]
  <2>3. /\ Steps(m) /\ m # <<>> /\ m[1].delay = 0
        /\ \A t \in Nat : t \in TimesOf(m) <=> t + D \in TimesOf(sched_list)
        /\ \A t \in Nat, L \in Lists :
              QueueAt(m, t, L) = QueueAt(sched_list, t + D, L)
    BY <1>1, <2>1, AdvanceHead
  <2>4. sched_list' = m
    BY <1>18 DEF AdvanceTime
  <2>. HIDE DEF m, D
  <2>5. Scalars'
    <3>1. schedule_time' \in 0..MaxTime
      BY <1>1, <2>2, BoundsAssumption
    <3>. QED  BY <1>18, <3>1 DEF AdvanceTime, Scalars
  <2>6. TimesOf(m) \in SUBSET Nat
    BY <2>3, QueueAtType DEF Lists
  <2>7. Shape'
    <3>. SUFFICES ASSUME NEW d \in TimesOf(m) PROVE schedule_time' + d <= MaxTime
      BY <2>3, <2>4 DEF Shape
    <3>1. d \in Nat /\ d + D \in TimesOf(sched_list)
      BY <2>3, <2>6
    <3>2. schedule_time + (d + D) <= MaxTime
      BY <1>1, <3>1
    <3>. QED  BY <1>1, <2>2, <3>1, <3>2, BoundsAssumption
  <2>8. Filled(m)
    <3>. SUFFICES ASSUME NEW d \in TimesOf(m), d > 0
                  PROVE  \E L \in Lists : QueueAt(m, d, L) # <<>>
      BY DEF Filled
    <3>1. d \in Nat /\ d + D \in TimesOf(sched_list) /\ d + D > 0
      BY <2>2, <2>3, <2>6
    <3>2. PICK L \in Lists : QueueAt(sched_list, d + D, L) # <<>>
      BY <3>1 DEF Filled
    <3>. QED  BY <2>3, <3>1, <3>2
  <2>. QED  BY <2>3, <2>4, <2>5, <2>7, <2>8 DEF CurrentHeld
<1>19. ASSUME NEW L \in Lists, 0 \in TimesOf(sched_list), Ctim[L] # <<>>,
              sched_list' = [sched_list EXCEPT ![1][L] = Tail(@)],
              schedule_time' = schedule_time
       PROVE  /\ Shape' /\ Filled(sched_list') /\ Head(Ctim[L]) \in Event
              /\ 0 \in TimesOf(sched_list')
  <2>. DEFINE q == Tail(QueueAt(sched_list, 0, L))
  <2>1. Head(Ctim[L]) \in Event /\ Posted(sched_list, sched_list', 0, L, q)
    BY <1>19, RunFacts
  <2>. HIDE DEF q
  <2>2. schedule_time + 0 <= MaxTime
    BY BoundsAssumption DEF Scalars
  <2>3. /\ Shape' /\ Filled(sched_list')
        /\ 0 \in TimesOf(sched_list) => 0 \in TimesOf(sched_list')
    BY <1>19, <2>1, <2>2, PostedShape
  <2>. QED  BY <1>19, <2>1, <2>3
<1>20. CASE RunStart
  <2>1. /\ Ctim["start"] # <<>> /\ "start" \in Lists
        /\ 0 \in TimesOf(sched_list) /\ pc' = pc
        /\ sched_list' = [sched_list EXCEPT ![1]["start"] = Tail(@)]
        /\ schedule_time' = schedule_time /\ current' = Head(Ctim["start"])
    BY <1>2, <1>20 DEF RunStart, Run, CurrentHeld, Lists
  <2>2. /\ Shape' /\ Filled(sched_list') /\ Head(Ctim["start"]) \in Event
        /\ 0 \in TimesOf(sched_list')
    BY <1>19, <2>1
  <2>3. Scalars'
    BY <1>20, <2>1, <2>2 DEF RunStart, Run, Scalars
  <2>. QED  BY <1>4, <2>1, <2>2, <2>3
<1>21. CASE StartOver
  BY <1>3, <1>21 DEF StartOver, Scalars, CurrentHeld
<1>22. AtQueues => 0 \in TimesOf(sched_list)
  BY <1>2 DEF AtQueues, CurrentHeld, Ctim
<1>23. CASE RunActive
  <2>1. /\ Ctim["active"] # <<>> /\ "active" \in Lists
        /\ 0 \in TimesOf(sched_list) /\ pc' = "top"
        /\ sched_list' = [sched_list EXCEPT ![1]["active"] = Tail(@)]
        /\ schedule_time' = schedule_time /\ current' = Head(Ctim["active"])
    BY <1>22, <1>23 DEF RunActive, Run, Lists
  <2>2. Shape' /\ Filled(sched_list') /\ Head(Ctim["active"]) \in Event
    BY <1>19, <2>1
  <2>3. Scalars'
    BY <1>23, <2>1, <2>2 DEF RunActive, Run, Scalars
  <2>. QED  BY <2>1, <2>2, <2>3 DEF CurrentHeld
<1>24. CASE AdvanceQueue
  <2>1. PICK L \in {"nbassign", "rwsync"} :
          /\ current' \in Event
          /\ Steps(sched_list')
          /\ TimesOf(sched_list') = TimesOf(sched_list)
          /\ \A t \in Nat, Q \in Lists :
                t > 0 => QueueAt(sched_list', t, Q) = QueueAt(sched_list, t, Q)
    <3>1. AtQueues
      BY <1>24 DEF AdvanceQueue
    <3>. QED  BY <1>22, <1>24, <3>1, AdvanceFacts
  <2>2. Scalars' /\ schedule_time' = schedule_time /\ pc' = "top"
    BY <1>24, <2>1 DEF AdvanceQueue, Scalars
  <2>3. Shape'
    BY <2>1, <2>2 DEF Shape
  <2>4. Filled(sched_list')
    <3>. SUFFICES ASSUME NEW d \in TimesOf(sched_list), d > 0
                  PROVE  \E Q \in Lists : QueueAt(sched_list', d, Q) # <<>>
      BY <2>1 DEF Filled
    <3>1. PICK Q \in Lists : QueueAt(sched_list, d, Q) # <<>>
      BY DEF Filled
    <3>. QED  BY <1>1, <2>1, <3>1
  <2>. QED  BY <2>2, <2>3, <2>4 DEF CurrentHeld
<1>25. CASE EnterRosync
  <2>1. 0 \in TimesOf(sched_list)
    BY <1>22, <1>25 DEF EnterRosync
  <2>. QED  BY <1>2, <1>3, <1>25, <2>1 DEF EnterRosync, Scalars, CurrentHeld
<1>26. CASE RunReadOnly
  <2>1. /\ Ctim["rosync"] # <<>> /\ "rosync" \in Lists
        /\ 0 \in TimesOf(sched_list) /\ pc' = pc
        /\ sched_list' = [sched_list EXCEPT ![1]["rosync"] = Tail(@)]
        /\ schedule_time' = schedule_time /\ current' = Head(Ctim["rosync"])
    BY <1>2, <1>26 DEF RunReadOnly, Run, CurrentHeld, Lists
  <2>2. /\ Shape' /\ Filled(sched_list') /\ Head(Ctim["rosync"]) \in Event
        /\ 0 \in TimesOf(sched_list')
    BY <1>19, <2>1
  <2>3. Scalars'
    BY <1>26, <2>1, <2>2 DEF RunReadOnly, Run, Scalars
  <2>. QED  BY <1>4, <2>1, <2>2, <2>3
<1>27. CASE DeleteThread
  <2>1. /\ Ctim["del_thr"] # <<>> /\ "del_thr" \in Lists
        /\ 0 \in TimesOf(sched_list) /\ pc' = pc
        /\ sched_list' = [sched_list EXCEPT ![1]["del_thr"] = Tail(@)]
        /\ schedule_time' = schedule_time
    BY <1>2, <1>27 DEF DeleteThread, CurrentHeld, Lists
  <2>2. Shape' /\ Filled(sched_list') /\ 0 \in TimesOf(sched_list')
    BY <1>19, <2>1
  <2>3. Scalars'
    BY <1>27 DEF DeleteThread, Scalars
  <2>. QED  BY <1>4, <2>1, <2>2, <2>3
<1>28. CASE DeleteStep
  <2>1. /\ sched_list # <<>> /\ sched_list[1].delay = 0
        /\ sched_list' = Tail(sched_list) /\ pc' = "top"
        /\ schedule_time' = schedule_time
    BY <1>28 DEF DeleteStep, CurrentHeld
  <2>2. /\ Steps(sched_list')
        /\ TimesOf(sched_list') = TimesOf(sched_list) \ {0}
        /\ \A t \in Nat, L \in Lists :
              QueueAt(sched_list', t, L) =
                 IF t = 0 THEN <<>> ELSE QueueAt(sched_list, t, L)
    BY <1>1, <2>1, DropHead
  <2>3. Scalars'
    BY <1>28 DEF DeleteStep, Scalars
  <2>4. Shape'
    BY <1>1, <2>1, <2>2 DEF Shape
  <2>5. Filled(sched_list')
    <3>. SUFFICES ASSUME NEW d \in TimesOf(sched_list), d > 0
                  PROVE  \E Q \in Lists : QueueAt(sched_list', d, Q) # <<>>
      BY <2>2 DEF Filled
    <3>1. PICK Q \in Lists : QueueAt(sched_list, d, Q) # <<>>
      BY DEF Filled
    <3>. QED  BY <1>1, <2>2, <3>1
  <2>. QED  BY <2>1, <2>3, <2>4, <2>5 DEF CurrentHeld
<1>29. CASE UNCHANGED vars
  BY <1>3, <1>29 DEF vars, Scalars, CurrentHeld
<1>. QED
  BY <1>5, <1>6, <1>7, <1>8, <1>9, <1>10, <1>11, <1>12, <1>13, <1>14, <1>15, <1>16,
     <1>17, <1>18, <1>20, <1>21, <1>23, <1>24, <1>25, <1>26, <1>27, <1>28, <1>29
  DEF Next, Environment, Loop, Ended

\* The inductive invariant has the type invariant as a part.
LEMMA TypeInvImpliesTypeOK == TypeInv => TypeOK
<1>. SUFFICES ASSUME TypeInv PROVE TypeOK
  OBVIOUS
<1>. DEFINE Rec == [delay: 0..MaxTime, start: Seq(Event), active: Seq(Event),
                    nbassign: Seq(Event), rwsync: Seq(Event), rosync: Seq(Event),
                    del_thr: Seq(Event)]
<1>1. /\ sched_list \in Seq(StepRec) /\ Delayed(sched_list)
      /\ Len(sched_list) \in Nat /\ schedule_time \in Nat
      /\ \A d \in TimesOf(sched_list) : schedule_time + d <= MaxTime
  BY StepsDelayed DEF TypeInv, Shape, Steps, Scalars
<1>2. ASSUME NEW k \in 1..Len(sched_list) PROVE sched_list[k] \in Rec
  <2>1. sched_list[k] \in StepRec
    BY <1>1
  <2>2. sched_list[k].delay \in 0..MaxTime
    <3>1. /\ DelaySums(sched_list)[k] =
               DelaySums(sched_list)[k - 1] + sched_list[k].delay
          /\ DelaySums(sched_list)[k - 1] \in Nat
          /\ sched_list[k].delay \in Nat
      <4>1. k - 1 \in 0..Len(sched_list)
        BY <1>1
      <4>2. DelaySums(sched_list)[k - 1] \in Nat
        BY <1>1, <4>1, SumsStep
      <4>. QED  BY <1>1, <4>2, SumsStep DEF Delayed
    <3>2. DelaySums(sched_list)[k] \in TimesOf(sched_list)
      BY DEF TimesOf
    <3>3. schedule_time + DelaySums(sched_list)[k] <= MaxTime
      BY <1>1, <3>2
    <3>. QED  BY <1>1, <3>1, <3>3, BoundsAssumption
  <2>. QED  BY <2>1, <2>2 DEF StepRec
<1>3. sched_list \in Seq(Rec)
  <2>1. sched_list \in [1..Len(sched_list) -> Rec]
    <3>. HIDE DEF Rec
    <3>. QED  BY <1>1, <1>2 DEF Delayed
  <2>. HIDE DEF Rec
  <2>. QED  BY <1>1, <2>1, SeqDef
<1>. QED  BY <1>3 DEF TypeInv, Scalars, TypeOK

\* Every field of every step and every flag of the scheduler has its type, and
\* no delay goes past the latest time asked for.
THEOREM TypeCorrect == Spec => []TypeOK
<1>1. Init => TypeInv
  BY TypeInvInit
<1>2. TypeInv /\ [Next]_vars => TypeInv'
  BY TypeInvStep
<1>3. TypeInv => TypeOK
  BY TypeInvImpliesTypeOK
<1>. QED  BY <1>1, <1>2, <1>3, PTL DEF Spec

\* However events are scheduled, and whatever runs in between, there is one
\* step per time and none for a later time without an event: schedule_event_
\* finds the step there is, puts a new one ahead of the first later step and
\* takes its delay from that one.
THEOREM OneStepForEachTime == Spec => []OneStepPerTime
<1>1. Init => TypeInv
  BY TypeInvInit
<1>2. TypeInv /\ [Next]_vars => TypeInv'
  BY TypeInvStep
<1>3. TypeInv => OneStepPerTime
  <2>. SUFFICES ASSUME TypeInv, NEW k \in DOMAIN sched_list
                PROVE  /\ k > 1 => sched_list[k].delay > 0
                       /\ TimeOf(k) > schedule_time =>
                             \E list \in Lists : sched_list[k][list] # <<>>
    BY DEF OneStepPerTime
  <2>1. /\ Steps(sched_list) /\ Delayed(sched_list) /\ k \in 1..Len(sched_list)
        /\ Len(sched_list) \in Nat /\ schedule_time \in Nat
    BY StepsDelayed DEF TypeInv, Shape, Steps, Scalars
  <2>2. k > 1 => sched_list[k].delay > 0
    BY <2>1 DEF Steps, Spaced
  <2>. DEFINE d == DelaySums(sched_list)[k]
  <2>3. d \in Nat /\ d \in TimesOf(sched_list) /\ TimeOf(k) = schedule_time + d
    BY <2>1, SumsStep DEF TimesOf, TimeOf
  <2>4. \A L \in Lists : QueueAt(sched_list, d, L) = sched_list[k][L]
    BY <2>1, QueueAtStep
  <2>. HIDE DEF d
  <2>5. ASSUME TimeOf(k) > schedule_time
        PROVE  \E list \in Lists : sched_list[k][list] # <<>>
    <3>1. d > 0
      BY <2>1, <2>3, <2>5
    <3>2. PICK L \in Lists : QueueAt(sched_list, d, L) # <<>>
      BY <2>3, <3>1 DEF TypeInv, Filled
    <3>. QED  BY <2>4, <3>2
  <2>. QED  BY <2>2, <2>5
<1>. QED  BY <1>1, <1>2, <1>3, PTL DEF Spec

-----------------------------------------------------------------------------
(* The order of the events.                                                *)

\* The head of a queue leaves: what is left is an end of what was there.
LEMMA TakenSuffix ==
    ASSUME NEW l, NEW m, NEW L \in Lists, Steps(l),
           QueueAt(l, 0, L) # <<>>,
           Posted(l, m, 0, L, Tail(QueueAt(l, 0, L)))
    PROVE  Suffix(m, l, 0)
<1>. SUFFICES ASSUME NEW t \in Nat, NEW Q \in Lists
              PROVE  \E n \in Nat :
                        /\ Len(QueueAt(l, t + 0, Q)) = n + Len(QueueAt(m, t, Q))
                        /\ \A i \in 1..Len(QueueAt(m, t, Q)) :
                              QueueAt(m, t, Q)[i] = QueueAt(l, t + 0, Q)[n + i]
  BY DEF Suffix
<1>0. t + 0 = t /\ Len(QueueAt(l, t, Q)) \in Nat
  BY QueueItems
<1>1. CASE t = 0 /\ Q = L
  <2>. DEFINE o == QueueAt(l, 0, L)
              q == Tail(o)
  <2>1. o \in Seq(Event) /\ o # <<>>
    BY QueueAtType
  <2>2. QueueAt(m, t, Q) = q /\ QueueAt(l, t, Q) = o
    BY <1>1 DEF Posted
  <2>3. /\ Len(o) = 1 + Len(q)
        /\ \A k \in 1..Len(q) : q[k] = o[1 + k]
    <3>. HIDE DEF o
    <3>. QED  BY <2>1, TailItems
  <2>. HIDE DEF o, q
  <2>4. 1 \in Nat
    OBVIOUS
  <2>. QED  BY <1>0, <2>2, <2>3, <2>4
<1>2. CASE ~(t = 0 /\ Q = L)
  <2>1. QueueAt(m, t, Q) = QueueAt(l, t, Q)
    BY <1>2 DEF Posted
  <2>2. \A i \in 1..Len(QueueAt(m, t, Q)) : 0 + i = i
    BY <1>0, <2>1
  <2>3. Len(QueueAt(l, t, Q)) = 0 + Len(QueueAt(m, t, Q)) /\ 0 \in Nat
    BY <1>0, <2>1
  <2>. QED  BY <1>0, <2>1, <2>2, <2>3
<1>. QED  BY <1>1, <1>2

\* The current step is deleted.
LEMMA DroppedSuffix ==
    ASSUME NEW l, NEW m, Steps(l),
           \A t \in Nat, L \in Lists :
              QueueAt(m, t, L) = IF t = 0 THEN <<>> ELSE QueueAt(l, t, L)
    PROVE  Suffix(m, l, 0)
<1>. SUFFICES ASSUME NEW t \in Nat, NEW Q \in Lists
              PROVE  \E n \in Nat :
                        /\ Len(QueueAt(l, t + 0, Q)) = n + Len(QueueAt(m, t, Q))
                        /\ \A i \in 1..Len(QueueAt(m, t, Q)) :
                              QueueAt(m, t, Q)[i] = QueueAt(l, t + 0, Q)[n + i]
  BY DEF Suffix
<1>0. t + 0 = t /\ Len(QueueAt(l, t, Q)) \in Nat
  BY QueueItems
<1>1. CASE t = 0
  <2>1. QueueAt(m, t, Q) = <<>>
    BY <1>1
  <2>2. Len(QueueAt(m, t, Q)) = 0
    BY <2>1
  <2>. QED  BY <1>0, <2>2
<1>2. CASE t # 0
  <2>1. QueueAt(m, t, Q) = QueueAt(l, t, Q)
    BY <1>2
  <2>2. \A i \in 1..Len(QueueAt(m, t, Q)) : 0 + i = i
    BY <1>0, <2>1
  <2>3. Len(QueueAt(l, t, Q)) = 0 + Len(QueueAt(m, t, Q)) /\ 0 \in Nat
    BY <1>0, <2>1
  <2>. QED  BY <1>0, <2>1, <2>2, <2>3
<1>. QED  BY <1>1, <1>2

\* Time advances.
LEMMA AdvancedSuffix ==
    ASSUME NEW l, NEW m, NEW D \in Nat, Steps(l),
           \A t \in Nat, L \in Lists : QueueAt(m, t, L) = QueueAt(l, t + D, L)
    PROVE  Suffix(m, l, D)
<1>. SUFFICES ASSUME NEW t \in Nat, NEW Q \in Lists
              PROVE  /\ Len(QueueAt(l, t + D, Q)) = 0 + Len(QueueAt(m, t, Q))
                     /\ \A i \in 1..Len(QueueAt(m, t, Q)) :
                           QueueAt(m, t, Q)[i] = QueueAt(l, t + D, Q)[0 + i]
  BY DEF Suffix
<1>1. QueueAt(m, t, Q) = QueueAt(l, t + D, Q)
  OBVIOUS
<1>2. Len(QueueAt(l, t + D, Q)) \in Nat
  BY QueueItems
<1>3. \A i \in 1..Len(QueueAt(m, t, Q)) : 0 + i = i
  BY <1>1, <1>2
<1>. QED  BY <1>1, <1>2, <1>3

\* An event number that is not used by any event.
LEMMA MadeMore ==
    ASSUME NEW l, NEW now \in Nat, NEW made \in Nat, Steps(l), Queued(l, now, made)
    PROVE  Queued(l, now, made + 1)
<1>1. ASSUME NEW d \in Nat, NEW L \in Lists, NEW i \in 1..Len(QueueAt(l, d, L)),
             NEW e, e = QueueAt(l, d, L)[i]
      PROVE  Belongs(e, d, L, now, made + 1)
  <2>1. Belongs(e, d, L, now, made)
    BY <1>1 DEF Queued, Placed
  <2>2. e.id \in Nat
    BY <1>1, QueueItems
  <2>3. e.id <= made + 1
    BY <2>1, <2>2 DEF Belongs
  <2>. QED  BY <2>1, <2>3 DEF Belongs
<1>2. Placed(l, now, made + 1)
  BY <1>1 DEF Placed
<1>. QED  BY <1>2 DEF Queued

\* A start event that waits for its time is known to be posted.
LEMMA PostedStart ==
    ASSUME Steps(sched_list), NEW d \in Nat,
           NEW i \in 1..Len(QueueAt(sched_list, d, "start")),
           QueueAt(sched_list, d, "start")[i].list = "start"
    PROVE  QueueAt(sched_list, d, "start")[i] \in StartsPosted
<1>0. "start" \in Lists /\ "active" \in Lists
  BY DEF Lists
<1>1. d \in TimesOf(sched_list)
  <2>. SUFFICES ASSUME d \notin TimesOf(sched_list) PROVE FALSE
    OBVIOUS
  <2>1. QueueAt(sched_list, d, "start") = <<>>
    BY <1>0, QueueAtType
  <2>. QED  BY <2>1
<1>2. PICK k \in 1..Len(sched_list) :
         QueueAt(sched_list, d, "start") = sched_list[k]["start"]
  BY <1>0, <1>1, QueueAtType
<1>3. sched_list \in Seq(StepRec) /\ DOMAIN sched_list = 1..Len(sched_list)
  BY DEF Steps
<1>. DEFINE a == sched_list[k].start
            b == sched_list[k].active
<1>4. a \in Seq(Event) /\ b \in Seq(Event) /\ a = QueueAt(sched_list, d, "start")
  <2>1. sched_list[k] \in StepRec
    BY <1>3
  <2>2. a \in Seq(Event) /\ b \in Seq(Event)
    BY <2>1 DEF StepRec
  <2>. QED  BY <1>2, <2>2
<1>. HIDE DEF a, b
<1>5. i \in DOMAIN (a \o b) /\ (a \o b)[i] = a[i]
  BY <1>4
<1>6. a[i] \in Range(a \o b)
  BY <1>5 DEF Range
<1>7. a[i] \in UNION {Range(sched_list[h].start \o sched_list[h].active) :
                        h \in DOMAIN sched_list}
  BY <1>3, <1>6 DEF a, b
<1>. QED  BY <1>4, <1>7 DEF StartsPosted

\* Nothing is queued when linking begins.
LEMMA OrderInvInit == Init => OrderInv
<1>. SUFFICES ASSUME Init PROVE OrderInv
  OBVIOUS
<1>1. TimesOf(sched_list) = {}
  BY DEF Init, TimesOf
<1>2. \A d \in Nat, L \in Lists : QueueAt(sched_list, d, L) = <<>>
  BY <1>1 DEF QueueAt
<1>3. \A d \in Nat, L \in Lists : 1..Len(QueueAt(sched_list, d, L)) = {}
  BY <1>2
<1>4. "active" \in Lists /\ "start" \in Lists
  BY DEF Lists
<1>5. Queued(sched_list, schedule_time, created)
  BY <1>3, <1>4 DEF Queued, Placed, Ordered, PushedFirst, Moved, Distinct
<1>6. FirstStartKept(sched_list)
  BY <1>3, <1>4 DEF FirstStartKept
<1>. QED  BY <1>2, <1>4, <1>5, <1>6 DEF Init, OrderInv, StartsDone, WritersDone, NoCrash, NotCrashed

\* An event that anybody may schedule keeps the order.
LEMMA ScheduleKeepsOrder ==
    ASSUME TypeInv, OrderInv, Schedule
    PROVE  OrderInv'
<1>1. /\ Steps(sched_list) /\ schedule_time \in Nat /\ created \in Nat
      /\ "start" \in Lists /\ "active" \in Lists
  BY DEF TypeInv, Shape, Scalars, Lists
<1>2. PICK L \in Lists, d \in Nat, e \in Event :
        /\ e = [id |-> created + 1, list |-> L, pushed |-> FALSE,
                due |-> schedule_time + d]
        /\ Legal(L, schedule_time + d)
        /\ L = "start" =>
              \A f \in StartsPosted : f.due = schedule_time + d => MaxStarts > 1
        /\ schedule_event_(e, d, L)
  BY ScheduleFacts
<1>3. /\ e.id = created + 1 /\ e.list = L /\ ~e.pushed
      /\ e.due = schedule_time + d
  BY <1>2
<1>4. /\ pc = "rosync" => L = "rosync" \/ d > 0
      /\ L = "start" => d > 0
  BY <1>1, <1>2 DEF Legal
<1>5. created' = created + 1 /\ schedule_time' = schedule_time
  BY DEF Schedule
<1>. DEFINE Q == IF L = "start" /\ QueueAt(sched_list, d, "start") # <<>>
                 THEN "active" ELSE L
<1>6. \/ /\ pc' = "crashed" /\ sched_list' = sched_list
         /\ L = "start" /\ QueueAt(sched_list, d, "start") # <<>>
      \/ /\ pc' = pc
         /\ Posted(sched_list, sched_list', d, Q,
                   Append(QueueAt(sched_list, d, Q), e))
  BY <1>1, <1>2, ScheduleEvent
<1>7. CASE /\ pc' = "crashed" /\ sched_list' = sched_list
           /\ L = "start" /\ QueueAt(sched_list, d, "start") # <<>>
  <2>1. Queued(sched_list', schedule_time', created')
    BY <1>1, <1>5, <1>7, MadeMore DEF OrderInv
  <2>2. NoCrash'
    <3>. DEFINE o == QueueAt(sched_list, d, "start")
    <3>1. o \in Seq(Event) /\ o # <<>>
      BY <1>1, <1>7, QueueAtType
    <3>2. 1 \in 1..Len(o)
      BY <3>1
    <3>3. o[1].list = "start" /\ o[1].due = schedule_time + d
      BY <1>1, <3>2 DEF OrderInv, Queued, Placed, Belongs
    <3>4. o[1] \in StartsPosted
      BY <1>1, <3>2, <3>3, PostedStart
    <3>5. MaxStarts > 1
      BY <1>2, <1>7, <3>3, <3>4
    <3>. QED  BY <3>5, BoundsAssumption DEF NoCrash, NotCrashed
  <2>. QED  BY <1>7, <2>1, <2>2 DEF OrderInv, StartsDone, WritersDone
<1>8. CASE /\ pc' = pc
           /\ Posted(sched_list, sched_list', d, Q,
                     Append(QueueAt(sched_list, d, Q), e))
  <2>. DEFINE q == Append(QueueAt(sched_list, d, Q), e)
  <2>0. /\ Q \in Lists
        /\ Q = "start" => L = "start" /\ QueueAt(sched_list, d, "start") = <<>>
        /\ L = Q \/ (L = "start" /\ Q = "active"
                     /\ QueueAt(sched_list, d, "start") # <<>>)
    BY <1>1
  <2>1. /\ q # <<>> /\ Len(QueueAt(sched_list, d, Q)) \in Nat
        /\ \A i \in 1..Len(q) : i \in 1..Len(QueueAt(sched_list, d, Q)) \/ q[i] = e
        /\ \A i \in 1..Len(QueueAt(sched_list, d, Q)) :
              q[i] = QueueAt(sched_list, d, Q)[i]
    <3>. DEFINE o == QueueAt(sched_list, d, Q)
    <3>1. o \in Seq(Event) /\ q = Append(o, e)
      BY <1>1, <2>0, QueueAtType
    <3>. HIDE DEF o, q
    <3>2. /\ q # <<>> /\ Len(o) \in Nat
          /\ \A i \in 1..Len(q) : i \in 1..Len(o) \/ q[i] = e
          /\ \A i \in 1..Len(o) : q[i] = o[i]
      BY <3>1
    <3>. QED  BY <3>2 DEF o
  <2>2. \A t \in Nat, P \in Lists :
           QueueAt(sched_list', t, P) = IF t = d /\ P = Q THEN q
                                        ELSE QueueAt(sched_list, t, P)
    BY <1>8 DEF Posted
  <2>. HIDE DEF q
  <2>3. Queued(sched_list', schedule_time', created')
    <3>1. Q = "start" =>
             \A i \in 1..Len(QueueAt(sched_list, d, "active")) :
                QueueAt(sched_list, d, "active")[i].list # "start"
      BY <1>4, <2>0 DEF OrderInv, FirstStartKept
    <3>. HIDE DEF Q
    <3>2. e.list = Q \/ (Q = "active" /\ e.list = "start")
      BY <1>3, <2>0
    <3>3. Q = "start" => QueueAt(sched_list, d, "start") = <<>>
      BY <2>0
    <3>4. Posted(sched_list, sched_list', d, Q, Append(QueueAt(sched_list, d, Q), e))
      BY <1>8
    <3>5. Queued(sched_list, schedule_time, created)
      BY DEF OrderInv
    <3>6. Queued(sched_list', schedule_time, created + 1)
      BY <1>1, <1>3, <2>0, <3>1, <3>2, <3>3, <3>4, <3>5, AppendKeeps
    <3>. QED  BY <1>5, <3>6
  <2>. HIDE DEF Q
  <2>4. FirstStartKept(sched_list')
    <3>. SUFFICES ASSUME NEW t \in Nat, t > 0,
                         NEW i \in 1..Len(QueueAt(sched_list', t, "active")),
                         QueueAt(sched_list', t, "active")[i].list = "start"
                  PROVE  QueueAt(sched_list', t, "start") # <<>>
      BY DEF FirstStartKept
    <3>1. QueueAt(sched_list, t, "start") # <<>>
             => QueueAt(sched_list', t, "start") # <<>>
      BY <1>1, <2>1, <2>2
    <3>2. CASE /\ i \in 1..Len(QueueAt(sched_list, t, "active"))
               /\ QueueAt(sched_list, t, "active")[i].list = "start"
      BY <3>1, <3>2 DEF OrderInv, FirstStartKept
    <3>3. CASE /\ t = d /\ Q = "active" /\ L = "start"
      BY <2>0, <3>1, <3>3
    <3>4. CASE t = d /\ Q = "active"
      <4>1. QueueAt(sched_list', t, "active") = q
        BY <1>1, <2>2, <3>4
      <4>2. CASE i \in 1..Len(QueueAt(sched_list, d, Q))
        <5>1. q[i] = QueueAt(sched_list, d, Q)[i]
          BY <2>1, <4>2
        <5>. QED  BY <3>2, <3>4, <4>1, <4>2, <5>1
      <4>3. CASE q[i] = e
        BY <1>3, <3>3, <3>4, <4>1, <4>3
      <4>. QED  BY <2>1, <4>1, <4>2, <4>3
    <3>5. CASE ~(t = d /\ Q = "active")
      <4>1. QueueAt(sched_list', t, "active") = QueueAt(sched_list, t, "active")
        BY <1>1, <2>2, <3>5
      <4>. QED  BY <3>2, <4>1
    <3>. QED  BY <3>4, <3>5
  <2>5. StartsDone'
    <3>1. QueueAt(sched_list', 0, "start") = QueueAt(sched_list, 0, "start")
      BY <1>1, <1>4, <2>0, <2>2
    <3>. QED  BY <1>8, <3>1 DEF OrderInv, StartsDone
  <2>6. WritersDone'
    <3>. SUFFICES ASSUME pc = "rosync", NEW P \in {"active", "nbassign", "rwsync"}
                  PROVE  QueueAt(sched_list', 0, P) = <<>>
      BY <1>8 DEF WritersDone
    <3>1. P \in Lists /\ P # "rosync"
      BY DEF Lists
    <3>2. ~(0 = d /\ P = Q)
      BY <1>4, <2>0, <3>1
    <3>3. QueueAt(sched_list', 0, P) = QueueAt(sched_list, 0, P)
      BY <2>2, <3>1, <3>2
    <3>. QED  BY <3>3 DEF OrderInv, WritersDone
  <2>7. NoCrash'
    BY <1>8 DEF OrderInv, NoCrash, NotCrashed
  <2>. QED  BY <2>3, <2>4, <2>5, <2>6, <2>7 DEF OrderInv
<1>. QED  BY <1>6, <1>7, <1>8

\* A pushed thread keeps the order.
LEMMA PushKeepsOrder ==
    ASSUME TypeInv, OrderInv, SchedulePushed
    PROVE  OrderInv'
<1>1. /\ Steps(sched_list) /\ schedule_time \in Nat /\ created \in Nat
      /\ "start" \in Lists /\ "active" \in Lists
  BY DEF TypeInv, Shape, Scalars, Lists
<1>2. PICK e \in Event :
        /\ e = [id |-> created + 1, list |-> "active", pushed |-> TRUE,
                due |-> schedule_time]
        /\ schedule_event_push_(e)
  BY PushedEvent
<1>3. /\ e.id = created + 1 /\ e.list = "active" /\ e.pushed
      /\ e.due = schedule_time
  BY <1>2
<1>4. created' = created + 1 /\ schedule_time' = schedule_time /\ pc # "rosync"
  BY DEF SchedulePushed
<1>. DEFINE q == <<e>> \o QueueAt(sched_list, 0, "active")
<1>5. pc' = pc /\ Posted(sched_list, sched_list', 0, "active", q)
  BY <1>1, <1>2, ScheduleEventPush
<1>6. Queued(sched_list', schedule_time', created')
  <2>1. Queued(sched_list, schedule_time, created)
    BY DEF OrderInv
  <2>2. Queued(sched_list', schedule_time, created + 1)
    BY <1>1, <1>3, <1>5, <2>1, PushKeeps
  <2>. QED  BY <1>4, <2>2
<1>. HIDE DEF q
<1>7. \A t \in Nat, P \in Lists :
         ~(t = 0 /\ P = "active") => QueueAt(sched_list', t, P) = QueueAt(sched_list, t, P)
  BY <1>5 DEF Posted
<1>8. FirstStartKept(sched_list')
  <2>. SUFFICES ASSUME NEW t \in Nat, t > 0,
                       NEW i \in 1..Len(QueueAt(sched_list', t, "active")),
                       QueueAt(sched_list', t, "active")[i].list = "start"
                PROVE  QueueAt(sched_list', t, "start") # <<>>
    BY DEF FirstStartKept
  <2>1. /\ QueueAt(sched_list', t, "active") = QueueAt(sched_list, t, "active")
        /\ QueueAt(sched_list', t, "start") = QueueAt(sched_list, t, "start")
    BY <1>1, <1>7
  <2>. QED  BY <2>1 DEF OrderInv, FirstStartKept
<1>9. StartsDone'
  <2>1. QueueAt(sched_list', 0, "start") = QueueAt(sched_list, 0, "start")
    BY <1>1, <1>7
  <2>. QED  BY <1>5, <2>1 DEF OrderInv, StartsDone
<1>. QED  BY <1>4, <1>5, <1>6, <1>8, <1>9 DEF OrderInv, WritersDone, NoCrash, NotCrashed

\* An event that leaves the head of a list of the current step.
LEMMA TakeKeepsOrder ==
    ASSUME TypeInv, OrderInv, NEW L \in Lists, 0 \in TimesOf(sched_list),
           Ctim[L] # <<>>, sched_list' = [sched_list EXCEPT ![1][L] = Tail(@)],
           schedule_time' = schedule_time, created' = created
    PROVE  /\ Queued(sched_list', schedule_time', created')
           /\ FirstStartKept(sched_list')
           /\ \A P \in Lists : P # L =>
                 QueueAt(sched_list', 0, P) = QueueAt(sched_list, 0, P)
<1>1. /\ Steps(sched_list) /\ schedule_time \in Nat /\ created \in Nat
      /\ "start" \in Lists /\ "active" \in Lists
      /\ Queued(sched_list, schedule_time, created)
  BY DEF TypeInv, Shape, Scalars, Lists, OrderInv
<1>2. /\ QueueAt(sched_list, 0, L) = Ctim[L]
      /\ Posted(sched_list, sched_list', 0, L, Tail(QueueAt(sched_list, 0, L)))
  BY RunFacts
<1>3. Suffix(sched_list', sched_list, 0) /\ Steps(sched_list')
  BY <1>1, <1>2, TakenSuffix DEF Posted
<1>4. Queued(sched_list', schedule_time + 0, created)
  BY <1>1, <1>3, SuffixKeeps
<1>5. schedule_time + 0 = schedule_time'
  BY <1>1
<1>6. \A t \in Nat, P \in Lists :
         ~(t = 0 /\ P = L) => QueueAt(sched_list', t, P) = QueueAt(sched_list, t, P)
  BY <1>2 DEF Posted
<1>7. FirstStartKept(sched_list')
  <2>. SUFFICES ASSUME NEW t \in Nat, t > 0,
                       NEW i \in 1..Len(QueueAt(sched_list', t, "active")),
                       QueueAt(sched_list', t, "active")[i].list = "start"
                PROVE  QueueAt(sched_list', t, "start") # <<>>
    BY DEF FirstStartKept
  <2>0. \A P \in Lists : QueueAt(sched_list', t, P) = QueueAt(sched_list, t, P)
    <3>. SUFFICES ASSUME NEW P \in Lists
                  PROVE  QueueAt(sched_list', t, P) = QueueAt(sched_list, t, P)
      OBVIOUS
    <3>1. ~(t = 0 /\ P = L)
      OBVIOUS
    <3>. QED  BY <1>6, <3>1
  <2>1. /\ QueueAt(sched_list', t, "active") = QueueAt(sched_list, t, "active")
        /\ QueueAt(sched_list', t, "start") = QueueAt(sched_list, t, "start")
    BY <1>1, <2>0
  <2>. QED  BY <2>1 DEF OrderInv, FirstStartKept
<1>. QED  BY <1>4, <1>5, <1>6, <1>7

\* Every step of the scheduler keeps the events in order, each in its place.
LEMMA OrderInvStep == TypeInv /\ OrderInv /\ [Next]_vars => OrderInv'
<1>. SUFFICES ASSUME TypeInv, OrderInv, [Next]_vars PROVE OrderInv'
  OBVIOUS
<1>1. /\ Steps(sched_list) /\ schedule_time \in Nat /\ created \in Nat
      /\ "start" \in Lists /\ "active" \in Lists
      /\ Queued(sched_list, schedule_time, created) /\ FirstStartKept(sched_list)
      /\ NoCrash
  BY DEF TypeInv, Shape, Scalars, Lists, OrderInv
<1>2. 0 \in TimesOf(sched_list) =>
         \A L \in Lists : QueueAt(sched_list, 0, L) = Ctim[L]
  <2>. SUFFICES ASSUME 0 \in TimesOf(sched_list), NEW L \in Lists
                PROVE  QueueAt(sched_list, 0, L) = Ctim[L]
    OBVIOUS
  <2>1. sched_list # <<>> /\ sched_list[1].delay = 0 /\ Ctim = sched_list[1]
    BY <1>1, CurrentIsZero DEF Ctim
  <2>. QED  BY <1>1, <2>1, FirstSum
<1>3. /\ pc \in {"start", "queues", "rosync"} => 0 \in TimesOf(sched_list)
      /\ AtQueues => 0 \in TimesOf(sched_list) /\ pc \in {"queues", "top"}
  BY <1>1, CurrentIsZero DEF TypeInv, CurrentHeld, AtQueues, Ctim
<1>4. ASSUME UNCHANGED <<sched_list, schedule_time, created>>,
             pc' = pc \/ (pc # "start" /\ pc # "crashed" /\ pc' # "rosync"
                          /\ pc' # "crashed")
      PROVE  OrderInv'
  BY <1>4 DEF OrderInv, StartsDone, WritersDone, NoCrash, NotCrashed
<1>5. CASE Schedule
  BY <1>5, ScheduleKeepsOrder
<1>6. CASE SchedulePushed
  BY <1>6, PushKeepsOrder
<1>7. CASE ScheduleInit
  <2>1. Queued(sched_list', schedule_time', created')
    <3>1. Queued(sched_list, schedule_time, created + 1)
      BY <1>1, MadeMore
    <3>. QED  BY <1>7, <3>1 DEF ScheduleInit
  <2>. QED  BY <1>7, <2>1 DEF ScheduleInit, OrderInv, StartsDone, WritersDone, NoCrash, NotCrashed
<1>8. CASE schedule_finish
  BY <1>4, <1>8 DEF schedule_finish
<1>9. CASE schedule_stop
  BY <1>4, <1>9 DEF schedule_stop
<1>10. CASE Return
  BY <1>4, <1>10 DEF Return
<1>11. CASE RunInitEvent
  BY <1>4, <1>11 DEF RunInitEvent
<1>12. CASE StartOfSim
  BY <1>4, <1>12 DEF StartOfSim
<1>13. CASE EnterLoop
  BY <1>4, <1>13 DEF EnterLoop
<1>14. CASE LoopEnds
  BY <1>4, <1>14 DEF LoopEnds, AtTop
<1>15. CASE stop_handler
  BY <1>4, <1>15 DEF stop_handler, AtTop
<1>16. CASE Resume
  BY <1>4, <1>16 DEF Resume
<1>17. CASE FinishBeforeAdvance
  BY <1>4, <1>17 DEF FinishBeforeAdvance, TimeAdvances, AtTop
<1>18. CASE AdvanceTime
  <2>1. sched_list # <<>> /\ Ctim = sched_list[1] /\ pc' = "start"
    BY <1>18 DEF AdvanceTime, TimeAdvances, Ctim
  <2>. DEFINE D == sched_list[1].delay
              m == [sched_list EXCEPT ![1].delay = 0]
  <2>2. D \in Nat /\ schedule_time' = schedule_time + D /\ created' = created
    BY <1>1, <1>18, <2>1, FirstSum DEF AdvanceTime
  <2>3. /\ Steps(m)
        /\ \A t \in Nat, L \in Lists :
              QueueAt(m, t, L) = QueueAt(sched_list, t + D, L)
    BY <1>1, <2>1, AdvanceHead
  <2>4. sched_list' = m
    BY <1>18 DEF AdvanceTime
  <2>. HIDE DEF m, D
  <2>5. Suffix(m, sched_list, D)
    BY <1>1, <2>2, <2>3, AdvancedSuffix
  <2>6. Queued(m, schedule_time + D, created)
    BY <1>1, <2>2, <2>3, <2>5, SuffixKeeps
  <2>7. FirstStartKept(m)
    <3>. SUFFICES ASSUME NEW t \in Nat, t > 0,
                         NEW i \in 1..Len(QueueAt(m, t, "active")),
                         QueueAt(m, t, "active")[i].list = "start"
                  PROVE  QueueAt(m, t, "start") # <<>>
      BY DEF FirstStartKept
    <3>1. /\ QueueAt(m, t, "active") = QueueAt(sched_list, t + D, "active")
          /\ QueueAt(m, t, "start") = QueueAt(sched_list, t + D, "start")
          /\ t + D \in Nat /\ t + D > 0
      BY <1>1, <2>2, <2>3
    <3>. QED  BY <1>1, <3>1 DEF FirstStartKept
  <2>. QED  BY <2>1, <2>2, <2>4, <2>6, <2>7 DEF OrderInv, StartsDone, WritersDone, NoCrash, NotCrashed
<1>20. CASE RunStart
  <2>1. /\ Ctim["start"] # <<>> /\ "start" \in Lists
        /\ 0 \in TimesOf(sched_list) /\ pc' = "start"
        /\ sched_list' = [sched_list EXCEPT ![1]["start"] = Tail(@)]
        /\ schedule_time' = schedule_time /\ created' = created
    BY <1>3, <1>20 DEF RunStart, Run, Lists
  <2>2. Queued(sched_list', schedule_time', created') /\ FirstStartKept(sched_list')
    BY <2>1, TakeKeepsOrder
  <2>. QED  BY <2>1, <2>2 DEF OrderInv, StartsDone, WritersDone, NoCrash, NotCrashed
<1>21. CASE StartOver
  <2>1. QueueAt(sched_list, 0, "start") = <<>>
    BY <1>1, <1>2, <1>3, <1>21 DEF StartOver
  <2>. QED  BY <1>21, <2>1 DEF StartOver, OrderInv, StartsDone, WritersDone, NoCrash, NotCrashed
<1>23. CASE RunActive
  <2>1. /\ Ctim["active"] # <<>>
        /\ 0 \in TimesOf(sched_list) /\ pc' = "top" /\ pc \in {"queues", "top"}
        /\ sched_list' = [sched_list EXCEPT ![1]["active"] = Tail(@)]
        /\ schedule_time' = schedule_time /\ created' = created
    BY <1>3, <1>23 DEF RunActive, Run
  <2>2. /\ Queued(sched_list', schedule_time', created') /\ FirstStartKept(sched_list')
        /\ QueueAt(sched_list', 0, "start") = QueueAt(sched_list, 0, "start")
    BY <1>1, <2>1, TakeKeepsOrder
  <2>. QED  BY <2>1, <2>2 DEF OrderInv, StartsDone, WritersDone, NoCrash, NotCrashed
<1>24. CASE AdvanceQueue
  <2>0. AtQueues /\ pc' = "top" /\ schedule_time' = schedule_time /\ created' = created
    BY <1>24 DEF AdvanceQueue
  <2>1. PICK L \in {"nbassign", "rwsync"} :
          /\ QueueAt(sched_list, 0, L) # <<>>
          /\ QueueAt(sched_list, 0, "active") = <<>>
          /\ \A t \in Nat, Q \in Lists :
                QueueAt(sched_list', t, Q) =
                   IF t = 0 /\ Q = "active" THEN Tail(QueueAt(sched_list, 0, L))
                   ELSE IF t = 0 /\ Q = L THEN <<>>
                   ELSE QueueAt(sched_list, t, Q)
    BY <1>3, <1>24, <2>0, AdvanceFacts
  <2>2. Queued(sched_list', schedule_time, created)
    BY <1>1, <2>1, PromoteKeeps
  <2>3. /\ QueueAt(sched_list', 0, "start") = QueueAt(sched_list, 0, "start")
        /\ \A t \in Nat, Q \in Lists :
              t > 0 => QueueAt(sched_list', t, Q) = QueueAt(sched_list, t, Q)
    BY <1>1, <2>1
  <2>4. FirstStartKept(sched_list')
    <3>. SUFFICES ASSUME NEW t \in Nat, t > 0,
                         NEW i \in 1..Len(QueueAt(sched_list', t, "active")),
                         QueueAt(sched_list', t, "active")[i].list = "start"
                  PROVE  QueueAt(sched_list', t, "start") # <<>>
      BY DEF FirstStartKept
    <3>1. /\ QueueAt(sched_list', t, "active") = QueueAt(sched_list, t, "active")
          /\ QueueAt(sched_list', t, "start") = QueueAt(sched_list, t, "start")
      BY <1>1, <2>3
    <3>. QED  BY <1>1, <3>1 DEF FirstStartKept
  <2>5. StartsDone'
    BY <1>3, <2>0, <2>3 DEF OrderInv, StartsDone
  <2>. QED  BY <2>0, <2>2, <2>4, <2>5 DEF OrderInv, WritersDone, NoCrash, NotCrashed
<1>25. CASE EnterRosync
  <2>1. /\ Ctim.active = <<>> /\ Ctim.nbassign = <<>> /\ Ctim.rwsync = <<>>
        /\ AtQueues /\ pc' = "rosync"
        /\ UNCHANGED <<sched_list, schedule_time, created>>
    BY <1>25 DEF EnterRosync, NextList
  <2>2. \A L \in {"active", "nbassign", "rwsync"} : QueueAt(sched_list, 0, L) = <<>>
    <3>1. /\ Ctim["active"] = <<>> /\ Ctim["nbassign"] = <<>> /\ Ctim["rwsync"] = <<>>
      BY <2>1
    <3>. QED  BY <1>2, <1>3, <2>1, <3>1 DEF Lists
  <2>3. WritersDone'
    BY <2>1, <2>2 DEF WritersDone
  <2>4. StartsDone'
    BY <1>3, <2>1 DEF OrderInv, StartsDone
  <2>. QED  BY <2>1, <2>3, <2>4 DEF OrderInv, NoCrash, NotCrashed
<1>26. CASE RunReadOnly
  <2>1. /\ Ctim["rosync"] # <<>> /\ "rosync" \in Lists
        /\ 0 \in TimesOf(sched_list) /\ pc = "rosync" /\ pc' = "rosync"
        /\ sched_list' = [sched_list EXCEPT ![1]["rosync"] = Tail(@)]
        /\ schedule_time' = schedule_time /\ created' = created
    BY <1>3, <1>26 DEF RunReadOnly, Run, Lists
  <2>2. /\ Queued(sched_list', schedule_time', created') /\ FirstStartKept(sched_list')
        /\ \A P \in Lists : P # "rosync" =>
              QueueAt(sched_list', 0, P) = QueueAt(sched_list, 0, P)
    BY <2>1, TakeKeepsOrder
  <2>3. WritersDone' /\ StartsDone'
    BY <1>1, <2>1, <2>2 DEF OrderInv, WritersDone, StartsDone, Lists
  <2>. QED  BY <2>1, <2>2, <2>3 DEF OrderInv, NoCrash, NotCrashed
<1>27. CASE DeleteThread
  <2>1. /\ Ctim["del_thr"] # <<>> /\ "del_thr" \in Lists
        /\ 0 \in TimesOf(sched_list) /\ pc = "rosync" /\ pc' = "rosync"
        /\ sched_list' = [sched_list EXCEPT ![1]["del_thr"] = Tail(@)]
        /\ schedule_time' = schedule_time /\ created' = created
    BY <1>3, <1>27 DEF DeleteThread, Lists
  <2>2. /\ Queued(sched_list', schedule_time', created') /\ FirstStartKept(sched_list')
        /\ \A P \in Lists : P # "del_thr" =>
              QueueAt(sched_list', 0, P) = QueueAt(sched_list, 0, P)
    BY <2>1, TakeKeepsOrder
  <2>3. WritersDone' /\ StartsDone'
    BY <1>1, <2>1, <2>2 DEF OrderInv, WritersDone, StartsDone, Lists
  <2>. QED  BY <2>1, <2>2, <2>3 DEF OrderInv, NoCrash, NotCrashed
<1>28. CASE DeleteStep
  <2>1. /\ sched_list # <<>> /\ sched_list[1].delay = 0
        /\ sched_list' = Tail(sched_list) /\ pc' = "top"
        /\ schedule_time' = schedule_time /\ created' = created
    BY <1>28 DEF DeleteStep, TypeInv, CurrentHeld
  <2>2. /\ Steps(sched_list')
        /\ \A t \in Nat, L \in Lists :
              QueueAt(sched_list', t, L) =
                 IF t = 0 THEN <<>> ELSE QueueAt(sched_list, t, L)
    BY <1>1, <2>1, DropHead
  <2>8. \A t \in Nat, L \in Lists :
           t > 0 => QueueAt(sched_list', t, L) = QueueAt(sched_list, t, L)
    BY <2>2
  <2>3. Suffix(sched_list', sched_list, 0)
    BY <1>1, <2>2, DroppedSuffix
  <2>4. Queued(sched_list', schedule_time + 0, created)
    BY <1>1, <2>2, <2>3, SuffixKeeps
  <2>5. schedule_time + 0 = schedule_time
    BY <1>1
  <2>6. FirstStartKept(sched_list')
    <3>. SUFFICES ASSUME NEW t \in Nat, t > 0,
                         NEW i \in 1..Len(QueueAt(sched_list', t, "active")),
                         QueueAt(sched_list', t, "active")[i].list = "start"
                  PROVE  QueueAt(sched_list', t, "start") # <<>>
      BY DEF FirstStartKept
    <3>1. /\ QueueAt(sched_list', t, "active") = QueueAt(sched_list, t, "active")
          /\ QueueAt(sched_list', t, "start") = QueueAt(sched_list, t, "start")
      BY <1>1, <2>8
    <3>. QED  BY <1>1, <3>1 DEF FirstStartKept
  <2>7. StartsDone'
    BY <1>1, <2>2 DEF StartsDone
  <2>. QED  BY <2>1, <2>4, <2>5, <2>6, <2>7 DEF OrderInv, WritersDone, NoCrash, NotCrashed
<1>29. CASE UNCHANGED vars
  BY <1>4, <1>29 DEF vars
<1>. QED
  BY <1>5, <1>6, <1>7, <1>8, <1>9, <1>10, <1>11, <1>12, <1>13, <1>14, <1>15, <1>16,
     <1>17, <1>18, <1>20, <1>21, <1>23, <1>24, <1>25, <1>26, <1>27, <1>28, <1>29
  DEF Next, Environment, Loop, Ended

\* A pending event of a list is in that list of the current step, or in the
\* active one.
LEMMA PendingPlaced ==
    ASSUME TypeInv, OrderInv, NEW list, NEW f \in Pending(list)
    PROVE  /\ f.list = list
           /\ \E K \in Lists : \E i \in 1..Len(QueueAt(sched_list, 0, K)) :
                /\ f = QueueAt(sched_list, 0, K)[i]
                /\ K = list \/ K = "active"
                /\ f.pushed => K = "active" /\ list = "active"
<1>1. /\ Steps(sched_list) /\ schedule_time \in Nat /\ Delayed(sched_list)
      /\ DOMAIN sched_list = 1..Len(sched_list) /\ Len(sched_list) \in Nat
      /\ sched_list \in Seq(StepRec)
  BY StepsDelayed DEF TypeInv, Shape, Scalars, Steps
<1>2. f.list = list /\ f.due = schedule_time
  BY DEF Pending
<1>3. PICK k \in 1..Len(sched_list), K \in Lists : f \in Range(sched_list[k][K])
  BY <1>1 DEF Pending, EventsIn
<1>. DEFINE d == DelaySums(sched_list)[k]
<1>4. d \in Nat
  BY <1>1, SumsStep
<1>5. QueueAt(sched_list, d, K) = sched_list[k][K]
  BY <1>1, QueueAtStep
<1>. HIDE DEF d
<1>6. PICK i \in 1..Len(QueueAt(sched_list, d, K)) : f = QueueAt(sched_list, d, K)[i]
  <2>. DEFINE q == sched_list[k][K]
  <2>1. q \in Seq(Event)
    BY <1>1, StepRecLists
  <2>. HIDE DEF q
  <2>2. DOMAIN q = 1..Len(q)
    BY <2>1
  <2>3. \E i \in DOMAIN q : f = q[i]
    BY <1>3 DEF q, Range
  <2>. QED  BY <1>5, <2>2, <2>3 DEF q
<1>7. Belongs(f, d, K, schedule_time, created)
  BY <1>4, <1>6 DEF OrderInv, Queued, Placed
<1>8. d = 0
  BY <1>1, <1>2, <1>4, <1>7 DEF Belongs
<1>. QED  BY <1>2, <1>6, <1>7, <1>8 DEF Belongs

\* The head of a list that has its turn is the next event of its kind.
LEMMA RunsInOrder ==
    ASSUME TypeInv, OrderInv, NEW L \in Lists,
           QueueAt(sched_list, 0, L) # <<>>,
           NEW e, e = Head(QueueAt(sched_list, 0, L)),
           L \notin {"active", "start"} => QueueAt(sched_list, 0, "active") = <<>>,
           L = "active" => QueueAt(sched_list, 0, "start") = <<>>
    PROVE  /\ ~e.pushed => \A f \in Pending(e.list) : ~f.pushed => f.id >= e.id
           /\ \A f \in Pending("active") : e.list = "active" /\ f.pushed =>
                 e.pushed /\ f.id <= e.id
<1>1. /\ Steps(sched_list) /\ "active" \in Lists /\ "start" \in Lists /\ 0 \in Nat
      /\ Queued(sched_list, schedule_time, created)
  BY DEF TypeInv, Shape, Lists, OrderInv
<1>2. 1 \in 1..Len(QueueAt(sched_list, 0, L)) /\ e = QueueAt(sched_list, 0, L)[1]
  <2>. DEFINE q == QueueAt(sched_list, 0, L)
  <2>1. q \in Seq(Event) /\ q # <<>> /\ e = Head(q)
    BY <1>1, QueueAtType
  <2>. HIDE DEF q
  <2>2. 1 \in 1..Len(q) /\ e = q[1]
    BY <2>1
  <2>. QED  BY <2>2 DEF q
<1>3. e.id \in Nat /\ (e.list = L \/ L = "active")
  <2>1. e.id \in Nat
    BY <1>1, <1>2, QueueItems
  <2>2. Belongs(e, 0, L, schedule_time, created)
    BY <1>1, <1>2 DEF Queued, Placed
  <2>. QED  BY <2>1, <2>2 DEF Belongs
<1>4. ASSUME NEW f \in Pending(e.list), ~e.pushed, ~f.pushed
      PROVE  f.id >= e.id
  <2>1. f.list = e.list
    BY <1>4, PendingPlaced
  <2>2. PICK K \in Lists : \E i \in 1..Len(QueueAt(sched_list, 0, K)) :
          /\ f = QueueAt(sched_list, 0, K)[i]
          /\ K = e.list \/ K = "active"
    BY <1>4, PendingPlaced
  <2>3. PICK i \in 1..Len(QueueAt(sched_list, 0, K)) :
          /\ f = QueueAt(sched_list, 0, K)[i]
          /\ K = e.list \/ K = "active"
    BY <2>2
  <2>4. f.id \in Nat
    BY <1>1, <2>3, QueueItems
  <2>5. CASE K = L
    <3>1. CASE i = 1
      BY <1>2, <1>3, <2>3, <2>5, <3>1
    <3>2. CASE i # 1
      <4>1. 1 < i
        BY <1>1, <3>2, QueueItems
      <4>2. e.id < f.id
        BY <1>1, <1>2, <1>4, <2>1, <2>3, <2>5, <4>1 DEF Queued, Ordered
      <4>. QED  BY <1>3, <2>4, <4>2
    <3>. QED  BY <3>1, <3>2
  <2>6. CASE K # L /\ L = "active"
    <3>1. K = e.list /\ K # "active"
      BY <2>3, <2>6
    <3>2. K # "start"
      <4>. SUFFICES ASSUME K = "start" PROVE FALSE
        OBVIOUS
      <4>1. QueueAt(sched_list, 0, K) = <<>>
        BY <2>6
      <4>. QED  BY <4>1
    <3>3. e.id < f.id
      BY <1>1, <1>2, <2>3, <2>6, <3>1, <3>2 DEF Queued, Moved
    <3>. QED  BY <1>3, <2>4, <3>3
  <2>7. CASE K # L /\ L # "active"
    <3>1. e.list = L /\ K = "active"
      BY <1>3, <2>3, <2>7
    <3>2. L = "start"
      <4>. SUFFICES ASSUME L # "start" PROVE FALSE
        OBVIOUS
      <4>1. QueueAt(sched_list, 0, K) = <<>>
        BY <2>7, <3>1
      <4>. QED  BY <4>1
    <3>3. e.id < f.id
      BY <1>1, <1>2, <2>1, <2>3, <2>7, <3>1, <3>2 DEF Queued, Moved
    <3>. QED  BY <1>3, <2>4, <3>3
  <2>. QED  BY <2>5, <2>6, <2>7
<1>5. ASSUME NEW f \in Pending("active"), e.list = "active", f.pushed
      PROVE  e.pushed /\ f.id <= e.id
  <2>1. PICK i \in 1..Len(QueueAt(sched_list, 0, "active")) :
          f = QueueAt(sched_list, 0, "active")[i]
    BY <1>5, PendingPlaced
  <2>2. L = "active"
    BY <1>3, <1>5
  <2>3. f.id \in Nat
    BY <1>1, <2>1, QueueItems
  <2>4. CASE i = 1
    BY <1>2, <1>3, <1>5, <2>1, <2>2, <2>4
  <2>5. CASE i # 1
    <3>1. 1 < i
      BY <1>1, <2>5, QueueItems
    <3>2. e.pushed /\ f.id < e.id
      BY <1>1, <1>2, <1>5, <2>1, <2>2, <3>1 DEF Queued, PushedFirst
    <3>. QED  BY <1>3, <2>3, <3>2
  <2>. QED  BY <2>4, <2>5
<1>. QED  BY <1>4, <1>5

\* The event that gets control in a step, if one does, is next of its kind.
KeepsOrder ==
    \A e \in {current'} \ {current, NoEvent} : pc # "compile" =>
         /\ ~e.pushed => \A f \in Pending(e.list) : ~f.pushed => f.id >= e.id
         /\ \A f \in Pending("active") : e.list = "active" /\ f.pushed =>
               e.pushed /\ f.id <= e.id

\* Only the steps that take an event out of a list that has its turn give an
\* event control, and they take its head.
LEMMA StepKeepsOrder == TypeInv /\ OrderInv /\ [Next]_vars => KeepsOrder
<1>. SUFFICES ASSUME TypeInv, OrderInv, [Next]_vars PROVE KeepsOrder
  OBVIOUS
<1>1. ASSUME current' \in {current, NoEvent} \/ pc = "compile"
      PROVE  KeepsOrder
  BY <1>1 DEF KeepsOrder
<1>2. ASSUME NEW L \in Lists,
             QueueAt(sched_list, 0, L) # <<>>,
             current' = Head(QueueAt(sched_list, 0, L)),
             L \notin {"active", "start"} => QueueAt(sched_list, 0, "active") = <<>>,
             L = "active" => QueueAt(sched_list, 0, "start") = <<>>
      PROVE  KeepsOrder
  BY <1>2, RunsInOrder DEF KeepsOrder
<1>3. /\ "start" \in Lists /\ "active" \in Lists /\ "rosync" \in Lists
      /\ {"nbassign", "rwsync"} \subseteq Lists \ {"active", "start"}
      /\ Steps(sched_list)
  BY DEF Lists, TypeInv, Shape
<1>4. /\ pc \in {"start", "queues", "rosync"} => 0 \in TimesOf(sched_list)
      /\ AtQueues => 0 \in TimesOf(sched_list) /\ pc \in {"queues", "top"}
  BY <1>3, CurrentIsZero DEF TypeInv, CurrentHeld, AtQueues, Ctim
<1>5. ASSUME NEW L \in Lists, 0 \in TimesOf(sched_list), Ctim[L] # <<>>, Run(L)
      PROVE  /\ QueueAt(sched_list, 0, L) # <<>>
             /\ current' = Head(QueueAt(sched_list, 0, L))
  <2>1. /\ sched_list' = [sched_list EXCEPT ![1][L] = Tail(@)]
        /\ current' = Head(Ctim[L])
    BY <1>5 DEF Run
  <2>2. QueueAt(sched_list, 0, L) = Ctim[L]
    BY <1>5, <2>1, RunFacts
  <2>. QED  BY <1>5, <2>1, <2>2
<1>6. CASE Environment
  BY <1>1, <1>6 DEF Environment, Schedule, SchedulePushed, ScheduleInit,
                    schedule_finish, schedule_stop
<1>7. CASE Return
  BY <1>1, <1>7 DEF Return
<1>8. CASE RunInitEvent
  BY <1>1, <1>8 DEF RunInitEvent
<1>9. CASE StartOfSim \/ EnterLoop \/ LoopEnds \/ stop_handler \/ Resume
  BY <1>1, <1>9 DEF StartOfSim, EnterLoop, LoopEnds, stop_handler, Resume
<1>10. CASE FinishBeforeAdvance \/ AdvanceTime \/ StartOver
  BY <1>1, <1>10 DEF FinishBeforeAdvance, AdvanceTime, StartOver
<1>11. CASE EnterRosync \/ DeleteThread \/ DeleteStep
  BY <1>1, <1>11 DEF EnterRosync, DeleteThread, DeleteStep
<1>12. CASE RunStart
  <2>1. Ctim["start"] # <<>> /\ Run("start") /\ 0 \in TimesOf(sched_list)
    BY <1>4, <1>12 DEF RunStart
  <2>. QED  BY <1>2, <1>3, <1>5, <2>1
<1>13. CASE RunActive
  <2>1. /\ Ctim["active"] # <<>> /\ Run("active") /\ 0 \in TimesOf(sched_list)
        /\ pc \in {"queues", "top"}
    BY <1>4, <1>13 DEF RunActive
  <2>2. QueueAt(sched_list, 0, "start") = <<>>
    BY <2>1 DEF OrderInv, StartsDone
  <2>. QED  BY <1>2, <1>3, <1>5, <2>1, <2>2
<1>14. CASE AdvanceQueue
  <2>1. 0 \in TimesOf(sched_list)
    BY <1>4, <1>14 DEF AdvanceQueue
  <2>2. PICK L \in {"nbassign", "rwsync"} :
          /\ QueueAt(sched_list, 0, L) # <<>>
          /\ QueueAt(sched_list, 0, "active") = <<>>
          /\ current' = Head(QueueAt(sched_list, 0, L))
    BY <1>14, <2>1, AdvanceFacts
  <2>. QED  BY <1>2, <1>3, <2>2
<1>15. CASE RunReadOnly
  <2>1. /\ Ctim["rosync"] # <<>> /\ Run("rosync") /\ 0 \in TimesOf(sched_list)
        /\ pc = "rosync"
    BY <1>4, <1>15 DEF RunReadOnly
  <2>2. QueueAt(sched_list, 0, "active") = <<>>
    BY <2>1 DEF OrderInv, WritersDone
  <2>. QED  BY <1>2, <1>3, <1>5, <2>1, <2>2
<1>16. CASE UNCHANGED vars
  BY <1>1, <1>16 DEF vars
<1>. QED
  BY <1>6, <1>7, <1>8, <1>9, <1>10, <1>11, <1>12, <1>13, <1>14, <1>15, <1>16
  DEF Next, Loop, Ended

\* Events asked for the same list and time get control in the order they were
\* scheduled, except the pushed ones, the last of which is first: no event is
\* overtaken when a list is promoted, when time advances or when a later start
\* event is linked into the active list.
THEOREM EventsInOrder == Spec => OrderKept
<1>1. Init => TypeInv /\ OrderInv
  BY TypeInvInit, OrderInvInit
<1>2. TypeInv /\ OrderInv /\ [Next]_vars => TypeInv' /\ OrderInv'
  BY TypeInvStep, OrderInvStep
<1>3. TypeInv /\ OrderInv /\ [Next]_vars => [KeepsOrder]_vars
  BY StepKeepsOrder
<1>. QED  BY <1>1, <1>2, <1>3, PTL DEF Spec, OrderKept, KeepsOrder

\* Linking a start event in does not go through a null pointer as long as no
\* two are asked for one time.
THEOREM NeverCrashes == ASSUME MaxStarts <= 1 PROVE Spec => []NotCrashed
<1>1. Init => TypeInv /\ OrderInv
  BY TypeInvInit, OrderInvInit
<1>2. TypeInv /\ OrderInv /\ [Next]_vars => TypeInv' /\ OrderInv'
  BY TypeInvStep, OrderInvStep
<1>3. OrderInv => NotCrashed
  BY DEF OrderInv, NoCrash
<1>. QED  BY <1>1, <1>2, <1>3, PTL DEF Spec


-----------------------------------------------------------------------------
(* The event queue that the steps implement.                               *)

\* The events in a queue, and an event as the event queue knows it.
Held(l, d, L) == Range(QueueAt(l, d, L))

Tag(e, t, L) == [id |-> e.id, due |-> t, region |-> L]

\* What waits is what is in a queue.
LEMMA WaitingHeld ==
    ASSUME NEW l, Steps(l), NEW now \in Nat, NEW x
    PROVE  x \in Waiting(l, now) <=>
             \E d \in Nat, L \in Lists : \E e \in Held(l, d, L) : x = Tag(e, now + d, L)
<1>1. /\ DOMAIN l = 1..Len(l) /\ Len(l) \in Nat /\ l \in Seq(StepRec)
      /\ Delayed(l)
  BY StepsDelayed DEF Steps
<1>2. ASSUME NEW k \in 1..Len(l), NEW L \in Lists
      PROVE  /\ DelaySums(l)[k] \in Nat
             /\ QueueAt(l, DelaySums(l)[k], L) = l[k][L]
  <2>1. DelaySums(l)[k] \in Nat
    BY <1>1, SumsStep
  <2>2. QueueAt(l, DelaySums(l)[k], L) = l[k][L]
    BY QueueAtStep
  <2>. QED  BY <2>1, <2>2
<1>. DEFINE Of(h, M) == {[id |-> f.id, due |-> now + DelaySums(l)[h], region |-> M] :
                           f \in Range(l[h][M])}
<1>3. Waiting(l, now) = UNION {Of(h, M) : h \in DOMAIN l, M \in Lists}
  BY DEF Waiting
<1>4. ASSUME NEW k \in 1..Len(l), NEW L \in Lists
      PROVE  x \in Of(k, L) <=>
               \E e \in Held(l, DelaySums(l)[k], L) : x = Tag(e, now + DelaySums(l)[k], L)
  BY <1>2 DEF Held, Tag
<1>. HIDE DEF Of
<1>5. ASSUME x \in Waiting(l, now)
      PROVE  \E d \in Nat, L \in Lists : \E e \in Held(l, d, L) : x = Tag(e, now + d, L)
  <2>1. PICK k \in 1..Len(l), L \in Lists : x \in Of(k, L)
    BY <1>1, <1>3, <1>5
  <2>. QED  BY <1>2, <1>4, <2>1
<1>6. ASSUME NEW d \in Nat, NEW L \in Lists, NEW e \in Held(l, d, L),
             x = Tag(e, now + d, L)
      PROVE  x \in Waiting(l, now)
  <2>1. d \in TimesOf(l)
    <3>. SUFFICES ASSUME d \notin TimesOf(l) PROVE FALSE
      OBVIOUS
    <3>1. QueueAt(l, d, L) = <<>>
      BY QueueAtType
    <3>. QED  BY <3>1 DEF Held, Range
  <2>2. PICK k \in 1..Len(l) : DelaySums(l)[k] = d /\ QueueAt(l, d, L) = l[k][L]
    BY <2>1, QueueAtType
  <2>3. x \in Of(k, L)
    BY <1>4, <1>6, <2>2
  <2>. QED  BY <1>1, <1>3, <2>3
<1>. QED  BY <1>5, <1>6

\* An event is held once.
LEMMA OneHolder ==
    ASSUME NEW l, Steps(l), Distinct(l), NEW c \in Nat, NEW d \in Nat,
           NEW K \in Lists, NEW L \in Lists,
           NEW e \in Held(l, c, K), NEW f \in Held(l, d, L), e.id = f.id
    PROVE  c = d /\ K = L /\ e = f
<1>1. /\ DOMAIN QueueAt(l, c, K) = 1..Len(QueueAt(l, c, K))
      /\ DOMAIN QueueAt(l, d, L) = 1..Len(QueueAt(l, d, L))
  BY QueueAtType
<1>2. PICK i \in 1..Len(QueueAt(l, c, K)) : e = QueueAt(l, c, K)[i]
  BY <1>1 DEF Held, Range
<1>3. PICK j \in 1..Len(QueueAt(l, d, L)) : f = QueueAt(l, d, L)[j]
  BY <1>1 DEF Held, Range
<1>4. QueueAt(l, c, K)[i].id = QueueAt(l, d, L)[j].id
  BY <1>2, <1>3
<1>5. c = d /\ K = L /\ i = j
  BY <1>4, DistinctCells
<1>. QED  BY <1>2, <1>3, <1>5

\* What is held has its type, and was made.
LEMMA HeldItems ==
    ASSUME NEW l, Steps(l), NEW now \in Nat, NEW made \in Nat,
           Placed(l, now, made), NEW d \in Nat, NEW L \in Lists, NEW e \in Held(l, d, L)
    PROVE  e \in Event /\ e.id \in Nat /\ e.id <= made
<1>1. QueueAt(l, d, L) \in Seq(Event)
  BY QueueAtType
<1>2. PICK i \in 1..Len(QueueAt(l, d, L)) : e = QueueAt(l, d, L)[i]
  BY <1>1 DEF Held, Range
<1>3. e \in Event
  BY <1>1, <1>2
<1>. QED  BY <1>2, <1>3 DEF Placed, Belongs, Event, Ids

\* A cell linked in at the end adds one element.
LEMMA RangeAppend ==
    ASSUME NEW S, NEW q \in Seq(S), NEW e \in S
    PROVE  Range(Append(q, e)) = Range(q) \cup {e}
<1>. DEFINE p == Append(q, e)
<1>1. DOMAIN p = 1..(Len(q) + 1) /\ DOMAIN q = 1..Len(q) /\ Len(q) \in Nat
  OBVIOUS
<1>2. p[Len(q) + 1] = e /\ \A i \in 1..Len(q) : p[i] = q[i]
  OBVIOUS
<1>. HIDE DEF p
<1>3. Range(p) = Range(q) \cup {e}
  BY <1>1, <1>2 DEF Range
<1>. QED  BY <1>3 DEF p

\* A cell linked in at the head adds one element.
LEMMA RangePush ==
    ASSUME NEW S, NEW q \in Seq(S), NEW e \in S
    PROVE  Range(<<e>> \o q) = Range(q) \cup {e}
<1>. DEFINE p == <<e>> \o q
<1>1. DOMAIN p = 1..(Len(q) + 1) /\ DOMAIN q = 1..Len(q) /\ Len(q) \in Nat
  OBVIOUS
<1>2. p[1] = e /\ \A i \in 1..Len(q) : p[i + 1] = q[i]
  OBVIOUS
<1>. HIDE DEF p
<1>3. Range(p) = Range(q) \cup {e}
  <2>1. \A i \in DOMAIN p : i = 1 \/ i - 1 \in 1..Len(q)
    BY <1>1
  <2>2. \A i \in 1..Len(q) : i + 1 \in DOMAIN p
    BY <1>1
  <2>3. 1 \in DOMAIN p
    BY <1>1
  <2>4. ASSUME NEW x \in Range(p) PROVE x \in Range(q) \cup {e}
    <3>1. PICK i \in DOMAIN p : x = p[i]
      BY DEF Range
    <3>2. CASE i = 1
      BY <1>2, <3>1, <3>2
    <3>3. CASE i # 1
      <4>1. i - 1 \in 1..Len(q) /\ (i - 1) + 1 = i
        BY <1>1, <2>1, <3>3
      <4>2. x = q[i - 1]
        BY <1>2, <3>1, <4>1
      <4>. QED  BY <1>1, <4>1, <4>2 DEF Range
    <3>. QED  BY <3>2, <3>3
  <2>5. ASSUME NEW x \in Range(q) PROVE x \in Range(p)
    <3>1. PICK i \in 1..Len(q) : x = q[i]
      BY <1>1 DEF Range
    <3>. QED  BY <1>2, <2>2, <3>1 DEF Range
  <2>6. e \in Range(p)
    BY <1>2, <2>3 DEF Range
  <2>. QED  BY <2>4, <2>5, <2>6
<1>. QED  BY <1>3 DEF p

\* Unlinking the head of a list without a double takes one element.
LEMMA RangeTail ==
    ASSUME NEW S, NEW q \in Seq(S), q # <<>>
    PROVE  /\ Range(q) = Range(Tail(q)) \cup {Head(q)}
           /\ (\A i, j \in 1..Len(q) : q[i] = q[j] => i = j)
                => Head(q) \notin Range(Tail(q))
<1>3. Range(q) = Range(Tail(q)) \cup {Head(q)}
  <2>. DEFINE p == Tail(q)
  <2>1. /\ DOMAIN q = 1..Len(q) /\ DOMAIN p = 1..Len(p) /\ Len(q) \in Nat
        /\ Len(p) \in Nat /\ Len(q) = Len(p) + 1
        /\ \A i \in 1..Len(p) : p[i] = q[i + 1]
        /\ Head(q) = q[1]
    OBVIOUS
  <2>. HIDE DEF p
  <2>2. ASSUME NEW x \in Range(q) PROVE x \in Range(p) \cup {Head(q)}
    <3>1. PICK i \in 1..Len(q) : x = q[i]
      BY <2>1 DEF Range
    <3>2. CASE i = 1
      BY <2>1, <3>1, <3>2
    <3>3. CASE i # 1
      <4>1. i - 1 \in 1..Len(p) /\ (i - 1) + 1 = i
        BY <2>1, <3>3
      <4>2. x = p[i - 1]
        BY <2>1, <3>1, <4>1
      <4>. QED  BY <2>1, <4>1, <4>2 DEF Range
    <3>. QED  BY <3>2, <3>3
  <2>3. ASSUME NEW x \in Range(p) PROVE x \in Range(q)
    <3>1. PICK i \in 1..Len(p) : x = p[i]
      BY <2>1 DEF Range
    <3>2. i + 1 \in 1..Len(q) /\ x = q[i + 1]
      BY <2>1, <3>1
    <3>. QED  BY <2>1, <3>2 DEF Range
  <2>4. Head(q) \in Range(q)
    <3>1. 1 \in DOMAIN q
      BY <2>1
    <3>. QED  BY <2>1, <3>1 DEF Range
  <2>5. Range(q) = Range(p) \cup {Head(q)}
    BY <2>2, <2>3, <2>4
  <2>. QED  BY <2>5 DEF p
<1>4. ASSUME \A i, j \in 1..Len(q) : q[i] = q[j] => i = j
      PROVE  Head(q) \notin Range(Tail(q))
  <2>. DEFINE p == Tail(q)
  <2>1. /\ DOMAIN p = 1..Len(p) /\ Len(q) \in Nat /\ Len(p) \in Nat
        /\ Len(q) = Len(p) + 1
        /\ \A i \in 1..Len(p) : p[i] = q[i + 1]
        /\ Head(q) = q[1]
    OBVIOUS
  <2>. HIDE DEF p
  <2>2. ASSUME Head(q) \in Range(p) PROVE FALSE
    <3>1. PICK i \in 1..Len(p) : Head(q) = p[i]
      BY <2>1, <2>2 DEF Range
    <3>2. /\ i + 1 \in 1..Len(q) /\ 1 \in 1..Len(q) /\ q[1] = q[i + 1] /\ i + 1 # 1
      BY <2>1, <3>1
    <3>. QED  BY <1>4, <3>2
  <2>. QED  BY <2>2 DEF p
<1>. QED  BY <1>3, <1>4

\* An event that enters a queue waits.
LEMMA PostedWaits ==
    ASSUME NEW l, NEW m, Steps(l), NEW now \in Nat, NEW d \in Nat, NEW Q \in Lists,
           NEW q, NEW e, Posted(l, m, d, Q, q),
           Range(q) = Held(l, d, Q) \cup {e}
    PROVE  Waiting(m, now) = Waiting(l, now) \cup {Tag(e, now + d, Q)}
<1>1. Steps(m)
  BY DEF Posted
<1>2. ASSUME NEW t \in Nat, NEW L \in Lists
      PROVE  Held(m, t, L) = IF t = d /\ L = Q THEN Held(l, d, Q) \cup {e}
                             ELSE Held(l, t, L)
  BY DEF Posted, Held
<1>3. ASSUME NEW x
      PROVE  x \in Waiting(m, now) <=> x \in Waiting(l, now) \/ x = Tag(e, now + d, Q)
  <2>1. /\ x \in Waiting(m, now) <=>
             \E t \in Nat, L \in Lists : \E f \in Held(m, t, L) : x = Tag(f, now + t, L)
        /\ x \in Waiting(l, now) <=>
             \E t \in Nat, L \in Lists : \E f \in Held(l, t, L) : x = Tag(f, now + t, L)
    BY <1>1, WaitingHeld
  <2>. HIDE DEF Waiting
  <2>2. ASSUME x \in Waiting(m, now)
        PROVE  x \in Waiting(l, now) \/ x = Tag(e, now + d, Q)
    <3>0. PICK t \in Nat, L \in Lists : \E f \in Held(m, t, L) : x = Tag(f, now + t, L)
      BY <2>1, <2>2
    <3>1. PICK f \in Held(m, t, L) : x = Tag(f, now + t, L)
      BY <3>0
    <3>2. f \in Held(l, t, L) \/ (t = d /\ L = Q /\ f = e)
      BY <1>2
    <3>. QED  BY <2>1, <3>1, <3>2
  <2>3. ASSUME x \in Waiting(l, now) PROVE x \in Waiting(m, now)
    <3>0. PICK t \in Nat, L \in Lists : \E f \in Held(l, t, L) : x = Tag(f, now + t, L)
      BY <2>1, <2>3
    <3>1. PICK f \in Held(l, t, L) : x = Tag(f, now + t, L)
      BY <3>0
    <3>2. f \in Held(m, t, L)
      BY <1>2
    <3>. QED  BY <2>1, <3>1, <3>2
  <2>4. ASSUME x = Tag(e, now + d, Q) PROVE x \in Waiting(m, now)
    <3>1. e \in Held(m, d, Q)
      BY <1>2
    <3>. QED  BY <2>1, <2>4, <3>1
  <2>. QED  BY <2>2, <2>3, <2>4
<1>. QED  BY <1>3

\* An event that leaves the head of a queue waits no more.
LEMMA TakenWaits ==
    ASSUME NEW l, NEW m, Steps(l), NEW now \in Nat, Distinct(l), NEW Q \in Lists,
           QueueAt(l, 0, Q) # <<>>, Posted(l, m, 0, Q, Tail(QueueAt(l, 0, Q)))
    PROVE  \E h \in Held(l, 0, Q) : Waiting(m, now) = Waiting(l, now) \ {Tag(h, now, Q)}
<1>6. PICK h : h = Head(QueueAt(l, 0, Q))
  OBVIOUS
<1>0. now + 0 = now /\ 0 \in Nat
  OBVIOUS
<1>1. Steps(m)
  BY DEF Posted
<1>2. h \in Held(l, 0, Q) /\ Range(Tail(QueueAt(l, 0, Q))) = Held(l, 0, Q) \ {h}
  <2>. DEFINE q == QueueAt(l, 0, Q)
  <2>1. q \in Seq(Event) /\ q # <<>>
    BY QueueAtType
  <2>2. \A i, j \in 1..Len(q) : q[i] = q[j] => i = j
    BY <1>0 DEF Distinct
  <2>. HIDE DEF q
  <2>4. Range(q) = Range(Tail(q)) \cup {Head(q)} /\ Head(q) \notin Range(Tail(q))
    BY <2>1, <2>2, RangeTail
  <2>5. Head(q) \in Range(q) /\ Range(Tail(q)) = Range(q) \ {Head(q)}
    BY <2>4
  <2>. QED  BY <1>6, <2>5 DEF q, Held
<1>3. ASSUME NEW t \in Nat, NEW L \in Lists
      PROVE  Held(m, t, L) = IF t = 0 /\ L = Q THEN Held(l, 0, Q) \ {h}
                             ELSE Held(l, t, L)
  BY <1>2 DEF Posted, Held
<1>4. ASSUME NEW t \in Nat, NEW L \in Lists, NEW f \in Held(l, t, L),
             Tag(f, now + t, L) = Tag(h, now, Q)
      PROVE  t = 0 /\ L = Q /\ f = h
  <2>1. f.id = h.id
    BY <1>4 DEF Tag
  <2>. QED  BY <1>0, <1>2, <2>1, OneHolder
<1>5. ASSUME NEW x
      PROVE  x \in Waiting(m, now) <=> x \in Waiting(l, now) /\ x # Tag(h, now, Q)
  <2>1. /\ x \in Waiting(m, now) <=>
             \E t \in Nat, L \in Lists : \E f \in Held(m, t, L) : x = Tag(f, now + t, L)
        /\ x \in Waiting(l, now) <=>
             \E t \in Nat, L \in Lists : \E f \in Held(l, t, L) : x = Tag(f, now + t, L)
    BY <1>1, WaitingHeld
  <2>2. ASSUME x \in Waiting(m, now)
        PROVE  x \in Waiting(l, now) /\ x # Tag(h, now, Q)
    <3>0. PICK t \in Nat, L \in Lists : \E f \in Held(m, t, L) : x = Tag(f, now + t, L)
      BY <2>1, <2>2
    <3>1. PICK f \in Held(m, t, L) : x = Tag(f, now + t, L)
      BY <3>0
    <3>2. f \in Held(l, t, L) /\ ~(t = 0 /\ L = Q /\ f = h)
      BY <1>3
    <3>3. x # Tag(h, now, Q)
      BY <1>4, <3>1, <3>2
    <3>. QED  BY <2>1, <3>1, <3>2, <3>3
  <2>3. ASSUME x \in Waiting(l, now), x # Tag(h, now, Q) PROVE x \in Waiting(m, now)
    <3>0. PICK t \in Nat, L \in Lists : \E f \in Held(l, t, L) : x = Tag(f, now + t, L)
      BY <2>1, <2>3
    <3>1. PICK f \in Held(l, t, L) : x = Tag(f, now + t, L)
      BY <3>0
    <3>2. ~(t = 0 /\ L = Q /\ f = h)
      BY <1>0, <2>3, <3>1
    <3>3. f \in Held(m, t, L)
      BY <1>3, <3>2
    <3>. QED  BY <2>1, <3>1, <3>3
  <2>. QED  BY <2>2, <2>3
<1>. QED  BY <1>2, <1>5

\* A region of now, and what is left of it among the active events.
Region(l, now, L) == {x \in Waiting(l, now) : x.due = now /\ x.region = L}

MadeActive(D, x) == {[f EXCEPT !.region = "active"] : f \in D \ {x}}

\* Q becomes the active list, without its head.
Promoted(l, m, Q) ==
    \A t \in Nat, L \in Lists :
       QueueAt(m, t, L) = IF t = 0 /\ L = "active" THEN Tail(QueueAt(l, 0, Q))
                          ELSE IF t = 0 /\ L = Q THEN <<>>
                          ELSE QueueAt(l, t, L)

\* A list becomes the active one, except for its head.
LEMMA PromotedWaits ==
    ASSUME NEW l, NEW m, Steps(l), Steps(m), NEW now \in Nat, Distinct(l),
           NEW Q \in Lists \ {"active"},
           QueueAt(l, 0, Q) # <<>>, QueueAt(l, 0, "active") = <<>>,
           Promoted(l, m, Q)
    PROVE  \E x \in Region(l, now, Q) :
              Waiting(m, now) = (Waiting(l, now) \ Region(l, now, Q)) \cup
                                   MadeActive(Region(l, now, Q), x)
<1>. DEFINE D == Region(l, now, Q)
<1>13. PICK h : h = Head(QueueAt(l, 0, Q))
  OBVIOUS
<1>0. now + 0 = now /\ 0 \in Nat /\ "active" \in Lists
  BY DEF Lists
<1>2. h \in Held(l, 0, Q) /\ Range(Tail(QueueAt(l, 0, Q))) = Held(l, 0, Q) \ {h}
  <2>. DEFINE q == QueueAt(l, 0, Q)
  <2>1. q \in Seq(Event) /\ q # <<>>
    BY QueueAtType
  <2>2. \A i, j \in 1..Len(q) : q[i] = q[j] => i = j
    BY <1>0 DEF Distinct
  <2>. HIDE DEF q
  <2>4. Range(q) = Range(Tail(q)) \cup {Head(q)} /\ Head(q) \notin Range(Tail(q))
    BY <2>1, <2>2, RangeTail
  <2>5. Head(q) \in Range(q) /\ Range(Tail(q)) = Range(q) \ {Head(q)}
    BY <2>4
  <2>. QED  BY <1>13, <2>5 DEF q, Held
<1>3. ASSUME NEW t \in Nat, NEW L \in Lists
      PROVE  Held(m, t, L) = IF t = 0 /\ L = "active" THEN Held(l, 0, Q) \ {h}
                             ELSE IF t = 0 /\ L = Q THEN {}
                             ELSE Held(l, t, L)
  <2>1. Range(<<>>) = {}
    BY DEF Range
  <2>. QED  BY <1>2, <2>1 DEF Held, Promoted
<1>4. Held(l, 0, "active") = {}
  BY DEF Held, Range
<1>5. \A x : /\ x \in Waiting(m, now) <=>
                  \E t \in Nat, L \in Lists : \E f \in Held(m, t, L) : x = Tag(f, now + t, L)
             /\ x \in Waiting(l, now) <=>
                  \E t \in Nat, L \in Lists : \E f \in Held(l, t, L) : x = Tag(f, now + t, L)
  BY WaitingHeld
<1>6. \A x : x \in D <=> \E f \in Held(l, 0, Q) : x = Tag(f, now, Q)
  <2>1. ASSUME NEW x \in D PROVE \E f \in Held(l, 0, Q) : x = Tag(f, now, Q)
    <3>1. x \in Waiting(l, now) /\ x.due = now /\ x.region = Q
      BY DEF Region
    <3>0. PICK t \in Nat, L \in Lists : \E f \in Held(l, t, L) : x = Tag(f, now + t, L)
      BY <1>5, <3>1
    <3>2. PICK f \in Held(l, t, L) : x = Tag(f, now + t, L)
      BY <3>0
    <3>3. now + t = now /\ L = Q
      BY <3>1, <3>2 DEF Tag
    <3>. QED  BY <1>0, <3>2, <3>3
  <2>2. ASSUME NEW f \in Held(l, 0, Q) PROVE Tag(f, now, Q) \in D
    <3>1. Tag(f, now, Q) \in Waiting(l, now)
      BY <1>0, <1>5
    <3>. QED  BY <3>1 DEF Tag, Region
  <2>. QED  BY <2>1, <2>2
<1>. HIDE DEF Tag, D
<1>7. \A f : [Tag(f, now, Q) EXCEPT !.region = "active"] = Tag(f, now, "active")
  BY DEF Tag
<1>8. ASSUME NEW f \in Held(l, 0, Q), Tag(f, now, Q) = Tag(h, now, Q) PROVE f = h
  <2>1. f.id = h.id
    BY <1>8 DEF Tag
  <2>. QED  BY <1>0, <1>2, <2>1, OneHolder
<1>. DEFINE R == {[f EXCEPT !.region = "active"] : f \in D \ {Tag(h, now, Q)}}
<1>9. \A x : x \in R <=> \E f \in Held(l, 0, Q) \ {h} : x = Tag(f, now, "active")
  <2>1. ASSUME NEW x \in R PROVE \E f \in Held(l, 0, Q) \ {h} : x = Tag(f, now, "active")
    <3>1. PICK y \in D \ {Tag(h, now, Q)} : x = [y EXCEPT !.region = "active"]
      OBVIOUS
    <3>2. PICK f \in Held(l, 0, Q) : y = Tag(f, now, Q)
      BY <1>6
    <3>3. f # h
      BY <3>1, <3>2
    <3>. QED  BY <1>7, <3>1, <3>2, <3>3
  <2>2. ASSUME NEW f \in Held(l, 0, Q) \ {h} PROVE Tag(f, now, "active") \in R
    <3>1. Tag(f, now, Q) \in D \ {Tag(h, now, Q)}
      BY <1>6, <1>8
    <3>. QED  BY <1>7, <3>1
  <2>. QED  BY <2>1, <2>2
<1>. HIDE DEF R
<1>10. ASSUME NEW t \in Nat, NEW L \in Lists, NEW f \in Held(l, t, L),
              Tag(f, now + t, L) \in D
       PROVE  t = 0 /\ L = Q
  <2>1. Tag(f, now + t, L).due = now /\ Tag(f, now + t, L).region = Q
    BY <1>10 DEF D, Region
  <2>2. now + t = now /\ L = Q
    BY <2>1 DEF Tag
  <2>. QED  BY <2>2
<1>11. ASSUME NEW x
       PROVE  x \in Waiting(m, now) <=> (x \in Waiting(l, now) /\ x \notin D) \/ x \in R
  <2>1. ASSUME x \in Waiting(m, now)
        PROVE  (x \in Waiting(l, now) /\ x \notin D) \/ x \in R
    <3>0. PICK t \in Nat, L \in Lists : \E f \in Held(m, t, L) : x = Tag(f, now + t, L)
      BY <1>5, <2>1
    <3>1. PICK f \in Held(m, t, L) : x = Tag(f, now + t, L)
      BY <3>0
    <3>2. CASE t = 0 /\ L = "active"
      <4>1. f \in Held(l, 0, Q) \ {h} /\ x = Tag(f, now, "active")
        BY <1>0, <1>3, <3>1, <3>2
      <4>. QED  BY <1>9, <4>1
    <3>3. CASE ~(t = 0 /\ L = "active")
      <4>1. f \in Held(l, t, L) /\ ~(t = 0 /\ L = Q)
        BY <1>3, <3>3
      <4>2. x \notin D
        BY <1>10, <3>1, <4>1
      <4>. QED  BY <1>5, <3>1, <4>1, <4>2
    <3>. QED  BY <3>2, <3>3
  <2>2. ASSUME x \in Waiting(l, now), x \notin D PROVE x \in Waiting(m, now)
    <3>0. PICK t \in Nat, L \in Lists : \E f \in Held(l, t, L) : x = Tag(f, now + t, L)
      BY <1>5, <2>2
    <3>1. PICK f \in Held(l, t, L) : x = Tag(f, now + t, L)
      BY <3>0
    <3>2. ~(t = 0 /\ L = Q)
      BY <1>0, <1>6, <2>2, <3>1
    <3>3. ~(t = 0 /\ L = "active")
      BY <1>4
    <3>4. f \in Held(m, t, L)
      BY <1>3, <3>2, <3>3
    <3>. QED  BY <1>5, <3>1, <3>4
  <2>3. ASSUME x \in R PROVE x \in Waiting(m, now)
    <3>1. PICK f \in Held(l, 0, Q) \ {h} : x = Tag(f, now, "active")
      BY <1>9, <2>3
    <3>2. f \in Held(m, 0, "active")
      BY <1>0, <1>3
    <3>. QED  BY <1>0, <1>5, <3>1, <3>2
  <2>. QED  BY <2>1, <2>2, <2>3
<1>12. Waiting(m, now) = (Waiting(l, now) \ D) \cup R
  BY <1>11
<1>14. R = MadeActive(D, Tag(h, now, Q)) /\ Tag(h, now, Q) \in D
  BY <1>2, <1>6 DEF R, MadeActive
<1>. QED  BY <1>12, <1>14 DEF D

\* When time advances to the first step, what waits stays what it was.
LEMMA AdvancedWaits ==
    ASSUME NEW l, NEW m, Steps(l), Steps(m), NEW now \in Nat, NEW D \in Nat,
           \A t \in Nat, L \in Lists : QueueAt(m, t, L) = QueueAt(l, t + D, L),
           \A t \in TimesOf(l) : t >= D
    PROVE  Waiting(m, now + D) = Waiting(l, now)
<1>0. now + D \in Nat
  OBVIOUS
<1>1. \A x : /\ x \in Waiting(m, now + D) <=>
                  \E t \in Nat, L \in Lists :
                     \E f \in Held(m, t, L) : x = Tag(f, (now + D) + t, L)
             /\ x \in Waiting(l, now) <=>
                  \E t \in Nat, L \in Lists :
                     \E f \in Held(l, t, L) : x = Tag(f, now + t, L)
  BY <1>0, WaitingHeld
<1>2. \A t \in Nat, L \in Lists : Held(m, t, L) = Held(l, t + D, L)
  BY DEF Held
<1>3. ASSUME NEW x \in Waiting(m, now + D) PROVE x \in Waiting(l, now)
  <2>1. PICK t \in Nat, L \in Lists :
          \E f \in Held(m, t, L) : x = Tag(f, (now + D) + t, L)
    BY <1>1
  <2>2. t + D \in Nat /\ (now + D) + t = now + (t + D)
    OBVIOUS
  <2>3. \E f \in Held(l, t + D, L) : x = Tag(f, now + (t + D), L)
    BY <1>2, <2>1, <2>2
  <2>. QED  BY <1>1, <2>2, <2>3
<1>4. ASSUME NEW x \in Waiting(l, now) PROVE x \in Waiting(m, now + D)
  <2>1. PICK t \in Nat, L \in Lists : \E f \in Held(l, t, L) : x = Tag(f, now + t, L)
    BY <1>1
  <2>2. t \in TimesOf(l)
    <3>. SUFFICES ASSUME t \notin TimesOf(l) PROVE FALSE
      OBVIOUS
    <3>1. QueueAt(l, t, L) = <<>>
      BY QueueAtType
    <3>. QED  BY <2>1, <3>1 DEF Held, Range
  <2>. DEFINE u == t - D
  <2>3. u \in Nat /\ u + D = t /\ (now + D) + u = now + t
    BY <2>2
  <2>. HIDE DEF u
  <2>4. \E f \in Held(m, u, L) : x = Tag(f, (now + D) + u, L)
    BY <1>2, <2>1, <2>3
  <2>. QED  BY <1>1, <2>3, <2>4
<1>. QED  BY <1>3, <1>4

\* The queues are all that what waits depends on.
LEMMA SameWaits ==
    ASSUME NEW l, NEW m, Steps(l), Steps(m), NEW now \in Nat,
           \A t \in Nat, L \in Lists : QueueAt(m, t, L) = QueueAt(l, t, L)
    PROVE  Waiting(m, now) = Waiting(l, now)
<1>1. \A x : /\ x \in Waiting(m, now) <=>
                  \E t \in Nat, L \in Lists :
                     \E f \in Held(m, t, L) : x = Tag(f, now + t, L)
             /\ x \in Waiting(l, now) <=>
                  \E t \in Nat, L \in Lists :
                     \E f \in Held(l, t, L) : x = Tag(f, now + t, L)
  BY WaitingHeld
<1>2. \A t \in Nat, L \in Lists : Held(m, t, L) = Held(l, t, L)
  BY DEF Held
<1>. QED  BY <1>1, <1>2

\* An empty queue of now is an empty region.
LEMMA NothingDue ==
    ASSUME NEW l, Steps(l), NEW now \in Nat, NEW L \in Lists, QueueAt(l, 0, L) = <<>>
    PROVE  Region(l, now, L) = {}
<1>. SUFFICES ASSUME NEW x \in Waiting(l, now), x.due = now, x.region = L
              PROVE  FALSE
  BY DEF Region
<1>1. PICK t \in Nat, K \in Lists : \E f \in Held(l, t, K) : x = Tag(f, now + t, K)
  BY WaitingHeld
<1>2. PICK f \in Held(l, t, K) : x = Tag(f, now + t, K)
  BY <1>1
<1>3. now + t = now /\ K = L
  BY <1>2 DEF Tag
<1>4. t = 0
  BY <1>3
<1>. QED  BY <1>2, <1>3, <1>4 DEF Held, Range

\* What the event queue holds, in the words of the model.
Pended == Waiting(sched_list, schedule_time)

DueOf(L) == Region(sched_list, schedule_time, L)

\* An event that none has the number of joins those that wait: Post.
LEMMA Posts ==
    ASSUME NEW id \in Ids, NEW due \in schedule_time..MaxTime, NEW L \in Lists,
           L = "start" => due > schedule_time,
           \A x \in Pended : x.id # id,
           Pended' = Pended \cup {[id |-> id, due |-> due, region |-> L]},
           schedule_time' = schedule_time, (pc' = "start") = (pc = "start")
    PROVE  EQ!Post
  BY DEF EQ!Post, EQ!Regions, Lists, Pended

\* The clock moves to the earliest event, with nothing left behind it: Advance.
LEMMA Advances ==
    ASSUME NEW x \in Pended, schedule_time' = x.due, x.due > schedule_time,
           \A y \in Pended : y.due >= x.due, pc' = "start", Pended' = Pended
    PROVE  EQ!Advance
  BY DEF EQ!Advance, Pended

\* An event of the start list of this time runs: RunStart.
LEMMA RunsStart ==
    ASSUME pc = "start", pc' = "start", schedule_time' = schedule_time,
           NEW x \in DueOf("start"), Pended' = Pended \ {x}
    PROVE  EQ!RunStart
  BY DEF EQ!RunStart, EQ!DueNow, DueOf, Region, Pended

\* The start list of this time is empty and the loop goes on: StartOver.
LEMMA StartsOver ==
    ASSUME pc = "start", pc' # "start", schedule_time' = schedule_time,
           DueOf("start") = {}, Pended' = Pended
    PROVE  EQ!StartOver
  BY DEF EQ!StartOver, EQ!DueNow, DueOf, Region, Pended

\* An active event of this time runs, with the start list done: RunActive.
LEMMA RunsActive ==
    ASSUME pc # "start", pc' # "start", schedule_time' = schedule_time,
           NEW x \in DueOf("active"), Pended' = Pended \ {x}
    PROVE  EQ!RunActive
  BY DEF EQ!RunActive, EQ!DueNow, DueOf, Region, Pended

\* A whole list of this time becomes active when the lists before it are
\* empty, and its first event runs at once: Promote.
LEMMA Promotes ==
    ASSUME pc # "start", pc' # "start", schedule_time' = schedule_time,
           NEW L, DueOf("active") = {}, L = "rwsync" => DueOf("nbassign") = {},
           NEW x \in DueOf(L),
           Pended' = (Pended \ DueOf(L)) \cup MadeActive(DueOf(L), x)
    PROVE  EQ!Promote(L)
  BY DEF EQ!Promote, EQ!DueNow, DueOf, Region, MadeActive, Pended

\* An event of the read-only list runs when no writer of this time waits.
LEMMA RunsReadOnly ==
    ASSUME pc # "start", pc' # "start", schedule_time' = schedule_time,
           \A L \in {"active", "nbassign", "rwsync"} : DueOf(L) = {},
           NEW x \in DueOf("rosync"), Pended' = Pended \ {x}
    PROVE  EQ!RunReadOnly
  BY DEF EQ!RunReadOnly, EQ!WritersDone, EQ!DueNow, DueOf, Region, Pended

\* A thread is deleted when no other list of this time holds an event.
LEMMA DeletesThread ==
    ASSUME pc # "start", pc' # "start", schedule_time' = schedule_time,
           \A L \in {"active", "nbassign", "rwsync"} : DueOf(L) = {},
           DueOf("rosync") = {},
           NEW x \in DueOf("del_thr"), Pended' = Pended \ {x}
    PROVE  EQ!DeleteThread
  BY DEF EQ!DeleteThread, EQ!WritersDone, EQ!DueNow, DueOf, Region, Pended

\* Nothing the queue of events tells changed: a stutter.
LEMMA Stutters ==
    ASSUME Pended' = Pended, schedule_time' = schedule_time,
           (pc' = "start") = (pc = "start")
    PROVE  UNCHANGED EQ!eqVars
  BY DEF EQ!eqVars, Pended

\* Scheduling an event posts it, for the region of the list it goes to.
LEMMA ScheduleRefines ==
    ASSUME TypeInv, OrderInv, Schedule, pc' # "crashed"
    PROVE  EQ!Post
<1>1. /\ Steps(sched_list) /\ schedule_time \in Nat /\ created \in Nat
      /\ "active" \in Lists /\ Placed(sched_list, schedule_time, created)
      /\ created \in 0..MaxEvents
  BY DEF TypeInv, Shape, Scalars, Lists, OrderInv, Queued
<1>2. PICK L \in Lists, d \in Nat, e \in Event :
        /\ e = [id |-> created + 1, list |-> L, pushed |-> FALSE,
                due |-> schedule_time + d]
        /\ schedule_time + d <= MaxTime
        /\ Legal(L, schedule_time + d)
        /\ schedule_event_(e, d, L)
  BY ScheduleFacts
<1>3. PICK Q \in Lists :
        /\ Q = IF L = "start" /\ QueueAt(sched_list, d, "start") # <<>>
               THEN "active" ELSE L
        /\ Q = "start" => L = "start"
  BY <1>1
<1>. DEFINE q == Append(QueueAt(sched_list, d, Q), e)
<1>4. schedule_time' = schedule_time /\ created < MaxEvents
  BY DEF Schedule
<1>5. ASSUME NEW x \in Pended PROVE x.id # created + 1
  <2>1. PICK t \in Nat, K \in Lists :
          \E f \in Held(sched_list, t, K) : x = Tag(f, schedule_time + t, K)
    BY <1>1, WaitingHeld DEF Pended
  <2>2. PICK f \in Held(sched_list, t, K) : x = Tag(f, schedule_time + t, K)
    BY <2>1
  <2>3. f.id \in Nat /\ f.id <= created
    BY <1>1, HeldItems
  <2>4. x.id = f.id
    BY <2>2 DEF Tag
  <2>. QED  BY <1>1, <2>3, <2>4
<1>6. pc' = pc /\ Posted(sched_list, sched_list', d, Q, q)
  BY <1>1, <1>2, <1>3, ScheduleEvent
<1>7. Range(q) = Held(sched_list, d, Q) \cup {e}
  <2>. DEFINE o == QueueAt(sched_list, d, Q)
  <2>1. o \in Seq(Event)
    BY <1>1, QueueAtType
  <2>2. q = Append(o, e) /\ Held(sched_list, d, Q) = Range(o)
    BY DEF Held
  <2>. HIDE DEF o, q
  <2>3. Range(Append(o, e)) = Range(o) \cup {e}
    BY <2>1, RangeAppend
  <2>. QED  BY <2>2, <2>3
<1>. HIDE DEF q
<1>8. Waiting(sched_list', schedule_time) =
         Waiting(sched_list, schedule_time) \cup {Tag(e, schedule_time + d, Q)}
  <2>1. /\ Steps(sched_list) /\ schedule_time \in Nat
        /\ Posted(sched_list, sched_list', d, Q, q)
        /\ Range(q) = Held(sched_list, d, Q) \cup {e}
    BY <1>1, <1>6, <1>7
  <2>. QED  BY <2>1, PostedWaits
<1>9. Tag(e, schedule_time + d, Q) =
         [id |-> created + 1, due |-> schedule_time + d, region |-> Q]
  BY <1>2 DEF Tag
<1>10. Pended' = Pended \cup {[id |-> created + 1, due |-> schedule_time + d,
                               region |-> Q]}
  BY <1>4, <1>8, <1>9 DEF Pended
<1>11. Q = "start" => schedule_time + d > schedule_time
  BY <1>2, <1>3 DEF Legal
<1>12. /\ created + 1 \in Ids /\ schedule_time + d \in schedule_time..MaxTime
       /\ (pc' = "start") = (pc = "start")
  BY <1>1, <1>2, <1>4, <1>6, BoundsAssumption DEF Ids
<1>. QED  BY <1>3, <1>4, <1>5, <1>10, <1>11, <1>12, Posts

\* A pushed thread is posted for now.
LEMMA PushRefines ==
    ASSUME TypeInv, OrderInv, SchedulePushed
    PROVE  EQ!Post
<1>1. /\ Steps(sched_list) /\ schedule_time \in Nat /\ created \in Nat
      /\ "active" \in Lists /\ Placed(sched_list, schedule_time, created)
      /\ created \in 0..MaxEvents /\ schedule_time \in 0..MaxTime
      /\ schedule_time + 0 = schedule_time /\ 0 \in Nat
  BY DEF TypeInv, Shape, Scalars, Lists, OrderInv, Queued
<1>2. PICK e \in Event :
        /\ e = [id |-> created + 1, list |-> "active", pushed |-> TRUE,
                due |-> schedule_time]
        /\ schedule_event_push_(e)
  BY PushedEvent
<1>4. schedule_time' = schedule_time /\ created < MaxEvents
  BY DEF SchedulePushed
<1>5. ASSUME NEW x \in Pended PROVE x.id # created + 1
  <2>1. PICK t \in Nat, K \in Lists :
          \E f \in Held(sched_list, t, K) : x = Tag(f, schedule_time + t, K)
    BY <1>1, WaitingHeld DEF Pended
  <2>2. PICK f \in Held(sched_list, t, K) : x = Tag(f, schedule_time + t, K)
    BY <2>1
  <2>3. f.id \in Nat /\ f.id <= created
    BY <1>1, HeldItems
  <2>4. x.id = f.id
    BY <2>2 DEF Tag
  <2>. QED  BY <1>1, <2>3, <2>4
<1>. DEFINE q == <<e>> \o QueueAt(sched_list, 0, "active")
<1>6. pc' = pc /\ Posted(sched_list, sched_list', 0, "active", q)
  BY <1>1, <1>2, ScheduleEventPush
<1>7. Range(q) = Held(sched_list, 0, "active") \cup {e}
  <2>1. QueueAt(sched_list, 0, "active") \in Seq(Event)
    BY <1>1, QueueAtType
  <2>. QED  BY <2>1, RangePush DEF Held
<1>. HIDE DEF q
<1>8. Waiting(sched_list', schedule_time) =
         Waiting(sched_list, schedule_time) \cup {Tag(e, schedule_time + 0, "active")}
  BY <1>1, <1>6, <1>7, PostedWaits
<1>9. Tag(e, schedule_time + 0, "active") =
         [id |-> created + 1, due |-> schedule_time, region |-> "active"]
  BY <1>1, <1>2 DEF Tag
<1>10. Pended' = Pended \cup {[id |-> created + 1, due |-> schedule_time,
                               region |-> "active"]}
  BY <1>4, <1>8, <1>9 DEF Pended
<1>12. /\ created + 1 \in Ids /\ schedule_time \in schedule_time..MaxTime
       /\ (pc' = "start") = (pc = "start")
  BY <1>1, <1>4, <1>6, BoundsAssumption DEF Ids
<1>. QED  BY <1>1, <1>4, <1>5, <1>10, <1>12, Posts

\* Time moves to the earliest event.
LEMMA AdvanceRefines ==
    ASSUME TypeInv, AdvanceTime
    PROVE  EQ!Advance
<1>1. /\ Steps(sched_list) /\ schedule_time \in Nat /\ Filled(sched_list)
  BY DEF TypeInv, Shape, Scalars
<1>. DEFINE D == sched_list[1].delay
            m == [sched_list EXCEPT ![1].delay = 0]
<1>2. /\ sched_list # <<>> /\ D > 0
      /\ schedule_time' = schedule_time + D /\ sched_list' = m /\ pc' = "start"
  BY DEF AdvanceTime, TimeAdvances, Ctim
<1>3. D \in Nat /\ D \in TimesOf(sched_list) /\ \A t \in TimesOf(sched_list) : t >= D
  BY <1>1, <1>2, FirstSum
<1>4. /\ Steps(m)
      /\ \A t \in Nat, L \in Lists : QueueAt(m, t, L) = QueueAt(sched_list, t + D, L)
  BY <1>1, <1>2, AdvanceHead
<1>. HIDE DEF m, D
<1>5. Waiting(m, schedule_time + D) = Waiting(sched_list, schedule_time)
  BY <1>1, <1>3, <1>4, AdvancedWaits
<1>6. Pended' = Pended
  BY <1>2, <1>5 DEF Pended
<1>7. PICK L \in Lists : QueueAt(sched_list, D, L) # <<>>
  BY <1>1, <1>2, <1>3 DEF Filled
<1>8. PICK e : e \in Held(sched_list, D, L)
  <2>. DEFINE q == QueueAt(sched_list, D, L)
  <2>1. q \in Seq(Event) /\ q # <<>>
    BY <1>1, <1>7, QueueAtType
  <2>. HIDE DEF q
  <2>2. Len(q) \in Nat /\ Len(q) # 0 /\ DOMAIN q = 1..Len(q)
    BY <2>1
  <2>3. 1 \in DOMAIN q
    BY <2>2
  <2>4. q[1] \in Range(q)
    BY <2>3 DEF Range
  <2>. QED  BY <2>4 DEF q, Held
<1>9. Tag(e, schedule_time + D, L) \in Pended
  BY <1>1, <1>3, <1>8, WaitingHeld DEF Pended
<1>10. ASSUME NEW y \in Pended PROVE y.due >= schedule_time + D
  <2>1. PICK t \in Nat, K \in Lists :
          \E f \in Held(sched_list, t, K) : y = Tag(f, schedule_time + t, K)
    BY <1>1, WaitingHeld DEF Pended
  <2>2. PICK f \in Held(sched_list, t, K) : y = Tag(f, schedule_time + t, K)
    BY <2>1
  <2>3. t \in TimesOf(sched_list)
    <3>. SUFFICES ASSUME t \notin TimesOf(sched_list) PROVE FALSE
      OBVIOUS
    <3>1. QueueAt(sched_list, t, K) = <<>>
      BY <1>1, QueueAtType
    <3>. QED  BY <2>2, <3>1 DEF Held, Range
  <2>4. y.due = schedule_time + t /\ t >= D
    BY <1>3, <2>2, <2>3 DEF Tag
  <2>. QED  BY <1>1, <1>3, <2>4
<1>11. /\ Tag(e, schedule_time + D, L).due = schedule_time + D
       /\ schedule_time + D > schedule_time
  BY <1>1, <1>2, <1>3 DEF Tag
<1>. QED  BY <1>2, <1>6, <1>9, <1>10, <1>11, Advances

\* An event that leaves the head of a list is one of that region, and due.
LEMMA TakeRefines ==
    ASSUME TypeInv, OrderInv, NEW L \in Lists, QueueAt(sched_list, 0, L) # <<>>,
           Posted(sched_list, sched_list', 0, L, Tail(QueueAt(sched_list, 0, L))),
           schedule_time' = schedule_time
    PROVE  \E x \in DueOf(L) : Pended' = Pended \ {x}
<1>1. Steps(sched_list) /\ schedule_time \in Nat /\ Distinct(sched_list)
  BY DEF TypeInv, Shape, Scalars, OrderInv, Queued
<1>3. PICK h \in Held(sched_list, 0, L) :
         Waiting(sched_list', schedule_time) =
            Waiting(sched_list, schedule_time) \ {Tag(h, schedule_time, L)}
  BY <1>1, TakenWaits
<1>4. Tag(h, schedule_time, L) \in DueOf(L)
  <2>1. schedule_time + 0 = schedule_time /\ 0 \in Nat
    BY <1>1
  <2>2. Tag(h, schedule_time, L) \in Pended
    BY <1>1, <1>3, <2>1, WaitingHeld DEF Pended
  <2>. QED  BY <2>2 DEF DueOf, Region, Tag, Pended
<1>5. Pended' = Pended \ {Tag(h, schedule_time, L)}
  BY <1>3 DEF Pended
<1>. QED  BY <1>4, <1>5

\* A list becomes the active region.
LEMMA PromoteRefines ==
    ASSUME TypeInv, OrderInv, AdvanceQueue, 0 \in TimesOf(sched_list),
           pc # "start", pc' # "start"
    PROVE  EQ!Promote("nbassign") \/ EQ!Promote("rwsync")
<1>1. /\ Steps(sched_list) /\ schedule_time \in Nat /\ Distinct(sched_list)
      /\ schedule_time' = schedule_time
  BY DEF TypeInv, Shape, Scalars, OrderInv, Queued, AdvanceQueue
<1>2. PICK L \in {"nbassign", "rwsync"} :
        /\ QueueAt(sched_list, 0, L) # <<>>
        /\ QueueAt(sched_list, 0, "active") = <<>>
        /\ L = "rwsync" => QueueAt(sched_list, 0, "nbassign") = <<>>
        /\ Steps(sched_list')
        /\ Promoted(sched_list, sched_list', L)
  BY AdvanceFacts DEF Promoted
<1>3. /\ L \in Lists \ {"active"} /\ "active" \in Lists /\ "nbassign" \in Lists
  BY DEF Lists
<1>4. /\ DueOf("active") = {}
      /\ L = "rwsync" => DueOf("nbassign") = {}
  BY <1>1, <1>2, <1>3, NothingDue DEF DueOf
<1>5. PICK x \in DueOf(L) :
         Waiting(sched_list', schedule_time) =
            (Waiting(sched_list, schedule_time) \ DueOf(L)) \cup MadeActive(DueOf(L), x)
  BY <1>1, <1>2, <1>3, PromotedWaits DEF DueOf
<1>6. Pended' = (Pended \ DueOf(L)) \cup MadeActive(DueOf(L), x)
  BY <1>1, <1>5 DEF Pended
<1>7. EQ!Promote(L)
  BY <1>1, <1>4, <1>6, Promotes
<1>. QED  BY <1>7

\* Every step that does not crash is one of the event queue, or none at all.
LEMMA StepRefines ==
    TypeInv /\ OrderInv /\ [Next]_vars /\ pc' # "crashed" =>
        [EQ!EventQueueNext]_(EQ!eqVars)
<1>. SUFFICES ASSUME TypeInv, OrderInv, [Next]_vars, pc' # "crashed"
              PROVE  EQ!EventQueueNext \/ UNCHANGED EQ!eqVars
  OBVIOUS
<1>1. /\ {"start", "active", "nbassign", "rwsync", "rosync", "del_thr"} = Lists
      /\ Steps(sched_list) /\ schedule_time \in Nat
  BY DEF Lists, TypeInv, Shape, Scalars
<1>2. /\ pc \in {"start", "queues", "rosync"} => 0 \in TimesOf(sched_list)
      /\ AtQueues => 0 \in TimesOf(sched_list) /\ pc \in {"queues", "top"}
  BY <1>1, CurrentIsZero DEF TypeInv, CurrentHeld, AtQueues, Ctim
<1>3. ASSUME 0 \in TimesOf(sched_list), NEW L \in Lists
      PROVE  QueueAt(sched_list, 0, L) = Ctim[L]
  <2>1. sched_list # <<>> /\ sched_list[1].delay = 0 /\ Ctim = sched_list[1]
    BY <1>1, <1>3, CurrentIsZero DEF Ctim
  <2>. QED  BY <1>1, <2>1, FirstSum
<1>4. ASSUME NEW L \in Lists, QueueAt(sched_list, 0, L) = <<>> PROVE DueOf(L) = {}
  BY <1>1, <1>4, NothingDue DEF DueOf
<1>5. ASSUME UNCHANGED <<sched_list, schedule_time>>, (pc' = "start") = (pc = "start")
      PROVE  UNCHANGED EQ!eqVars
  BY <1>5, Stutters DEF Pended
<1>6. ASSUME NEW L \in Lists, 0 \in TimesOf(sched_list), Ctim[L] # <<>>,
             sched_list' = [sched_list EXCEPT ![1][L] = Tail(@)],
             schedule_time' = schedule_time
      PROVE  \E x \in DueOf(L) : Pended' = Pended \ {x}
  <2>1. /\ QueueAt(sched_list, 0, L) # <<>>
        /\ Posted(sched_list, sched_list', 0, L, Tail(QueueAt(sched_list, 0, L)))
    BY <1>6, RunFacts
  <2>. HIDE <1>6
  <2>2. schedule_time' = schedule_time
    BY <1>6
  <2>. QED  BY <2>1, <2>2, TakeRefines
<1>7. CASE Schedule
  BY <1>7, ScheduleRefines DEF EQ!EventQueueNext
<1>8. CASE SchedulePushed
  BY <1>8, PushRefines DEF EQ!EventQueueNext
<1>9. CASE ScheduleInit \/ schedule_finish \/ schedule_stop \/ Return \/ RunInitEvent
  BY <1>5, <1>9 DEF ScheduleInit, schedule_finish, schedule_stop, Return, RunInitEvent
<1>10. CASE StartOfSim \/ EnterLoop \/ LoopEnds \/ stop_handler \/ Resume
  BY <1>5, <1>10 DEF StartOfSim, EnterLoop, LoopEnds, stop_handler, Resume, AtTop
<1>11. CASE FinishBeforeAdvance
  BY <1>5, <1>11 DEF FinishBeforeAdvance, TimeAdvances, AtTop
<1>12. CASE AdvanceTime
  BY <1>12, AdvanceRefines DEF EQ!EventQueueNext
<1>13. CASE RunStart
  <2>1. /\ pc = "start" /\ pc' = "start" /\ schedule_time' = schedule_time
        /\ "start" \in Lists
    BY <1>1, <1>13 DEF RunStart
  <2>2. PICK x \in DueOf("start") : Pended' = Pended \ {x}
    BY <1>2, <1>6, <1>13, <2>1 DEF RunStart, Run
  <2>. QED  BY <2>1, <2>2, RunsStart DEF EQ!EventQueueNext
<1>14. CASE StartOver
  <2>1. /\ pc = "start" /\ pc' # "start" /\ schedule_time' = schedule_time
        /\ "start" \in Lists /\ Pended' = Pended /\ Ctim["start"] = <<>>
    BY <1>1, <1>14 DEF StartOver, Pended
  <2>2. DueOf("start") = {}
    BY <1>2, <1>3, <1>4, <2>1
  <2>. QED  BY <2>1, <2>2, StartsOver DEF EQ!EventQueueNext
<1>15. CASE RunActive
  <2>1. /\ AtQueues /\ pc' = "top" /\ schedule_time' = schedule_time
        /\ "active" \in Lists
    BY <1>1, <1>15 DEF RunActive
  <2>2. PICK x \in DueOf("active") : Pended' = Pended \ {x}
    BY <1>2, <1>6, <1>15, <2>1 DEF RunActive, Run
  <2>3. pc # "start" /\ pc' # "start"
    BY <1>2, <2>1
  <2>. QED  BY <2>1, <2>2, <2>3, RunsActive DEF EQ!EventQueueNext
<1>16. CASE AdvanceQueue
  <2>1. 0 \in TimesOf(sched_list) /\ pc # "start" /\ pc' # "start"
    BY <1>2, <1>16 DEF AdvanceQueue
  <2>. QED  BY <1>16, <2>1, PromoteRefines DEF EQ!EventQueueNext
<1>17. CASE EnterRosync
  BY <1>2, <1>5, <1>17 DEF EnterRosync
<1>18. ASSUME pc = "rosync"
       PROVE  \A L \in {"active", "nbassign", "rwsync"} : DueOf(L) = {}
  BY <1>1, <1>4, <1>18 DEF OrderInv, WritersDone
<1>19. CASE RunReadOnly
  <2>1. /\ pc = "rosync" /\ pc' = "rosync" /\ schedule_time' = schedule_time
        /\ "rosync" \in Lists
    BY <1>1, <1>19 DEF RunReadOnly
  <2>2. PICK x \in DueOf("rosync") : Pended' = Pended \ {x}
    BY <1>2, <1>6, <1>19, <2>1 DEF RunReadOnly, Run
  <2>. QED  BY <1>18, <2>1, <2>2, RunsReadOnly DEF EQ!EventQueueNext
<1>20. CASE DeleteThread
  <2>1. /\ pc = "rosync" /\ pc' = "rosync" /\ schedule_time' = schedule_time
        /\ "rosync" \in Lists /\ "del_thr" \in Lists
        /\ Ctim["rosync"] = <<>> /\ Ctim["del_thr"] # <<>>
        /\ sched_list' = [sched_list EXCEPT ![1]["del_thr"] = Tail(@)]
    BY <1>1, <1>20 DEF DeleteThread
  <2>2. PICK x \in DueOf("del_thr") : Pended' = Pended \ {x}
    BY <1>2, <1>6, <2>1
  <2>3. DueOf("rosync") = {}
    BY <1>2, <1>3, <1>4, <2>1
  <2>. QED  BY <1>18, <2>1, <2>2, <2>3, DeletesThread DEF EQ!EventQueueNext
<1>21. CASE DeleteStep
  <2>1. /\ pc = "rosync" /\ pc' = "top" /\ schedule_time' = schedule_time
        /\ Ctim["rosync"] = <<>> /\ Ctim["del_thr"] = <<>>
        /\ sched_list # <<>> /\ sched_list[1].delay = 0
        /\ sched_list' = Tail(sched_list)
    BY <1>21 DEF DeleteStep, TypeInv, CurrentHeld
  <2>2. \A L \in Lists : QueueAt(sched_list, 0, L) = <<>>
    <3>1. \A L \in {"active", "nbassign", "rwsync"} : QueueAt(sched_list, 0, L) = <<>>
      BY <2>1 DEF OrderInv, WritersDone
    <3>2. QueueAt(sched_list, 0, "start") = <<>>
      BY <2>1 DEF OrderInv, StartsDone
    <3>3. /\ QueueAt(sched_list, 0, "rosync") = <<>>
          /\ QueueAt(sched_list, 0, "del_thr") = <<>>
      BY <1>1, <1>2, <1>3, <2>1
    <3>. QED  BY <1>1, <3>1, <3>2, <3>3
  <2>3. /\ Steps(sched_list')
        /\ \A t \in Nat, L \in Lists :
              QueueAt(sched_list', t, L) =
                 IF t = 0 THEN <<>> ELSE QueueAt(sched_list, t, L)
    BY <1>1, <2>1, DropHead
  <2>4. \A t \in Nat, L \in Lists :
           QueueAt(sched_list', t, L) = QueueAt(sched_list, t, L)
    BY <2>2, <2>3
  <2>5. Waiting(sched_list', schedule_time) = Waiting(sched_list, schedule_time)
    BY <1>1, <2>3, <2>4, SameWaits
  <2>6. Pended' = Pended
    BY <2>1, <2>5 DEF Pended
  <2>. QED  BY <2>1, <2>6, Stutters
<1>22. CASE UNCHANGED vars
  BY <1>5, <1>22 DEF vars
<1>. QED
  BY <1>7, <1>8, <1>9, <1>10, <1>11, <1>12, <1>13, <1>14, <1>15, <1>16, <1>17, <1>19,
     <1>20, <1>21, <1>22
  DEF Next, Environment, Loop, Ended

\* The queue is empty when linking begins.
LEMMA InitRefines == Init => EQ!EventQueueInit
<1>. SUFFICES ASSUME Init PROVE EQ!EventQueueInit
  OBVIOUS
<1>1. sched_list = <<>> /\ schedule_time = 0 /\ pc # "start"
  BY DEF Init
<1>2. Waiting(<<>>, 0) = {}
  BY DEF Waiting
<1>3. Waiting(sched_list, schedule_time) = {}
  BY <1>1, <1>2
<1>. QED  BY <1>1, <1>3 DEF EQ!EventQueueInit

\* The list of steps with relative delays and the loop that works it off are
\* an event queue of absolute times with the regions of a time step, as long
\* as the scheduler does not go through a null pointer.
THEOREM ScheduleRefinesQueue == Spec /\ []NotCrashed => ImplementsEventQueue
<1>1. Init => TypeInv /\ OrderInv
  BY TypeInvInit, OrderInvInit
<1>2. TypeInv /\ OrderInv /\ [Next]_vars => TypeInv' /\ OrderInv'
  BY TypeInvStep, OrderInvStep
<1>3. Init => EQ!EventQueueInit
  BY InitRefines
<1>4. TypeInv /\ OrderInv /\ [Next]_vars /\ NotCrashed' =>
         [EQ!EventQueueNext]_(EQ!eqVars)
  BY StepRefines DEF NotCrashed
<1>. QED
  BY <1>1, <1>2, <1>3, <1>4, PTL DEF Spec, ImplementsEventQueue, EQ!EventQueueSpec

\* With one start event for a time it never does.
THEOREM ScheduleIsQueue ==
    ASSUME MaxStarts <= 1 PROVE Spec => ImplementsEventQueue
  BY NeverCrashes, ScheduleRefinesQueue, PTL

-----------------------------------------------------------------------------
(* What the event queue promises, and so the list of steps.                *)

\* Every value the queue holds has its type: time is a number, what is pending
\* are events.
LEMMA QueueTypeCorrect ==
    EQ!EventQueueSpec => []EQ!EventQueueTypeOK
<1>1. EQ!EventQueueInit => EQ!EventQueueTypeOK
  <2> SUFFICES ASSUME EQ!EventQueueInit
               PROVE  EQ!EventQueueTypeOK
    OBVIOUS
  <2>1. schedule_time \in Nat /\ Waiting(sched_list, schedule_time) \subseteq EQ!Event
    BY DEF EQ!EventQueueInit
  <2>2. (pc = "start") \in BOOLEAN
    BY DEF EQ!EventQueueInit
  <2> QED
    BY <2>1, <2>2 DEF EQ!EventQueueTypeOK
<1>2. EQ!EventQueueTypeOK /\ [EQ!EventQueueNext]_(EQ!eqVars) => EQ!EventQueueTypeOK'
  <2> SUFFICES ASSUME EQ!EventQueueTypeOK, [EQ!EventQueueNext]_(EQ!eqVars)
               PROVE  EQ!EventQueueTypeOK'
    OBVIOUS
  <2>1. CASE EQ!Post
    <3>1. PICK id \in Ids, due \in schedule_time..MaxTime, region \in EQ!Regions :
            Waiting(sched_list', schedule_time')
              = Waiting(sched_list, schedule_time) \cup {[id |-> id, due |-> due, region |-> region]}
      BY <2>1 DEF EQ!Post
    <3>2. due \in Nat
      BY <3>1 DEF EQ!EventQueueTypeOK
    <3>3. [id |-> id, due |-> due, region |-> region] \in EQ!Event
      BY <3>2 DEF EQ!Event
    <3> QED
      BY <2>1, <3>1, <3>3 DEF EQ!Post, EQ!EventQueueTypeOK
  <2>2. CASE EQ!Advance
    BY <2>2 DEF EQ!Advance, EQ!EventQueueTypeOK, EQ!Event
  <2>3. CASE EQ!RunStart
    BY <2>3 DEF EQ!RunStart, EQ!EventQueueTypeOK
  <2>4. CASE EQ!StartOver
    BY <2>4 DEF EQ!StartOver, EQ!EventQueueTypeOK
  <2>5. CASE EQ!RunActive
    BY <2>5 DEF EQ!RunActive, EQ!EventQueueTypeOK
  <2>6. ASSUME NEW region \in {"nbassign", "rwsync"}, EQ!Promote(region)
        PROVE  EQ!EventQueueTypeOK'
    <3>1. \A f \in Waiting(sched_list, schedule_time) : [f EXCEPT !.region = "active"] \in EQ!Event
      BY DEF EQ!EventQueueTypeOK, EQ!Event, EQ!Regions
    <3> QED
      BY <2>6, <3>1 DEF EQ!Promote, EQ!EventQueueTypeOK, EQ!DueNow
  <2>7. CASE EQ!RunReadOnly
    BY <2>7 DEF EQ!RunReadOnly, EQ!EventQueueTypeOK
  <2>8. CASE EQ!DeleteThread
    BY <2>8 DEF EQ!DeleteThread, EQ!EventQueueTypeOK
  <2>9. CASE UNCHANGED EQ!eqVars
    BY <2>9 DEF EQ!eqVars, EQ!EventQueueTypeOK
  <2> QED
    BY <2>1, <2>2, <2>3, <2>4, <2>5, <2>6, <2>7, <2>8, <2>9 DEF EQ!EventQueueNext
<1> QED
  BY <1>1, <1>2, PTL DEF EQ!EventQueueSpec

\* When time advances nothing that was due earlier is still waiting: time only
\* moves to the earliest pending event, nothing is posted into the past, and a
\* promotion keeps the due times.
LEMMA QueueLeavesNothing ==
    EQ!EventQueueSpec => []EQ!NothingOverdue
<1>1. EQ!EventQueueInit => EQ!NothingOverdue
  BY DEF EQ!EventQueueInit, EQ!NothingOverdue
<1>2. EQ!EventQueueTypeOK /\ EQ!NothingOverdue /\ [EQ!EventQueueNext]_(EQ!eqVars)
        => EQ!NothingOverdue'
  <2> SUFFICES ASSUME EQ!EventQueueTypeOK, EQ!NothingOverdue, [EQ!EventQueueNext]_(EQ!eqVars)
               PROVE  EQ!NothingOverdue'
    OBVIOUS
  <2>1. CASE EQ!Post
    <3>1. PICK id \in Ids, due \in schedule_time..MaxTime, region \in EQ!Regions :
            Waiting(sched_list', schedule_time')
              = Waiting(sched_list, schedule_time) \cup {[id |-> id, due |-> due, region |-> region]}
      BY <2>1 DEF EQ!Post
    <3>2. due >= schedule_time /\ schedule_time' = schedule_time
      BY <2>1, <3>1 DEF EQ!Post, EQ!EventQueueTypeOK
    <3> QED
      BY <3>1, <3>2 DEF EQ!NothingOverdue
  <2>2. CASE EQ!Advance
    BY <2>2 DEF EQ!Advance, EQ!NothingOverdue
  <2>3. ASSUME schedule_time' = schedule_time,
               Waiting(sched_list', schedule_time') \subseteq Waiting(sched_list, schedule_time)
        PROVE  EQ!NothingOverdue'
    BY <2>3 DEF EQ!NothingOverdue
  <2>4. CASE EQ!RunStart \/ EQ!StartOver \/ EQ!RunActive \/ EQ!RunReadOnly \/ EQ!DeleteThread
    BY <2>3, <2>4 DEF EQ!RunStart, EQ!StartOver, EQ!RunActive, EQ!RunReadOnly, EQ!DeleteThread
  <2>5. ASSUME NEW region \in {"nbassign", "rwsync"}, EQ!Promote(region)
        PROVE  EQ!NothingOverdue'
    <3>1. \A f \in Waiting(sched_list, schedule_time) : [f EXCEPT !.region = "active"].due = f.due
      BY DEF EQ!EventQueueTypeOK, EQ!Event
    <3>2. \A f \in Waiting(sched_list', schedule_time') :
             \E g \in Waiting(sched_list, schedule_time) : f.due = g.due
      BY <2>5, <3>1 DEF EQ!Promote, EQ!DueNow
    <3>3. schedule_time' = schedule_time
      BY <2>5 DEF EQ!Promote
    <3> QED
      BY <3>2, <3>3 DEF EQ!NothingOverdue
  <2>6. CASE UNCHANGED EQ!eqVars
    BY <2>3, <2>6 DEF EQ!eqVars
  <2> QED
    BY <2>1, <2>2, <2>4, <2>5, <2>6 DEF EQ!EventQueueNext
<1> QED
  BY <1>1, <1>2, QueueTypeCorrect, PTL DEF EQ!EventQueueSpec

\* With one start event for a time, simulated time never passes an event of the
\* list of steps: what was due earlier has run (schedule_simulate takes the time of
\* the first step, and schedule_event_ puts no step before the present).
THEOREM NothingLeftBehind ==
    ASSUME MaxStarts <= 1 PROVE Spec => []EQ!NothingOverdue
  BY ScheduleIsQueue, QueueLeavesNothing, PTL DEF ImplementsEventQueue
=============================================================================
