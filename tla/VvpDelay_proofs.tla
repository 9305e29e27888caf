--------------------------- MODULE VvpDelay_proofs ---------------------------
(***************************************************************************)
(* The delay functor puts out every value its input took and kept, exactly *)
(* one delay later, for every width, every delay and every module path.    *)
(***************************************************************************)
EXTENDS VvpDelay, WellFoundedInduction, TLAPS

-----------------------------------------------------------------------------
(* The inductive invariant.                                                *)

RunType == [who : {"delay", "path"}, time : Nat]
EventType == [sim_time : Nat, value : Vec4]
HeldType == [value : Vec4, time : Nat, delay : DelaySet, first : BOOLEAN]

\* What the functor and the scheduler keep has its type.
Shape ==
    /\ now \in Nat
    /\ queue \in Seq(RunType)
    /\ delay_ \in DelaySet
    /\ initial_ \in BOOLEAN
    /\ list_ \in Seq(EventType)
    /\ cur \in Vec4 /\ (initial_ => cur = X)
    /\ path_cur \in Vec4 \cup {<<>>}
    /\ wake_time \in [1..Len(Paths) -> Nat]
    /\ held \in Seq(HeldType) /\ Len(held) \in {1, 2}

\* At most two values are pending; the older of two is due now.
Pending ==
    /\ Len(list_) <= 2
    /\ \A i \in DOMAIN list_ : list_[i].sim_time >= now
    /\ Len(list_) = 2 => list_[1].sim_time = now

\* One run, and two of them, scheduled for the delay functor at time t.
HasRun(q, t) == \E j \in DOMAIN q : q[j] = Run("delay", t)
HasTwo(q, t) == \E j, k \in DOMAIN q :
                  j # k /\ q[j] = Run("delay", t) /\ q[k] = Run("delay", t)

\* No pending value waits for a run that will not come.
Served ==
    /\ \A i \in DOMAIN list_ : HasRun(queue, list_[i].sim_time)
    /\ Len(list_) = 2 /\ list_[1].sim_time = list_[2].sim_time =>
          HasTwo(queue, list_[1].sim_time)

\* What ChangeDelay is for a kind of values.
TimeOf(kind, d, from, to) ==
    IF kind = "real" THEN MinDelay(d)
    ELSE Max({get_delay(d, from[i], to[i]) : i \in 1..Width})

\* Pending value e is what the input was driven to as h tells, and is due one
\* delay later, from the first value or from what will be put out before it.
Stands(kind, e, h, from) ==
    /\ e.value = h.value
    /\ e.sim_time = h.time + TimeOf(kind, h.delay, IF h.first THEN X ELSE from, e.value)

\* What is pending is what the input was driven to last.
Followed ==
    /\ Len(list_) = 1 => Stands(type_, list_[1], held[1], cur)
    /\ Len(list_) = 2 =>
         /\ Len(held) = 2 /\ held[1].time = now
         /\ Stands(type_, list_[1], held[2], cur)
         /\ Stands(type_, list_[2], held[1], list_[1].value)

\* And so is what is put out, when nothing is pending.
Traced == Followed /\ (Len(list_) = 0 => cur = held[1].value)

\* What is there when an input comes, and what follows from every input that
\* overtakes no value.
Following == Shape /\ Pending /\ Served /\ Followed
DelayInv == Shape /\ Pending /\ Served /\ Traced

\* After an input that overtook a value only the types are left, until the next
\* one comes afresh.
IInv == Shape /\ (~overtaken => DelayInv)

-----------------------------------------------------------------------------
(* Least and greatest numbers.                                             *)

\* Every set of numbers that is not empty has a least one, which Min finds.
LEMMA MinIsLeast ==
    ASSUME NEW S \in SUBSET Nat, S # {}
    PROVE  Min(S) \in S /\ \A y \in S : Min(S) <= y
<1>1. PICK x \in S : \A y \in S : ~(<<y, x>> \in OpToRel(<, Nat))
  BY NatLessThanWellFounded, WFMin
<1>2. \A y \in S : ~(y < x)
  BY <1>1 DEF OpToRel
<1>3. \E z \in S : \A y \in S : z =< y
  BY <1>2
<1>. QED  BY <1>3 DEF Min

\* Every set of numbers up to a bound has a greatest one, which Max finds.
LEMMA MaxIsGreatest ==
    ASSUME NEW B \in Nat, NEW S \in SUBSET (0..B), S # {}
    PROVE  Max(S) \in S /\ \A y \in S : Max(S) >= y
<1>. DEFINE T == {B - s : s \in S}
<1>1. T \in SUBSET Nat /\ T # {}
  <2>1. \A s \in S : B - s \in Nat
    <3>1. \A s \in 0..B : B - s \in Nat
      OBVIOUS
    <3>. QED  BY <3>1
  <2>. QED  BY <2>1
<1>2. PICK m \in T : \A y \in T : m <= y
  <2>. HIDE DEF T
  <2>. QED  BY <1>1, MinIsLeast
<1>3. PICK x \in S : m = B - x
  OBVIOUS
<1>4. \A y \in S : B - y \in T
  OBVIOUS
<1>5. \A y \in S : x >= y
  <2>. SUFFICES ASSUME NEW y \in S PROVE x >= y
    OBVIOUS
  <2>1. B - x <= B - y
    BY <1>2, <1>3, <1>4
  <2>2. x \in 0..B /\ y \in 0..B
    OBVIOUS
  <2>. QED  BY <2>1, <2>2
<1>. QED  BY <1>5 DEF Max

-----------------------------------------------------------------------------
(* Delays.                                                                 *)

\* A bit takes one of the three delays, the least of them, or no time.
LEMMA BitDelay ==
    ASSUME NEW d \in DelaySet, NEW a \in Bit4, NEW b \in Bit4
    PROVE  /\ MinDelay(d) \in {d.rise, d.fall, d.decay}
           /\ get_delay(d, a, b) \in 0..(d.rise + d.fall + d.decay)
           /\ get_delay(d, a, a) = 0
<1>1. d.rise \in Nat /\ d.fall \in Nat /\ d.decay \in Nat
  BY DEF DelaySet
<1>2. MinDelay(d) \in {d.rise, d.fall, d.decay}
  BY <1>1, MinIsLeast DEF MinDelay
<1>3. MinDelay(d) \in 0..(d.rise + d.fall + d.decay)
  BY <1>1, <1>2
<1>4. get_delay(d, a, b) \in {0, d.rise, d.fall, d.decay, MinDelay(d)}
  <2>. HIDE DEF MinDelay
  <2>. QED  BY DEF get_delay, Bit4
<1>5. get_delay(d, a, a) = 0
  BY DEF get_delay
<1>. QED  BY <1>1, <1>2, <1>3, <1>4, <1>5

\* A change takes some time, and none if nothing changes.
LEMMA ChangeTakes ==
    ASSUME NEW kind, NEW d \in DelaySet, NEW v \in Vec4, NEW w \in Vec4
    PROVE  /\ TimeOf(kind, d, v, w) \in Nat
           /\ kind # "real" => TimeOf(kind, d, v, v) = 0
<1>1. d.rise \in Nat /\ d.fall \in Nat /\ d.decay \in Nat
  BY DEF DelaySet
<1>2. MinDelay(d) \in Nat
  BY <1>1, MinIsLeast DEF MinDelay
<1>3. \A u \in Vec4 : \A i \in 1..Width : u[i] \in Bit4
  BY DEF Vec4
<1>4. 1 \in 1..Width
  BY WidthAssumption
<1>5. Max({get_delay(d, v[i], w[i]) : i \in 1..Width}) \in Nat
  <2>. DEFINE S == {get_delay(d, v[i], w[i]) : i \in 1..Width}
  <2>1. S \in SUBSET (0..(d.rise + d.fall + d.decay)) /\ S # {}
    BY <1>3, <1>4, BitDelay
  <2>2. d.rise + d.fall + d.decay \in Nat
    BY <1>1
  <2>. HIDE DEF S
  <2>3. Max(S) \in S
    BY <2>1, <2>2, MaxIsGreatest
  <2>4. Max(S) \in Nat
    <3>1. Max(S) \in 0..(d.rise + d.fall + d.decay)
      BY <2>1, <2>3
    <3>. QED  BY <3>1
  <2>. QED  BY <2>4 DEF S
<1>6. Max({get_delay(d, v[i], v[i]) : i \in 1..Width}) = 0
  <2>1. \A i \in 1..Width : get_delay(d, v[i], v[i]) = 0
    BY <1>3, BitDelay
  <2>2. {get_delay(d, v[i], v[i]) : i \in 1..Width} = {0}
    BY <2>1, <1>4
  <2>3. Max({0}) = 0
    BY DEF Max
  <2>. QED  BY <2>2, <2>3
<1>. QED  BY <1>2, <1>5, <1>6 DEF TimeOf

\* The entry of the delay table is one of its twelve edges.
LEMMA EdgeFound ==
    ASSUME NEW a \in Bit4, NEW b \in Bit4
    PROVE  delay_from_edge(a, b) \in Edges
<1>. DEFINE entry == [v \in Bit4 |-> CASE v = "z" -> "x" [] v = "x" -> "z" [] OTHER -> v]
<1>1. entry["0"] = "0" /\ entry["1"] = "1" /\ entry["x"] = "z" /\ entry["z"] = "x"
  BY DEF Bit4
<1>2. delay_from_edge(a, b) = IF a = b THEN <<entry[a], IF a = "0" THEN "1" ELSE "0">>
                              ELSE <<entry[a], entry[b]>>
  BY DEF delay_from_edge
<1>. HIDE DEF entry
<1>. QED  BY <1>1, <1>2 DEF Edges, Bit4

\* A module path takes some time.
LEMMA PathTakes ==
    ASSUME Shape, NEW to \in Vec4
    PROVE  PathDelay(path_cur, to) \in Nat
<1>1. to[1] \in Bit4
  BY WidthAssumption DEF Vec4
<1>2. PICK bit \in Bit4 :
        bit = IF path_cur = <<>> THEN "x" ELSE path_cur[1]
  <2>1. path_cur \in Vec4 => path_cur[1] \in Bit4
    BY WidthAssumption DEF Vec4
  <2>. QED  BY <2>1 DEF Shape, Bit4
<1>3. PICK e \in Edges : e = delay_from_edge(bit, to[1])
  BY <1>1, EdgeFound
<1>4. PathDelay(path_cur, to) = IF Candidates = {} THEN 0 ELSE OutAt(e)
  BY <1>2, <1>3 DEF PathDelay
<1>5. Candidates \subseteq 1..Len(Paths)
  <2>. DEFINE plain == Latest({p \in 1..Len(Paths) : ~Paths[p].ifnone /\ condition_flag[p]})
              none == Latest({p \in 1..Len(Paths) : Paths[p].ifnone})
  <2>1. plain \subseteq 1..Len(Paths) /\ none \subseteq 1..Len(Paths)
    BY DEF Latest
  <2>2. none # {} => Min(none) \in none
    <3>1. none \in SUBSET Nat
      BY <2>1
    <3>. HIDE DEF none
    <3>. QED  BY <3>1, MinIsLeast
  <2>3. Candidates \in {plain, none, {Min(none)}} /\ (Candidates = {Min(none)} => none # {} \/ Candidates \in {plain, none})
    <3>. HIDE DEF plain, none
    <3>. QED  BY DEF Candidates, plain, none
  <2>. HIDE DEF plain, none
  <2>. QED  BY <2>1, <2>2, <2>3
<1>6. ASSUME Candidates # {} PROVE OutAt(e) \in Nat
  <2>. DEFINE At(p) == wake_time[p] + Paths[p].delay[e]
              S == {IF At(p) <= now THEN 0 ELSE At(p) - now : p \in Candidates}
  <2>1. \A p \in Candidates : At(p) \in Nat
    <3>1. \A p \in 1..Len(Paths) : Paths[p] \in ModPath
      BY PathsAssumption
    <3>2. \A p \in 1..Len(Paths) : Paths[p].delay[e] \in Nat
      BY <3>1 DEF ModPath
    <3>. QED  BY <1>5, <3>2 DEF Shape
  <2>2. S \in SUBSET Nat /\ S # {}
    <3>. HIDE DEF At
    <3>. QED  BY <2>1, <1>6 DEF Shape
  <2>3. OutAt(e) = Min(S)
    BY DEF OutAt
  <2>. HIDE DEF S
  <2>. QED  BY <2>2, <2>3, MinIsLeast
<1>. QED  BY <1>4, <1>6

-----------------------------------------------------------------------------
(* Runs in the queue of the scheduler.                                     *)

\* Due is the first run of this time, 0 if there is none.
LEMMA DueFirst ==
    ASSUME queue \in Seq(RunType)
    PROVE  /\ Due # 0 => Due \in DOMAIN queue /\ queue[Due].time = now
           /\ Due = 0 => \A j \in DOMAIN queue : queue[j].time # now
<1>. DEFINE I == {i \in 1..Len(queue) : queue[i].time = now}
<1>1. Due = IF I # {} THEN Min(I) ELSE 0
  BY DEF Due, SelectInSeq
<1>2. I \in SUBSET Nat /\ DOMAIN queue = 1..Len(queue)
  OBVIOUS
<1>3. CASE I # {}
  <2>1. Min(I) \in I
    <3>. HIDE DEF I
    <3>. QED  BY <1>2, <1>3, MinIsLeast
  <2>. QED  BY <1>1, <1>2, <1>3, <2>1
<1>4. CASE I = {}
  BY <1>1, <1>2, <1>4
<1>. QED  BY <1>3, <1>4

\* A sequence without one of its elements.
LEMMA RemoveAtFacts ==
    ASSUME NEW T, NEW q \in Seq(T), NEW d \in DOMAIN q
    PROVE  /\ RemoveAt(q, d) \in Seq(T)
           /\ Len(RemoveAt(q, d)) = Len(q) - 1
           /\ \A j \in 1..(Len(q) - 1) :
                 RemoveAt(q, d)[j] = IF j < d THEN q[j] ELSE q[j + 1]
<1>1. d \in 1..Len(q) /\ Len(q) \in Nat
  OBVIOUS
<1>2. PICK a, b : a = SubSeq(q, 1, d - 1) /\ b = SubSeq(q, d + 1, Len(q))
  OBVIOUS
<1>3. /\ a \in Seq(T) /\ Len(a) = d - 1
      /\ \A j \in 1..(d - 1) : a[j] = q[j]
  BY <1>1, <1>2
<1>4. /\ b \in Seq(T) /\ Len(b) = Len(q) - d
      /\ \A j \in 1..(Len(q) - d) : b[j] = q[d + j]
  BY <1>1, <1>2
<1>5. RemoveAt(q, d) = a \o b
  BY <1>2 DEF RemoveAt
<1>6. /\ a \o b \in Seq(T) /\ Len(a \o b) = Len(q) - 1
      /\ \A j \in 1..(Len(q) - 1) :
           (a \o b)[j] = IF j <= Len(a) THEN a[j] ELSE b[j - Len(a)]
  BY <1>1, <1>3, <1>4
<1>7. ASSUME NEW j \in 1..(Len(q) - 1)
      PROVE  (a \o b)[j] = IF j < d THEN q[j] ELSE q[j + 1]
  <2>1. CASE j < d
    BY <2>1, <1>1, <1>3, <1>6
  <2>2. CASE ~(j < d)
    <3>1. PICK k \in 1..(Len(q) - d) : k = j - (d - 1) /\ d + k = j + 1
      <4>1. j \in Nat /\ j <= Len(q) - 1 /\ d <= j /\ d \in Nat
        BY <2>2, <1>1
      <4>2. j - (d - 1) \in 1..(Len(q) - d) /\ d + (j - (d - 1)) = j + 1
        BY <4>1, <1>1
      <4>. QED  BY <4>2
    <3>2. ~(j <= Len(a)) /\ j - Len(a) = k
      BY <2>2, <3>1, <1>1, <1>3
    <3>3. (a \o b)[j] = b[k]
      BY <3>2, <1>6
    <3>4. b[k] = q[d + k]
      BY <1>4
    <3>. QED  BY <2>2, <3>1, <3>3, <3>4
  <2>. QED  BY <2>1, <2>2
<1>. QED  BY <1>5, <1>6, <1>7

\* Where an element that stays goes.
LEMMA RemoveAtKeeps ==
    ASSUME NEW T, NEW q \in Seq(T), NEW d \in DOMAIN q
    PROVE  /\ \A j \in DOMAIN q \ {d} :
                 \E k \in DOMAIN RemoveAt(q, d) :
                    k = (IF j < d THEN j ELSE j - 1) /\ RemoveAt(q, d)[k] = q[j]
<1>1. d \in 1..Len(q) /\ Len(q) \in Nat /\ DOMAIN q = 1..Len(q)
  OBVIOUS
<1>2. PICK r \in Seq(T) : /\ r = RemoveAt(q, d) /\ Len(r) = Len(q) - 1
                          /\ \A j \in 1..(Len(q) - 1) :
                               r[j] = IF j < d THEN q[j] ELSE q[j + 1]
  BY RemoveAtFacts
<1>3. DOMAIN r = 1..(Len(q) - 1)
  BY <1>2
<1>4. ASSUME NEW j \in DOMAIN q \ {d}
      PROVE  \E k \in DOMAIN r : k = (IF j < d THEN j ELSE j - 1) /\ r[k] = q[j]
  <2>1. CASE j < d
    <3>1. j \in 1..(Len(q) - 1)
      BY <2>1, <1>1
    <3>. QED  BY <2>1, <3>1, <1>2, <1>3
  <2>2. CASE ~(j < d)
    <3>1. j - 1 \in 1..(Len(q) - 1) /\ ~(j - 1 < d) /\ (j - 1) + 1 = j
      BY <2>2, <1>1
    <3>. QED  BY <2>2, <3>1, <1>2, <1>3
  <2>. QED  BY <2>1, <2>2
<1>. QED  BY <1>2, <1>4

\* Another run leaves the runs for the delay functor at time t there.
LEMMA OtherRunGoes ==
    ASSUME NEW q \in Seq(RunType), NEW d \in DOMAIN q, NEW t,
           q[d] # Run("delay", t)
    PROVE  /\ HasRun(q, t) => HasRun(RemoveAt(q, d), t)
           /\ HasTwo(q, t) => HasTwo(RemoveAt(q, d), t)
<1>1. PICK r : r = RemoveAt(q, d)
  OBVIOUS
<1>2. \A j \in DOMAIN q \ {d} :
        \E k \in DOMAIN r : k = (IF j < d THEN j ELSE j - 1) /\ r[k] = q[j]
  BY <1>1, RemoveAtKeeps
<1>3. HasRun(q, t) => HasRun(r, t)
  BY <1>2 DEF HasRun
<1>4. ASSUME HasTwo(q, t) PROVE HasTwo(r, t)
  <2>1. PICK i, j \in DOMAIN q :
          i # j /\ q[i] = Run("delay", t) /\ q[j] = Run("delay", t)
    BY <1>4 DEF HasTwo
  <2>2. i # d /\ j # d /\ i \in Int /\ j \in Int /\ d \in Int
    BY <2>1
  <2>3. PICK k \in DOMAIN r : k = (IF i < d THEN i ELSE i - 1) /\ r[k] = q[i]
    BY <1>2, <2>2
  <2>4. PICK l \in DOMAIN r : l = (IF j < d THEN j ELSE j - 1) /\ r[l] = q[j]
    BY <1>2, <2>2
  <2>5. k # l
    BY <2>1, <2>2, <2>3, <2>4
  <2>. QED  BY <2>1, <2>3, <2>4, <2>5 DEF HasTwo
<1>. QED  BY <1>1, <1>3, <1>4

\* Of two runs one is left when one goes.
LEMMA OneOfTwoGoes ==
    ASSUME NEW q \in Seq(RunType), NEW d \in DOMAIN q, NEW t, HasTwo(q, t)
    PROVE  HasRun(RemoveAt(q, d), t)
<1>1. PICK r : r = RemoveAt(q, d)
  OBVIOUS
<1>2. \A j \in DOMAIN q \ {d} : \E k \in DOMAIN r : r[k] = q[j]
  BY <1>1, RemoveAtKeeps
<1>. QED  BY <1>1, <1>2 DEF HasRun, HasTwo

\* A run that is scheduled joins those that are there.
LEMMA RunJoins ==
    ASSUME NEW q \in Seq(RunType), NEW r \in RunType, NEW t
    PROVE  /\ Append(q, r) \in Seq(RunType)
           /\ HasRun(q, t) => HasRun(Append(q, r), t)
           /\ HasTwo(q, t) => HasTwo(Append(q, r), t)
           /\ r = Run("delay", t) => HasRun(Append(q, r), t)
           /\ r = Run("delay", t) /\ HasRun(q, t) => HasTwo(Append(q, r), t)
<1>1. PICK p \in Seq(RunType) : p = Append(q, r)
  <2>1. Append(q, r) \in Seq(RunType)
    OBVIOUS
  <2>. QED  BY <2>1
<1>2. /\ DOMAIN q \subseteq DOMAIN p /\ \A j \in DOMAIN q : p[j] = q[j]
      /\ Len(q) + 1 \in DOMAIN p /\ Len(q) + 1 \notin DOMAIN q
      /\ p[Len(q) + 1] = r
  <2>1. Len(q) \in Nat /\ DOMAIN q = 1..Len(q)
    OBVIOUS
  <2>2. DOMAIN p = 1..(Len(q) + 1)
    BY <1>1
  <2>3. p[Len(q) + 1] = r /\ \A j \in 1..Len(q) : p[j] = q[j]
    BY <1>1
  <2>. QED  BY <2>1, <2>2, <2>3
<1>. QED  BY <1>1, <1>2 DEF HasRun, HasTwo

-----------------------------------------------------------------------------
(* Initially, and what steps do.                                           *)

\* Nothing is pending, and nothing was driven.
LEMMA DelayInvInit == Init => DelayInv
<1>. SUFFICES ASSUME Init PROVE DelayInv
  OBVIOUS
<1>1. X \in Vec4
  BY DEF X, Vec4, Bit4
<1>2. queue \in Seq(RunType) /\ list_ \in Seq(EventType) /\ Len(list_) = 0
  BY DEF Init
<1>3. PICK h \in HeldType : h = [value |-> X, time |-> 0, delay |-> delay_, first |-> TRUE]
  BY <1>1, DelaysAssumption DEF Init, HeldType
<1>4. held = <<h>>
  BY <1>3 DEF Init
<1>5. held \in Seq(HeldType) /\ Len(held) = 1 /\ held[1] = h
  BY <1>4
<1>6. Shape
  BY <1>1, <1>2, <1>5, DelaysAssumption DEF Shape, Init
<1>7. Pending /\ Served
  BY <1>2 DEF Pending, Served, Init
<1>8. Traced
  BY <1>2, <1>3, <1>5 DEF Traced, Followed, Init
<1>. QED  BY <1>6, <1>7, <1>8 DEF DelayInv

\* An event that is due, with none or the other event behind it.
Now == list_ # <<>> /\ Head(list_).sim_time = now

\* The pending values one by one.
LEMMA ListFacts ==
    ASSUME Shape, Pending
    PROVE  /\ list_ \in Seq(EventType) /\ Len(list_) \in {0, 1, 2}
           /\ DOMAIN list_ = 1..Len(list_)
           /\ Len(list_) = 0 <=> list_ = <<>>
           /\ Len(list_) # 0 => Head(list_) = list_[1]
           /\ \A i \in 1..Len(list_) : /\ list_[i] \in EventType
                                       /\ list_[i].sim_time \in Nat
                                       /\ list_[i].value \in Vec4
                                       /\ list_[i].sim_time >= now
<1>1. list_ \in Seq(EventType) /\ Len(list_) \in Nat /\ Len(list_) <= 2
  BY DEF Shape, Pending
<1>2. Len(list_) \in {0, 1, 2}
  <2>1. \A n \in Nat : n <= 2 => n \in {0, 1, 2}
    OBVIOUS
  <2>. QED  BY <1>1, <2>1
<1>3. DOMAIN list_ = 1..Len(list_) /\ \A i \in 1..Len(list_) : list_[i] \in EventType
  BY <1>1
<1>4. (Len(list_) = 0 <=> list_ = <<>>) /\ (Len(list_) # 0 => Head(list_) = list_[1])
  BY <1>1
<1>5. \A i \in 1..Len(list_) : /\ list_[i].sim_time \in Nat /\ list_[i].value \in Vec4
                              /\ list_[i].sim_time >= now
  BY <1>3 DEF Pending, EventType
<1>. QED  BY <1>1, <1>2, <1>3, <1>4, <1>5

\* What is pending when the environment drives the input.
LEMMA PendingFacts ==
    ASSUME Following, ~Overtakes
    PROVE  /\ Len(list_) \in {0, 1}
           /\ Now => type_ # "real" /\ Len(list_) = 1
           /\ Len(list_) = 0 => list_ = <<>> /\ ~Now
           /\ Len(list_) = 1 => list_ # <<>> /\ Head(list_) = list_[1]
           /\ clean_pulse_events_ = IF Now THEN list_ ELSE <<>>
<1>1. /\ list_ \in Seq(EventType) /\ Len(list_) \in {0, 1, 2} /\ now \in Nat
      /\ DOMAIN list_ = 1..Len(list_)
      /\ Len(list_) = 0 <=> list_ = <<>>
      /\ Len(list_) # 0 => Head(list_) = list_[1]
      /\ \A i \in 1..Len(list_) : list_[i].sim_time \in Nat /\ list_[i].sim_time >= now
  BY ListFacts DEF Following, Shape
<1>2. Now => type_ # "real" /\ Len(list_) = 1
  <2>. SUFFICES ASSUME Now PROVE type_ # "real" /\ Len(list_) = 1
    OBVIOUS
  <2>1. type_ # "real" /\ ~(Len(list_) > 1) /\ list_ # <<>>
    BY DEF Overtakes, Now
  <2>. QED  BY <1>1, <2>1
<1>3. Len(list_) # 2
  <2>. SUFFICES ASSUME Len(list_) = 2 PROVE FALSE
    OBVIOUS
  <2>1. Now
    BY <1>1 DEF Now, Following, Pending
  <2>. QED  BY <1>2, <2>1
<1>4. Len(list_) \in {0, 1}
  BY <1>1, <1>3
<1>5. Len(list_) = 0 => list_ = <<>> /\ ~Now
  BY <1>1 DEF Now
<1>6. Len(list_) = 1 => list_ # <<>> /\ Head(list_) = list_[1]
  BY <1>1
<1>7. clean_pulse_events_ = IF Now THEN list_ ELSE <<>>
  <2>. DEFINE I == {i \in 1..Len(list_) : list_[i].sim_time <= now}
              due == IF I # {} THEN Min(I) ELSE 0
  <2>1. clean_pulse_events_ = IF due = 0 THEN <<>> ELSE SubSeq(list_, due, Len(list_))
    <3>1. due = SelectInSeq(list_, LAMBDA e : e.sim_time <= now)
      BY DEF SelectInSeq
    <3>. HIDE DEF due
    <3>. QED  BY <3>1, Zenon DEF clean_pulse_events_
  <2>2. CASE Now
    <3>1. Len(list_) = 1 /\ list_[1].sim_time = now
      BY <1>2, <1>6, <2>2 DEF Now
    <3>2. I = {1}
      BY <3>1, <1>1
    <3>3. Min({1}) = 1
      BY DEF Min
    <3>4. due = 1
      <4>. HIDE DEF I
      <4>. QED  BY <3>2, <3>3
    <3>5. SubSeq(list_, 1, Len(list_)) = list_
      BY <1>1
    <3>. HIDE DEF due
    <3>. QED  BY <2>1, <2>2, <3>4, <3>5
  <2>3. CASE ~Now
    <3>1. \A i \in 1..Len(list_) : i = 1 /\ list_[1].sim_time # now
      <4>1. CASE Len(list_) = 0
        BY <4>1
      <4>2. CASE Len(list_) = 1
        <5>1. list_[1].sim_time # now
          BY <4>2, <1>6, <2>3 DEF Now
        <5>2. \A i \in 1..1 : i = 1
          OBVIOUS
        <5>. QED  BY <4>2, <5>1, <5>2
      <4>. QED  BY <1>4, <4>1, <4>2
    <3>2. \A i \in 1..Len(list_) : list_[i].sim_time >= now /\ list_[i].sim_time \in Nat
      BY <1>1
    <3>3. I = {}
      BY <3>1, <3>2, <1>1
    <3>. QED  BY <2>1, <2>3, <3>3
  <2>. QED  BY <2>2, <2>3
<1>. QED  BY <1>2, <1>4, <1>5, <1>6, <1>7

\* What the module path does with a value that it receives takes no run away.
LEMMA PathReceives ==
    ASSUME Shape, NEW q \in Seq(RunType), NEW bit \in Vec4, path_recv(bit, q)
    PROVE  /\ queue' \in Seq(RunType)
           /\ path_cur' \in Vec4 \cup {<<>>}
           /\ \A t : /\ HasRun(q, t) => HasRun(queue', t)
                     /\ HasTwo(q, t) => HasTwo(queue', t)
<1>1. CASE queue' = q /\ UNCHANGED path_cur
  BY <1>1 DEF Shape
<1>2. CASE /\ queue' = Append(q, Run("path", now + PathDelay(path_cur, bit)))
           /\ path_cur' = bit
  <2>1. PICK r \in RunType : r = Run("path", now + PathDelay(path_cur, bit))
    <3>1. PathDelay(path_cur, bit) \in Nat /\ now \in Nat
      BY PathTakes DEF Shape
    <3>2. now + PathDelay(path_cur, bit) \in Nat
      BY <3>1
    <3>. QED  BY <3>2 DEF Run, RunType
  <2>2. queue' = Append(q, r) /\ path_cur' = bit
    BY <1>2, <2>1
  <2>. QED  BY <2>2, RunJoins
<1>. QED  BY <1>1, <1>2 DEF path_recv

\* What a change is measured from.
From == IF Now /\ ~initial_ THEN list_[1].value ELSE cur

\* The four things recv does.
LEMMA ReceiveCases ==
    ASSUME Following, ~Overtakes, NEW bit \in Vec4, recv(bit)
    PROVE  LET wait == TimeOf(type_, delay_, From, bit)
               kept == IF Now THEN list_ ELSE <<>>
           IN \/ /\ Len(list_) = 1 /\ list_[1].value = bit
                 /\ UNCHANGED <<list_, cur, initial_, queue, path_cur>>
              \/ /\ Len(list_) = 1 => list_[1].value # bit
                 /\ ~Now /\ type_ = "real" /\ cur = bit /\ list_' = <<>>
                 /\ UNCHANGED <<cur, initial_, queue, path_cur>>
              \/ /\ Len(list_) = 1 => list_[1].value # bit
                 /\ ~Now /\ wait = 0 /\ list_' = <<>>
                 /\ cur' = bit /\ initial_' = FALSE /\ path_recv(bit, queue)
              \/ /\ Len(list_) = 1 => list_[1].value # bit
                 /\ type_ = "real" => cur # bit
                 /\ ~Now => wait # 0
                 /\ list_' = Append(kept, Event(now + wait, bit))
                 /\ queue' = Append(queue, Run("delay", now + wait))
                 /\ UNCHANGED <<cur, initial_, path_cur>>
<1>. DEFINE wait == TimeOf(type_, delay_, From, bit)
            kept == IF Now THEN list_ ELSE <<>>
<1>1. /\ Len(list_) \in {0, 1}
      /\ Now => type_ # "real" /\ Len(list_) = 1
      /\ Len(list_) = 0 => list_ = <<>> /\ ~Now
      /\ Len(list_) = 1 => list_ # <<>> /\ Head(list_) = list_[1]
      /\ clean_pulse_events_ = kept
  BY PendingFacts
<1>2. Reference = From
  BY <1>1 DEF Reference, From, Now
<1>3. ChangeDelay(delay_, Reference, bit) = wait
  BY <1>2 DEF ChangeDelay, TimeOf
<1>4. Skips(bit) <=> Len(list_) = 1 /\ list_[1].value = bit
  BY <1>1 DEF Skips
<1>5. kept = <<>> <=> ~Now
  BY <1>1
<1>. HIDE DEF wait
<1>6. \/ Skips(bit) /\ UNCHANGED <<list_, cur, initial_, queue, path_cur>>
      \/ /\ ~Skips(bit) /\ type_ = "real" /\ cur = bit
         /\ list_' = kept /\ UNCHANGED <<cur, initial_, queue, path_cur>>
      \/ /\ ~Skips(bit) /\ ~(type_ = "real" /\ cur = bit) /\ wait = 0 /\ kept = <<>>
         /\ list_' = kept /\ send(bit, queue)
      \/ /\ ~Skips(bit) /\ ~(type_ = "real" /\ cur = bit) /\ ~(wait = 0 /\ kept = <<>>)
         /\ list_' = Append(kept, Event(now + wait, bit))
         /\ queue' = Append(queue, Run("delay", now + wait))
         /\ UNCHANGED <<cur, initial_, path_cur>>
  <2>. HIDE DEF kept
  <2>. QED  BY <1>1, <1>3 DEF recv
<1>7. CASE Skips(bit) /\ UNCHANGED <<list_, cur, initial_, queue, path_cur>>
  BY <1>4, <1>7
<1>8. CASE /\ ~Skips(bit) /\ type_ = "real" /\ cur = bit
           /\ list_' = kept /\ UNCHANGED <<cur, initial_, queue, path_cur>>
  BY <1>1, <1>4, <1>8
<1>9. CASE /\ ~Skips(bit) /\ ~(type_ = "real" /\ cur = bit) /\ wait = 0 /\ kept = <<>>
           /\ list_' = kept /\ send(bit, queue)
  BY <1>4, <1>5, <1>9 DEF send, wait
<1>10. CASE /\ ~Skips(bit) /\ ~(type_ = "real" /\ cur = bit) /\ ~(wait = 0 /\ kept = <<>>)
            /\ list_' = Append(kept, Event(now + wait, bit))
            /\ queue' = Append(queue, Run("delay", now + wait))
            /\ UNCHANGED <<cur, initial_, path_cur>>
  BY <1>4, <1>5, <1>10 DEF wait
<1>. QED  BY <1>6, <1>7, <1>8, <1>9, <1>10

-----------------------------------------------------------------------------
(* Every step keeps the invariant, and puts out nothing but what stands.   *)

\* What PulsesRejected says of a step.
OneDelayLater ==
    cur' # cur =>
       \E i \in 1..Len(held') :
          /\ held'[i].value = cur'
          /\ i = 2 => held'[1].time = now
          /\ now = held'[i].time
                    + ChangeDelay(held'[i].delay, IF held'[i].first THEN X ELSE cur, cur')

\* The values the input was driven to last.
LEMMA HeldFacts ==
    ASSUME Shape
    PROVE  /\ held[1] \in HeldType /\ Head(held) = held[1] /\ input = held[1].value
           /\ \A h \in HeldType : /\ <<h, held[1]>> \in Seq(HeldType)
                                  /\ Len(<<h, held[1]>>) = 2
                                  /\ <<h, held[1]>>[1] = h /\ <<h, held[1]>>[2] = held[1]
           /\ Len(held) = 2 => held[2] \in HeldType
<1>1. held \in Seq(HeldType) /\ Len(held) \in {1, 2}
  BY DEF Shape
<1>2. held[1] \in HeldType /\ Head(held) = held[1] /\ (Len(held) = 2 => held[2] \in HeldType)
  BY <1>1
<1>. QED  BY <1>2 DEF input

\* The input is driven to the value it has.
LEMMA DriveSame ==
    ASSUME DelayInv, ~Overtakes, NEW bit \in Inputs, Drive(bit), bit = input
    PROVE  DelayInv' /\ cur' = cur
<1>1. /\ Following /\ recv(bit) /\ held' = held /\ bit \in Vec4
      /\ UNCHANGED <<now, type_, delay_, wake_time>>
  BY InputsAssumption DEF Drive, srcVars, DelayInv, Following, Traced
<1>2. /\ Len(list_) \in {0, 1}
      /\ Len(list_) = 0 => list_ = <<>> /\ ~Now
  BY <1>1, PendingFacts
<1>3. bit = held[1].value
  BY HeldFacts DEF DelayInv
<1>4. Shape /\ Pending /\ Served /\ Traced /\ cur \in Vec4 /\ delay_ \in DelaySet
  BY DEF DelayInv, Shape
<1>5. CASE Len(list_) = 1
  <2>1. list_[1].value = bit
    BY <1>3, <1>4, <1>5 DEF Traced, Followed, Stands
  <2>2. UNCHANGED <<list_, cur, initial_, queue, path_cur>>
    BY <1>1, <1>5, <2>1, ReceiveCases
  <2>. QED  BY <1>1, <2>2 DEF DelayInv, Shape, Pending, Served, Traced, Followed
<1>6. CASE Len(list_) = 0
  <2>1. cur = bit /\ list_ = <<>> /\ ~Now /\ Len(list_) # 1
    BY <1>2, <1>3, <1>4, <1>6 DEF Traced, Followed
  <2>2. From = cur
    BY <2>1 DEF From
  <2>3. type_ # "real" => TimeOf(type_, delay_, From, bit) = 0
    BY <2>1, <2>2, <1>4, ChangeTakes
  <2>4. /\ list_' = <<>> /\ cur' = cur
        /\ \/ UNCHANGED <<initial_, queue, path_cur>>
           \/ initial_' = FALSE /\ path_recv(bit, queue)
    BY <1>1, <2>1, <2>3, ReceiveCases
  <2>5. /\ queue' \in Seq(RunType) /\ path_cur' \in Vec4 \cup {<<>>} /\ initial_' \in BOOLEAN
        /\ initial_' => initial_
    <3>1. queue \in Seq(RunType)
      BY <1>4 DEF Shape
    <3>2. CASE UNCHANGED <<initial_, queue, path_cur>>
      BY <1>4, <3>1, <3>2 DEF Shape
    <3>3. CASE initial_' = FALSE /\ path_recv(bit, queue)
      BY <1>1, <1>4, <3>1, <3>3, PathReceives
    <3>. QED  BY <2>4, <3>2, <3>3
  <2>6. Len(list_') = 0 /\ list_' \in Seq(EventType) /\ DOMAIN list_' = {}
    BY <2>4
  <2>7. Shape'
    BY <1>1, <1>4, <2>4, <2>5, <2>6 DEF Shape
  <2>8. Pending' /\ Served'
    BY <2>6 DEF Pending, Served
  <2>9. Traced'
    BY <1>1, <1>4, <1>6, <2>4, <2>5, <2>6 DEF Traced, Followed
  <2>. QED  BY <2>4, <2>7, <2>8, <2>9 DEF DelayInv
<1>. QED  BY <1>2, <1>5, <1>6

\* What the history keeps of an input with a new value.
LEMMA DriveHolds ==
    ASSUME Shape, NEW bit \in Vec4, held' = <<[value |-> bit, time |-> now, delay |-> delay_,
                                  first |-> initial_], Head(held)>>
    PROVE  /\ held' \in Seq(HeldType) /\ Len(held') = 2
           /\ held'[1].value = bit /\ held'[1].time = now
           /\ held'[1].delay = delay_ /\ held'[1].first = initial_
           /\ held'[2] = held[1]
<1>1. PICK h \in HeldType : h = [value |-> bit, time |-> now, delay |-> delay_,
                                 first |-> initial_]
  BY DEF Shape, HeldType
<1>2. held' = <<h, held[1]>>
  BY <1>1, HeldFacts
<1>. QED  BY <1>1, <1>2, HeldFacts

\* A new value that is put out at once: it takes no time.
LEMMA DriveSent ==
    ASSUME Following, NEW bit \in Vec4, ~Now,
           UNCHANGED <<now, type_, delay_, wake_time>>,
           held' = <<[value |-> bit, time |-> now, delay |-> delay_,
                      first |-> initial_], Head(held)>>,
           list_' = <<>>, cur' = bit,
           \/ cur = bit /\ UNCHANGED <<initial_, queue, path_cur>>
           \/ /\ TimeOf(type_, delay_, From, bit) = 0
              /\ initial_' = FALSE /\ path_recv(bit, queue)
    PROVE  DelayInv' /\ OneDelayLater
<1>1. Shape /\ queue \in Seq(RunType) /\ now \in Nat
  BY DEF Following, Shape
<1>2. /\ held' \in Seq(HeldType) /\ Len(held') = 2
      /\ held'[1].value = bit /\ held'[1].time = now
      /\ held'[1].delay = delay_ /\ held'[1].first = initial_
  BY <1>1, DriveHolds
<1>3. Len(list_') = 0 /\ list_' \in Seq(EventType) /\ DOMAIN list_' = {}
  OBVIOUS
<1>4. /\ queue' \in Seq(RunType) /\ path_cur' \in Vec4 \cup {<<>>}
      /\ initial_' \in BOOLEAN
      /\ initial_' => cur' = X
  <2>1. CASE cur = bit /\ UNCHANGED <<initial_, queue, path_cur>>
    BY <1>1, <2>1 DEF Shape
  <2>2. CASE initial_' = FALSE /\ path_recv(bit, queue)
    BY <1>1, <2>2, PathReceives
  <2>. QED  BY <2>1, <2>2
<1>5. Shape'
  BY <1>1, <1>2, <1>3, <1>4 DEF Shape
<1>6. Pending' /\ Served'
  BY <1>3 DEF Pending, Served
<1>7. Traced'
  BY <1>2, <1>3, <1>4 DEF Traced, Followed
<1>8. ASSUME cur' # cur PROVE OneDelayLater
  <2>1. From = cur /\ (initial_ => cur = X)
    BY <1>1 DEF From, Shape
  <2>2. TimeOf(type_, delay_, IF initial_ THEN X ELSE cur, bit) = 0
    BY <1>8, <2>1
  <2>3. ChangeDelay(held'[1].delay, IF held'[1].first THEN X ELSE cur, cur') = 0
    BY <1>2, <2>2 DEF ChangeDelay, TimeOf
  <2>4. now = held'[1].time
                + ChangeDelay(held'[1].delay, IF held'[1].first THEN X ELSE cur, cur')
    <3>. HIDE DEF ChangeDelay
    <3>. QED  BY <1>1, <1>2, <2>3
  <2>5. 1 \in 1..Len(held')
    BY <1>2
  <2>. QED  BY <1>2, <2>4, <2>5 DEF OneDelayLater
<1>. QED  BY <1>5, <1>6, <1>7, <1>8 DEF DelayInv, OneDelayLater

\* What sequences of one or two elements consist of.
LEMMA ShortParts ==
    ASSUME NEW T, NEW s \in Seq(T)
    PROVE  /\ Len(s) = 1 => s[1] \in T /\ s = <<s[1]>>
           /\ Len(s) = 2 => s[1] \in T /\ s[2] \in T /\ s = <<s[1], s[2]>>
<1>1. \A i \in 1..Len(s) : s[i] \in T
  OBVIOUS
<1>. QED  BY <1>1

\* A second element is appended.
LEMMA AppendTwo == ASSUME NEW a, NEW b PROVE Append(<<a>>, b) = <<a, b>>
<1>1. PICK s \in Seq({a, b}) : s = <<a>> /\ Len(s) = 1 /\ s[1] = a
  <2>1. <<a>> \in Seq({a, b}) /\ Len(<<a>>) = 1 /\ <<a>>[1] = a
    OBVIOUS
  <2>. QED  BY <2>1, Zenon
<1>2. PICK p \in Seq({a, b}) : p = Append(s, b)
  <2>1. Append(s, b) \in Seq({a, b})
    OBVIOUS
  <2>. QED  BY <2>1, Zenon
<1>3. Len(p) = 2 /\ p[1] = a /\ p[2] = b
  BY <1>1, <1>2
<1>4. p = <<p[1], p[2]>>
  BY <1>3, ShortParts
<1>. QED  BY <1>1, <1>2, <1>3, <1>4

\* Without the first of two the second is left.
LEMMA TailTwo == ASSUME NEW a, NEW b PROVE Tail(<<a, b>>) = <<b>>
  OBVIOUS

\* Sequences of one or two elements.
LEMMA ShortSequence ==
    ASSUME NEW T, NEW a \in T, NEW b \in T
    PROVE  /\ <<a>> \in Seq(T) /\ Len(<<a>>) = 1 /\ DOMAIN <<a>> = {1} /\ <<a>>[1] = a
           /\ <<a, b>> \in Seq(T) /\ Len(<<a, b>>) = 2 /\ DOMAIN <<a, b>> = {1, 2}
           /\ <<a, b>>[1] = a /\ <<a, b>>[2] = b
           /\ Append(<<>>, a) = <<a>> /\ Append(<<a>>, b) = <<a, b>>
           /\ Head(<<a>>) = a /\ Tail(<<a>>) = <<>>
           /\ Head(<<a, b>>) = a /\ Tail(<<a, b>>) = <<b>>
<1>1. /\ <<a>> \in Seq(T) /\ Len(<<a>>) = 1 /\ <<a>>[1] = a
      /\ <<a, b>> \in Seq(T) /\ Len(<<a, b>>) = 2
      /\ <<a, b>>[1] = a /\ <<a, b>>[2] = b
  OBVIOUS
<1>2. DOMAIN <<a>> = {1} /\ DOMAIN <<a, b>> = {1, 2}
  OBVIOUS
<1>3. Append(<<>>, a) = <<a>>
  OBVIOUS
<1>4. Append(<<a>>, b) = <<a, b>>
  BY AppendTwo, Zenon
<1>5. Head(<<a>>) = a /\ Head(<<a, b>>) = a
  OBVIOUS
<1>6. Tail(<<a>>) = <<>>
  OBVIOUS
<1>7. Tail(<<a, b>>) = <<b>>
  BY TailTwo, Zenon
<1>. QED  BY <1>1, <1>2, <1>3, <1>4, <1>5, <1>6, <1>7

\* A new value that becomes pending: what is due stays ahead of it.
LEMMA DrivePends ==
    ASSUME Following, ~Overtakes, NEW bit \in Vec4,
           UNCHANGED <<now, type_, delay_, wake_time>>,
           held' = <<[value |-> bit, time |-> now, delay |-> delay_,
                      first |-> initial_], Head(held)>>,
           NEW wait, wait = TimeOf(type_, delay_, From, bit),
           list_' = Append(IF Now THEN list_ ELSE <<>>, Event(now + wait, bit)),
           queue' = Append(queue, Run("delay", now + wait)),
           UNCHANGED <<cur, initial_, path_cur>>
    PROVE  DelayInv'
<1>1. /\ Shape /\ Pending /\ Served /\ Followed /\ queue \in Seq(RunType) /\ now \in Nat
      /\ delay_ \in DelaySet /\ cur \in Vec4 /\ initial_ \in BOOLEAN
      /\ initial_ => cur = X
  BY DEF Following, Shape
<1>2. /\ Len(list_) \in {0, 1}
      /\ Now => Len(list_) = 1
      /\ Len(list_) = 1 => Head(list_) = list_[1]
  BY PendingFacts
<1>3. /\ held' \in Seq(HeldType) /\ Len(held') = 2
      /\ held'[1].value = bit /\ held'[1].time = now
      /\ held'[1].delay = delay_ /\ held'[1].first = initial_
      /\ held'[2] = held[1]
  BY <1>1, DriveHolds
<1>4. Len(list_) = 1 => /\ list_[1] \in EventType /\ list_[1].value \in Vec4
                        /\ list_ = <<list_[1]>>
  <2>1. list_ \in Seq(EventType)
    BY <1>1 DEF Shape
  <2>2. Len(list_) = 1 => list_[1] \in EventType /\ list_ = <<list_[1]>>
    BY <2>1, ShortParts
  <2>. QED  BY <2>2 DEF EventType
<1>5. From \in Vec4 /\ From = IF Now /\ ~initial_ THEN list_[1].value ELSE cur
  BY <1>1, <1>2, <1>4 DEF From
<1>6. wait \in Nat
  BY <1>1, <1>5, ChangeTakes
<1>7. PICK t \in Nat : t = now + wait /\ t >= now
  BY <1>1, <1>6
<1>8. PICK e \in EventType : e = Event(t, bit) /\ e.sim_time = t /\ e.value = bit
  <2>1. Event(t, bit) \in EventType /\ Event(t, bit).sim_time = t /\ Event(t, bit).value = bit
    BY DEF Event, EventType
  <2>. QED  BY <2>1
<1>9. PICK r \in RunType : r = Run("delay", t)
  BY DEF Run, RunType
<1>10. /\ queue' = Append(queue, r) /\ queue' \in Seq(RunType) /\ HasRun(queue', t)
       /\ \A u : /\ HasRun(queue, u) => HasRun(queue', u)
                 /\ HasRun(queue, u) /\ u = t => HasTwo(queue', u)
  <2>1. queue' = Append(queue, r)
    BY <1>7, <1>9
  <2>. QED  BY <1>1, <1>9, <2>1, RunJoins
<1>11. Stands(type_', e, held'[1], From)
  <2>1. TimeOf(type_, delay_, IF initial_ THEN X ELSE From, bit) = wait
    BY <1>1, <1>5
  <2>. QED  BY <1>3, <1>7, <1>8, <2>1 DEF Stands
<1>12. CASE Now
  <2>1. PICK a \in EventType : /\ list_ = <<a>> /\ a = list_[1] /\ a.sim_time = now
                               /\ Len(list_) = 1
    BY <1>2, <1>4, <1>12 DEF Now
  <2>2. list_' = <<a, e>>
    <3>1. list_' = Append(<<a>>, e)
      BY <1>7, <1>8, <1>12, <2>1
    <3>. QED  BY <3>1, AppendTwo, Zenon
  <2>3. /\ list_' \in Seq(EventType) /\ Len(list_') = 2 /\ DOMAIN list_' = {1, 2}
        /\ list_'[1] = a /\ list_'[2] = e
    <3>1. /\ <<a, e>> \in Seq(EventType) /\ Len(<<a, e>>) = 2 /\ DOMAIN <<a, e>> = {1, 2}
          /\ <<a, e>>[1] = a /\ <<a, e>>[2] = e
      BY ShortSequence
    <3>. QED  BY <2>2, <3>1, Zenon
  <2>4. Shape'
    BY <1>1, <1>3, <1>10, <2>3 DEF Shape
  <2>5. Pending'
    BY <1>1, <1>7, <1>8, <2>1, <2>3 DEF Pending
  <2>6. HasRun(queue, a.sim_time)
    BY <1>1, <2>1 DEF Served
  <2>7. Served'
    BY <1>8, <1>10, <2>3, <2>6 DEF Served
  <2>8. Stands(type_, a, held[1], cur)
    BY <1>1, <2>1 DEF Followed
  <2>9. From = IF initial_ THEN X ELSE a.value
    BY <1>1, <1>5, <1>12, <2>1
  <2>10. Stands(type_', e, held'[1], a.value)
    <3>1. (IF held'[1].first THEN X ELSE a.value) = (IF held'[1].first THEN X ELSE From)
      BY <1>3, <2>9
    <3>. QED  BY <1>11, <3>1 DEF Stands
  <2>11. Traced'
    BY <1>1, <1>3, <2>1, <2>3, <2>8, <2>10 DEF Traced, Followed
  <2>. QED  BY <2>4, <2>5, <2>7, <2>11 DEF DelayInv
<1>13. CASE ~Now
  <2>1. list_' = <<e>> /\ From = cur
    <3>1. list_' = Append(<<>>, e)
      BY <1>7, <1>8, <1>13
    <3>. QED  BY <1>5, <1>13, <3>1, ShortSequence
  <2>2. /\ list_' \in Seq(EventType) /\ Len(list_') = 1 /\ DOMAIN list_' = {1}
        /\ list_'[1] = e
    BY <2>1, ShortSequence
  <2>3. Shape'
    BY <1>1, <1>3, <1>10, <2>2 DEF Shape
  <2>4. Pending'
    BY <1>7, <1>8, <2>2 DEF Pending
  <2>5. Served'
    BY <1>8, <1>10, <2>2 DEF Served
  <2>6. Traced'
    BY <1>1, <1>11, <2>1, <2>2 DEF Traced, Followed
  <2>. QED  BY <2>3, <2>4, <2>5, <2>6 DEF DelayInv
<1>. QED  BY <1>12, <1>13

\* The environment drives the input.
LEMMA DriveKeeps ==
    ASSUME Following, ~Overtakes, NEW bit \in Inputs, Drive(bit),
           DelayInv \/ Afresh(bit)
    PROVE  DelayInv' /\ OneDelayLater
<1>1. /\ recv(bit) /\ bit \in Vec4
      /\ UNCHANGED <<now, type_, delay_, wake_time>>
  BY InputsAssumption DEF Drive, srcVars
<1>2. CASE bit = input
  BY <1>2, DriveSame DEF OneDelayLater, Afresh
<1>3. CASE bit # input
  <2>1. held' = <<[value |-> bit, time |-> now, delay |-> delay_,
                   first |-> initial_], Head(held)>>
    BY <1>3 DEF Drive
  <2>2. ~(Len(list_) = 1 /\ list_[1].value = bit)
    BY <1>3, HeldFacts DEF Following, Followed, Stands
  <2>. DEFINE wait == TimeOf(type_, delay_, From, bit)
              kept == IF Now THEN list_ ELSE <<>>
  <2>3. \/ /\ ~Now /\ cur = bit /\ list_' = <<>>
           /\ UNCHANGED <<cur, initial_, queue, path_cur>>
        \/ /\ ~Now /\ wait = 0 /\ list_' = <<>>
           /\ cur' = bit /\ initial_' = FALSE /\ path_recv(bit, queue)
        \/ /\ list_' = Append(kept, Event(now + wait, bit))
           /\ queue' = Append(queue, Run("delay", now + wait))
           /\ UNCHANGED <<cur, initial_, path_cur>>
    BY <1>1, <2>2, ReceiveCases
  <2>4. CASE /\ ~Now /\ cur = bit /\ list_' = <<>>
             /\ UNCHANGED <<cur, initial_, queue, path_cur>>
    BY <1>1, <2>1, <2>4, DriveSent
  <2>5. CASE /\ ~Now /\ wait = 0 /\ list_' = <<>>
             /\ cur' = bit /\ initial_' = FALSE /\ path_recv(bit, queue)
    BY <1>1, <2>1, <2>5, DriveSent
  <2>6. CASE /\ list_' = Append(kept, Event(now + wait, bit))
             /\ queue' = Append(queue, Run("delay", now + wait))
             /\ UNCHANGED <<cur, initial_, path_cur>>
    <3>1. PICK w : w = wait
      OBVIOUS
    <3>. HIDE DEF wait
    <3>2. w = TimeOf(type_, delay_, From, bit)
      BY <3>1 DEF wait
    <3>3. DelayInv'
      BY <1>1, <2>1, <2>6, <3>1, <3>2, DrivePends
    <3>. QED  BY <2>6, <3>3 DEF OneDelayLater
  <2>. QED  BY <2>3, <2>4, <2>5, <2>6
<1>. QED  BY <1>2, <1>3

\* Two pending values or none of this time run: time may pass.
LEMMA AdvanceKeeps ==
    ASSUME DelayInv, Advance
    PROVE  DelayInv' /\ OneDelayLater
<1>1. /\ Due = 0 /\ now' = now + 1
      /\ UNCHANGED <<queue, type_, delay_, initial_, list_, cur, path_cur, wake_time, held>>
  BY DEF Advance, delayVars, pathVars, srcVars, history
<1>2. /\ Shape /\ Pending /\ Served /\ Traced /\ queue \in Seq(RunType) /\ now \in Nat
  BY DEF DelayInv, Shape
<1>3. \A j \in DOMAIN queue : queue[j].time # now
  BY <1>1, <1>2, DueFirst
<1>4. \A t \in Nat : HasRun(queue, t) => t # now
  BY <1>3 DEF HasRun, Run
<1>5. /\ DOMAIN list_ = 1..Len(list_) /\ Len(list_) \in {0, 1, 2}
      /\ \A i \in 1..Len(list_) : list_[i].sim_time \in Nat /\ list_[i].sim_time >= now
  BY <1>2, ListFacts
<1>6. \A i \in 1..Len(list_) : list_[i].sim_time # now
  BY <1>2, <1>4, <1>5 DEF Served
<1>7. Len(list_) \in {0, 1}
  <2>. SUFFICES ASSUME Len(list_) = 2 PROVE FALSE
    BY <1>5
  <2>. QED  BY <1>2, <1>6 DEF Pending
<1>8. \A i \in 1..Len(list_) : list_[i].sim_time >= now + 1
  BY <1>2, <1>5, <1>6
<1>9. Shape' /\ Served'
  BY <1>1, <1>2 DEF Shape, Served
<1>10. Pending'
  BY <1>1, <1>5, <1>7, <1>8 DEF Pending
<1>11. Traced'
  BY <1>1, <1>2, <1>7 DEF Traced, Followed
<1>. QED  BY <1>1, <1>9, <1>10, <1>11 DEF DelayInv, OneDelayLater

\* The module path puts its value out.
LEMMA RunPathKeeps ==
    ASSUME DelayInv, RunPath
    PROVE  DelayInv' /\ OneDelayLater
<1>1. /\ Due # 0 /\ queue[Due].who = "path" /\ queue' = RemoveAt(queue, Due)
      /\ UNCHANGED <<now, type_, delay_, initial_, list_, cur, path_cur, wake_time, held>>
  BY DEF RunPath, delayVars, srcVars, history
<1>2. /\ Shape /\ Pending /\ Served /\ Traced /\ queue \in Seq(RunType)
  BY DEF DelayInv, Shape
<1>3. PICK d \in DOMAIN queue : d = Due
  BY <1>1, <1>2, DueFirst
<1>4. \A t : queue[d] # Run("delay", t)
  BY <1>1, <1>3 DEF Run
<1>5. queue' \in Seq(RunType)
  BY <1>1, <1>2, <1>3, RemoveAtFacts
<1>6. \A t : /\ HasRun(queue, t) => HasRun(queue', t)
             /\ HasTwo(queue, t) => HasTwo(queue', t)
  BY <1>1, <1>2, <1>3, <1>4, OtherRunGoes
<1>7. Shape'
  BY <1>1, <1>2, <1>5 DEF Shape
<1>8. Served'
  BY <1>1, <1>2, <1>6 DEF Served
<1>9. Pending' /\ Traced'
  BY <1>1, <1>2 DEF Pending, Traced, Followed
<1>. QED  BY <1>1, <1>7, <1>8, <1>9 DEF DelayInv, OneDelayLater

\* A run of the delay functor whose value is not due, or was deleted.
LEMMA RunDelayIdle ==
    ASSUME DelayInv, Due # 0,
           list_ = <<>> \/ Head(list_).sim_time > now,
           queue' = RemoveAt(queue, Due),
           UNCHANGED <<now, type_, delay_, initial_, list_, cur, path_cur, wake_time, held>>
    PROVE  DelayInv'
<1>1. /\ Shape /\ Pending /\ Served /\ Traced /\ queue \in Seq(RunType) /\ now \in Nat
  BY DEF DelayInv, Shape
<1>2. PICK d \in DOMAIN queue : d = Due /\ queue[d].time = now
  BY <1>1, DueFirst
<1>3. /\ DOMAIN list_ = 1..Len(list_) /\ Len(list_) \in {0, 1, 2}
      /\ Len(list_) = 0 <=> list_ = <<>>
      /\ Len(list_) # 0 => Head(list_) = list_[1]
  BY <1>1, ListFacts
<1>4. Len(list_) \in {0, 1}
  <2>. SUFFICES ASSUME Len(list_) = 2 PROVE FALSE
    BY <1>3
  <2>. QED  BY <1>1, <1>3 DEF Pending
<1>5. \A i \in DOMAIN list_ : i = 1 /\ list_[1].sim_time > now
  <2>1. CASE Len(list_) = 0
    BY <1>3, <2>1
  <2>2. CASE Len(list_) = 1
    <3>1. list_[1].sim_time > now /\ DOMAIN list_ = {1}
      BY <1>3, <2>2
    <3>. QED  BY <3>1
  <2>. QED  BY <1>4, <2>1, <2>2
<1>6. queue' \in Seq(RunType)
  BY <1>1, <1>2, RemoveAtFacts
<1>7. \A i \in DOMAIN list_ : HasRun(queue', list_[i].sim_time)
  <2>. SUFFICES ASSUME NEW i \in DOMAIN list_ PROVE HasRun(queue', list_[i].sim_time)
    OBVIOUS
  <2>1. PICK t \in Nat : t = list_[i].sim_time /\ t > now
    BY <1>1, <1>3, <1>5, ListFacts
  <2>2. HasRun(queue, t)
    BY <1>1, <2>1 DEF Served
  <2>3. queue[d] # Run("delay", t)
    BY <1>1, <1>2, <2>1 DEF Run
  <2>. QED  BY <1>1, <1>2, <2>1, <2>2, <2>3, OtherRunGoes
<1>8. Shape'
  BY <1>1, <1>6 DEF Shape
<1>9. Served'
  BY <1>4, <1>7 DEF Served
<1>10. Pending' /\ Traced'
  BY <1>1 DEF Pending, Traced, Followed
<1>. QED  BY <1>8, <1>9, <1>10 DEF DelayInv

\* The only pending value is put out.
LEMMA SendsLast ==
    ASSUME DelayInv, Len(list_) = 1, list_[1].sim_time = now,
           list_' = <<>>, cur' = list_[1].value, initial_' = FALSE,
           queue' \in Seq(RunType), path_cur' \in Vec4 \cup {<<>>},
           UNCHANGED <<now, type_, delay_, wake_time, held>>
    PROVE  DelayInv' /\ OneDelayLater
<1>1. /\ Shape /\ Pending /\ Served /\ Traced /\ now \in Nat /\ list_[1].value \in Vec4
  BY ListFacts DEF DelayInv, Shape
<1>2. Len(list_') = 0 /\ DOMAIN list_' = {} /\ list_' \in Seq(EventType)
  OBVIOUS
<1>3. Stands(type_, list_[1], held[1], cur)
  BY <1>1 DEF Traced, Followed
<1>4. Shape'
  BY <1>1, <1>2 DEF Shape
<1>5. Pending' /\ Served'
  BY <1>2 DEF Pending, Served
<1>6. Traced'
  BY <1>2, <1>3 DEF Traced, Followed, Stands
<1>7. 1 \in 1..Len(held') /\ held' = held
  <2>1. Len(held') \in {1, 2}
    BY <1>1 DEF Shape
  <2>2. \A n \in {1, 2} : 1 \in 1..n
    OBVIOUS
  <2>. QED  BY <2>1, <2>2
<1>8. OneDelayLater
  <2>1. /\ held'[1].value = cur'
        /\ now = held'[1].time
                  + ChangeDelay(held'[1].delay, IF held'[1].first THEN X ELSE cur, cur')
    BY <1>3, <1>7 DEF Stands, ChangeDelay, TimeOf
  <2>. QED  BY <1>7, <2>1 DEF OneDelayLater
<1>. QED  BY <1>4, <1>5, <1>6, <1>8 DEF DelayInv

\* The older of two pending values is put out.
LEMMA SendsFirst ==
    ASSUME DelayInv, Len(list_) = 2, list_[1].sim_time = now,
           list_' = <<list_[2]>>, cur' = list_[1].value, initial_' = FALSE,
           queue' \in Seq(RunType), path_cur' \in Vec4 \cup {<<>>},
           HasRun(queue', list_[2].sim_time),
           UNCHANGED <<now, type_, delay_, wake_time, held>>
    PROVE  DelayInv' /\ OneDelayLater
<1>1. /\ Shape /\ Pending /\ Served /\ Traced /\ now \in Nat /\ list_[1].value \in Vec4
      /\ list_[2] \in EventType /\ list_[2].sim_time >= now
  BY ListFacts DEF DelayInv, Shape
<1>2. PICK e \in EventType : e = list_[2]
  BY <1>1
<1>3. /\ Len(list_') = 1 /\ DOMAIN list_' = {1} /\ list_'[1] = e
      /\ list_' \in Seq(EventType)
  BY <1>2, ShortSequence
<1>4. /\ Stands(type_, list_[1], held[2], cur)
      /\ Stands(type_, e, held[1], list_[1].value)
      /\ Len(held) = 2 /\ held[1].time = now
  BY <1>1, <1>2 DEF Traced, Followed
<1>5. Shape'
  BY <1>1, <1>3 DEF Shape
<1>6. Pending' /\ Served'
  BY <1>1, <1>2, <1>3 DEF Pending, Served
<1>7. Traced'
  BY <1>3, <1>4 DEF Traced, Followed
<1>8. 2 \in 1..Len(held') /\ held' = held
  BY <1>4
<1>9. OneDelayLater
  BY <1>4, <1>8 DEF OneDelayLater, Stands, ChangeDelay, TimeOf
<1>. QED  BY <1>5, <1>6, <1>7, <1>9 DEF DelayInv

\* A run of the delay functor that puts out the oldest value.
LEMMA RunDelaySends ==
    ASSUME DelayInv, Due # 0, list_ # <<>>, ~(Head(list_).sim_time > now),
           list_' = Tail(list_), send(Head(list_).value, RemoveAt(queue, Due)),
           UNCHANGED <<now, type_, delay_, wake_time, held>>
    PROVE  DelayInv' /\ OneDelayLater
<1>1. /\ Shape /\ Pending /\ Served /\ queue \in Seq(RunType) /\ now \in Nat
      /\ list_ \in Seq(EventType)
  BY DEF DelayInv, Shape
<1>2. PICK d \in DOMAIN queue : d = Due
  BY <1>1, DueFirst
<1>3. PICK q \in Seq(RunType) : q = RemoveAt(queue, d)
  BY <1>1, RemoveAtFacts
<1>4. /\ Len(list_) \in {1, 2} /\ Head(list_) = list_[1]
      /\ list_[1].value \in Vec4 /\ list_[1].sim_time \in Nat
      /\ list_[1].sim_time >= now
      /\ DOMAIN list_ = 1..Len(list_)
  <2>1. Len(list_) \in {1, 2} /\ Head(list_) = list_[1] /\ DOMAIN list_ = 1..Len(list_)
    BY <1>1, ListFacts
  <2>2. 1 \in 1..Len(list_)
    BY <2>1
  <2>. QED  BY <1>1, <2>1, <2>2, ListFacts
<1>5. list_[1].sim_time = now
  BY <1>1, <1>4
<1>6. PICK v \in Vec4 : v = list_[1].value
  BY <1>4
<1>7. cur' = v /\ initial_' = FALSE /\ path_recv(v, q)
  BY <1>2, <1>3, <1>4, <1>6 DEF send
<1>8. /\ queue' \in Seq(RunType) /\ path_cur' \in Vec4 \cup {<<>>}
      /\ \A t : HasRun(q, t) => HasRun(queue', t)
  BY <1>1, <1>3, <1>7, PathReceives
<1>9. CASE Len(list_) = 1
  <2>1. list_' = <<>>
    BY <1>1, <1>9
  <2>. QED  BY <1>5, <1>6, <1>7, <1>8, <1>9, <2>1, SendsLast
<1>10. CASE Len(list_) = 2
  <2>1. PICK e \in EventType : e = list_[2]
    BY <1>1, <1>10, ShortParts
  <2>2. list_' = <<list_[2]>>
    <3>1. list_ = <<list_[1], list_[2]>>
      BY <1>1, <1>10, ShortParts
    <3>. QED  BY <3>1, TailTwo, Zenon
  <2>3. PICK t \in Nat : t = e.sim_time
    BY DEF EventType
  <2>4. HasRun(q, t)
    <3>1. CASE t = now
      <4>1. HasTwo(queue, t)
        BY <1>1, <1>5, <1>10, <2>1, <2>3, <3>1 DEF Served
      <4>. QED  BY <1>1, <1>3, <4>1, OneOfTwoGoes
    <3>2. CASE t # now
      <4>1. queue[d] # Run("delay", t)
        BY <1>1, <1>2, <3>2, DueFirst DEF Run
      <4>2. 2 \in DOMAIN list_
        BY <1>4, <1>10
      <4>3. HasRun(queue, t)
        BY <1>1, <2>1, <2>3, <4>2 DEF Served
      <4>. QED  BY <1>1, <1>3, <4>1, <4>3, OtherRunGoes
    <3>. QED  BY <3>1, <3>2
  <2>5. HasRun(queue', list_[2].sim_time)
    BY <1>8, <2>1, <2>3, <2>4
  <2>. QED  BY <1>5, <1>6, <1>7, <1>8, <1>10, <2>2, <2>5, SendsFirst
<1>. QED  BY <1>4, <1>9, <1>10

\* Steps that only concern the delays, the path inputs or the path conditions.
LEMMA OtherKeeps ==
    ASSUME DelayInv, delay_' \in DelaySet, wake_time' \in [1..Len(Paths) -> Nat],
           UNCHANGED <<now, queue, type_, initial_, list_, cur, path_cur, held>>
    PROVE  DelayInv' /\ OneDelayLater
<1>1. Shape' /\ Pending' /\ Served' /\ Traced'
  BY DEF DelayInv, Shape, Pending, Served, Traced, Followed
<1>. QED  BY <1>1 DEF DelayInv, OneDelayLater

\* Action by action.
LEMMA DelayInvStep ==
    ASSUME IInv, ~overtaken', [Next]_vars
    PROVE  DelayInv' /\ OneDelayLater
<1>0. /\ delay_ \in DelaySet /\ wake_time \in [1..Len(Paths) -> Nat] /\ now \in Nat
      /\ Shape /\ (~overtaken => DelayInv)
  BY DEF IInv, Shape
<1>1. ASSUME NEW v \in Inputs, Drive(v) PROVE DelayInv' /\ OneDelayLater
  <2>1. ~Overtakes /\ (~overtaken \/ Afresh(v))
    BY <1>1 DEF Drive
  <2>2. CASE ~overtaken
    <3>1. DelayInv /\ Following
      BY <1>0, <2>2 DEF DelayInv, Following, Traced
    <3>. QED  BY <1>1, <2>1, <3>1, DriveKeeps
  <2>3. CASE Afresh(v)
    <3>1. Following
      BY <1>0, <2>3 DEF Following, Pending, Served, Followed, Afresh
    <3>. QED  BY <1>1, <2>1, <2>3, <3>1, DriveKeeps
  <2>. QED  BY <2>1, <2>2, <2>3
<1>. DEFINE Quiet == overtaken' = overtaken
<1>9. Quiet => DelayInv
  BY <1>0
<1>2. ASSUME NEW which \in {"rise", "fall", "decay"}, NEW val \in Settings,
             SetDelay(which, val)
      PROVE  DelayInv' /\ OneDelayLater
  <2>1. delay_' \in DelaySet
    BY <1>0, <1>2, DelaysAssumption DEF SetDelay, DelaySet
  <2>2. DelayInv
    BY <1>2, <1>9 DEF SetDelay, history
  <2>. QED  BY <1>0, <1>2, <2>1, <2>2, OtherKeeps DEF SetDelay, pathVars, srcVars, history
<1>3. ASSUME NEW p \in 1..Len(Paths), NEW b \in {"0", "1"}, PathInput(p, b)
      PROVE  DelayInv' /\ OneDelayLater
  <2>1. wake_time' \in [1..Len(Paths) -> Nat]
    BY <1>0, <1>3 DEF PathInput
  <2>2. DelayInv
    BY <1>3, <1>9 DEF PathInput, history
  <2>. QED  BY <1>0, <1>3, <2>1, <2>2, OtherKeeps DEF PathInput, pathVars, delayVars, history
<1>4. ASSUME NEW p \in 1..Len(Paths), NEW b \in {"0", "1"}, PathCondition(p, b)
      PROVE  DelayInv' /\ OneDelayLater
  <2>1. DelayInv
    BY <1>4, <1>9 DEF PathCondition, history
  <2>. QED  BY <1>0, <1>4, <2>1, OtherKeeps DEF PathCondition, pathVars, delayVars, history
<1>5. CASE RunDelay
  <2>0. DelayInv
    BY <1>5, <1>9 DEF RunDelay, history
  <2>1. CASE list_ = <<>> \/ Head(list_).sim_time > now
    <3>1. /\ Due # 0 /\ queue' = RemoveAt(queue, Due)
          /\ UNCHANGED <<now, type_, delay_, initial_, list_, cur, path_cur, wake_time, held>>
      BY <1>5, <2>1 DEF RunDelay, srcVars, history
    <3>2. DelayInv'
      BY <2>0, <2>1, <3>1, RunDelayIdle
    <3>. QED  BY <3>1, <3>2 DEF OneDelayLater
  <2>2. CASE ~(list_ = <<>> \/ Head(list_).sim_time > now)
    <3>1. /\ Due # 0 /\ list_' = Tail(list_)
          /\ send(Head(list_).value, RemoveAt(queue, Due))
          /\ UNCHANGED <<now, type_, delay_, wake_time, held>>
      BY <1>5, <2>2 DEF RunDelay, srcVars, history
    <3>. QED  BY <2>0, <2>2, <3>1, RunDelaySends
  <2>. QED  BY <2>1, <2>2
<1>6. CASE RunPath
  <2>1. DelayInv
    BY <1>6, <1>9 DEF RunPath, history
  <2>. QED  BY <1>6, <2>1, RunPathKeeps
<1>7. CASE Advance
  <2>1. DelayInv
    BY <1>7, <1>9 DEF Advance, history
  <2>. QED  BY <1>7, <2>1, AdvanceKeeps
<1>8. CASE UNCHANGED vars
  <2>1. DelayInv
    BY <1>8, <1>9 DEF vars, history
  <2>. QED  BY <1>0, <1>8, <2>1, OtherKeeps DEF vars, delayVars, pathVars, srcVars, history
<1>. QED  BY <1>1, <1>2, <1>3, <1>4, <1>5, <1>6, <1>7, <1>8 DEF Next, Environment, Scheduler

-----------------------------------------------------------------------------
(* Whatever was overtaken, everything keeps its type.                      *)

\* The pending values that are left, and what a change is measured from.
LEMMA PendingShape ==
    ASSUME Shape
    PROVE  clean_pulse_events_ \in Seq(EventType) /\ Reference \in Vec4
<1>1. list_ \in Seq(EventType) /\ cur \in Vec4
  BY DEF Shape
<1>2. PICK due : due = SelectInSeq(list_, LAMBDA e : e.sim_time <= now)
  OBVIOUS
<1>3. due # 0 => due \in 1..Len(list_)
  <2>. DEFINE I == {i \in 1..Len(list_) : list_[i].sim_time <= now}
  <2>1. due = IF I # {} THEN Min(I) ELSE 0
    BY <1>2 DEF SelectInSeq
  <2>2. I \in SUBSET Nat /\ I \subseteq 1..Len(list_)
    OBVIOUS
  <2>. HIDE DEF I
  <2>. QED  BY <2>1, <2>2, MinIsLeast
<1>4. clean_pulse_events_ = IF due = 0 THEN <<>> ELSE SubSeq(list_, due, Len(list_))
  BY <1>2, Zenon DEF clean_pulse_events_
<1>5. clean_pulse_events_ \in Seq(EventType)
  BY <1>1, <1>3, <1>4
<1>6. list_ # <<>> => Head(list_).value \in Vec4
  <2>1. list_ # <<>> => Head(list_) \in EventType
    BY <1>1
  <2>. QED  BY <2>1 DEF EventType
<1>. QED  BY <1>1, <1>5, <1>6 DEF Reference

\* The input is driven.
LEMMA DriveShape ==
    ASSUME Shape, NEW bit \in Inputs, Drive(bit)
    PROVE  Shape'
<1>1. /\ recv(bit) /\ bit \in Vec4
      /\ UNCHANGED <<now, type_, delay_, wake_time>>
  BY InputsAssumption DEF Drive, srcVars
<1>2. held' \in Seq(HeldType) /\ Len(held') \in {1, 2}
  <2>1. CASE bit = input
    BY <2>1 DEF Drive, Shape
  <2>2. CASE bit # input
    BY <1>1, <2>2, DriveHolds DEF Drive
  <2>. QED  BY <2>1, <2>2
<1>3. PICK wait \in Nat, kept \in Seq(EventType) :
        wait = ChangeDelay(delay_, Reference, bit) /\ kept = clean_pulse_events_
  <2>1. TimeOf(type_, delay_, Reference, bit) \in Nat
    BY <1>1, PendingShape, ChangeTakes DEF Shape
  <2>2. ChangeDelay(delay_, Reference, bit) = TimeOf(type_, delay_, Reference, bit)
    BY DEF ChangeDelay, TimeOf
  <2>. QED  BY <2>1, <2>2, PendingShape
<1>4. \/ UNCHANGED <<list_, cur, initial_, queue, path_cur>>
      \/ list_' = kept /\ UNCHANGED <<cur, initial_, queue, path_cur>>
      \/ list_' = kept /\ send(bit, queue)
      \/ /\ list_' = Append(kept, Event(now + wait, bit))
         /\ queue' = Append(queue, Run("delay", now + wait))
         /\ UNCHANGED <<cur, initial_, path_cur>>
  BY <1>1, <1>3, Zenon DEF recv
<1>5. CASE UNCHANGED <<list_, cur, initial_, queue, path_cur>>
  BY <1>1, <1>2, <1>5 DEF Shape
<1>6. CASE list_' = kept /\ UNCHANGED <<cur, initial_, queue, path_cur>>
  BY <1>1, <1>2, <1>6 DEF Shape
<1>7. CASE list_' = kept /\ send(bit, queue)
  <2>1. queue \in Seq(RunType)
    BY DEF Shape
  <2>2. /\ cur' = bit /\ initial_' = FALSE
        /\ queue' \in Seq(RunType) /\ path_cur' \in Vec4 \cup {<<>>}
    BY <1>1, <1>7, <2>1, PathReceives DEF send
  <2>. QED  BY <1>1, <1>2, <1>7, <2>2 DEF Shape
<1>8. CASE /\ list_' = Append(kept, Event(now + wait, bit))
           /\ queue' = Append(queue, Run("delay", now + wait))
           /\ UNCHANGED <<cur, initial_, path_cur>>
  <2>1. now + wait \in Nat
    BY DEF Shape
  <2>2. Event(now + wait, bit) \in EventType /\ Run("delay", now + wait) \in RunType
    BY <1>1, <2>1 DEF Event, EventType, Run, RunType
  <2>3. list_' \in Seq(EventType) /\ queue' \in Seq(RunType)
    BY <1>8, <2>2 DEF Shape
  <2>. QED  BY <1>1, <1>2, <1>8, <2>3 DEF Shape
<1>. QED  BY <1>4, <1>5, <1>6, <1>7, <1>8

\* A run of the delay functor.
LEMMA RunDelayShape ==
    ASSUME Shape, RunDelay
    PROVE  Shape'
<1>1. UNCHANGED <<now, type_, delay_, wake_time, held>> /\ Due # 0
  BY DEF RunDelay, srcVars, history
<1>2. PICK q \in Seq(RunType) : q = RemoveAt(queue, Due)
  <2>1. queue \in Seq(RunType)
    BY DEF Shape
  <2>2. Due \in DOMAIN queue
    BY <1>1, <2>1, DueFirst
  <2>. QED  BY <2>1, <2>2, RemoveAtFacts
<1>3. CASE queue' = q /\ UNCHANGED <<list_, cur, initial_, path_cur>>
  BY <1>1, <1>3 DEF Shape
<1>4. CASE list_ # <<>> /\ list_' = Tail(list_) /\ send(Head(list_).value, q)
  <2>1. Head(list_) \in EventType /\ Tail(list_) \in Seq(EventType)
    BY <1>4 DEF Shape
  <2>2. Head(list_).value \in Vec4
    BY <2>1 DEF EventType
  <2>3. /\ cur' = Head(list_).value /\ initial_' = FALSE
        /\ queue' \in Seq(RunType) /\ path_cur' \in Vec4 \cup {<<>>}
    BY <1>4, <2>2, PathReceives DEF send
  <2>. QED  BY <1>1, <1>4, <2>1, <2>2, <2>3 DEF Shape
<1>. QED  BY <1>2, <1>3, <1>4 DEF RunDelay

\* Action by action.
LEMMA ShapeStep ==
    ASSUME Shape, [Next]_vars
    PROVE  Shape'
<1>1. CASE \E v \in Inputs : Drive(v)
  BY <1>1, DriveShape
<1>2. ASSUME NEW which \in {"rise", "fall", "decay"}, NEW val \in Settings,
             SetDelay(which, val)
      PROVE  Shape'
  <2>1. delay_' \in DelaySet
    BY <1>2, DelaysAssumption DEF SetDelay, DelaySet, Shape
  <2>. QED  BY <1>2, <2>1 DEF SetDelay, Shape, pathVars, srcVars, history
<1>3. ASSUME NEW p \in 1..Len(Paths), NEW b \in {"0", "1"}, PathInput(p, b)
      PROVE  Shape'
  <2>1. wake_time' \in [1..Len(Paths) -> Nat]
    BY <1>3 DEF PathInput, Shape
  <2>. QED  BY <1>3, <2>1 DEF PathInput, Shape, pathVars, delayVars, history
<1>4. ASSUME NEW p \in 1..Len(Paths), NEW b \in {"0", "1"}, PathCondition(p, b)
      PROVE  Shape'
  BY <1>4 DEF PathCondition, Shape, pathVars, delayVars, history
<1>5. CASE RunDelay
  BY <1>5, RunDelayShape
<1>6. CASE RunPath
  <2>1. queue \in Seq(RunType)
    BY DEF Shape
  <2>2. queue' \in Seq(RunType)
    BY <1>6, <2>1, DueFirst, RemoveAtFacts DEF RunPath
  <2>. QED  BY <1>6, <2>2 DEF RunPath, Shape, delayVars, srcVars, history
<1>7. CASE Advance
  BY <1>7 DEF Advance, Shape, delayVars, pathVars, srcVars, history
<1>8. CASE UNCHANGED vars
  BY <1>8 DEF vars, Shape, delayVars, pathVars, srcVars, history
<1>. QED  BY <1>1, <1>2, <1>3, <1>4, <1>5, <1>6, <1>7, <1>8 DEF Next, Environment, Scheduler

-----------------------------------------------------------------------------
(* The theorems.                                                           *)

\* What will be put out once all that is pending has run is what the input was
\* driven to last, unless an input came in between the moment a value was due
\* and its run while another was pending: from then on, until an input finds
\* nothing pending, the code may drop what comes (delay.cc:167-171).
THEOREM NewestIsKept == Spec => []NewestIsInput
<1>1. Init => IInv
  BY DelayInvInit DEF IInv, DelayInv
<1>2. IInv /\ [Next]_vars => IInv'
  BY DelayInvStep, ShapeStep DEF IInv
<1>3. IInv => NewestIsInput
  <2>. SUFFICES ASSUME DelayInv PROVE NewestIsInput
    BY DEF IInv, NewestIsInput
  <2>1. /\ Len(list_) \in {0, 1, 2} /\ (Len(list_) = 0 <=> list_ = <<>>)
        /\ input = held[1].value
    BY ListFacts, HeldFacts DEF DelayInv
  <2>. QED  BY <2>1 DEF DelayInv, Traced, Followed, Stands, NewestIsInput, Last
<1>. QED  BY <1>1, <1>2, <1>3, PTL DEF Spec

\* The output changes to nothing but a value its input took and has kept for
\* exactly the delay of this change; a value that lasted less is never seen.
\* This too is of inputs that overtake no value that is due.
THEOREM ShortPulsesRejected == Spec => PulsesRejected
<1>1. Init => IInv
  BY DelayInvInit DEF IInv, DelayInv
<1>2. IInv /\ [Next]_vars => IInv'
  BY DelayInvStep, ShapeStep DEF IInv
<1>3. IInv /\ [Next]_vars => [~overtaken' => OneDelayLater]_vars
  BY DelayInvStep
<1>4. [~overtaken' => OneDelayLater]_vars =>
        [cur' # cur /\ ~overtaken' =>
           \E i \in 1..Len(held') :
              /\ held'[i].value = cur'
              /\ i = 2 => held'[1].time = now
              /\ now = held'[i].time
                        + ChangeDelay(held'[i].delay, IF held'[i].first THEN X ELSE cur, cur')
          ]_vars
  BY DEF OneDelayLater
<1>. QED  BY <1>1, <1>2, <1>3, <1>4, PTL DEF Spec, PulsesRejected
=============================================================================
