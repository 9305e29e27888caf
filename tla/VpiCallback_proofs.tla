-------------------------- MODULE VpiCallback_proofs --------------------------
(***************************************************************************)
(* Callbacks are held where they belong, walks find their lists as they    *)
(* left them and every change is seen, for any number of objects, words,   *)
(* callbacks, changes and removals.                                        *)
(***************************************************************************)
EXTENDS VpiCallback, FiniteSetTheorems, SequenceTheorems, WellFoundedInduction, TLAPS

-----------------------------------------------------------------------------
(* The inductive invariant.                                                *)

Lists == Objects \union Phases
AnyList == Lists \union Syncs
AnyWord == {"all"} \union UNION {Words[o] : o \in Objects}
Modes == {"NONE", "RWSYNC", "ROSYNC"}
Handles == 0..MaxCallbacks

Cell == [state : {"unused", "live", "freed"}, rtn : BOOLEAN, next : Handles,
         list : AnyList \union {"none"}, word : AnyWord, due : Nat,
         seen : {<<>>} \union UNION {[Words[o] -> Nat] : o \in Objects}]

Frame == [list : AnyList, word : AnyWord, cur : Handles, next : Handles,
          prev : Handles, mode : Modes]

Typed ==
    /\ callback \in [Callbacks -> Cell]
    /\ \A c \in Callbacks : Live(c) => callback[c].list \in AnyList
    /\ \A c \in Callbacks : \A o \in Objects :
          Live(c) /\ callback[c].list = o => callback[c].seen \in [Words[o] -> Nat]
    /\ first \in [Lists -> Handles]
    /\ agenda \in Seq(Callbacks)
    /\ now \in Nat
    /\ stack \in Seq(Frame)
    /\ vpi_mode_flag \in Modes
    /\ DOMAIN version = Objects
    /\ \A o \in Objects : version[o] \in [Words[o] -> Nat]

\* The callback for a phase or a time that has control at the bottom of the stack.
Called == IF stack # <<>> /\ stack[Len(stack)].list \notin Objects
          THEN stack[Len(stack)].cur ELSE 0

\* c waits in list l.
In(c, l) == c \in Callbacks /\ Live(c) /\ callback[c].list = l /\ c # Called

\* A list leads from each callback in it to the next older one.
Linked(l) ==
    /\ first[l] # 0 => In(first[l], l)
    /\ \A d \in Callbacks : In(d, l) => d <= first[l]
    /\ \A c \in Callbacks : In(c, l) /\ callback[c].next # 0 =>
          In(callback[c].next, l) /\ callback[c].next < c
    /\ \A c, d \in Callbacks : In(c, l) /\ In(d, l) /\ d < c => d <= callback[c].next

ListsLinked == \A l \in Lists : Linked(l)

\* Cells are handed out in their order.
InOrder == \A c, d \in Callbacks :
              callback[c].state = "unused" /\ callback[d].state # "unused" => d < c

OnAgenda ==
    /\ \A i, j \in 1..Len(agenda) : agenda[i] = agenda[j] => i = j
    /\ \A i \in 1..Len(agenda) : \E l \in Syncs : In(agenda[i], l)
    /\ \A c \in Callbacks : \A l \in Syncs : In(c, l) =>
          \E i \in 1..Len(agenda) : agenda[i] = c

\* A routine called for a phase or a time.
CallOk(f) ==
    /\ f.list \in Phases \union Syncs
    /\ f.cur \in Callbacks /\ Live(f.cur) /\ callback[f.cur].list = f.list
    /\ f.list \in Phases => pc = f.list
    /\ f.list \in Syncs => pc \in {"start", "loop"}

\* Above the outermost call there are walks, and a routine has control in each
\* but the innermost one.
Piled == \A i \in 1..Len(stack) :
            /\ i < Len(stack) => stack[i].list \in Objects
            /\ i > 1 => stack[i].cur # 0
            /\ stack[i].list \notin Objects => CallOk(stack[i])

\* What a walk goes on with is what comes after the callback it was at.
WalkOk(f) ==
    /\ f.word \in Words[f.list]
    /\ f.cur # 0 => In(f.cur, f.list) /\ callback[f.cur].next = f.next
    /\ f.cur = 0 /\ f.prev # 0 => In(f.prev, f.list) /\ callback[f.prev].next = f.next
    /\ f.cur = 0 /\ f.prev = 0 => first[f.list] = f.next

WalksOk == \A i \in 1..Len(stack) : stack[i].list \in Objects => WalkOk(stack[i])

\* The mode while a routine called for l has control, and while none has.
ModeIn(l) == IF l \in {"ReadOnlySynch", "EndOfSimulation"} THEN "ROSYNC"
             ELSE IF l = "NextSimTime" THEN "NONE" ELSE "RWSYNC"
ModeOut == IF pc \in Phases THEN ModeIn(pc) ELSE "NONE"
ModeUnder(i) == IF i < Len(stack) THEN ModeIn(stack[i + 1].list) ELSE ModeOut

ModesOk ==
    /\ stack = <<>> => vpi_mode_flag = ModeOut
    /\ stack # <<>> =>
          vpi_mode_flag = IF stack[1].cur # 0 THEN ModeIn(stack[1].list) ELSE ModeUnder(1)
    /\ \A i \in 1..Len(stack) :
          stack[i].list \in Objects /\ stack[i].cur # 0 => stack[i].mode = ModeUnder(i)

\* A callback has the latest value, or a walk will come by.
Coming(c, o, w) == \E i \in 1..Len(stack) :
                      stack[i].list = o /\ stack[i].word = w /\ c <= stack[i].next

UpToDate == \A c \in Callbacks : \A o \in Objects :
               Live(c) /\ callback[c].rtn /\ callback[c].list = o =>
                  \A w \in Words[o] : Watches(c, w) =>
                     callback[c].seen[w] = version[o][w] \/ Coming(c, o, w)

CallbackInv == /\ Typed /\ ListsLinked /\ InOrder /\ OnAgenda /\ Piled
               /\ WalksOk /\ ModesOk /\ UpToDate

-----------------------------------------------------------------------------
(* Lists that are linked hold what waits in them.                          *)

\* Every set of numbers that is not empty has a least one.
LEMMA LeastNumber ==
    ASSUME NEW T \in SUBSET Nat, T # {}
    PROVE  \E x \in T : \A y \in T : x <= y
<1>1. PICK x \in T : \A y \in T : ~(<<y, x>> \in OpToRel(<, Nat))
  BY NatLessThanWellFounded, WFMin
<1>2. \A y \in T : ~(y < x)
  BY <1>1 DEF OpToRel
<1>. QED  BY <1>2

\* A set with 0 and with the successor of each of its numbers has them all.
LEMMA SetInduction ==
    ASSUME NEW S \in SUBSET Nat, 0 \in S, \A n \in S : n + 1 \in S
    PROVE  S = Nat
<1>. SUFFICES ASSUME S # Nat PROVE FALSE
  OBVIOUS
<1>1. PICK x \in Nat \ S : \A y \in Nat \ S : x <= y
  BY LeastNumber
<1>2. x # 0 /\ x - 1 \in Nat
  BY <1>1
<1>3. x - 1 \in S
  BY <1>1, <1>2
<1>. QED  BY <1>1, <1>3

\* The cells reached from the head of a list, step by step.
LEMMA ChainDefined ==
    ASSUME NEW l
    PROVE  Chain(l) = [n \in 0..MaxCallbacks |->
              IF n = 0 THEN first[l]
              ELSE IF Chain(l)[n - 1] = 0 THEN 0 ELSE callback[Chain(l)[n - 1]].next]
<1>. DEFINE After(x) == IF x = 0 THEN 0 ELSE callback[x].next
            Leads(f, n) == f = [k \in 0..n |-> IF k = 0 THEN first[l] ELSE After(f[k - 1])]
            S == {n \in Nat : \E f : Leads(f, n)}
<1>1. 0 \in S
  <2>1. Leads([k \in 0..0 |-> first[l]], 0)
    OBVIOUS
  <2>. QED  BY <2>1
<1>2. ASSUME NEW n \in S PROVE n + 1 \in S
  <2>0. n \in Nat
    OBVIOUS
  <2>1. PICK f : Leads(f, n)
    BY <1>2
  <2>. HIDE DEF After
  <2>. DEFINE g == [k \in 0..(n + 1) |-> IF k <= n THEN f[k] ELSE After(f[n])]
  <2>2. ASSUME NEW k \in 0..(n + 1)
        PROVE  g[k] = IF k = 0 THEN first[l] ELSE After(g[k - 1])
    <3>1. CASE k <= n
      <4>1. k \in 0..n
        BY <2>0, <3>1
      <4>2. f[k] = IF k = 0 THEN first[l] ELSE After(f[k - 1])
        BY <2>1, <4>1
      <4>3. g[k] = f[k]
        BY <3>1
      <4>4. k # 0 => g[k - 1] = f[k - 1]
        BY <2>0, <3>1
      <4>. HIDE DEF g
      <4>. QED  BY <4>2, <4>3, <4>4
    <3>2. CASE k = n + 1
      <4>1. g[k] = After(f[n])
        BY <2>0, <3>2
      <4>2. g[k - 1] = f[n] /\ k # 0
        BY <2>0, <3>2
      <4>. HIDE DEF g
      <4>. QED  BY <4>1, <4>2
    <3>. QED  BY <2>0, <3>1, <3>2
  <2>3. Leads(g, n + 1)
    <3>1. g = [k \in 0..(n + 1) |-> g[k]]
      OBVIOUS
    <3>. HIDE DEF g
    <3>. QED  BY <2>2, <3>1
  <2>. HIDE DEF g, Leads
  <2>. QED  BY <2>0, <2>3
<1>3. S = Nat
  <2>. HIDE DEF S
  <2>1. S \in SUBSET Nat
    BY DEF S
  <2>. QED  BY <1>1, <1>2, <2>1, SetInduction
<1>4. \E f : Leads(f, MaxCallbacks)
  BY <1>3, BoundsAssumption
<1>. QED  BY <1>4 DEF Chain

\* One step from a cell of the list to the next.
LEMMA ChainStep ==
    ASSUME NEW l
    PROVE  /\ Chain(l)[0] = first[l]
           /\ \A n \in 1..MaxCallbacks :
                 Chain(l)[n] = IF Chain(l)[n - 1] = 0 THEN 0
                               ELSE callback[Chain(l)[n - 1]].next
<1>. DEFINE at == Chain(l)
<1>1. at = [n \in 0..MaxCallbacks |->
              IF n = 0 THEN first[l] ELSE IF at[n - 1] = 0 THEN 0 ELSE callback[at[n - 1]].next]
  BY ChainDefined
<1>. HIDE DEF at
<1>2. at[0] = first[l]
  BY <1>1, BoundsAssumption
<1>3. ASSUME NEW n \in 1..MaxCallbacks
      PROVE  at[n] = IF at[n - 1] = 0 THEN 0 ELSE callback[at[n - 1]].next
  <2>1. n \in 0..MaxCallbacks /\ n # 0
    OBVIOUS
  <2>. QED  BY <1>1, <2>1
<1>. QED  BY <1>2, <1>3 DEF at

\* Whatever is reached waits in the list, each step leads to an older cell, and
\* what waits in the list was reached or is still to come.
LEMMA ChainReaches ==
    ASSUME NEW l \in Lists, Typed, Linked(l)
    PROVE  \A n \in 0..MaxCallbacks :
              /\ Chain(l)[n] # 0 => In(Chain(l)[n], l)
              /\ Chain(l)[n] \in Nat /\ Chain(l)[n] <= MaxCallbacks - n
              /\ \A d \in Callbacks : In(d, l) =>
                    d <= Chain(l)[n] \/ \E m \in 0..n : Chain(l)[m] = d
<1>. DEFINE at == Chain(l)
            Ok(n) == /\ at[n] # 0 => In(at[n], l)
                     /\ at[n] \in Nat /\ at[n] <= MaxCallbacks - n
                     /\ \A d \in Callbacks : In(d, l) =>
                           d <= at[n] \/ \E m \in 0..n : at[m] = d
            S == {n \in Nat : n <= MaxCallbacks => Ok(n)}
<1>1. at[0] = first[l]
  BY ChainStep
<1>2. \A n \in 1..MaxCallbacks : at[n] = IF at[n - 1] = 0 THEN 0 ELSE callback[at[n - 1]].next
  BY ChainStep
<1>3. first[l] \in Handles
  BY DEF Typed
<1>. HIDE DEF at
<1>4. 0 \in S
  BY <1>1, <1>3, BoundsAssumption DEF Linked, Handles
<1>5. ASSUME NEW n \in S PROVE n + 1 \in S
  <2>. SUFFICES ASSUME n + 1 <= MaxCallbacks PROVE Ok(n + 1)
    OBVIOUS
  <2>1. n \in Nat /\ Ok(n)
    BY BoundsAssumption
  <2>2. n + 1 \in 1..MaxCallbacks /\ (n + 1) - 1 = n
    BY <2>1, BoundsAssumption
  <2>3. at[n + 1] = IF at[n] = 0 THEN 0 ELSE callback[at[n]].next
    BY <1>2, <2>2
  <2>4. CASE at[n] = 0
    <3>1. at[n + 1] = 0
      BY <2>3, <2>4
    <3>2. \A d \in Callbacks : In(d, l) => \E m \in 0..(n + 1) : at[m] = d
      <4>1. \A d \in Callbacks : In(d, l) => \E m \in 0..n : at[m] = d
        BY <2>1, <2>4 DEF Callbacks
      <4>. QED  BY <2>1, <4>1
    <3>3. 0 <= MaxCallbacks - (n + 1)
      BY <2>1, BoundsAssumption
    <3>. QED  BY <3>1, <3>2, <3>3
  <2>5. CASE at[n] # 0
    <3>1. In(at[n], l) /\ at[n] \in Callbacks
      BY <2>1, <2>5 DEF In
    <3>2. at[n + 1] = callback[at[n]].next
      BY <2>3, <2>5
    <3>3. at[n + 1] # 0 => In(at[n + 1], l) /\ at[n + 1] < at[n]
      BY <3>1, <3>2 DEF Linked
    <3>4. callback[at[n]] \in Cell
      BY <3>1 DEF Typed
    <3>5. at[n + 1] \in Nat
      BY <3>2, <3>4, BoundsAssumption DEF Cell, Handles
    <3>6. at[n + 1] <= MaxCallbacks - (n + 1)
      BY <2>1, <2>2, <2>5, <3>3, <3>5, BoundsAssumption
    <3>7. ASSUME NEW d \in Callbacks, In(d, l)
          PROVE  d <= at[n + 1] \/ \E m \in 0..(n + 1) : at[m] = d
      <4>1. d < at[n] => d <= at[n + 1]
        BY <3>1, <3>2, <3>7 DEF Linked
      <4>2. d = at[n] => \E m \in 0..(n + 1) : at[m] = d
        BY <2>1
      <4>3. (\E m \in 0..n : at[m] = d) => \E m \in 0..(n + 1) : at[m] = d
        BY <2>1
      <4>4. d <= at[n] \/ \E m \in 0..n : at[m] = d
        BY <2>1, <3>7
      <4>5. d \in Nat /\ at[n] \in Nat
        BY <2>1 DEF Callbacks
      <4>. QED  BY <4>1, <4>2, <4>3, <4>4, <4>5
    <3>. QED  BY <3>3, <3>5, <3>6, <3>7
  <2>. QED  BY <2>4, <2>5
<1>6. S = Nat
  <2>. HIDE DEF S
  <2>1. S \in SUBSET Nat
    BY DEF S
  <2>. QED  BY <1>4, <1>5, <2>1, SetInduction
<1>7. \A n \in 0..MaxCallbacks : Ok(n)
  BY <1>6, BoundsAssumption
<1>. QED  BY <1>7 DEF at

\* No list of an object or a phase has the name of a time.
LEMMA ListNames ==
    /\ \A l \in Lists : l \notin Syncs
    /\ \A l \in Objects : l \notin Phases \union Syncs
  BY ObjectsAssumption DEF Lists, Phases, Syncs

\* The last frame, when it is a call, has its callback; a walk has one of an object.
LEMMA CalledLast ==
    ASSUME Typed, Piled, WalksOk, NEW c \in Callbacks, Live(c),
           callback[c].list \in Phases \union Syncs
    PROVE  (stack # <<>> /\ Last(stack).cur = c) <=> c = Called
<1>1. c # 0
  BY BoundsAssumption DEF Callbacks
<1>. SUFFICES ASSUME stack # <<>>
              PROVE  stack[Len(stack)].cur = c <=> c = Called
  BY <1>1 DEF Called, Last
<1>2. Len(stack) \in 1..Len(stack)
  BY DEF Typed
<1>3. CASE stack[Len(stack)].list \in Objects
  <2>1. Called = 0
    BY <1>3 DEF Called
  <2>2. WalkOk(stack[Len(stack)])
    BY <1>2, <1>3 DEF WalksOk
  <2>3. stack[Len(stack)].cur # c
    BY <1>1, <1>3, <2>2, ListNames DEF WalkOk, In
  <2>. QED  BY <1>1, <2>1, <2>3
<1>4. CASE stack[Len(stack)].list \notin Objects
  BY <1>4 DEF Called
<1>. QED  BY <1>3, <1>4

\* The invariant has every callback held once.
LEMMA AllHeld ==
    ASSUME CallbackInv
    PROVE  HeldOnce
<1>1. Typed /\ Piled /\ WalksOk /\ ListsLinked /\ OnAgenda
  BY DEF CallbackInv
<1>2. ASSUME NEW l \in Objects \cup Phases
      PROVE  /\ Chain(l)[MaxCallbacks] = 0
             /\ {Chain(l)[n] : n \in 0..MaxCallbacks} \ {0} =
                   {c \in Callbacks : Live(c) /\ callback[c].list = l
                       /\ ~(l \in Phases /\ stack # <<>> /\ Last(stack).cur = c)}
  <2>. DEFINE R == {Chain(l)[n] : n \in 0..MaxCallbacks} \ {0}
              H == {c \in Callbacks : Live(c) /\ callback[c].list = l
                       /\ ~(l \in Phases /\ stack # <<>> /\ Last(stack).cur = c)}
  <2>1. l \in Lists /\ Linked(l)
    BY <1>1 DEF Lists, ListsLinked
  <2>2. \A n \in 0..MaxCallbacks :
              /\ Chain(l)[n] # 0 => In(Chain(l)[n], l)
              /\ Chain(l)[n] \in Nat /\ Chain(l)[n] <= MaxCallbacks - n
              /\ \A d \in Callbacks : In(d, l) =>
                    d <= Chain(l)[n] \/ \E m \in 0..n : Chain(l)[m] = d
    BY <1>1, <2>1, ChainReaches
  <2>3. MaxCallbacks \in 0..MaxCallbacks
    BY BoundsAssumption
  <2>4. Chain(l)[MaxCallbacks] = 0
    BY <2>2, <2>3, BoundsAssumption
  <2>5. \A c : c \in H <=> In(c, l)
    <3>. SUFFICES ASSUME NEW c \in Callbacks, Live(c), callback[c].list = l
                  PROVE  ~(l \in Phases /\ stack # <<>> /\ Last(stack).cur = c) <=> c # Called
      BY DEF In
    <3>1. CASE l \in Phases
      BY <1>1, <3>1, CalledLast
    <3>2. CASE l \notin Phases
      <4>1. l \in Objects
        BY <3>2
      <4>2. c # 0
        BY BoundsAssumption DEF Callbacks
      <4>3. Called # 0 => CallOk(stack[Len(stack)]) /\ Called = stack[Len(stack)].cur
        BY <1>1 DEF Called, Piled, Typed
      <4>4. c # Called
        BY <4>1, <4>2, <4>3, ListNames DEF CallOk
      <4>. QED  BY <3>2, <4>4
    <3>. QED  BY <3>1, <3>2
  <2>6. \A c : c \in R <=> In(c, l)
    <3>1. ASSUME NEW c \in R PROVE In(c, l)
      BY <2>2
    <3>2. ASSUME NEW c, In(c, l) PROVE c \in R
      <4>1. c \in Callbacks /\ c # 0 /\ c \in Nat
        BY <3>2, BoundsAssumption DEF In, Callbacks
      <4>2. ~(c <= Chain(l)[MaxCallbacks])
        BY <2>4, <4>1
      <4>3. \E m \in 0..MaxCallbacks : Chain(l)[m] = c
        BY <2>2, <2>3, <3>2, <4>1, <4>2
      <4>. QED  BY <4>1, <4>3
    <3>. QED  BY <3>1, <3>2
  <2>7. R = H
    <3>. HIDE DEF R, H
    <3>. QED  BY <2>5, <2>6
  <2>. QED  BY <2>4, <2>7
<1>3. ASSUME NEW c \in Callbacks
      PROVE  Cardinality({i \in 1..Len(agenda) : agenda[i] = c}) =
               IF /\ Live(c) /\ callback[c].list \in Syncs
                  /\ ~(stack # <<>> /\ Last(stack).cur = c)
               THEN 1 ELSE 0
  <2>. DEFINE T == {i \in 1..Len(agenda) : agenda[i] = c}
              Waits == /\ Live(c) /\ callback[c].list \in Syncs
                       /\ ~(stack # <<>> /\ Last(stack).cur = c)
  <2>1. Waits <=> \E l \in Syncs : In(c, l)
    BY <1>1, CalledLast DEF In
  <2>2. CASE Waits
    <3>1. PICK i \in 1..Len(agenda) : agenda[i] = c
      BY <1>1, <2>1, <2>2 DEF OnAgenda
    <3>2. T = {i}
      BY <1>1, <3>1 DEF OnAgenda
    <3>3. Cardinality(T) = 1
      BY <3>2, FS_Singleton
    <3>. QED  BY <2>2, <3>3
  <2>3. CASE ~Waits
    <3>1. T = {}
      BY <1>1, <2>1, <2>3 DEF OnAgenda
    <3>2. Cardinality(T) = 0
      BY <3>1, FS_EmptySet
    <3>. QED  BY <2>3, <3>2
  <2>. QED  BY <2>2, <2>3
<1>. QED  BY <1>2, <1>3 DEF HeldOnce

\* The invariant has the assertions hold.
LEMMA AllAssertsHold ==
    ASSUME CallbackInv
    PROVE  AssertsHold
<1>1. ASSUME Walking, Top.next # 0
      PROVE  /\ Live(Top.next)
             /\ Top.prev # 0 /\ ~callback[Top.next].rtn /\ Watches(Top.next, Top.word) =>
                  Live(Top.prev) /\ callback[Top.prev].next = Top.next
  <2>1. 1 \in 1..Len(stack) /\ Top = stack[1] /\ Top.cur = 0
    BY <1>1 DEF Walking, Top, CallbackInv, Typed
  <2>2. Top.list \in Objects
    <3>1. Top.list \notin Objects => CallOk(Top)
      BY <2>1 DEF CallbackInv, Piled
    <3>. QED  BY <2>1, <3>1, BoundsAssumption DEF CallOk, Callbacks
  <2>3. WalkOk(Top) /\ Linked(Top.list)
    BY <2>1, <2>2 DEF CallbackInv, WalksOk, ListsLinked, Lists
  <2>4. CASE Top.prev # 0
    BY <1>1, <2>1, <2>3, <2>4 DEF WalkOk, Linked, In
  <2>5. CASE Top.prev = 0
    BY <1>1, <2>1, <2>3, <2>5 DEF WalkOk, Linked, In
  <2>. QED  BY <2>4, <2>5
<1>2. ASSUME stack = <<>>, pc \notin Phases PROVE vpi_mode_flag = "NONE"
  BY <1>2 DEF CallbackInv, ModesOk, ModeOut
<1>. QED  BY <1>1, <1>2 DEF AssertsHold

\* The invariant has every callback up to date when no walk is under way.
LEMMA AllSeen ==
    ASSUME CallbackInv
    PROVE  ChangesSeen
<1>. SUFFICES ASSUME stack = <<>>, NEW c \in Callbacks, Live(c), callback[c].rtn,
                     callback[c].list \in Objects, NEW w \in Words[callback[c].list],
                     Watches(c, w)
              PROVE  callback[c].seen[w] = version[callback[c].list][w]
  BY DEF ChangesSeen
<1>1. ~Coming(c, callback[c].list, w)
  BY DEF Coming
<1>. QED  BY <1>1 DEF CallbackInv, UpToDate

-----------------------------------------------------------------------------
(* What a step does to the stack.                                          *)

\* The innermost frame is replaced, one is put above it, or it is taken away.
Replaced(f) ==
    /\ stack' \in Seq(Frame) /\ Len(stack) >= 1 /\ Len(stack') = Len(stack)
    /\ stack'[1] = f /\ \A i \in 2..Len(stack) : stack'[i] = stack[i]
Pushed(f) ==
    /\ stack' \in Seq(Frame) /\ Len(stack') = Len(stack) + 1
    /\ stack'[1] = f /\ \A i \in 1..Len(stack) : stack'[i + 1] = stack[i]
Popped ==
    /\ stack' \in Seq(Frame) /\ Len(stack) >= 1 /\ Len(stack') = Len(stack) - 1
    /\ \A i \in 1..(Len(stack) - 1) : stack'[i] = stack[i + 1]

\* How the three ways in which the stack changes read, frame by frame.
LEMMA IsReplaced ==
    ASSUME stack \in Seq(Frame), stack # <<>>, NEW f \in Frame,
           stack' = <<f>> \o Tail(stack)
    PROVE  Replaced(f)
<1>1. Len(stack) \in Nat /\ Len(stack) >= 1
  OBVIOUS
<1>2. /\ Tail(stack) \in Seq(Frame) /\ Len(Tail(stack)) = Len(stack) - 1
      /\ \A i \in 1..(Len(stack) - 1) : Tail(stack)[i] = stack[i + 1]
  BY <1>1
<1>3. \A i \in 2..Len(stack) : i - 1 \in 1..(Len(stack) - 1) /\ (i - 1) + 1 = i
  BY <1>1
<1>4. \A i \in 2..Len(stack) : stack'[i] = Tail(stack)[i - 1]
  BY <1>1, <1>2
<1>. QED  BY <1>1, <1>2, <1>3, <1>4 DEF Replaced

\* A call on top of the others.
LEMMA IsPushed ==
    ASSUME stack \in Seq(Frame), NEW f \in Frame, stack' = <<f>> \o stack
    PROVE  Pushed(f)
<1>1. Len(stack) \in Nat
  OBVIOUS
<1>. QED  BY <1>1 DEF Pushed

\* The innermost call has returned.
LEMMA IsPopped ==
    ASSUME stack \in Seq(Frame), stack # <<>>, stack' = Tail(stack)
    PROVE  Popped
<1>1. Len(stack) \in Nat /\ Len(stack) >= 1
  OBVIOUS
<1>. QED  BY <1>1 DEF Popped

\* Walks come and go without a change to the call at the bottom.
LEMMA CalledReplaced ==
    ASSUME NEW f, Typed, Replaced(f), stack[1].list \in Objects, f.list \in Objects
    PROVE  Called' = Called
<1>1. Len(stack) \in Nat /\ Len(stack) \in 1..Len(stack) /\ stack # <<>> /\ stack' # <<>>
  BY DEF Typed, Replaced
<1>2. CASE Len(stack) = 1
  BY <1>1, <1>2 DEF Called, Replaced
<1>3. CASE Len(stack) # 1
  <2>1. \A n \in Nat : n >= 1 /\ n # 1 => n \in 2..n
    OBVIOUS
  <2>2. Len(stack) \in 2..Len(stack)
    BY <1>1, <1>3, <2>1 DEF Replaced
  <2>3. stack'[Len(stack')] = stack[Len(stack)]
    BY <2>2 DEF Replaced
  <2>. QED  BY <1>1, <2>3 DEF Called
<1>. QED  BY <1>2, <1>3

\* A new walk leaves the outermost call as it is.
LEMMA CalledPushed ==
    ASSUME NEW f, Typed, Pushed(f), f.list \in Objects
    PROVE  Called' = Called
<1>1. Len(stack) \in Nat /\ stack' # <<>>
  BY DEF Typed, Pushed
<1>2. CASE stack = <<>>
  BY <1>1, <1>2 DEF Called, Pushed
<1>3. CASE stack # <<>>
  <2>1. Len(stack) \in 1..Len(stack)
    BY <1>1, <1>3 DEF Typed
  <2>2. stack'[Len(stack')] = stack[Len(stack)]
    BY <2>1 DEF Pushed
  <2>. QED  BY <1>1, <1>3, <2>2 DEF Called
<1>. QED  BY <1>2, <1>3

\* So does the end of a walk.
LEMMA CalledPopped ==
    ASSUME Typed, Popped, stack[1].list \in Objects
    PROVE  Called' = Called
<1>1. Len(stack) \in Nat /\ stack # <<>>
  BY DEF Typed, Popped
<1>2. CASE Len(stack) = 1
  <2>1. stack' = <<>>
    BY <1>2 DEF Popped
  <2>. QED  BY <1>1, <1>2, <2>1 DEF Called
<1>3. CASE Len(stack) # 1
  <2>1. Len(stack) - 1 \in 1..(Len(stack) - 1) /\ stack' # <<>>
    BY <1>1, <1>3 DEF Popped
  <2>2. stack'[Len(stack')] = stack[Len(stack)]
    BY <1>1, <2>1 DEF Popped
  <2>. QED  BY <1>1, <2>1, <2>2 DEF Called
<1>. QED  BY <1>2, <1>3

\* Where routines have control in every frame, and where in all but the innermost.
LEMMA UserFrames ==
    ASSUME Typed, Piled, UserCode
    PROVE  \A i \in 1..Len(stack) : stack[i].cur # 0
<1>. SUFFICES ASSUME NEW i \in 1..Len(stack) PROVE stack[i].cur # 0
  OBVIOUS
<1>1. CASE i > 1
  BY <1>1 DEF Piled
<1>2. CASE ~(i > 1)
  <2>1. i = 1 /\ stack # <<>>
    BY <1>2 DEF Typed
  <2>. QED  BY <2>1 DEF UserCode, InRoutine, Top
<1>. QED  BY <1>1, <1>2

\* What is known of the walk that goes on.
LEMMA WalkingTop ==
    ASSUME CallbackInv, Walking
    PROVE  /\ 1 \in 1..Len(stack) /\ Top = stack[1] /\ Top \in Frame /\ stack # <<>>
           /\ Top.cur = 0 /\ Top.list \in Objects /\ Top.list \in Lists /\ Top.word \in Words[Top.list]
           /\ WalkOk(Top) /\ Linked(Top.list)
<1>1. 1 \in 1..Len(stack) /\ Top = stack[1] /\ Top \in Frame /\ stack # <<>> /\ Top.cur = 0
  BY DEF Walking, Top, CallbackInv, Typed
<1>2. Top.list \in Objects
  <2>1. Top.list \notin Objects => CallOk(Top)
    BY <1>1 DEF CallbackInv, Piled
  <2>. QED  BY <1>1, <2>1, BoundsAssumption DEF CallOk, Callbacks
<1>. QED  BY <1>1, <1>2 DEF CallbackInv, WalksOk, ListsLinked, Lists, WalkOk

\* A walk goes on with a callback of its list.
LEMMA NextIsIn ==
    ASSUME CallbackInv, Walking, Top.next # 0
    PROVE  In(Top.next, Top.list)
<1>1. Top.cur = 0 /\ WalkOk(Top) /\ Linked(Top.list)
  BY WalkingTop
<1>2. CASE Top.prev # 0
  <2>1. In(Top.prev, Top.list) /\ callback[Top.prev].next = Top.next
    BY <1>1, <1>2 DEF WalkOk
  <2>2. Top.prev \in Callbacks
    BY <2>1 DEF In
  <2>. QED  BY <1>1, <2>1, <2>2 DEF Linked
<1>3. CASE Top.prev = 0
  <2>1. first[Top.list] = Top.next
    BY <1>1, <1>3 DEF WalkOk
  <2>. QED  BY <1>1, <2>1 DEF Linked
<1>. QED  BY <1>2, <1>3

\* The callbacks of an object are in its list.
LEMMA ObjectIn ==
    ASSUME Typed, Piled, NEW c \in Callbacks, Live(c), callback[c].list \in Objects
    PROVE  In(c, callback[c].list) /\ c # Called
<1>1. Called # 0 => CallOk(stack[Len(stack)]) /\ Called = stack[Len(stack)].cur
  BY DEF Called, Piled, Typed
<1>2. c # Called
  BY <1>1, ListNames, BoundsAssumption DEF CallOk, Callbacks
<1>. QED  BY <1>2 DEF In

-----------------------------------------------------------------------------
(* What most steps leave alone.                                            *)

\* No cell begins to live or changes its list, and none outside of the lists of
\* objects dies.
Steady ==
    /\ agenda' = agenda /\ pc' = pc /\ Called' = Called
    /\ \A c \in Callbacks :
          /\ callback'[c].state = "unused" <=> callback[c].state = "unused"
          /\ Live(c)' => Live(c) /\ callback'[c].list = callback[c].list
          /\ Live(c) /\ callback[c].list \notin Objects => Live(c)'

\* The callbacks of a call that is under way stay.
CallsKept ==
    /\ pc' = pc
    /\ \A c \in Callbacks : Live(c) /\ callback[c].list \notin Objects =>
          Live(c)' /\ callback'[c].list = callback[c].list

\* Steps of that kind leave the agenda, the order of the cells and the calls alone.
LEMMA SteadyKeeps ==
    ASSUME CallbackInv, Steady
    PROVE  /\ OnAgenda' /\ InOrder'
           /\ \A c \in Callbacks, l \in Phases \union Syncs : In(c, l)' <=> In(c, l)
           /\ CallsKept
<1>1. InOrder'
  BY DEF InOrder, Steady, CallbackInv
<1>2. \A c \in Callbacks, l \in Phases \union Syncs : In(c, l)' <=> In(c, l)
  BY ListNames DEF Steady, In
<1>3. OnAgenda'
  <2>1. agenda' = agenda /\ OnAgenda /\ \A i \in 1..Len(agenda) : agenda[i] \in Callbacks
    BY DEF Steady, CallbackInv, Typed
  <2>. QED  BY <1>2, <2>1 DEF OnAgenda
<1>4. CallsKept
  BY DEF CallsKept, Steady
<1>. QED  BY <1>1, <1>2, <1>3, <1>4

\* The list of l is as it was.
Untouched(l) ==
    /\ first'[l] = first[l]
    /\ \A c \in Callbacks : In(c, l)' <=> In(c, l)
    /\ \A c \in Callbacks : In(c, l) => callback'[c].next = callback[c].next

\* A list that is not touched stays linked,
LEMMA UntouchedLinked ==
    ASSUME NEW l, Linked(l), Untouched(l)
    PROVE  Linked(l)'
<1>1. \A c : In(c, l)' <=> In(c, l)
  BY DEF In, Untouched
<1>2. \A c : In(c, l) => c \in Callbacks
  BY DEF In
<1>. QED  BY <1>1, <1>2 DEF Linked, Untouched

\* and a walk over it stays right.
LEMMA UntouchedWalk ==
    ASSUME NEW f, WalkOk(f), Untouched(f.list)
    PROVE  WalkOk(f)'
<1>1. \A c : In(c, f.list)' <=> In(c, f.list)
  BY DEF In, Untouched
<1>2. \A c : In(c, f.list) => c \in Callbacks
  BY DEF In
<1>. QED  BY <1>1, <1>2 DEF WalkOk, Untouched

\* A walk whose routine has control goes on if its callback stays.
LEMMA WaitingWalk ==
    ASSUME NEW f, WalkOk(f), f.cur # 0,
           In(f.cur, f.list) => In(f.cur, f.list)' /\ callback'[f.cur].next = callback[f.cur].next
    PROVE  WalkOk(f)'
  BY DEF WalkOk

\* The frames below the innermost one.
LEMMA BelowReplaced ==
    ASSUME NEW f, Typed, Piled, Replaced(f), stack[1].list \in Objects, f.list \in Objects,
           CallsKept
    PROVE  Piled'
<1>. SUFFICES ASSUME NEW i \in 1..Len(stack')
              PROVE  (/\ i < Len(stack) => stack[i].list \in Objects
                      /\ i > 1 => stack[i].cur # 0
                      /\ stack[i].list \notin Objects => CallOk(stack[i]))'
  BY DEF Piled
<1>0. Len(stack) \in Nat /\ Len(stack') = Len(stack) /\ \A j \in 1..Len(stack) : stack[j] \in Frame
  BY DEF Typed, Replaced
<1>1. CASE i = 1
  BY <1>0, <1>1 DEF Replaced
<1>2. CASE i # 1
  <2>1. i \in 2..Len(stack) /\ i \in 1..Len(stack)
    BY <1>0, <1>2
  <2>2. stack'[i] = stack[i] /\ stack[i] \in Frame
    BY <1>0, <2>1 DEF Replaced
  <2>3. /\ i < Len(stack) => stack[i].list \in Objects
        /\ i > 1 => stack[i].cur # 0
        /\ stack[i].list \notin Objects => CallOk(stack[i])
    BY <2>1 DEF Piled
  <2>. QED  BY <1>0, <2>1, <2>2, <2>3 DEF CallOk, CallsKept
<1>. QED  BY <1>1, <1>2

\* The same when a walk starts inside a routine,
LEMMA BelowPushed ==
    ASSUME NEW f, Typed, Piled, Pushed(f), f.list \in Objects,
           \A i \in 1..Len(stack) : stack[i].cur # 0,
           CallsKept
    PROVE  Piled'
<1>. SUFFICES ASSUME NEW i \in 1..Len(stack')
              PROVE  (/\ i < Len(stack) => stack[i].list \in Objects
                      /\ i > 1 => stack[i].cur # 0
                      /\ stack[i].list \notin Objects => CallOk(stack[i]))'
  BY DEF Piled
<1>0. Len(stack) \in Nat /\ Len(stack') = Len(stack) + 1 /\ \A j \in 1..Len(stack) : stack[j] \in Frame
  BY DEF Typed, Pushed
<1>1. CASE i = 1
  BY <1>0, <1>1 DEF Pushed
<1>2. CASE i # 1
  <2>. DEFINE j == i - 1
  <2>1. j \in 1..Len(stack) /\ j + 1 = i
    BY <1>0, <1>2
  <2>2. stack'[i] = stack[j] /\ stack[j] \in Frame
    BY <1>0, <2>1 DEF Pushed
  <2>3. /\ j < Len(stack) => stack[j].list \in Objects
        /\ stack[j].list \notin Objects => CallOk(stack[j])
    BY <2>1 DEF Piled
  <2>. QED  BY <1>0, <2>1, <2>2, <2>3 DEF CallOk, CallsKept
<1>. QED  BY <1>1, <1>2

\* and when one ends.
LEMMA BelowPopped ==
    ASSUME Typed, Piled, Popped,
           CallsKept
    PROVE  Piled'
<1>. SUFFICES ASSUME NEW i \in 1..Len(stack')
              PROVE  (/\ i < Len(stack) => stack[i].list \in Objects
                      /\ i > 1 => stack[i].cur # 0
                      /\ stack[i].list \notin Objects => CallOk(stack[i]))'
  BY DEF Piled
<1>0. Len(stack) \in Nat /\ Len(stack') = Len(stack) - 1 /\ \A j \in 1..Len(stack) : stack[j] \in Frame
  BY DEF Typed, Popped
<1>1. i \in 1..(Len(stack) - 1) /\ i + 1 \in 1..Len(stack)
  BY <1>0
<1>2. stack'[i] = stack[i + 1] /\ stack[i + 1] \in Frame
  BY <1>0, <1>1 DEF Popped
<1>3. /\ i + 1 < Len(stack) => stack[i + 1].list \in Objects
      /\ i + 1 > 1 => stack[i + 1].cur # 0
      /\ stack[i + 1].list \notin Objects => CallOk(stack[i + 1])
  BY <1>1 DEF Piled
<1>. QED  BY <1>0, <1>1, <1>2, <1>3 DEF CallOk, CallsKept

\* The mode belongs to whoever has control.
LEMMA ModesReplaced ==
    ASSUME NEW f, Typed, ModesOk, Replaced(f), f.list = stack[1].list, pc' = pc,
           vpi_mode_flag' = IF f.cur # 0 THEN ModeIn(f.list) ELSE ModeUnder(1),
           f.list \in Objects /\ f.cur # 0 => f.mode = ModeUnder(1)
    PROVE  ModesOk'
<1>1. Len(stack) \in Nat /\ Len(stack') = Len(stack) /\ Len(stack) >= 1 /\ stack' # <<>>
  BY DEF Typed, Replaced
<1>2. \A i \in 1..Len(stack) : stack'[i].list = stack[i].list
  BY <1>1 DEF Replaced
<1>3. ModeOut' = ModeOut
  BY DEF ModeOut
<1>4. ASSUME NEW i \in 1..Len(stack) PROVE ModeUnder(i)' = ModeUnder(i)
  <2>1. i < Len(stack) => stack'[i + 1].list = stack[i + 1].list
    BY <1>1, <1>2
  <2>. QED  BY <1>1, <1>3, <2>1 DEF ModeUnder
<1>5. ASSUME NEW i \in 1..Len(stack'), stack'[i].list \in Objects, stack'[i].cur # 0
      PROVE  stack'[i].mode = ModeUnder(i)'
  <2>1. CASE i = 1
    BY <1>1, <1>4, <1>5, <2>1 DEF Replaced
  <2>2. CASE i # 1
    <3>1. i \in 2..Len(stack) /\ i \in 1..Len(stack)
      BY <1>1, <2>2
    <3>2. stack'[i] = stack[i]
      BY <3>1 DEF Replaced
    <3>3. stack[i].mode = ModeUnder(i)
      BY <1>5, <3>1, <3>2 DEF ModesOk
    <3>. QED  BY <1>4, <3>1, <3>2, <3>3
  <2>. QED  BY <2>1, <2>2
<1>6. vpi_mode_flag' = IF stack'[1].cur # 0 THEN ModeIn(stack'[1].list) ELSE ModeUnder(1)'
  BY <1>1, <1>4 DEF Replaced
<1>. QED  BY <1>1, <1>5, <1>6 DEF ModesOk, ModeIn

\* The same when a walk starts: it has not called a routine yet.
LEMMA ModesPushed ==
    ASSUME NEW f, Typed, ModesOk, Pushed(f), pc' = pc, vpi_mode_flag' = vpi_mode_flag,
           f.cur = 0, \A i \in 1..Len(stack) : stack[i].cur # 0
    PROVE  ModesOk'
<1>1. Len(stack) \in Nat /\ Len(stack') = Len(stack) + 1 /\ stack' # <<>>
  BY DEF Typed, Pushed
<1>2. ModeOut' = ModeOut
  BY DEF ModeOut
<1>3. ASSUME NEW i \in 1..Len(stack) PROVE ModeUnder(i + 1)' = ModeUnder(i)
  <2>1. i < Len(stack) => stack'[(i + 1) + 1] = stack[i + 1]
    BY <1>1 DEF Pushed
  <2>. QED  BY <1>1, <1>2, <2>1 DEF ModeUnder
<1>4. ASSUME NEW i \in 1..Len(stack'), stack'[i].list \in Objects, stack'[i].cur # 0
      PROVE  stack'[i].mode = ModeUnder(i)'
  <2>1. i # 1
    BY <1>4 DEF Pushed
  <2>. DEFINE j == i - 1
  <2>2. j \in 1..Len(stack) /\ i = j + 1
    BY <1>1, <2>1
  <2>3. stack'[i] = stack[j]
    BY <2>2 DEF Pushed
  <2>4. stack[j].mode = ModeUnder(j)
    BY <1>4, <2>2, <2>3 DEF ModesOk
  <2>. QED  BY <1>3, <2>2, <2>3, <2>4
<1>5. vpi_mode_flag' = ModeUnder(1)'
  <2>1. CASE stack = <<>>
    BY <1>1, <1>2, <2>1 DEF ModeUnder, ModesOk
  <2>2. CASE stack # <<>>
    <3>1. 1 \in 1..Len(stack) /\ Len(stack) >= 1
      BY <1>1, <2>2 DEF Typed
    <3>2. vpi_mode_flag = ModeIn(stack[1].list)
      BY <2>2, <3>1 DEF ModesOk
    <3>3. stack'[1 + 1] = stack[1]
      BY <3>1 DEF Pushed
    <3>. QED  BY <1>1, <3>1, <3>2, <3>3 DEF ModeUnder
  <2>. QED  BY <2>1, <2>2
<1>. QED  BY <1>1, <1>4, <1>5 DEF ModesOk, Pushed

\* The same when a walk ends, with no routine of its own in control.
LEMMA ModesPopped ==
    ASSUME Typed, Piled, ModesOk, Popped, pc' = pc, vpi_mode_flag' = vpi_mode_flag,
           stack[1].cur = 0
    PROVE  ModesOk'
<1>1. Len(stack) \in Nat /\ Len(stack') = Len(stack) - 1 /\ Len(stack) >= 1 /\ stack # <<>>
  BY DEF Typed, Popped
<1>2. ModeOut' = ModeOut
  BY DEF ModeOut
<1>3. ASSUME NEW i \in 1..Len(stack') PROVE ModeUnder(i)' = ModeUnder(i + 1)
  <2>1. i < Len(stack') => stack'[i + 1] = stack[(i + 1) + 1]
    BY <1>1 DEF Popped
  <2>. QED  BY <1>1, <1>2, <2>1 DEF ModeUnder
<1>4. \A i \in 1..Len(stack') : i + 1 \in 1..Len(stack) /\ stack'[i] = stack[i + 1]
  BY <1>1 DEF Popped
<1>5. \A i \in 1..Len(stack') : stack'[i].list \in Objects /\ stack'[i].cur # 0 =>
         stack'[i].mode = ModeUnder(i)'
  BY <1>3, <1>4 DEF ModesOk
<1>6. vpi_mode_flag = ModeUnder(1)
  BY <1>1 DEF ModesOk
<1>7. CASE Len(stack) = 1
  <2>1. stack' = <<>>
    BY <1>1, <1>7 DEF Popped
  <2>2. vpi_mode_flag' = ModeOut'
    BY <1>1, <1>2, <1>6, <1>7 DEF ModeUnder
  <2>. QED  BY <1>5, <2>1, <2>2 DEF ModesOk
<1>8. CASE Len(stack) # 1
  <2>1. 1 < Len(stack) /\ 1 \in 1..Len(stack') /\ stack' # <<>> /\ 1 + 1 \in 1..Len(stack)
    BY <1>1, <1>8
  <2>2. stack'[1] = stack[1 + 1] /\ stack[1 + 1].cur # 0
    BY <1>4, <2>1 DEF Piled
  <2>3. vpi_mode_flag' = ModeIn(stack'[1].list)
    BY <1>6, <2>1, <2>2 DEF ModeUnder
  <2>. QED  BY <1>5, <2>1, <2>2, <2>3 DEF ModesOk, ModeIn
<1>. QED  BY <1>7, <1>8

\* The callbacks whose routines wait for a walk above them stay in their lists.
WaitingStay ==
    \A i \in 1..Len(stack) : \A c \in Callbacks : \A o \in Objects :
       i > 1 /\ c = stack[i].cur /\ o = stack[i].list /\ In(c, o) =>
          In(c, o)' /\ callback'[c].next = callback[c].next

\* A walk that waits stays right when its callbacks stay where they are.
LEMMA WalkStays ==
    ASSUME Typed, Piled, WalksOk, WaitingStay, NEW i \in 1..Len(stack), i > 1,
           NEW f, f = stack[i], f.list \in Objects
    PROVE  WalkOk(f)'
<1>1. WalkOk(f) /\ f.cur # 0
  BY DEF WalksOk, Piled
<1>2. In(f.cur, f.list) /\ f.cur \in Callbacks
  BY <1>1 DEF WalkOk, In
<1>3. In(f.cur, f.list)' /\ callback'[f.cur].next = callback[f.cur].next
  BY <1>2 DEF WaitingStay
<1>. QED  BY <1>1, <1>3, WaitingWalk

\* All walks stay right when the innermost one does,
LEMMA WalksReplaced ==
    ASSUME NEW f, Typed, Piled, WalksOk, WaitingStay, Replaced(f), WalkOk(f)'
    PROVE  WalksOk'
<1>1. Len(stack) \in Nat /\ Len(stack') = Len(stack)
  BY DEF Typed, Replaced
<1>2. ASSUME NEW i \in 1..Len(stack'), NEW g, g = stack'[i], g.list \in Objects
      PROVE  WalkOk(g)'
  <2>1. CASE i = 1
    BY <1>2, <2>1 DEF Replaced
  <2>2. CASE i # 1
    <3>1. i \in 2..Len(stack) /\ i \in 1..Len(stack) /\ i > 1
      BY <1>1, <2>2
    <3>2. g = stack[i]
      BY <1>2, <3>1 DEF Replaced
    <3>. QED  BY <1>2, <3>1, <3>2, WalkStays
  <2>. QED  BY <2>1, <2>2
<1>. QED  BY <1>2 DEF WalksOk, WalkOk

\* and when it ends.
LEMMA WalksPopped ==
    ASSUME Typed, Piled, WalksOk, WaitingStay, Popped
    PROVE  WalksOk'
<1>1. Len(stack) \in Nat /\ Len(stack') = Len(stack) - 1
  BY DEF Typed, Popped
<1>2. ASSUME NEW i \in 1..Len(stack'), NEW g, g = stack'[i], g.list \in Objects
      PROVE  WalkOk(g)'
  <2>1. i + 1 \in 1..Len(stack) /\ i + 1 > 1
    BY <1>1
  <2>2. g = stack[i + 1]
    BY <1>1, <1>2 DEF Popped
  <2>. QED  BY <1>2, <2>1, <2>2, WalkStays
<1>. QED  BY <1>2 DEF WalksOk, WalkOk

\* A walk that was to come by still is, or it is the one that moves.
LEMMA ComingReplaced ==
    ASSUME NEW f, Typed, Replaced(f), f.list = stack[1].list, f.word = stack[1].word,
           NEW c, NEW o, NEW w, Coming(c, o, w)
    PROVE  Coming(c, o, w)' \/ /\ stack[1].list = o /\ stack[1].word = w
                               /\ c <= stack[1].next /\ ~(c <= f.next)
<1>1. Len(stack) \in Nat /\ Len(stack') = Len(stack)
  BY DEF Typed, Replaced
<1>2. PICK i \in 1..Len(stack) : stack[i].list = o /\ stack[i].word = w /\ c <= stack[i].next
  BY DEF Coming
<1>3. CASE i = 1
  BY <1>1, <1>2, <1>3 DEF Coming, Replaced
<1>4. CASE i # 1
  <2>1. i \in 2..Len(stack)
    BY <1>1, <1>4
  <2>2. stack'[i] = stack[i]
    BY <2>1 DEF Replaced
  <2>. QED  BY <1>1, <1>2, <2>2 DEF Coming
<1>. QED  BY <1>3, <1>4

\* A walk that ends was either the one that would come by or not.
LEMMA ComingPopped ==
    ASSUME Typed, Popped, NEW c, NEW o, NEW w, Coming(c, o, w)
    PROVE  Coming(c, o, w)' \/ /\ stack[1].list = o /\ stack[1].word = w
                               /\ c <= stack[1].next
<1>1. Len(stack) \in Nat /\ Len(stack') = Len(stack) - 1
  BY DEF Typed, Popped
<1>2. PICK i \in 1..Len(stack) : stack[i].list = o /\ stack[i].word = w /\ c <= stack[i].next
  BY DEF Coming
<1>3. CASE i = 1
  BY <1>2, <1>3
<1>4. CASE i # 1
  <2>. DEFINE j == i - 1
  <2>1. j \in 1..(Len(stack) - 1) /\ i = j + 1
    BY <1>1, <1>4
  <2>2. stack'[j] = stack[i]
    BY <2>1 DEF Popped
  <2>. QED  BY <1>1, <1>2, <2>1, <2>2 DEF Coming
<1>. QED  BY <1>3, <1>4

\* What comes by still comes by, and so does the new walk.
LEMMA ComingPushed ==
    ASSUME NEW f, Typed, Pushed(f), NEW c, NEW o, NEW w,
           Coming(c, o, w) \/ (f.list = o /\ f.word = w /\ c <= f.next)
    PROVE  Coming(c, o, w)'
<1>1. Len(stack) \in Nat /\ Len(stack') = Len(stack) + 1
  BY DEF Typed, Pushed
<1>2. CASE f.list = o /\ f.word = w /\ c <= f.next
  BY <1>1, <1>2 DEF Coming, Pushed
<1>3. CASE Coming(c, o, w)
  <2>1. PICK i \in 1..Len(stack) : stack[i].list = o /\ stack[i].word = w /\ c <= stack[i].next
    BY <1>3 DEF Coming
  <2>2. i + 1 \in 1..Len(stack') /\ stack'[i + 1] = stack[i]
    BY <1>1 DEF Pushed
  <2>. QED  BY <2>1, <2>2 DEF Coming
<1>. QED  BY <1>2, <1>3

\* Steps that change no cell and no head.
LEMMA CellsSame ==
    ASSUME CallbackInv, UNCHANGED <<callback, first, agenda, pc>>, Called' = Called
    PROVE  Steady /\ ListsLinked' /\ WaitingStay /\ \A l : Untouched(l)
<1>1. Steady
  BY DEF Steady, Live
<1>2. \A c, l : In(c, l)' <=> In(c, l)
  BY DEF In, Live
<1>3. \A l : Untouched(l)
  BY <1>2 DEF Untouched
<1>4. ListsLinked'
  BY <1>3, UntouchedLinked DEF CallbackInv, ListsLinked
<1>5. WaitingStay
  BY <1>2 DEF WaitingStay
<1>. QED  BY <1>1, <1>3, <1>4, <1>5

-----------------------------------------------------------------------------
(* Walks.                                                                  *)

\* A walk ends: it has come by all that its list holds.
LEMMA WalkEndOk ==
    ASSUME CallbackInv, WalkEnd
    PROVE  CallbackInv'
<1>1. /\ 1 \in 1..Len(stack) /\ Top = stack[1] /\ stack # <<>>
      /\ Top.cur = 0 /\ Top.list \in Objects /\ Top.next = 0
  BY WalkingTop DEF WalkEnd
<1>2. Typed /\ Piled /\ WalksOk /\ ModesOk /\ UpToDate
  BY DEF CallbackInv
<1>3. Popped
  BY <1>1, <1>2, IsPopped DEF WalkEnd, Typed
<1>4. UNCHANGED <<callback, first, agenda, pc, vpi_mode_flag, version, now>>
  BY DEF WalkEnd
<1>5. Called' = Called
  BY <1>1, <1>2, <1>3, CalledPopped
<1>6. Steady /\ ListsLinked' /\ WaitingStay
  BY <1>4, <1>5, CellsSame
<1>7. Typed'
  BY <1>2, <1>3, <1>4 DEF Typed, Popped, Live
<1>8. OnAgenda' /\ InOrder' /\ CallsKept
  BY <1>6, SteadyKeeps
<1>9. Piled'
  BY <1>2, <1>3, <1>8, BelowPopped
<1>10. ModesOk'
  BY <1>1, <1>2, <1>3, <1>4, ModesPopped
<1>11. WalksOk'
  BY <1>2, <1>3, <1>6, WalksPopped
<1>13. UpToDate'
  <2>. SUFFICES ASSUME NEW c \in Callbacks, NEW o \in Objects, Live(c), callback[c].rtn,
                       callback[c].list = o, NEW w \in Words[o], Watches(c, w)
                PROVE  callback[c].seen[w] = version[o][w] \/ Coming(c, o, w)'
    BY <1>4 DEF UpToDate, Live, Watches
  <2>1. callback[c].seen[w] = version[o][w] \/ Coming(c, o, w)
    BY <1>2 DEF UpToDate
  <2>2. ~(c <= stack[1].next)
    BY <1>1, BoundsAssumption DEF Callbacks
  <2>. QED  BY <1>2, <1>3, <2>1, <2>2, ComingPopped
<1>. QED  BY <1>6, <1>7, <1>8, <1>9, <1>10, <1>11, <1>13 DEF CallbackInv

\* The frame of a walk that moves on.
Moved(f) ==
    /\ f \in Frame /\ Replaced(f)
    /\ f.list = stack[1].list /\ f.word = stack[1].word /\ f.list \in Objects

\* A walk leaves a callback of another word where it is.
LEMMA WalkPastOk ==
    ASSUME CallbackInv, NEW c \in Callbacks, WalkPast(c)
    PROVE  CallbackInv'
<1>. DEFINE f == [Top EXCEPT !.prev = c, !.next = callback[c].next]
<1>1. /\ 1 \in 1..Len(stack) /\ Top = stack[1] /\ Top \in Frame /\ stack # <<>>
      /\ Top.cur = 0 /\ Top.list \in Objects /\ Top.list \in Lists /\ Top.next = c
      /\ WalkOk(Top) /\ Linked(Top.list) /\ Live(c) /\ ~Watches(c, Top.word)
  BY WalkingTop DEF WalkPast, WalkTo
<1>2. Typed /\ Piled /\ WalksOk /\ ModesOk /\ UpToDate
  BY DEF CallbackInv
<1>3. callback[c] \in Cell /\ c \in Handles
  BY <1>2, BoundsAssumption DEF Typed, Callbacks, Handles
<1>4. /\ f \in Frame /\ f.list = Top.list /\ f.word = Top.word /\ f.cur = 0
      /\ f.prev = c /\ f.next = callback[c].next
  BY <1>1, <1>3 DEF Frame, Cell
<1>5. stack' = <<f>> \o Tail(stack)
  BY DEF WalkPast
<1>. HIDE DEF f
<1>6. Replaced(f)
  BY <1>1, <1>2, <1>4, <1>5, IsReplaced DEF Typed
<1>7. UNCHANGED <<callback, first, agenda, pc, vpi_mode_flag, version, now>>
  BY DEF WalkPast
<1>8. Called' = Called
  BY <1>1, <1>2, <1>4, <1>6, CalledReplaced
<1>9. Steady /\ ListsLinked' /\ WaitingStay /\ Untouched(f.list)
  BY <1>7, <1>8, CellsSame
<1>10. Typed'
  BY <1>2, <1>6, <1>7 DEF Typed, Replaced, Live
<1>11. OnAgenda' /\ InOrder' /\ CallsKept
  BY <1>9, SteadyKeeps
<1>12. Piled'
  BY <1>1, <1>2, <1>4, <1>6, <1>11, BelowReplaced
<1>13. ModesOk'
  <2>1. vpi_mode_flag = ModeUnder(1)
    BY <1>1, <1>2 DEF ModesOk
  <2>. QED  BY <1>1, <1>2, <1>4, <1>6, <1>7, <2>1, ModesReplaced
<1>14. In(c, f.list) /\ c # 0
  <2>1. c # 0
    BY BoundsAssumption DEF Callbacks
  <2>. QED  BY <1>1, <1>4, <2>1, NextIsIn DEF WalkPast, WalkTo
<1>15. WalkOk(f)
  BY <1>1, <1>4, <1>14 DEF WalkOk
<1>16. WalksOk'
  BY <1>2, <1>6, <1>9, <1>15, UntouchedWalk, WalksReplaced
<1>18. UpToDate'
  <2>. SUFFICES ASSUME NEW d \in Callbacks, NEW o \in Objects, Live(d), callback[d].rtn,
                       callback[d].list = o, NEW w \in Words[o], Watches(d, w)
                PROVE  callback[d].seen[w] = version[o][w] \/ Coming(d, o, w)'
    BY <1>7 DEF UpToDate, Live, Watches
  <2>1. callback[d].seen[w] = version[o][w] \/ Coming(d, o, w)
    BY <1>2 DEF UpToDate
  <2>2. ASSUME stack[1].list = o, stack[1].word = w, d <= stack[1].next PROVE d <= f.next
    <3>1. In(d, o)
      BY <1>2, ObjectIn
    <3>2. d # c
      BY <1>1, <2>2
    <3>3. d < c
      BY <1>1, <2>2, <3>2 DEF Callbacks
    <3>. QED  BY <1>1, <1>4, <1>14, <2>2, <3>1, <3>3 DEF Linked
  <2>. QED  BY <1>1, <1>2, <1>4, <1>6, <2>1, <2>2, ComingReplaced
<1>. QED  BY <1>9, <1>10, <1>11, <1>12, <1>13, <1>16, <1>18 DEF CallbackInv

\* A walk moves and keeps its list.
LEMMA MoveOk ==
    ASSUME CallbackInv, NEW f, Moved(f), Typed', Steady, ListsLinked', WaitingStay,
           WalkOk(f)', UpToDate',
           vpi_mode_flag' = IF f.cur # 0 THEN ModeIn(f.list) ELSE ModeUnder(1),
           f.cur # 0 => f.mode = ModeUnder(1)
    PROVE  CallbackInv'
<1>1. Typed /\ Piled /\ WalksOk /\ ModesOk
  BY DEF CallbackInv
<1>2. Replaced(f) /\ f.list = stack[1].list /\ f.list \in Objects /\ pc' = pc
  BY DEF Moved, Steady
<1>3. OnAgenda' /\ InOrder' /\ CallsKept
  BY SteadyKeeps
<1>4. Piled'
  BY <1>1, <1>2, <1>3, BelowReplaced
<1>5. ModesOk'
  BY <1>1, <1>2, ModesReplaced
<1>6. WalksOk'
  BY <1>1, <1>2, WalksReplaced
<1>. QED  BY <1>3, <1>4, <1>5, <1>6 DEF CallbackInv

\* A walk gives a callback the latest value and calls its routine.
LEMMA ExecuteOk ==
    ASSUME CallbackInv, NEW c \in Callbacks, callback_execute(c)
    PROVE  CallbackInv'
<1>0. PICK f : f = [Top EXCEPT !.cur = c, !.next = callback[c].next, !.mode = vpi_mode_flag]
  OBVIOUS
<1>. DEFINE v == version[Top.list][Top.word]
<1>1. /\ 1 \in 1..Len(stack) /\ Top = stack[1] /\ Top \in Frame /\ stack # <<>>
      /\ Top.cur = 0 /\ Top.list \in Objects /\ Top.list \in Lists /\ Top.next = c
      /\ Top.word \in Words[Top.list] /\ Linked(Top.list) /\ Live(c)
  BY WalkingTop DEF callback_execute, WalkTo
<1>2. Typed /\ Piled /\ WalksOk /\ ModesOk /\ UpToDate /\ ListsLinked
  BY DEF CallbackInv
<1>3. callback[c] \in Cell /\ c \in Handles /\ c # 0 /\ vpi_mode_flag \in Modes
  BY <1>2, BoundsAssumption DEF Typed, Callbacks, Handles
<1>4. /\ f \in Frame /\ f.list = Top.list /\ f.word = Top.word /\ f.cur = c
      /\ f.next = callback[c].next /\ f.mode = vpi_mode_flag
  BY <1>0, <1>1, <1>3 DEF Frame, Cell
<1>5. stack' = <<f>> \o Tail(stack)
  BY <1>0 DEF callback_execute
<1>6. callback' = [callback EXCEPT ![c].seen[Top.word] = v]
  BY DEF callback_execute
<1>7. In(c, Top.list) /\ callback[c].list = Top.list
  <2>1. In(c, Top.list)
    BY <1>1, <1>3, NextIsIn DEF callback_execute, WalkTo
  <2>. QED  BY <2>1 DEF In
<1>8. v \in Nat /\ callback[c].seen \in [Words[Top.list] -> Nat]
  BY <1>1, <1>2, <1>7 DEF Typed
<1>. HIDE DEF v
<1>9. /\ callback' \in [Callbacks -> Cell]
      /\ \A d \in Callbacks :
            /\ callback'[d].state = callback[d].state /\ callback'[d].rtn = callback[d].rtn
            /\ callback'[d].list = callback[d].list /\ callback'[d].next = callback[d].next
            /\ callback'[d].word = callback[d].word
            /\ d # c => callback'[d].seen = callback[d].seen
      /\ callback'[c].seen = [callback[c].seen EXCEPT ![Top.word] = v]
  <2>. DEFINE s == [callback[c].seen EXCEPT ![Top.word] = v]
              r == [callback[c] EXCEPT !.seen = s]
  <2>1. s \in [Words[Top.list] -> Nat]
    BY <1>8
  <2>. HIDE DEF s
  <2>2. /\ r \in Cell /\ r.state = callback[c].state /\ r.rtn = callback[c].rtn
        /\ r.list = callback[c].list /\ r.next = callback[c].next /\ r.word = callback[c].word
        /\ r.seen = s
    BY <1>1, <1>3, <2>1 DEF Cell
  <2>3. callback' = [callback EXCEPT ![c] = r]
    BY <1>6 DEF s
  <2>. HIDE DEF r
  <2>4. callback \in [Callbacks -> Cell]
    BY <1>2 DEF Typed
  <2>. QED  BY <2>2, <2>3, <2>4 DEF s
<1>10. UNCHANGED <<first, agenda, pc, version, now>> /\ vpi_mode_flag' = "RWSYNC"
  BY DEF callback_execute
<1>11. Replaced(f) /\ Moved(f)
  BY <1>1, <1>2, <1>4, <1>5, IsReplaced DEF Typed, Moved
<1>12. Called' = Called
  BY <1>1, <1>2, <1>4, <1>11, CalledReplaced
<1>13. \A d, l : In(d, l)' <=> In(d, l)
  BY <1>9, <1>12 DEF In, Live
<1>14. \A l : Untouched(l)
  BY <1>9, <1>10, <1>13 DEF Untouched
<1>15. Steady /\ ListsLinked' /\ WaitingStay
  <2>1. Steady
    BY <1>9, <1>10, <1>12 DEF Steady, Live
  <2>2. ListsLinked'
    BY <1>2, <1>14, UntouchedLinked DEF ListsLinked
  <2>3. WaitingStay
    BY <1>9, <1>13 DEF WaitingStay
  <2>. QED  BY <2>1, <2>2, <2>3
<1>16. Typed'
  <2>1. \A d \in Callbacks : Live(d)' => callback'[d].list \in AnyList
    BY <1>2, <1>9 DEF Typed, Live
  <2>2. ASSUME NEW d \in Callbacks, NEW o \in Objects, Live(d)', callback'[d].list = o
        PROVE  callback'[d].seen \in [Words[o] -> Nat]
    <3>1. Live(d) /\ callback[d].list = o
      BY <1>9, <2>2 DEF Live
    <3>2. callback[d].seen \in [Words[o] -> Nat]
      BY <1>2, <3>1 DEF Typed
    <3>3. CASE d # c
      BY <1>9, <3>2, <3>3
    <3>4. CASE d = c
      BY <1>8, <1>9, <3>2, <3>4
    <3>. QED  BY <3>3, <3>4
  <2>. QED  BY <1>2, <1>9, <1>10, <1>11, <2>1, <2>2 DEF Typed, Replaced, Modes
<1>17. WalkOk(f)'
  BY <1>1, <1>3, <1>4, <1>7, <1>9, <1>13 DEF WalkOk
<1>18. UpToDate'
  <2>. SUFFICES ASSUME NEW d \in Callbacks, NEW o \in Objects, Live(d), callback[d].rtn,
                       callback[d].list = o, NEW w \in Words[o], Watches(d, w)
                PROVE  callback'[d].seen[w] = version[o][w] \/ Coming(d, o, w)'
    BY <1>9, <1>10 DEF UpToDate, Live, Watches
  <2>1. callback[d].seen[w] = version[o][w] \/ Coming(d, o, w)
    BY <1>2 DEF UpToDate
  <2>2. CASE d = c /\ w = Top.word
    BY <1>7, <1>8, <1>9, <2>2 DEF v
  <2>3. CASE d = c /\ w # Top.word
    <3>1. callback'[d].seen[w] = callback[d].seen[w]
      BY <1>8, <1>9, <1>7, <2>3
    <3>. QED  BY <1>1, <1>2, <1>4, <1>11, <2>1, <2>3, <3>1, ComingReplaced
  <2>4. CASE d # c
    <3>1. ASSUME stack[1].list = o, stack[1].word = w, d <= stack[1].next PROVE d <= f.next
      <4>1. In(d, o)
        BY <1>2, ObjectIn
      <4>2. d < c
        BY <1>1, <2>4, <3>1 DEF Callbacks
      <4>. QED  BY <1>1, <1>4, <1>7, <3>1, <4>1, <4>2 DEF Linked
    <3>2. callback'[d].seen = callback[d].seen
      BY <1>9, <2>4
    <3>. QED  BY <1>1, <1>2, <1>4, <1>11, <2>1, <3>1, <3>2, ComingReplaced
  <2>. QED  BY <2>2, <2>3, <2>4
<1>19. vpi_mode_flag' = ModeIn(f.list) /\ f.mode = ModeUnder(1)
  <2>1. vpi_mode_flag = ModeUnder(1)
    BY <1>1, <1>2 DEF ModesOk
  <2>2. f.list \notin Phases \union Syncs
    BY <1>1, <1>4, ListNames
  <2>. QED  BY <1>4, <1>10, <2>1, <2>2 DEF ModeIn, Phases, Syncs
<1>. QED  BY <1>3, <1>4, <1>11, <1>15, <1>16, <1>17, <1>18, <1>19, MoveOk

\* The routine that a walk has called returns.
LEMMA ReturnToWalkOk ==
    ASSUME CallbackInv, Return, Top.list \in Objects
    PROVE  CallbackInv'
<1>0. PICK f : f = [Top EXCEPT !.cur = 0, !.prev = Top.cur]
  OBVIOUS
<1>1. Typed /\ Piled /\ WalksOk /\ ModesOk /\ UpToDate /\ ListsLinked
  BY DEF CallbackInv
<1>2. /\ 1 \in 1..Len(stack) /\ Top = stack[1] /\ Top \in Frame /\ stack # <<>> /\ Top.cur # 0
  BY <1>1 DEF Return, InRoutine, Top, Typed
<1>3. /\ f \in Frame /\ f.list = Top.list /\ f.word = Top.word /\ f.cur = 0
      /\ f.prev = Top.cur /\ f.next = Top.next
  <2>1. 0 \in Handles
    BY BoundsAssumption DEF Handles
  <2>2. Top.cur \in Handles
    BY <1>2 DEF Frame
  <2>. QED  BY <1>0, <1>2, <2>1, <2>2 DEF Frame
<1>4. stack' = <<f>> \o Tail(stack)
  BY <1>0, Zenon DEF Return
<1>5. UNCHANGED <<callback, first, agenda, pc, version, now>> /\ vpi_mode_flag' = Top.mode
  BY DEF Return
<1>6. Replaced(f) /\ Moved(f)
  BY <1>1, <1>2, <1>3, <1>4, IsReplaced DEF Typed, Moved
<1>7. Called' = Called
  BY <1>1, <1>2, <1>3, <1>6, CalledReplaced
<1>8. Steady /\ ListsLinked' /\ WaitingStay /\ Untouched(f.list)
  BY <1>5, <1>7, CellsSame
<1>9. Typed'
  <2>1. Top.mode \in Modes
    BY <1>2 DEF Frame
  <2>. QED  BY <1>1, <1>5, <1>6, <2>1 DEF Typed, Replaced, Live
<1>10. WalkOk(f)'
  <2>1. WalkOk(Top)
    BY <1>1, <1>2 DEF WalksOk
  <2>2. WalkOk(f)
    BY <1>2, <1>3, <2>1 DEF WalkOk
  <2>. QED  BY <1>8, <2>2, UntouchedWalk
<1>11. UpToDate'
  <2>. SUFFICES ASSUME NEW d \in Callbacks, NEW o \in Objects, Live(d), callback[d].rtn,
                       callback[d].list = o, NEW w \in Words[o], Watches(d, w)
                PROVE  callback[d].seen[w] = version[o][w] \/ Coming(d, o, w)'
    BY <1>5 DEF UpToDate, Live, Watches
  <2>1. callback[d].seen[w] = version[o][w] \/ Coming(d, o, w)
    BY <1>1 DEF UpToDate
  <2>. QED  BY <1>1, <1>2, <1>3, <1>6, <2>1, ComingReplaced
<1>12. vpi_mode_flag' = ModeUnder(1)
  BY <1>1, <1>2, <1>5 DEF ModesOk
<1>. QED  BY <1>3, <1>6, <1>8, <1>9, <1>10, <1>11, <1>12, MoveOk

\* Callback c is taken out of the list of o, and p, if it is not 0, is led past it.
Unlinked(c, o, p) ==
    /\ callback' \in [Callbacks -> Cell] /\ first' \in [Lists -> Handles]
    /\ Called' = Called
    /\ callback'[c].state = "freed"
    /\ \A d \in Callbacks : d # c =>
          /\ callback'[d].state = callback[d].state /\ callback'[d].rtn = callback[d].rtn
          /\ callback'[d].list = callback[d].list /\ callback'[d].word = callback[d].word
          /\ callback'[d].seen = callback[d].seen
          /\ callback'[d].next = IF d = p THEN callback[c].next ELSE callback[d].next
    /\ \A l \in Lists :
          first'[l] = IF p = 0 /\ l = o THEN callback[c].next ELSE first[l]

\* One callback is taken out of the list of an object; p is the one before it.
LEMMA UnlinkedLists ==
    ASSUME Typed, ListsLinked, NEW c \in Callbacks, NEW o \in Objects, NEW p,
           In(c, o), Unlinked(c, o, p),
           p # 0 => In(p, o) /\ callback[p].next = c,
           p = 0 => first[o] = c
    PROVE  /\ ListsLinked'
           /\ \A d, l : In(d, l)' <=> In(d, l) /\ d # c
           /\ p # c
<1>1. \A d, l : In(d, l)' <=> In(d, l) /\ d # c
  <2>1. ASSUME NEW d \in Callbacks, NEW l PROVE In(d, l)' <=> In(d, l) /\ d # c
    <3>1. CASE d = c
      BY <3>1 DEF In, Unlinked, Live
    <3>2. CASE d # c
      BY <3>2 DEF In, Unlinked, Live
    <3>. QED  BY <3>1, <3>2
  <2>. QED  BY <2>1 DEF In
<1>2. o \in Lists /\ Linked(o) /\ callback[c].list = o /\ c \in Nat /\ c # 0
  BY BoundsAssumption DEF Lists, ListsLinked, In, Callbacks
<1>3. \A d \in Callbacks : d \in Nat /\ callback[d].next \in Nat
  BY BoundsAssumption DEF Typed, Cell, Handles, Callbacks
<1>4. \A d, l : In(d, l) => d \in Callbacks /\ d \in Nat
  BY <1>3 DEF In
<1>. DEFINE n == callback[c].next
<1>5. /\ n # 0 => In(n, o) /\ n < c
      /\ \A d \in Callbacks : In(d, o) /\ d < c => d <= n
  BY <1>2 DEF Linked
<1>6. p # 0 => c < p /\ p \in Callbacks /\ p \in Nat
  BY <1>2, <1>4 DEF Linked
<1>7. p # c
  BY <1>2, <1>3, <1>6
<1>8. Linked(o)'
  <2>1. \A e \in Callbacks : In(e, o)' =>
           callback'[e].next = IF e = p THEN n ELSE callback[e].next
    BY <1>1 DEF Unlinked
  <2>2. first'[o] = IF p = 0 THEN n ELSE first[o]
    BY <1>2 DEF Unlinked
  <2>. HIDE DEF n
  <2>3. ASSUME NEW m, m = first'[o], m # 0 PROVE In(m, o)'
    <3>1. CASE p = 0
      <4>1. m = n /\ In(m, o) /\ m < c
        BY <1>5, <2>2, <2>3, <3>1
      <4>2. m # c
        BY <1>2, <1>4, <4>1
      <4>. QED  BY <1>1, <4>1, <4>2
    <3>2. CASE p # 0
      <4>1. m = first[o] /\ In(m, o)
        BY <1>2, <2>2, <2>3, <3>2 DEF Linked
      <4>2. p <= m /\ c < p /\ p \in Nat /\ m \in Nat
        BY <1>2, <1>4, <1>6, <3>2, <4>1 DEF Linked
      <4>3. m # c
        BY <1>2, <4>2
      <4>. QED  BY <1>1, <4>1, <4>3
    <3>. QED  BY <3>1, <3>2
  <2>4. ASSUME NEW d \in Callbacks, In(d, o)' PROVE d <= first'[o]
    <3>1. In(d, o) /\ d # c /\ d <= first[o] /\ d \in Nat
      BY <1>1, <1>2, <1>4, <2>4 DEF Linked
    <3>2. CASE p = 0
      <4>1. first[o] = c
        BY <3>2
      <4>2. d < c
        BY <1>2, <3>1, <4>1
      <4>. QED  BY <1>5, <2>2, <3>1, <3>2, <4>2
    <3>3. CASE p # 0
      BY <2>2, <3>1, <3>3
    <3>. QED  BY <3>2, <3>3
  <2>5. ASSUME NEW e \in Callbacks, In(e, o)', NEW m, m = callback'[e].next, m # 0
        PROVE  In(m, o)' /\ m < e
    <3>1. In(e, o) /\ e # c /\ e \in Nat
      BY <1>1, <1>4, <2>5
    <3>2. CASE e = p
      <4>1. m = n /\ In(m, o) /\ m < c /\ m \in Nat /\ c < e
        BY <1>4, <1>5, <1>6, <2>1, <2>5, <3>1, <3>2, BoundsAssumption DEF Callbacks
      <4>2. m < e /\ m # c
        BY <1>2, <3>1, <4>1
      <4>. QED  BY <1>1, <4>1, <4>2
    <3>3. CASE e # p
      <4>1. m = callback[e].next
        BY <2>1, <2>5, <3>3
      <4>2. In(m, o) /\ m < e
        BY <1>2, <2>5, <3>1, <4>1 DEF Linked
      <4>3. m # c
        <5>. SUFFICES ASSUME m = c PROVE FALSE
          OBVIOUS
        <5>1. CASE p = 0
          <6>1. e <= c
            BY <1>2, <3>1, <5>1 DEF Linked
          <6>. QED  BY <1>2, <3>1, <4>2, <6>1
        <5>2. CASE p # 0
          <6>1. In(p, o) /\ callback[p].next = c /\ p \in Nat /\ p \in Callbacks
            BY <1>6, <5>2
          <6>2. p < e => p <= m
            BY <1>2, <3>1, <4>1, <6>1 DEF Linked
          <6>3. e < p => e <= c
            BY <1>2, <3>1, <6>1 DEF Linked
          <6>4. c < p /\ e # p
            BY <1>6, <3>3, <5>2
          <6>. QED  BY <1>2, <3>1, <4>2, <6>1, <6>2, <6>3, <6>4
        <5>. QED  BY <5>1, <5>2
      <4>. QED  BY <1>1, <4>2, <4>3
    <3>. QED  BY <3>2, <3>3
  <2>6. ASSUME NEW e \in Callbacks, NEW d \in Callbacks, In(e, o)', In(d, o)', d < e
        PROVE  d <= callback'[e].next
    <3>1. In(e, o) /\ In(d, o) /\ d # c
      BY <1>1, <2>6
    <3>2. d <= callback[e].next
      BY <1>2, <2>6, <3>1 DEF Linked
    <3>3. CASE e = p
      <4>1. d <= c /\ d < c
        BY <1>2, <1>3, <1>6, <3>1, <3>2, <3>3, BoundsAssumption DEF Callbacks
      <4>. QED  BY <1>5, <2>1, <2>6, <3>1, <3>3, <4>1
    <3>4. CASE e # p
      BY <2>1, <2>6, <3>2, <3>4
    <3>. QED  BY <3>3, <3>4
  <2>. QED  BY <2>3, <2>4, <2>5, <2>6 DEF Linked
<1>9. ASSUME NEW l \in Lists, l # o PROVE Linked(l)'
  <2>1. \A d : In(d, l) => d # c /\ (p # 0 => d # p)
    BY <1>2, <1>9 DEF In
  <2>2. \A d : In(d, l) => d # p
    BY <1>4, <2>1, BoundsAssumption DEF Callbacks
  <2>3. Untouched(l)
    BY <1>1, <1>9, <2>1, <2>2 DEF Untouched, Unlinked
  <2>. QED  BY <2>3, UntouchedLinked DEF ListsLinked
<1>10. ListsLinked'
  BY <1>8, <1>9 DEF ListsLinked, Linked
<1>. QED  BY <1>1, <1>7, <1>10

\* A cell that is freed, and one that is led past it.
LEMMA CellsUnlinked ==
    ASSUME callback \in [Callbacks -> Cell], NEW c \in Callbacks, NEW p,
           p = 0 => callback' = [callback EXCEPT ![c] = Freed],
           p # 0 => /\ p \in Callbacks /\ p # c
                    /\ callback' = [callback EXCEPT ![p].next = callback[c].next, ![c] = Freed]
    PROVE  /\ callback' \in [Callbacks -> Cell]
           /\ callback'[c].state = "freed"
           /\ \A d \in Callbacks : d # c =>
                /\ callback'[d].state = callback[d].state /\ callback'[d].rtn = callback[d].rtn
                /\ callback'[d].list = callback[d].list /\ callback'[d].word = callback[d].word
                /\ callback'[d].seen = callback[d].seen
                /\ callback'[d].next = IF d = p THEN callback[c].next ELSE callback[d].next
<1>0. 0 \in Handles /\ 0 \notin Callbacks
  BY BoundsAssumption DEF Handles, Callbacks
<1>1. Freed \in Cell /\ Freed.state = "freed"
  BY <1>0 DEF Freed, NoCallback, Cell, AnyWord
<1>2. CASE p = 0
  BY <1>0, <1>1, <1>2
<1>3. CASE p # 0
  <2>. DEFINE r == [callback[p] EXCEPT !.next = callback[c].next]
  <2>1. callback[c].next \in Handles /\ callback[p] \in Cell /\ p \in Callbacks /\ p # c
    BY <1>3 DEF Cell
  <2>2. /\ r \in Cell /\ r.state = callback[p].state /\ r.rtn = callback[p].rtn
        /\ r.list = callback[p].list /\ r.next = callback[c].next /\ r.word = callback[p].word
        /\ r.seen = callback[p].seen
    BY <2>1 DEF Cell
  <2>3. callback' = [[callback EXCEPT ![p] = r] EXCEPT ![c] = Freed]
    BY <1>3
  <2>. HIDE DEF r
  <2>. QED  BY <1>1, <2>1, <2>2, <2>3
<1>. QED  BY <1>2, <1>3

\* A walk unlinks and frees a removed callback: no other walk is at it, or goes on
\* with it.
LEMMA ReapOk ==
    ASSUME CallbackInv, NEW c \in Callbacks, Reap(c), ~Loses(c)
    PROVE  CallbackInv'
<1>0. PICK f, o, p : /\ f = [Top EXCEPT !.next = callback[c].next]
                     /\ o = Top.list /\ p = Top.prev
  OBVIOUS
<1>1. /\ 1 \in 1..Len(stack) /\ Top = stack[1] /\ Top \in Frame /\ stack # <<>>
      /\ Top.cur = 0 /\ o \in Objects /\ o \in Lists /\ Top.next = c
      /\ WalkOk(Top) /\ Live(c) /\ ~callback[c].rtn /\ Walking
  BY <1>0, WalkingTop DEF Reap, WalkTo
<1>2. Typed /\ Piled /\ WalksOk /\ ModesOk /\ UpToDate /\ ListsLinked /\ Linked(o)
  BY <1>1 DEF CallbackInv, ListsLinked
<1>3. callback[c] \in Cell /\ c \in Handles /\ c # 0 /\ vpi_mode_flag \in Modes
  BY <1>2, BoundsAssumption DEF Typed, Callbacks, Handles
<1>4. /\ f \in Frame /\ f.list = o /\ f.list = Top.list /\ f.word = Top.word /\ f.cur = 0
      /\ f.prev = p /\ f.next = callback[c].next
  BY <1>0, <1>1, <1>3 DEF Frame, Cell
<1>5. stack' = <<f>> \o Tail(stack)
  BY <1>0 DEF Reap
<1>6. UNCHANGED <<agenda, pc, version, now, vpi_mode_flag>>
  BY DEF Reap
<1>7. In(c, o) /\ callback[c].list = o
  <2>1. In(c, o)
    BY <1>0, <1>1, <1>3, NextIsIn
  <2>. QED  BY <2>1 DEF In
<1>8. /\ p # 0 => In(p, o) /\ callback[p].next = c
      /\ p = 0 => first[o] = c
  BY <1>0, <1>1 DEF WalkOk
<1>9. p # 0 => p \in Callbacks /\ p # c
  <2>1. p # 0 => p \in Callbacks /\ c < p
    BY <1>2, <1>3, <1>8 DEF Linked, In
  <2>. QED  BY <2>1, BoundsAssumption DEF Callbacks
<1>10. Replaced(f) /\ Moved(f)
  BY <1>1, <1>2, <1>4, <1>5, IsReplaced DEF Typed, Moved
<1>11. Called' = Called
  BY <1>1, <1>2, <1>4, <1>10, CalledReplaced
<1>12. Unlinked(c, o, p)
  <2>1. /\ p = 0 => first' = [first EXCEPT ![o] = callback[c].next]
        /\ p # 0 => first' = first
    BY <1>0 DEF Reap
  <2>2. /\ p = 0 => callback' = [callback EXCEPT ![c] = Freed]
        /\ p # 0 => callback' = [callback EXCEPT ![p].next = callback[c].next, ![c] = Freed]
    BY <1>0 DEF Reap
  <2>3. callback[c].next \in Handles
    BY <1>3 DEF Cell
  <2>4. first' \in [Lists -> Handles] /\ \A l \in Lists :
          first'[l] = IF p = 0 /\ l = o THEN callback[c].next ELSE first[l]
    BY <1>1, <1>2, <2>1, <2>3 DEF Typed
  <2>5. callback \in [Callbacks -> Cell]
    BY <1>2 DEF Typed
  <2>. QED  BY <1>9, <1>11, <2>2, <2>4, <2>5, CellsUnlinked DEF Unlinked
<1>13. ListsLinked' /\ \A d, l : In(d, l)' <=> In(d, l) /\ d # c
  BY <1>1, <1>2, <1>7, <1>8, <1>12, UnlinkedLists
<1>14. \A d \in Callbacks : Live(d)' => /\ Live(d) /\ d # c /\ callback'[d].list = callback[d].list
                                        /\ callback'[d].rtn = callback[d].rtn
  BY <1>12 DEF Unlinked, Live
<1>15. Steady
  <2>1. \A d \in Callbacks : callback'[d].state = "unused" <=> callback[d].state = "unused"
    BY <1>1, <1>12 DEF Unlinked, Live
  <2>2. \A d \in Callbacks : Live(d) /\ callback[d].list \notin Objects => Live(d)'
    BY <1>1, <1>7, <1>12 DEF Unlinked, Live
  <2>. QED  BY <1>6, <1>11, <1>14, <2>1, <2>2 DEF Steady
<1>16. WaitingStay
  <2>. SUFFICES ASSUME NEW i \in 1..Len(stack), NEW d \in Callbacks, NEW u \in Objects,
                       i > 1, d = stack[i].cur, u = stack[i].list, In(d, u)
                PROVE  In(d, u)' /\ callback'[d].next = callback[d].next
    BY DEF WaitingStay
  <2>0. i > 1 /\ d = stack[i].cur /\ u = stack[i].list /\ In(d, u)
    OBVIOUS
  <2>1. WalkOk(stack[i]) /\ d = stack[i].cur /\ d # 0 /\ callback[d].next = stack[i].next
    <3>1. d # 0
      BY BoundsAssumption DEF Callbacks
    <3>2. stack[i].list \in Objects /\ WalkOk(stack[i])
      BY <1>2 DEF WalksOk
    <3>. QED  BY <2>0, <3>1, <3>2 DEF WalkOk
  <2>2. d # c /\ callback[d].next # c
    <3>1. i \in 2..Len(stack)
      BY <1>2 DEF Typed
    <3>. QED  BY <2>1, <3>1 DEF Loses
  <2>3. d # p
    <3>1. p # 0 => callback[p].next = c
      BY <1>8
    <3>. QED  BY <2>1, <2>2, <3>1
  <2>. QED  BY <1>12, <1>13, <2>0, <2>2, <2>3 DEF Unlinked
<1>18. Typed'
  <2>1. \A d \in Callbacks : Live(d)' => callback'[d].list \in AnyList
    BY <1>2, <1>14 DEF Typed
  <2>2. ASSUME NEW d \in Callbacks, NEW u \in Objects, Live(d)', callback'[d].list = u
        PROVE  callback'[d].seen \in [Words[u] -> Nat]
    BY <1>2, <1>12, <1>14, <2>2 DEF Typed, Unlinked
  <2>. QED  BY <1>2, <1>6, <1>10, <1>12, <2>1, <2>2 DEF Typed, Replaced, Unlinked
<1>19. WalkOk(f)'
  <2>1. f.word \in Words[f.list]
    BY <1>1, <1>4 DEF WalkOk
  <2>2. CASE p = 0
    <3>1. first'[o] = callback[c].next
      BY <1>1, <1>12, <2>2 DEF Unlinked
    <3>. QED  BY <1>4, <2>1, <2>2, <3>1 DEF WalkOk
  <2>3. CASE p # 0
    <3>1. In(p, o)' /\ callback'[p].next = callback[c].next
      BY <1>8, <1>9, <1>12, <1>13, <2>3 DEF Unlinked
    <3>. QED  BY <1>4, <2>1, <2>3, <3>1 DEF WalkOk
  <2>. QED  BY <2>2, <2>3
<1>20. UpToDate'
  <2>. SUFFICES ASSUME NEW d \in Callbacks, NEW u \in Objects, Live(d)', callback'[d].rtn,
                       callback'[d].list = u, NEW w \in Words[u], Watches(d, w)'
                PROVE  callback'[d].seen[w] = version[u][w] \/ Coming(d, u, w)'
    BY <1>6 DEF UpToDate
  <2>1. /\ Live(d) /\ d # c /\ callback[d].rtn /\ callback[d].list = u
        /\ callback'[d].seen = callback[d].seen /\ Watches(d, w)
    BY <1>12, <1>14 DEF Unlinked, Watches
  <2>2. callback[d].seen[w] = version[u][w] \/ Coming(d, u, w)
    BY <1>2, <2>1 DEF UpToDate
  <2>3. ASSUME stack[1].list = u, stack[1].word = w, d <= stack[1].next PROVE d <= f.next
    <3>1. In(d, o)
      BY <1>0, <1>1, <1>2, <2>1, <2>3, ObjectIn
    <3>2. d < c
      BY <1>1, <2>1, <2>3 DEF Callbacks
    <3>. QED  BY <1>2, <1>4, <1>7, <3>1, <3>2 DEF Linked
  <2>. QED  BY <1>1, <1>2, <1>4, <1>10, <2>1, <2>2, <2>3, ComingReplaced
<1>21. vpi_mode_flag' = ModeUnder(1)
  BY <1>1, <1>2, <1>6 DEF ModesOk
<1>. QED  BY <1>4, <1>10, <1>13, <1>15, <1>16, <1>18, <1>19, <1>20, <1>21, MoveOk

-----------------------------------------------------------------------------
(* What routines do.                                                       *)

\* A callback loses its routine: it stays in its list for a walk to find.
LEMMA RemoveOk ==
    ASSUME CallbackInv, NEW c \in Callbacks, vpi_remove_cb(c)
    PROVE  CallbackInv'
<1>1. /\ Typed /\ Piled /\ WalksOk /\ ModesOk /\ UpToDate /\ ListsLinked
      /\ OnAgenda /\ InOrder
  BY DEF CallbackInv
<1>2. UNCHANGED <<first, agenda, now, pc, stack, vpi_mode_flag, version>>
  BY DEF vpi_remove_cb
<1>3. /\ callback' \in [Callbacks -> Cell]
      /\ \A d \in Callbacks :
            /\ callback'[d].state = callback[d].state /\ callback'[d].list = callback[d].list
            /\ callback'[d].next = callback[d].next /\ callback'[d].word = callback[d].word
            /\ callback'[d].seen = callback[d].seen
            /\ callback'[d].rtn = IF d = c THEN FALSE ELSE callback[d].rtn
  <2>. DEFINE r == [callback[c] EXCEPT !.rtn = FALSE]
  <2>1. callback \in [Callbacks -> Cell]
    BY <1>1 DEF Typed
  <2>2. /\ r \in Cell /\ r.state = callback[c].state /\ r.list = callback[c].list
        /\ r.next = callback[c].next /\ r.word = callback[c].word
        /\ r.seen = callback[c].seen /\ r.rtn = FALSE
    BY <2>1 DEF Cell
  <2>3. callback' = [callback EXCEPT ![c] = r]
    BY DEF vpi_remove_cb
  <2>. HIDE DEF r
  <2>. QED  BY <2>1, <2>2, <2>3
<1>4. Called' = Called
  BY <1>2 DEF Called
<1>5. \A d, l : In(d, l)' <=> In(d, l)
  BY <1>3, <1>4 DEF In, Live
<1>6. \A l : Untouched(l)
  BY <1>2, <1>3, <1>5 DEF Untouched
<1>7. Steady
  BY <1>2, <1>3, <1>4 DEF Steady, Live
<1>8. OnAgenda' /\ InOrder' /\ CallsKept
  BY <1>7, SteadyKeeps
<1>9. ListsLinked'
  BY <1>1, <1>6, UntouchedLinked DEF ListsLinked
<1>10. Typed'
  <2>1. \A d \in Callbacks : Live(d)' => callback'[d].list \in AnyList
    BY <1>1, <1>3 DEF Typed, Live
  <2>2. ASSUME NEW d \in Callbacks, NEW o \in Objects, Live(d)', callback'[d].list = o
        PROVE  callback'[d].seen \in [Words[o] -> Nat]
    <3>1. Live(d) /\ callback[d].list = o
      BY <1>3, <2>2 DEF Live
    <3>2. callback[d].seen \in [Words[o] -> Nat]
      BY <1>1, <3>1 DEF Typed
    <3>. QED  BY <1>3, <3>2
  <2>. QED  BY <1>1, <1>2, <1>3, <2>1, <2>2 DEF Typed
<1>11. Piled'
  <2>1. \A i \in 1..Len(stack) : stack[i] \in Frame
    BY <1>1 DEF Typed
  <2>. QED  BY <1>1, <1>2, <1>8, <2>1 DEF Piled, CallOk, CallsKept
<1>12. WalksOk'
  <2>1. ASSUME NEW i \in 1..Len(stack), NEW g, g = stack[i], g.list \in Objects
        PROVE  WalkOk(g)'
    <3>1. WalkOk(g)
      BY <1>1, <2>1 DEF WalksOk
    <3>. QED  BY <1>6, <3>1, UntouchedWalk
  <2>. QED  BY <1>2, <2>1 DEF WalksOk, WalkOk
<1>14. ModesOk'
  BY <1>1, <1>2 DEF ModesOk, ModeUnder, ModeOut, ModeIn
<1>15. UpToDate'
  <2>. SUFFICES ASSUME NEW d \in Callbacks, NEW o \in Objects, Live(d)', callback'[d].rtn,
                       callback'[d].list = o, NEW w \in Words[o], Watches(d, w)'
                PROVE  callback'[d].seen[w] = version[o][w] \/ Coming(d, o, w)
    BY <1>2 DEF UpToDate, Coming
  <2>. QED  BY <1>1, <1>3 DEF UpToDate, Live, Watches
<1>. QED  BY <1>8, <1>9, <1>10, <1>11, <1>12, <1>14, <1>15 DEF CallbackInv

\* A value changes: its new walk will come by every callback of the object.
LEMMA ChangeOk ==
    ASSUME CallbackInv, NEW o \in Objects, NEW w \in Words[o], Change(o, w)
    PROVE  CallbackInv'
<1>0. PICK f : f = Walk(o, w)
  OBVIOUS
<1>1. /\ Typed /\ Piled /\ WalksOk /\ ModesOk /\ UpToDate /\ ListsLinked
      /\ OnAgenda /\ InOrder
  BY DEF CallbackInv
<1>2. UNCHANGED <<callback, first, agenda, now, pc, vpi_mode_flag>>
  BY DEF Change
<1>3. o \in Lists /\ first[o] \in Handles /\ 0 \in Handles /\ w \in AnyWord /\ o \in AnyList
  BY <1>1, BoundsAssumption DEF Typed, Lists, AnyWord, AnyList, Handles
<1>4. /\ f \in Frame /\ f.list = o /\ f.word = w /\ f.cur = 0 /\ f.prev = 0
      /\ f.next = first[o]
  BY <1>0, <1>3 DEF Walk, Frame, Modes
<1>5. stack' = <<f>> \o stack
  BY <1>0 DEF Change
<1>6. Pushed(f)
  BY <1>1, <1>4, <1>5, IsPushed DEF Typed
<1>7. \A i \in 1..Len(stack) : stack[i].cur # 0
  BY <1>1, UserFrames DEF Change
<1>8. Called' = Called
  BY <1>1, <1>4, <1>6, CalledPushed
<1>9. Steady /\ ListsLinked' /\ \A l : Untouched(l)
  BY <1>2, <1>8, CellsSame
<1>10. OnAgenda' /\ InOrder' /\ CallsKept
  BY <1>9, SteadyKeeps
<1>11. /\ DOMAIN version' = Objects
       /\ version'[o] = [version[o] EXCEPT ![w] = version[o][w] + 1]
       /\ \A u \in Objects : u # o => version'[u] = version[u]
  BY <1>1 DEF Change, Typed
<1>12. \A u \in Objects : version'[u] \in [Words[u] -> Nat]
  <2>1. version[o] \in [Words[o] -> Nat] /\ version[o][w] + 1 \in Nat
    BY <1>1 DEF Typed
  <2>2. version'[o] \in [Words[o] -> Nat]
    BY <1>11, <2>1
  <2>. QED  BY <1>1, <1>11, <2>2 DEF Typed
<1>13. Typed'
  BY <1>1, <1>2, <1>6, <1>11, <1>12 DEF Typed, Pushed, Live
<1>14. Piled'
  BY <1>1, <1>4, <1>6, <1>7, <1>10, BelowPushed
<1>15. ModesOk'
  BY <1>1, <1>2, <1>4, <1>6, <1>7, ModesPushed
<1>16. Len(stack) \in Nat /\ Len(stack') = Len(stack) + 1
  BY <1>1, <1>6 DEF Typed, Pushed
<1>17. \A i \in 1..Len(stack') : i # 1 => i - 1 \in 1..Len(stack) /\ stack'[i] = stack[i - 1]
  <2>1. ASSUME NEW i \in 1..Len(stack'), i # 1
        PROVE  i - 1 \in 1..Len(stack) /\ stack'[i] = stack[i - 1]
    <3>1. i - 1 \in 1..Len(stack) /\ (i - 1) + 1 = i
      BY <1>16, <2>1
    <3>2. stack'[(i - 1) + 1] = stack[i - 1]
      BY <1>6, <3>1 DEF Pushed
    <3>. QED  BY <3>1, <3>2
  <2>. QED  BY <2>1
<1>18. stack'[1] = f
  BY <1>6 DEF Pushed
<1>19. WalksOk'
  <2>1. ASSUME NEW i \in 1..Len(stack'), NEW g, g = stack'[i], g.list \in Objects
        PROVE  WalkOk(g)
    <3>1. CASE i = 1
      BY <1>4, <1>18, <2>1, <3>1 DEF WalkOk
    <3>2. CASE i # 1
      BY <1>1, <1>17, <2>1, <3>2 DEF WalksOk
    <3>. QED  BY <3>1, <3>2
  <2>2. ASSUME NEW i \in 1..Len(stack'), NEW g, g = stack'[i], g.list \in Objects
        PROVE  WalkOk(g)'
    BY <1>9, <2>1, <2>2, UntouchedWalk
  <2>. QED  BY <2>2 DEF WalksOk, WalkOk
<1>21. UpToDate'
  <2>. SUFFICES ASSUME NEW d \in Callbacks, NEW u \in Objects, Live(d), callback[d].rtn,
                       callback[d].list = u, NEW x \in Words[u], Watches(d, x)
                PROVE  callback[d].seen[x] = version'[u][x] \/ Coming(d, u, x)'
    BY <1>2 DEF UpToDate, Live, Watches
  <2>1. CASE u = o /\ x = w
    <3>1. d <= first[o]
      BY <1>1, <1>3, <2>1, ObjectIn DEF ListsLinked, Linked
    <3>. QED  BY <1>1, <1>4, <1>6, <2>1, <3>1, ComingPushed
  <2>2. CASE ~(u = o /\ x = w)
    <3>1. version'[u][x] = version[u][x]
      <4>1. version[u] \in [Words[u] -> Nat]
        BY <1>1 DEF Typed
      <4>. QED  BY <1>11, <2>2, <4>1
    <3>2. callback[d].seen[x] = version[u][x] \/ Coming(d, u, x)
      BY <1>1 DEF UpToDate
    <3>. QED  BY <1>1, <1>6, <3>1, <3>2, ComingPushed
  <2>. QED  BY <2>1, <2>2
<1>. QED  BY <1>9, <1>10, <1>13, <1>14, <1>15, <1>19, <1>21 DEF CallbackInv

\* The next cell is unused, and older than the other unused ones.
LEMMA NextCell ==
    ASSUME Unused # {}
    PROVE  Min(Unused) \in Unused /\ \A d \in Unused : Min(Unused) <= d
<1>1. Unused \in SUBSET Nat
  BY BoundsAssumption DEF Unused, Callbacks
<1>2. \E x \in Unused : \A y \in Unused : x <= y
  BY <1>1, LeastNumber
<1>. QED  BY <1>2 DEF Min

\* Cell c is filled with a new callback.
Registered(c, r) ==
    /\ UserCode
    /\ c \in Unused /\ \A d \in Unused : c <= d
    /\ r \in Cell /\ r.state = "live" /\ r.rtn /\ r.list \in AnyList
    /\ \A o \in Objects : r.list = o => r.seen = version[o]
    /\ callback' = [callback EXCEPT ![c] = r]
    /\ UNCHANGED <<now, pc, stack, vpi_mode_flag, version>>
    /\ first' \in [Lists -> Handles] /\ agenda' \in Seq(Callbacks)

\* A new cell is newer than all that wait.
LEMMA RegisteredOk ==
    ASSUME CallbackInv, NEW c, NEW r, Registered(c, r)
    PROVE  /\ Typed' /\ InOrder' /\ Piled' /\ WalksOk' /\ ModesOk' /\ UpToDate'
           /\ \A d, l : In(d, l)' <=> In(d, l) \/ (d = c /\ l = r.list)
           /\ \A d \in Callbacks : d # c => callback'[d] = callback[d]
           /\ c \in Callbacks /\ callback'[c] = r
           /\ \A d, l : In(d, l) => d < c
<1>1. /\ Typed /\ Piled /\ WalksOk /\ ModesOk /\ UpToDate /\ ListsLinked
      /\ InOrder
  BY DEF CallbackInv
<1>2. /\ UNCHANGED <<now, pc, stack, vpi_mode_flag, version>>
      /\ first' \in [Lists -> Handles] /\ agenda' \in Seq(Callbacks)
  BY DEF Registered
<1>3. c \in Callbacks /\ callback[c].state = "unused" /\ ~Live(c)
  BY DEF Registered, Unused, Live
<1>4. /\ callback' \in [Callbacks -> Cell]
      /\ callback'[c] = r /\ \A d \in Callbacks : d # c => callback'[d] = callback[d]
  BY <1>1, <1>3 DEF Registered, Typed
<1>5. r.state = "live" /\ r.rtn /\ r.list \in AnyList /\ r \in Cell
  BY DEF Registered
<1>6. Called' = Called
  BY <1>2 DEF Called
<1>7. c # Called
  <2>1. Called # 0 => CallOk(stack[Len(stack)]) /\ Called = stack[Len(stack)].cur
    BY <1>1 DEF Called, Piled, Typed
  <2>2. c # 0
    BY <1>3, BoundsAssumption DEF Callbacks
  <2>. QED  BY <1>3, <2>1, <2>2 DEF CallOk
<1>8. \A d, l : In(d, l)' <=> In(d, l) \/ (d = c /\ l = r.list)
  <2>1. ASSUME NEW d \in Callbacks, NEW l
        PROVE  In(d, l)' <=> In(d, l) \/ (d = c /\ l = r.list)
    <3>1. CASE d = c
      BY <1>3, <1>4, <1>5, <1>6, <1>7, <3>1 DEF In, Live
    <3>2. CASE d # c
      BY <1>4, <1>6, <3>2 DEF In, Live
    <3>. QED  BY <3>1, <3>2
  <2>. QED  BY <1>3, <2>1 DEF In
<1>9. \A d, l : In(d, l) => d < c
  BY <1>1, <1>3 DEF In, InOrder, Live
<1>10. InOrder'
  <2>. SUFFICES ASSUME NEW d \in Callbacks, NEW e \in Callbacks,
                       callback'[d].state = "unused", callback'[e].state # "unused"
                PROVE  e < d
    BY DEF InOrder
  <2>1. d # c /\ callback[d].state = "unused"
    BY <1>4, <1>5
  <2>2. c < d
    <3>1. c <= d
      BY <2>1 DEF Registered, Unused
    <3>. QED  BY <1>3, <2>1, <3>1 DEF Callbacks
  <2>3. e # c => e < d
    BY <1>1, <1>4, <2>1 DEF InOrder
  <2>. QED  BY <2>2, <2>3
<1>11. \A d \in Callbacks : Live(d) => Live(d)' /\ callback'[d] = callback[d]
  BY <1>3, <1>4 DEF Live
<1>12. Typed'
  <2>1. \A d \in Callbacks : Live(d)' => callback'[d].list \in AnyList
    BY <1>1, <1>4, <1>5 DEF Typed, Live
  <2>2. ASSUME NEW d \in Callbacks, NEW o \in Objects, Live(d)', callback'[d].list = o
        PROVE  callback'[d].seen \in [Words[o] -> Nat]
    <3>1. CASE d = c
      BY <1>1, <1>4, <2>2, <3>1 DEF Registered, Typed
    <3>2. CASE d # c
      BY <1>1, <1>4, <2>2, <3>2 DEF Typed, Live
    <3>. QED  BY <3>1, <3>2
  <2>. QED  BY <1>1, <1>2, <1>4, <2>1, <2>2 DEF Typed
<1>13. Piled'
  <2>1. \A i \in 1..Len(stack) : stack[i] \in Frame
    BY <1>1 DEF Typed
  <2>. QED  BY <1>1, <1>2, <1>11, <2>1 DEF Piled, CallOk
<1>14. WalksOk'
  <2>1. \A i \in 1..Len(stack) : stack[i].cur # 0
    BY <1>1, UserFrames DEF Registered
  <2>2. ASSUME NEW i \in 1..Len(stack), NEW g, g = stack[i], g.list \in Objects
        PROVE  WalkOk(g)'
    <3>1. WalkOk(g) /\ g.cur # 0
      BY <1>1, <2>1, <2>2 DEF WalksOk
    <3>2. In(g.cur, g.list)' /\ callback'[g.cur].next = callback[g.cur].next
      BY <1>8, <1>11, <3>1 DEF WalkOk, In
    <3>. QED  BY <3>1, <3>2, WaitingWalk
  <2>. QED  BY <1>2, <2>2 DEF WalksOk, WalkOk
<1>16. ModesOk'
  BY <1>1, <1>2 DEF ModesOk, ModeUnder, ModeOut, ModeIn
<1>17. UpToDate'
  <2>. SUFFICES ASSUME NEW d \in Callbacks, NEW o \in Objects, Live(d)', callback'[d].rtn,
                       callback'[d].list = o, NEW w \in Words[o], Watches(d, w)'
                PROVE  callback'[d].seen[w] = version[o][w] \/ Coming(d, o, w)
    BY <1>2 DEF UpToDate, Coming
  <2>1. CASE d = c
    BY <1>4, <2>1 DEF Registered
  <2>2. CASE d # c
    BY <1>1, <1>4, <2>2 DEF UpToDate, Live, Watches
  <2>. QED  BY <2>1, <2>2
<1>. QED  BY <1>3, <1>4, <1>8, <1>9, <1>10, <1>12, <1>13, <1>14, <1>16, <1>17

\* A new cell is put at the head of its list.
LEMMA InsertOk ==
    ASSUME CallbackInv, UserCode, NEW l \in Lists, NEW w \in AnyWord, NEW s,
           s \in {<<>>} \union UNION {[Words[o] -> Nat] : o \in Objects},
           \A o \in Objects : l = o => s = version[o],
           Insert(l, w, s)
    PROVE  CallbackInv'
<1>0. PICK c, r : /\ c = Min(Unused)
                  /\ r = [NoCallback EXCEPT !.state = "live", !.rtn = TRUE, !.next = first[l],
                                            !.list = l, !.word = w, !.seen = s]
  OBVIOUS
<1>1. Typed /\ ListsLinked /\ OnAgenda
  BY DEF CallbackInv
<1>2. c \in Unused /\ \A d \in Unused : c <= d
  BY <1>0, NextCell DEF Insert
<1>3. /\ r.state = "live" /\ r.rtn /\ r.list = l /\ r.next = first[l] /\ r.word = w
      /\ r.seen = s /\ r.due = 0
      /\ r = [state |-> r.state, rtn |-> r.rtn, next |-> r.next, list |-> r.list,
              word |-> r.word, due |-> r.due, seen |-> r.seen]
  BY <1>0 DEF NoCallback
<1>4. first[l] \in Handles /\ l \in AnyList
  BY <1>1 DEF Typed, AnyList
<1>5. r \in Cell
  <2>1. /\ r.state \in {"unused", "live", "freed"} /\ r.rtn \in BOOLEAN /\ r.next \in Handles
        /\ r.list \in AnyList \union {"none"} /\ r.word \in AnyWord /\ r.due \in Nat
        /\ r.seen \in {<<>>} \union UNION {[Words[o] -> Nat] : o \in Objects}
    BY <1>0, <1>3, <1>4 DEF NoCallback
  <2>. QED  BY <1>3, <2>1 DEF Cell
<1>6. c \in Callbacks /\ c \in Handles /\ c # 0
  BY <1>2, BoundsAssumption DEF Unused, Callbacks, Handles
<1>7. /\ callback' = [callback EXCEPT ![c] = r] /\ first' = [first EXCEPT ![l] = c]
      /\ UNCHANGED <<agenda, now, pc, stack, vpi_mode_flag, version>>
  BY <1>0, Zenon DEF Insert
<1>8. /\ first' \in [Lists -> Handles] /\ first'[l] = c
      /\ \A m \in Lists : m # l => first'[m] = first[m]
  BY <1>1, <1>6, <1>7 DEF Typed
<1>9. Registered(c, r)
  BY <1>1, <1>2, <1>3, <1>4, <1>5, <1>7, <1>8 DEF Registered, Typed
<1>10. /\ Typed' /\ InOrder' /\ Piled' /\ WalksOk' /\ ModesOk' /\ UpToDate'
       /\ \A d, m : In(d, m)' <=> In(d, m) \/ (d = c /\ m = l)
       /\ \A d \in Callbacks : d # c => callback'[d] = callback[d]
       /\ callback'[c] = r
       /\ \A d, m : In(d, m) => d < c
  BY <1>3, <1>9, RegisteredOk
<1>11. OnAgenda'
  <2>1. l \notin Syncs
    BY ListNames
  <2>2. \A d : \A m \in Syncs : In(d, m)' <=> In(d, m)
    BY <1>10, <2>1
  <2>. QED  BY <1>1, <1>7, <2>2 DEF OnAgenda
<1>12. \A d, m : In(d, m) => d \in Callbacks /\ d # c
  BY <1>6, <1>10 DEF In, Callbacks
<1>13. ASSUME NEW m \in Lists, m # l PROVE Linked(m)'
  <2>1. Untouched(m)
    BY <1>8, <1>10, <1>12, <1>13 DEF Untouched
  <2>. QED  BY <1>1, <2>1, UntouchedLinked DEF ListsLinked
<1>14. Linked(l)'
  <2>1. Linked(l)
    BY <1>1 DEF ListsLinked
  <2>2. \A d \in Callbacks : In(d, l)' => d <= c
    BY <1>6, <1>10 DEF Callbacks
  <2>3. ASSUME NEW e \in Callbacks, In(e, l)', NEW m, m = callback'[e].next, m # 0
        PROVE  In(m, l)' /\ m < e
    <3>1. CASE e = c
      BY <1>3, <1>10, <2>1, <2>3, <3>1 DEF Linked
    <3>2. CASE e # c
      BY <1>10, <2>1, <2>3, <3>2 DEF Linked
    <3>. QED  BY <3>1, <3>2
  <2>4. ASSUME NEW e \in Callbacks, NEW d \in Callbacks, In(e, l)', In(d, l)', d < e
        PROVE  d <= callback'[e].next
    <3>1. CASE e = c
      <4>1. In(d, l)
        BY <1>6, <1>10, <2>4, <3>1 DEF Callbacks
      <4>. QED  BY <1>3, <1>10, <2>1, <3>1, <4>1 DEF Linked
    <3>2. CASE e # c
      <4>1. In(e, l) /\ In(d, l)
        <5>1. In(e, l) /\ e < c
          BY <1>10, <2>4, <3>2
        <5>2. d # c
          BY <1>6, <2>4, <5>1 DEF Callbacks
        <5>. QED  BY <1>10, <2>4, <5>1, <5>2
      <4>. QED  BY <1>10, <2>1, <2>4, <3>2, <4>1 DEF Linked
    <3>. QED  BY <3>1, <3>2
  <2>5. ASSUME NEW m, m = first'[l], m # 0 PROVE In(m, l)'
    BY <1>8, <1>10, <2>5
  <2>. QED  BY <1>8, <2>2, <2>3, <2>4, <2>5 DEF Linked
<1>15. ListsLinked'
  BY <1>13, <1>14 DEF ListsLinked, Linked
<1>. QED  BY <1>10, <1>11, <1>15 DEF CallbackInv

\* The registrations, one by one.
LEMMA RegisterValueChangeOk ==
    ASSUME CallbackInv, RegisterValueChange
    PROVE  CallbackInv'
<1>1. PICK o \in Objects : \E w \in Words[o] \cup {"all"} : Insert(o, w, version[o])
  BY DEF RegisterValueChange
<1>2. PICK w \in Words[o] \cup {"all"} : Insert(o, w, version[o])
  BY <1>1
<1>3. o \in Lists /\ w \in AnyWord
  BY DEF Lists, AnyWord
<1>4. version[o] \in [Words[o] -> Nat]
  BY DEF CallbackInv, Typed
<1>5. UserCode
  BY DEF RegisterValueChange
<1>. QED  BY <1>2, <1>3, <1>4, <1>5, InsertOk

\* For a phase.
LEMMA RegisterPhaseOk ==
    ASSUME CallbackInv, RegisterPhase
    PROVE  CallbackInv'
<1>1. PICK l \in Phases : Insert(l, "all", <<>>)
  BY DEF RegisterPhase
<1>2. l \in Lists /\ "all" \in AnyWord /\ l \notin Objects /\ UserCode
  BY ObjectsAssumption DEF Lists, AnyWord, RegisterPhase
<1>. QED  BY <1>1, <1>2, InsertOk

\* For a time.
LEMMA RegisterSyncOk ==
    ASSUME CallbackInv, RegisterSync
    PROVE  CallbackInv'
<1>. DEFINE Sync(reason, due, c, r) ==
         /\ c = Min(Unused)
         /\ r = [NoCallback EXCEPT !.state = "live", !.rtn = TRUE, !.list = reason, !.due = due]
         /\ callback' = [callback EXCEPT ![c] = r]
         /\ agenda' = Append(agenda, c)
<1>a. PICK reason \in Syncs, time \in 0..MaxTime :
         \E due, c, r : due = (IF time < now THEN now ELSE time) /\ Sync(reason, due, c, r)
  BY DEF RegisterSync
<1>0. PICK due, c, r : due = (IF time < now THEN now ELSE time) /\ Sync(reason, due, c, r)
  BY <1>a
<1>1. Typed /\ ListsLinked /\ OnAgenda
  BY DEF CallbackInv
<1>2. c \in Unused /\ \A d \in Unused : c <= d
  BY <1>0, NextCell DEF RegisterSync
<1>3. /\ r.state = "live" /\ r.rtn /\ r.list = reason /\ r.next = 0 /\ r.word = "all"
      /\ r.seen = <<>> /\ r.due = due
      /\ r = [state |-> r.state, rtn |-> r.rtn, next |-> r.next, list |-> r.list,
              word |-> r.word, due |-> r.due, seen |-> r.seen]
  BY <1>0 DEF NoCallback
<1>4. due \in Nat /\ reason \in AnyList /\ 0 \in Handles /\ reason \notin Lists /\ reason \notin Objects
  BY <1>0, <1>1, BoundsAssumption, ListNames DEF Typed, AnyList, Handles, Lists
<1>5. r \in Cell
  <2>1. /\ r.state \in {"unused", "live", "freed"} /\ r.rtn \in BOOLEAN /\ r.next \in Handles
        /\ r.list \in AnyList \union {"none"} /\ r.word \in AnyWord /\ r.due \in Nat
        /\ r.seen \in {<<>>} \union UNION {[Words[o] -> Nat] : o \in Objects}
    BY <1>0, <1>3, <1>4 DEF NoCallback, AnyWord
  <2>. QED  BY <1>3, <2>1 DEF Cell
<1>6. c \in Callbacks
  BY <1>2 DEF Unused
<1>7. /\ UNCHANGED <<first, now, pc, stack, vpi_mode_flag, version>> /\ UserCode
  BY DEF RegisterSync
<1>8. agenda' \in Seq(Callbacks)
  BY <1>0, <1>1, <1>6 DEF Typed
<1>9. Registered(c, r)
  BY <1>0, <1>1, <1>2, <1>3, <1>4, <1>5, <1>7, <1>8 DEF Registered, Typed
<1>10. /\ Typed' /\ InOrder' /\ Piled' /\ WalksOk' /\ ModesOk' /\ UpToDate'
       /\ \A d, m : In(d, m)' <=> In(d, m) \/ (d = c /\ m = reason)
       /\ \A d \in Callbacks : d # c => callback'[d] = callback[d]
       /\ \A d, m : In(d, m) => d < c
  BY <1>3, <1>9, RegisteredOk
<1>11. \A d, m : In(d, m) => d # c
  BY <1>6, <1>10 DEF In, Callbacks
<1>12. ListsLinked'
  <2>1. ASSUME NEW m \in Lists PROVE Untouched(m)
    <3>1. m # reason
      BY <1>4, <2>1
    <3>. QED  BY <1>7, <1>10, <1>11, <3>1 DEF Untouched
  <2>. QED  BY <1>1, <2>1, UntouchedLinked DEF ListsLinked
<1>13. OnAgenda'
  <2>1. /\ Len(agenda') = Len(agenda) + 1 /\ agenda'[Len(agenda) + 1] = c /\ Len(agenda) \in Nat
        /\ \A i \in 1..Len(agenda) : agenda'[i] = agenda[i] /\ agenda[i] \in Callbacks
    BY <1>0, <1>1, <1>6 DEF Typed
  <2>2. \A i \in 1..Len(agenda) : agenda[i] # c /\ \E l \in Syncs : In(agenda[i], l)
    BY <1>1, <1>11 DEF OnAgenda
  <2>3. \A i \in 1..Len(agenda') : i \in 1..Len(agenda) \/ i = Len(agenda) + 1
    BY <2>1
  <2>4. ASSUME NEW i \in 1..Len(agenda'), NEW j \in 1..Len(agenda'), agenda'[i] = agenda'[j]
        PROVE  i = j
    BY <1>1, <2>1, <2>2, <2>3, <2>4 DEF OnAgenda
  <2>5. ASSUME NEW i \in 1..Len(agenda'), NEW d, d = agenda'[i]
        PROVE  \E l \in Syncs : In(d, l)'
    BY <1>10, <2>1, <2>2, <2>3, <2>5
  <2>6. ASSUME NEW d \in Callbacks, NEW l \in Syncs, In(d, l)'
        PROVE  \E i \in 1..Len(agenda') : agenda'[i] = d
    <3>1. CASE d = c
      BY <2>1, <3>1
    <3>2. CASE d # c
      <4>1. PICK i \in 1..Len(agenda) : agenda[i] = d
        BY <1>1, <1>10, <2>6, <3>2 DEF OnAgenda
      <4>. QED  BY <2>1, <4>1
    <3>. QED  BY <3>1, <3>2
  <2>. QED  BY <2>4, <2>5, <2>6 DEF OnAgenda
<1>. QED  BY <1>10, <1>12, <1>13 DEF CallbackInv

-----------------------------------------------------------------------------
(* Phases, times and the end of their routines.                            *)

\* While no call is under way everything is up to date.
LEMMA IdleFacts ==
    ASSUME CallbackInv, stack = <<>>
    PROVE  /\ Called = 0 /\ Len(stack) = 0
           /\ vpi_mode_flag = ModeOut
           /\ \A c \in Callbacks : \A o \in Objects :
                 Live(c) /\ callback[c].rtn /\ callback[c].list = o =>
                    \A w \in Words[o] : Watches(c, w) => callback[c].seen[w] = version[o][w]
  BY DEF CallbackInv, ModesOk, Called, UpToDate, Coming

\* Only where schedule_simulate is changes, and the time and the mode.
LEMMA QuietOk ==
    ASSUME CallbackInv, stack = <<>>, UNCHANGED <<callback, first, agenda, stack, version>>,
           now' \in Nat, vpi_mode_flag' = ModeOut'
    PROVE  CallbackInv'
<1>1. /\ Typed /\ ListsLinked /\ OnAgenda /\ InOrder /\ UpToDate
  BY DEF CallbackInv
<1>2. Called' = Called
  BY DEF Called
<1>3. \A c, l : In(c, l)' <=> In(c, l)
  BY <1>2 DEF In, Live
<1>4. ListsLinked'
  <2>1. \A l : Untouched(l)
    BY <1>3 DEF Untouched
  <2>. QED  BY <1>1, <2>1, UntouchedLinked DEF ListsLinked
<1>5. OnAgenda'
  <2>1. \A i \in 1..Len(agenda) : \E l \in Syncs : In(agenda[i], l)
    BY <1>1 DEF OnAgenda
  <2>. QED  BY <1>1, <1>3, <2>1 DEF OnAgenda
<1>6. InOrder'
  BY <1>1 DEF InOrder
<1>7. Typed'
  <2>1. vpi_mode_flag' \in Modes
    BY DEF ModeOut, ModeIn, Modes
  <2>. QED  BY <1>1, <2>1 DEF Typed, Live
<1>8. Piled' /\ WalksOk'
  BY DEF Piled, WalksOk
<1>9. ModesOk'
  BY DEF ModesOk
<1>10. UpToDate'
  BY <1>1 DEF UpToDate, Live, Watches, Coming
<1>. QED  BY <1>4, <1>5, <1>6, <1>7, <1>8, <1>9, <1>10 DEF CallbackInv

\* The steps that are of that kind.
LEMMA QuietStepsOk ==
    ASSUME CallbackInv, PhaseEnd \/ Begin \/ InitDone \/ StartOver \/ Advance \/ Finish
    PROVE  CallbackInv'
<1>1. now \in Nat
  BY DEF CallbackInv, Typed
<1>2. CASE PhaseEnd
  <2>1. stack = <<>> /\ UNCHANGED <<callback, first, agenda, stack, version, now>>
    BY <1>2 DEF PhaseEnd, InPhase
  <2>2. vpi_mode_flag = ModeOut
    BY <2>1, IdleFacts
  <2>3. vpi_mode_flag' = ModeOut'
    <3>1. CASE pc = "NextSimTime"
      <4>1. pc' = "start" /\ vpi_mode_flag' = vpi_mode_flag
        BY <1>2, <3>1 DEF PhaseEnd
      <4>. QED  BY <2>2, <3>1, <4>1 DEF ModeOut, ModeIn, Phases
    <3>2. CASE pc # "NextSimTime"
      <4>1. pc \in {"EndOfCompile", "StartOfSimulation", "EndOfSimulation"}
        BY <1>2, <3>2 DEF PhaseEnd, InPhase, Phases
      <4>2. pc' \in {"init", "loop", "done"} /\ vpi_mode_flag' = "NONE"
        BY <1>2, <4>1 DEF PhaseEnd
      <4>. QED  BY <4>2 DEF ModeOut, Phases
    <3>. QED  BY <3>1, <3>2
  <2>. QED  BY <1>1, <2>1, <2>3, QuietOk
<1>3. CASE Begin
  <2>1. vpi_mode_flag' = ModeOut'
    BY <1>3 DEF Begin, ModeOut, ModeIn, Phases
  <2>. QED  BY <1>1, <1>3, <2>1, QuietOk DEF Begin, Idle
<1>4. CASE InitDone
  <2>1. vpi_mode_flag' = ModeOut'
    BY <1>4 DEF InitDone, ModeOut, ModeIn, Phases
  <2>. QED  BY <1>1, <1>4, <2>1, QuietOk DEF InitDone, Idle
<1>5. CASE StartOver
  <2>1. vpi_mode_flag = ModeOut
    BY <1>5, IdleFacts DEF StartOver, Idle
  <2>2. vpi_mode_flag' = ModeOut'
    BY <1>5, <2>1 DEF StartOver, ModeOut, Phases
  <2>. QED  BY <1>1, <1>5, <2>2, QuietOk DEF StartOver, Idle
<1>6. CASE Advance
  <2>1. vpi_mode_flag = ModeOut
    BY <1>6, IdleFacts DEF Advance, Idle
  <2>2. vpi_mode_flag' = ModeOut' /\ now' \in Nat
    BY <1>1, <1>6, <2>1 DEF Advance, ModeOut, ModeIn, Phases
  <2>. QED  BY <1>6, <2>2, QuietOk DEF Advance, Idle
<1>7. CASE Finish
  <2>1. vpi_mode_flag' = ModeOut'
    BY <1>7 DEF Finish, ModeOut, ModeIn, Phases
  <2>. QED  BY <1>1, <1>7, <2>1, QuietOk DEF Finish, Idle
<1>. QED  BY <1>2, <1>3, <1>4, <1>5, <1>6, <1>7

\* The only frame is that of a call.
LEMMA OneCallOk ==
    ASSUME CallbackInv, stack = <<>>, NEW f \in Frame, stack' = <<f>>,
           f.list \in Phases \union Syncs, f.cur # 0, CallOk(f)',
           vpi_mode_flag' = ModeIn(f.list)
    PROVE  /\ stack' \in Seq(Frame) /\ Called' = f.cur
           /\ Piled' /\ WalksOk' /\ ModesOk'
<1>1. Len(stack') = 1 /\ stack'[1] = f /\ stack' # <<>> /\ stack' \in Seq(Frame)
  OBVIOUS
<1>2. f.list \notin Objects
  BY ListNames
<1>3. Called' = f.cur
  BY <1>1, <1>2 DEF Called
<1>4. \A i \in 1..Len(stack') : i = 1 /\ stack'[i] = f
  BY <1>1
<1>5. Piled'
  BY <1>1, <1>4 DEF Piled, CallOk
<1>6. WalksOk'
  BY <1>2, <1>4 DEF WalksOk
<1>7. ModesOk'
  BY <1>1, <1>2, <1>4 DEF ModesOk, ModeIn
<1>. QED  BY <1>1, <1>3, <1>5, <1>6, <1>7

\* The first callback of a phase is taken off its list and called.
LEMMA PhaseCallOk ==
    ASSUME CallbackInv, PhaseCall
    PROVE  CallbackInv'
<1>0. PICK c, f : c = first[pc] /\ f = Call(c)
  OBVIOUS
<1>1. /\ Typed /\ ListsLinked /\ OnAgenda /\ InOrder /\ UpToDate
  BY DEF CallbackInv
<1>2. stack = <<>> /\ pc \in Phases /\ c # 0
  BY <1>0 DEF PhaseCall, InPhase
<1>3. /\ UNCHANGED <<callback, agenda, now, pc, vpi_mode_flag, version>>
      /\ stack' = <<f>> /\ first' = [first EXCEPT ![pc] = callback[c].next]
  BY <1>0 DEF PhaseCall
<1>4. pc \in Lists /\ Linked(pc) /\ pc \notin Syncs /\ pc \notin Objects /\ pc \in AnyList
  BY <1>1, <1>2, ListNames DEF Lists, ListsLinked, AnyList
<1>5. In(c, pc) /\ c \in Callbacks /\ Live(c) /\ callback[c].list = pc
  BY <1>0, <1>2, <1>4 DEF Linked, In
<1>6. callback[c] \in Cell /\ c \in Handles /\ 0 \in Handles
  BY <1>1, <1>5, BoundsAssumption DEF Typed, Handles, Callbacks
<1>7. f \in Frame /\ f.list = pc /\ f.cur = c
  BY <1>0, <1>4, <1>5, <1>6 DEF Call, Frame, AnyWord, Modes
<1>8. Called = 0 /\ vpi_mode_flag = ModeOut
  BY <1>2, IdleFacts
<1>9. vpi_mode_flag' = ModeIn(f.list)
  BY <1>2, <1>3, <1>7, <1>8 DEF ModeOut
<1>10. CallOk(f)'
  BY <1>2, <1>3, <1>4, <1>5, <1>7 DEF CallOk, Live
<1>11. /\ stack' \in Seq(Frame) /\ Called' = c
       /\ Piled' /\ WalksOk' /\ ModesOk'
  BY <1>2, <1>3, <1>7, <1>9, <1>10, OneCallOk
<1>12. \A d, l : In(d, l)' <=> In(d, l) /\ d # c
  BY <1>2, <1>3, <1>8, <1>11, BoundsAssumption DEF In, Live, Callbacks
<1>13. callback[c].next \in Handles
  BY <1>6 DEF Cell
<1>14. /\ first' \in [Lists -> Handles] /\ first'[pc] = callback[c].next
       /\ \A l \in Lists : l # pc => first'[l] = first[l]
  BY <1>1, <1>3, <1>4, <1>13 DEF Typed
<1>15. Typed'
  BY <1>1, <1>3, <1>11, <1>14 DEF Typed, Live
<1>16. OnAgenda'
  <2>1. \A d : \A l \in Syncs : In(d, l)' <=> In(d, l)
    BY <1>4, <1>5, <1>12 DEF In
  <2>. QED  BY <1>1, <1>3, <2>1 DEF OnAgenda
<1>17. InOrder'
  BY <1>1, <1>3 DEF InOrder
<1>18. UpToDate'
  <2>1. \A d \in Callbacks : \A o \in Objects :
           Live(d) /\ callback[d].rtn /\ callback[d].list = o =>
              \A w \in Words[o] : Watches(d, w) => callback[d].seen[w] = version[o][w]
    BY <1>2, IdleFacts
  <2>. QED  BY <1>3, <2>1 DEF UpToDate, Live, Watches
<1>19. ASSUME NEW l \in Lists, NEW p, p = pc, l # p PROVE Linked(l)'
  <2>1. \A d \in Callbacks : In(d, l) => d # c
    BY <1>5, <1>19 DEF In
  <2>2. Untouched(l)
    BY <1>3, <1>12, <1>14, <1>19, <2>1 DEF Untouched
  <2>. QED  BY <1>1, <2>2, UntouchedLinked DEF ListsLinked
<1>20. ASSUME NEW l, l = pc PROVE Linked(l)'
  <2>0. /\ Linked(l) /\ In(c, l) /\ c \in Nat /\ first'[l] = callback[c].next
        /\ first[l] = c
    BY <1>0, <1>4, <1>5, <1>14, <1>20 DEF Callbacks
  <2>1. \A d : In(d, l)' <=> In(d, l) /\ d # c
    BY <1>12
  <2>2. \A d : In(d, l) => d \in Callbacks /\ d \in Nat /\ d <= c
    BY <2>0 DEF Linked, In, Callbacks
  <2>3. ASSUME NEW m, m = first'[l], m # 0 PROVE In(m, l)'
    <3>1. In(m, l) /\ m < c
      BY <1>5, <2>0, <2>3 DEF Linked
    <3>. QED  BY <2>0, <2>1, <2>2, <3>1
  <2>4. ASSUME NEW d \in Callbacks, In(d, l)' PROVE d <= first'[l]
    <3>1. In(d, l) /\ d < c
      BY <2>0, <2>1, <2>2, <2>4
    <3>. QED  BY <1>5, <2>0, <3>1 DEF Linked
  <2>5. ASSUME NEW e \in Callbacks, In(e, l)', NEW m, m = callback[e].next, m # 0
        PROVE  In(m, l)' /\ m < e
    <3>1. In(e, l) /\ e <= c /\ e \in Nat
      BY <2>1, <2>2, <2>5
    <3>2. In(m, l) /\ m < e
      BY <2>0, <2>5, <3>1 DEF Linked
    <3>3. m # c
      BY <2>0, <2>2, <3>1, <3>2
    <3>. QED  BY <2>1, <3>2, <3>3
  <2>6. ASSUME NEW e \in Callbacks, NEW d \in Callbacks, In(e, l)', In(d, l)', d < e
        PROVE  d <= callback[e].next
    BY <2>0, <2>1, <2>6 DEF Linked
  <2>. QED  BY <1>3, <2>3, <2>4, <2>5, <2>6 DEF Linked
<1>21. ListsLinked'
  BY <1>19, <1>20 DEF ListsLinked, Linked
<1>. QED  BY <1>11, <1>15, <1>16, <1>17, <1>18, <1>21 DEF CallbackInv

\* One is taken out of a sequence.
LEMMA OneRemoved ==
    ASSUME NEW S, NEW s \in Seq(S), NEW i \in 1..Len(s)
    PROVE  /\ RemoveAt(s, i) \in Seq(S)
           /\ Len(RemoveAt(s, i)) = Len(s) - 1
           /\ \A j \in 1..(Len(s) - 1) :
                 RemoveAt(s, i)[j] = IF j < i THEN s[j] ELSE s[j + 1]
<1>1. Len(s) \in Nat /\ i \in Nat /\ 1 <= i /\ i <= Len(s)
  OBVIOUS
<1>. DEFINE a == SubSeq(s, 1, i - 1)
            b == SubSeq(s, i + 1, Len(s))
<1>2. a \in Seq(S) /\ Len(a) = i - 1 /\ \A j \in 1..(i - 1) : a[j] = s[j]
  BY <1>1
<1>3. b \in Seq(S) /\ Len(b) = Len(s) - i /\ \A j \in 1..(Len(s) - i) : b[j] = s[i + j]
  BY <1>1
<1>4. RemoveAt(s, i) = a \o b
  BY DEF RemoveAt
<1>. HIDE DEF a, b
<1>5. a \o b \in Seq(S) /\ Len(a \o b) = Len(s) - 1
  <2>1. a \o b \in Seq(S)
    BY <1>2, <1>3
  <2>2. Len(a \o b) = Len(a) + Len(b)
    BY <1>2, <1>3, ConcatProperties
  <2>. QED  BY <1>1, <1>2, <1>3, <2>1, <2>2
<1>6. ASSUME NEW j \in 1..(Len(s) - 1) PROVE (a \o b)[j] = IF j < i THEN s[j] ELSE s[j + 1]
  <2>1. CASE j < i
    <3>1. j \in 1..(i - 1) /\ (a \o b)[j] = a[j]
      BY <1>1, <1>2, <1>3, <2>1
    <3>. QED  BY <1>2, <2>1, <3>1
  <2>2. CASE ~(j < i)
    <3>1. j - (i - 1) \in 1..(Len(s) - i) /\ i + (j - (i - 1)) = j + 1
      BY <1>1, <2>2
    <3>2. (a \o b)[j] = b[j - (i - 1)]
      BY <1>1, <1>2, <1>3, <2>2
    <3>. QED  BY <1>3, <2>2, <3>1, <3>2
  <2>. QED  BY <2>1, <2>2
<1>. QED  BY <1>4, <1>5, <1>6

\* What waits for a time is taken from the agenda.
LEMMA TakenFromAgenda ==
    ASSUME Typed, OnAgenda, NEW i \in 1..Len(agenda), NEW c, c = agenda[i],
           agenda' = RemoveAt(agenda, i),
           \A d, l : In(d, l)' <=> In(d, l) /\ d # c
    PROVE  agenda' \in Seq(Callbacks) /\ OnAgenda'
<1>1. /\ agenda' \in Seq(Callbacks) /\ Len(agenda') = Len(agenda) - 1 /\ Len(agenda) \in Nat
      /\ \A j \in 1..(Len(agenda) - 1) : agenda'[j] = IF j < i THEN agenda[j] ELSE agenda[j + 1]
  <2>1. agenda \in Seq(Callbacks)
    BY DEF Typed
  <2>2. Len(agenda) \in Nat
    BY <2>1
  <2>3. /\ RemoveAt(agenda, i) \in Seq(Callbacks)
        /\ Len(RemoveAt(agenda, i)) = Len(agenda) - 1
        /\ \A j \in 1..(Len(agenda) - 1) :
              RemoveAt(agenda, i)[j] = IF j < i THEN agenda[j] ELSE agenda[j + 1]
    BY <2>1, OneRemoved
  <2>. QED  BY <2>2, <2>3
<1>2. ASSUME NEW j \in 1..Len(agenda')
      PROVE  \E k \in 1..Len(agenda) : k # i /\ agenda'[j] = agenda[k]
                                       /\ k = IF j < i THEN j ELSE j + 1
  BY <1>1
<1>3. ASSUME NEW k \in 1..Len(agenda), k # i
      PROVE  \E j \in 1..Len(agenda') : agenda'[j] = agenda[k]
  <2>1. CASE k < i
    BY <1>1, <2>1
  <2>2. CASE ~(k < i)
    <3>1. k - 1 \in 1..(Len(agenda) - 1) /\ ~(k - 1 < i) /\ (k - 1) + 1 = k
      BY <1>1, <1>3, <2>2
    <3>2. agenda'[k - 1] = agenda[k]
      BY <1>1, <3>1
    <3>. QED  BY <1>1, <3>1, <3>2
  <2>. QED  BY <2>1, <2>2
<1>4. \A k, n \in 1..Len(agenda) : agenda[k] = agenda[n] => k = n
  BY DEF OnAgenda
<1>5. ASSUME NEW j \in 1..Len(agenda'), NEW m \in 1..Len(agenda'), agenda'[j] = agenda'[m]
      PROVE  j = m
  <2>1. PICK k \in 1..Len(agenda) : /\ agenda'[j] = agenda[k]
                                    /\ k = IF j < i THEN j ELSE j + 1
    BY <1>2
  <2>2. PICK n \in 1..Len(agenda) : /\ agenda'[m] = agenda[n]
                                    /\ n = IF m < i THEN m ELSE m + 1
    BY <1>2
  <2>3. k = n
    BY <1>4, <1>5, <2>1, <2>2
  <2>. QED  BY <1>1, <2>1, <2>2, <2>3
<1>6. ASSUME NEW j \in 1..Len(agenda'), NEW d, d = agenda'[j]
      PROVE  \E l \in Syncs : In(d, l)'
  <2>1. PICK k \in 1..Len(agenda) : k # i /\ d = agenda[k]
    BY <1>2, <1>6
  <2>2. d # c
    BY <1>4, <2>1
  <2>. QED  BY <2>1, <2>2 DEF OnAgenda
<1>7. ASSUME NEW d \in Callbacks, NEW l \in Syncs, In(d, l)'
      PROVE  \E j \in 1..Len(agenda') : agenda'[j] = d
  <2>1. In(d, l) /\ d # c
    BY <1>7
  <2>2. PICK k \in 1..Len(agenda) : agenda[k] = d
    BY <2>1 DEF OnAgenda
  <2>3. k # i
    BY <2>1, <2>2
  <2>. QED  BY <1>3, <2>2, <2>3
<1>. QED  BY <1>1, <1>5, <1>6, <1>7 DEF OnAgenda

\* A callback for a time is called, or freed if it was removed.
LEMMA RunRunOk ==
    ASSUME CallbackInv, run_run
    PROVE  CallbackInv'
<1>0. PICK i \in DueNow :
         /\ Turn(agenda[i]) /\ agenda' = RemoveAt(agenda, i)
         /\ IF callback[agenda[i]].rtn
            THEN /\ stack' = <<Call(agenda[i])>>
                 /\ vpi_mode_flag' = IF callback[agenda[i]].list = "ReadOnlySynch"
                                     THEN "ROSYNC" ELSE "RWSYNC"
                 /\ UNCHANGED callback
            ELSE /\ callback' = [callback EXCEPT ![agenda[i]] = Freed]
                 /\ UNCHANGED <<stack, vpi_mode_flag>>
  BY DEF run_run
<1>1. PICK c, f : c = agenda[i] /\ f = Call(c)
  OBVIOUS
<1>2. /\ Typed /\ ListsLinked /\ OnAgenda /\ InOrder /\ UpToDate
  BY DEF CallbackInv
<1>3. stack = <<>> /\ UNCHANGED <<first, now, pc, version>>
  BY DEF run_run, Idle
<1>4. i \in 1..Len(agenda) /\ c \in Callbacks
  BY <1>1, <1>2 DEF DueNow, Typed
<1>5. PICK l \in Syncs : In(c, l)
  BY <1>1, <1>2, <1>4 DEF OnAgenda
<1>6. Live(c) /\ callback[c].list = l /\ l \notin Lists /\ l \notin Objects /\ l \in AnyList
  BY <1>5, ListNames DEF In, Lists, AnyList
<1>7. Called = 0 /\ vpi_mode_flag = ModeOut
  BY <1>3, IdleFacts
<1>8. callback[c] \in Cell /\ c \in Handles /\ 0 \in Handles /\ c # 0
  BY <1>2, <1>4, BoundsAssumption DEF Typed, Handles, Callbacks
<1>9. \A d \in Callbacks : \A o \in Objects :
         Live(d) /\ callback[d].rtn /\ callback[d].list = o =>
            \A w \in Words[o] : Watches(d, w) => callback[d].seen[w] = version[o][w]
  BY <1>3, IdleFacts
<1>10. \A d, m : In(d, m) => d \in Callbacks
  BY DEF In
<1>11. \A d : \A m \in Lists : In(d, m) => d # c
  BY <1>6 DEF In
<1>12. CASE callback[c].rtn
  <2>1. /\ stack' = <<f>> /\ callback' = callback
        /\ vpi_mode_flag' = IF l = "ReadOnlySynch" THEN "ROSYNC" ELSE "RWSYNC"
    BY <1>0, <1>1, <1>6, <1>12
  <2>2. f \in Frame /\ f.list = l /\ f.cur = c
    BY <1>1, <1>6, <1>8 DEF Call, Frame, AnyWord, Modes
  <2>3. vpi_mode_flag' = ModeIn(f.list)
    BY <2>1, <2>2 DEF ModeIn, Syncs
  <2>4. pc \in {"start", "loop"}
    BY <1>0, <1>1, <1>6 DEF Turn, Syncs
  <2>5. CallOk(f)'
    BY <1>3, <1>4, <1>6, <2>1, <2>2, <2>4, ListNames DEF CallOk, Live, Lists
  <2>6. /\ stack' \in Seq(Frame) /\ Called' = c
        /\ Piled' /\ WalksOk' /\ ModesOk'
    BY <1>3, <1>8, <2>1, <2>2, <2>3, <2>5, OneCallOk
  <2>7. \A d, m : In(d, m)' <=> In(d, m) /\ d # c
    BY <1>7, <2>1, <2>6, BoundsAssumption DEF In, Live, Callbacks
  <2>8. agenda' \in Seq(Callbacks) /\ OnAgenda'
    BY <1>0, <1>1, <1>2, <1>4, <2>7, TakenFromAgenda
  <2>9. ListsLinked'
    <3>1. \A m \in Lists : Untouched(m)
      BY <1>3, <1>11, <2>1, <2>7 DEF Untouched
    <3>. QED  BY <1>2, <3>1, UntouchedLinked DEF ListsLinked
  <2>10. Typed'
    <3>1. vpi_mode_flag' \in Modes
      BY <2>1 DEF Modes
    <3>. QED  BY <1>2, <1>3, <2>1, <2>6, <2>8, <3>1 DEF Typed, Live
  <2>11. InOrder'
    BY <1>2, <2>1 DEF InOrder
  <2>12. UpToDate'
    BY <1>3, <1>9, <2>1 DEF UpToDate, Live, Watches
  <2>. QED  BY <2>6, <2>8, <2>9, <2>10, <2>11, <2>12 DEF CallbackInv
<1>13. CASE ~callback[c].rtn
  <2>1. callback' = [callback EXCEPT ![c] = Freed] /\ UNCHANGED <<stack, vpi_mode_flag>>
    BY <1>0, <1>1, <1>13
  <2>2. PICK p : p = 0
    OBVIOUS
  <2>3. /\ callback' \in [Callbacks -> Cell]
        /\ callback'[c].state = "freed"
        /\ \A d \in Callbacks : d # c =>
             /\ callback'[d].state = callback[d].state /\ callback'[d].rtn = callback[d].rtn
             /\ callback'[d].list = callback[d].list /\ callback'[d].word = callback[d].word
             /\ callback'[d].seen = callback[d].seen
             /\ callback'[d].next = IF d = p THEN callback[c].next ELSE callback[d].next
    BY <1>2, <1>4, <2>1, <2>2, CellsUnlinked DEF Typed
  <2>4. Called' = Called
    BY <2>1 DEF Called
  <2>5. \A d, m : In(d, m)' <=> In(d, m) /\ d # c
    <3>1. ASSUME NEW d \in Callbacks, NEW m PROVE In(d, m)' <=> In(d, m) /\ d # c
      <4>1. CASE d = c
        BY <2>3, <4>1 DEF In, Live
      <4>2. CASE d # c
        BY <2>3, <2>4, <4>2 DEF In, Live
      <4>. QED  BY <4>1, <4>2
    <3>. QED  BY <3>1 DEF In
  <2>6. agenda' \in Seq(Callbacks) /\ OnAgenda'
    BY <1>0, <1>1, <1>2, <1>4, <2>5, TakenFromAgenda
  <2>7. \A d \in Callbacks : d # p
    BY <2>2, BoundsAssumption DEF Callbacks
  <2>8. ListsLinked'
    <3>1. \A m \in Lists : Untouched(m)
      BY <1>3, <1>11, <2>3, <2>5, <2>7 DEF Untouched
    <3>. QED  BY <1>2, <3>1, UntouchedLinked DEF ListsLinked
  <2>9. \A d \in Callbacks : Live(d)' => d # c /\ Live(d)
    BY <2>3 DEF Live
  <2>10. Typed'
    <3>1. \A d \in Callbacks : Live(d)' => callback'[d].list \in AnyList
      BY <1>2, <2>3, <2>9 DEF Typed
    <3>2. ASSUME NEW d \in Callbacks, NEW o \in Objects, Live(d)', callback'[d].list = o
          PROVE  callback'[d].seen \in [Words[o] -> Nat]
      BY <1>2, <2>3, <2>9, <3>2 DEF Typed
    <3>. QED  BY <1>2, <1>3, <2>1, <2>3, <2>6, <3>1, <3>2 DEF Typed
  <2>11. InOrder'
    <3>1. \A d \in Callbacks : callback'[d].state = "unused" <=> callback[d].state = "unused"
      BY <1>6, <2>3 DEF Live
    <3>. QED  BY <1>2, <3>1 DEF InOrder
  <2>12. Piled' /\ WalksOk'
    BY <1>3, <2>1 DEF Piled, WalksOk
  <2>13. ModesOk'
    BY <1>3, <1>7, <2>1 DEF ModesOk, ModeOut, ModeIn
  <2>14. UpToDate'
    BY <1>3, <1>9, <2>3, <2>9 DEF UpToDate, Watches
  <2>. QED  BY <2>6, <2>8, <2>10, <2>11, <2>12, <2>13, <2>14 DEF CallbackInv
<1>. QED  BY <1>12, <1>13

\* The routine of a phase or a time returns.
LEMMA ReturnFromCallOk ==
    ASSUME CallbackInv, Return, Top.list \notin Objects
    PROVE  CallbackInv'
<1>1. /\ Typed /\ Piled /\ ModesOk /\ ListsLinked /\ OnAgenda /\ InOrder /\ UpToDate
  BY DEF CallbackInv
<1>2. stack # <<>> /\ 1 \in 1..Len(stack) /\ Top = stack[1] /\ Len(stack) \in Nat
  BY <1>1 DEF Return, InRoutine, Top, Typed
<1>3. Len(stack) = 1
  <2>1. 1 < Len(stack) => stack[1].list \in Objects
    BY <1>1, <1>2 DEF Piled
  <2>2. stack[1].list \notin Objects
    BY <1>2
  <2>3. ~(1 < Len(stack)) /\ 1 <= Len(stack)
    BY <1>2, <2>1, <2>2
  <2>4. PICK n : n = Len(stack)
    OBVIOUS
  <2>5. n \in Nat /\ 1 <= n /\ ~(1 < n)
    BY <1>2, <2>3, <2>4
  <2>6. n = 1
    BY <2>5
  <2>. QED  BY <2>4, <2>6
<1>4. PICK c, l : c = Top.cur /\ l = Top.list
  OBVIOUS
<1>5. /\ l \in Phases \union Syncs /\ l \notin Objects /\ c \in Callbacks /\ Live(c)
      /\ callback[c].list = l
      /\ l \in Phases => pc = l
      /\ l \in Syncs => pc \in {"start", "loop"}
  BY <1>1, <1>2, <1>4 DEF Piled, CallOk
<1>6. /\ callback' = [callback EXCEPT ![c] = Freed]
      /\ vpi_mode_flag' = IF l \in Syncs THEN "NONE" ELSE vpi_mode_flag
      /\ stack' = Tail(stack) /\ UNCHANGED <<first, agenda, now, pc, version>>
  BY <1>4 DEF Return
<1>7. stack' = <<>> /\ stack' \in Seq(Frame)
  BY <1>1, <1>2, <1>3, <1>6 DEF Typed
<1>8. Called = c /\ Called' = 0 /\ c # 0
  BY <1>2, <1>3, <1>4, <1>5, <1>7, BoundsAssumption DEF Called, Callbacks
<1>9. PICK p : p = 0
  OBVIOUS
<1>10. /\ callback' \in [Callbacks -> Cell]
       /\ callback'[c].state = "freed"
       /\ \A d \in Callbacks : d # c =>
            /\ callback'[d].state = callback[d].state /\ callback'[d].rtn = callback[d].rtn
            /\ callback'[d].list = callback[d].list /\ callback'[d].word = callback[d].word
            /\ callback'[d].seen = callback[d].seen
            /\ callback'[d].next = IF d = p THEN callback[c].next ELSE callback[d].next
  BY <1>1, <1>5, <1>6, <1>9, CellsUnlinked DEF Typed
<1>11. \A d, m : In(d, m)' <=> In(d, m)
  <2>1. ASSUME NEW d \in Callbacks, NEW m PROVE In(d, m)' <=> In(d, m)
    <3>1. CASE d = c
      BY <1>8, <1>10, <3>1 DEF In, Live
    <3>2. CASE d # c
      <4>1. d # Called' /\ d # Called
        BY <1>8, <3>2, BoundsAssumption DEF Callbacks
      <4>. QED  BY <1>10, <3>2, <4>1 DEF In, Live
    <3>. QED  BY <3>1, <3>2
  <2>. QED  BY <2>1 DEF In
<1>12. \A d \in Callbacks : d # p
  BY <1>9, BoundsAssumption DEF Callbacks
<1>13. \A d, m : In(d, m) => d # c /\ d \in Callbacks
  BY <1>8 DEF In
<1>14. ListsLinked'
  <2>1. \A m : Untouched(m)
    BY <1>6, <1>10, <1>11, <1>12, <1>13 DEF Untouched
  <2>. QED  BY <1>1, <2>1, UntouchedLinked DEF ListsLinked
<1>15. OnAgenda'
  BY <1>1, <1>6, <1>11 DEF OnAgenda
<1>16. \A d \in Callbacks : Live(d)' => d # c /\ Live(d)
  BY <1>10 DEF Live
<1>17. InOrder'
  <2>1. \A d \in Callbacks : callback'[d].state = "unused" <=> callback[d].state = "unused"
    BY <1>5, <1>10 DEF Live
  <2>. QED  BY <1>1, <2>1 DEF InOrder
<1>18. Typed'
  <2>1. \A d \in Callbacks : Live(d)' => callback'[d].list \in AnyList
    BY <1>1, <1>10, <1>16 DEF Typed
  <2>2. ASSUME NEW d \in Callbacks, NEW o \in Objects, Live(d)', callback'[d].list = o
        PROVE  callback'[d].seen \in [Words[o] -> Nat]
    BY <1>1, <1>10, <1>16, <2>2 DEF Typed
  <2>3. vpi_mode_flag' \in Modes
    BY <1>1, <1>6 DEF Typed, Modes
  <2>. QED  BY <1>1, <1>6, <1>7, <1>10, <2>1, <2>2, <2>3 DEF Typed
<1>19. Piled' /\ WalksOk'
  BY <1>7 DEF Piled, WalksOk
<1>20. ModesOk'
  <2>1. vpi_mode_flag = ModeIn(l)
    BY <1>1, <1>2, <1>4 DEF ModesOk, Return, InRoutine
  <2>2. CASE l \in Syncs
    <3>1. vpi_mode_flag' = "NONE" /\ pc \notin Phases
      BY <1>5, <1>6, <2>2 DEF Phases
    <3>. QED  BY <1>6, <1>7, <3>1 DEF ModesOk, ModeOut
  <2>3. CASE l \notin Syncs
    <3>1. l \in Phases /\ pc = l /\ vpi_mode_flag' = ModeIn(l)
      BY <1>5, <1>6, <2>1, <2>3
    <3>2. ModeOut' = ModeIn(l)
      BY <1>6, <3>1 DEF ModeOut, ModeIn
    <3>3. Len(stack') = 0
      BY <1>7
    <3>. QED  BY <1>7, <3>1, <3>2, <3>3 DEF ModesOk
  <2>. QED  BY <2>2, <2>3
<1>21. UpToDate'
  <2>. SUFFICES ASSUME NEW d \in Callbacks, NEW o \in Objects, Live(d)', callback'[d].rtn,
                       callback'[d].list = o, NEW w \in Words[o], Watches(d, w)'
                PROVE  callback'[d].seen[w] = version[o][w]
    BY <1>6 DEF UpToDate
  <2>1. /\ Live(d) /\ callback[d].rtn /\ callback[d].list = o /\ Watches(d, w)
        /\ callback'[d].seen = callback[d].seen
    BY <1>10, <1>16 DEF Watches
  <2>2. ~Coming(d, o, w)
    BY <1>2, <1>3, <1>4, <1>5 DEF Coming
  <2>. QED  BY <1>1, <2>1, <2>2 DEF UpToDate
<1>. QED  BY <1>14, <1>15, <1>17, <1>18, <1>19, <1>20, <1>21 DEF CallbackInv

\* Nothing is registered, nothing runs.
LEMMA InitOk ==
    ASSUME Init
    PROVE  CallbackInv
<1>1. /\ callback = [c \in Callbacks |-> NoCallback]
      /\ first = [l \in Lists |-> 0]
      /\ agenda = <<>> /\ now = 0 /\ pc = "startup" /\ stack = <<>>
      /\ vpi_mode_flag = "NONE"
      /\ version = [o \in Objects |-> [w \in Words[o] |-> 0]]
  BY DEF Init, Lists
<1>2. \A c \in Callbacks : callback[c].state = "unused" /\ ~Live(c)
  BY <1>1 DEF NoCallback, Live
<1>3. \A d, l : ~In(d, l)
  BY <1>2 DEF In
<1>4. \A l \in Lists : first[l] = 0
  BY <1>1
<1>5. Typed
  <2>1. NoCallback \in Cell
    BY BoundsAssumption DEF NoCallback, Cell, AnyWord, Handles
  <2>2. callback \in [Callbacks -> Cell]
    BY <1>1, <2>1
  <2>3. first \in [Lists -> Handles]
    BY <1>1, BoundsAssumption DEF Handles
  <2>4. agenda \in Seq(Callbacks) /\ stack \in Seq(Frame)
    BY <1>1
  <2>5. now \in Nat /\ vpi_mode_flag \in Modes
    BY <1>1 DEF Modes
  <2>6. DOMAIN version = Objects /\ \A o \in Objects : version[o] \in [Words[o] -> Nat]
    BY <1>1
  <2>. QED  BY <1>2, <2>2, <2>3, <2>4, <2>5, <2>6 DEF Typed
<1>6. ListsLinked
  BY <1>3, <1>4 DEF ListsLinked, Linked
<1>7. InOrder
  BY <1>2 DEF InOrder
<1>8. OnAgenda
  BY <1>1, <1>3 DEF OnAgenda
<1>9. Piled /\ WalksOk
  BY <1>1 DEF Piled, WalksOk
<1>10. ModesOk
  <2>1. ModeOut = "NONE"
    BY <1>1 DEF ModeOut, Phases
  <2>. QED  BY <1>1, <2>1 DEF ModesOk
<1>11. UpToDate
  BY <1>2 DEF UpToDate
<1>. QED  BY <1>5, <1>6, <1>7, <1>8, <1>9, <1>10, <1>11 DEF CallbackInv

\* Every step keeps the invariant.
LEMMA NextOk ==
    ASSUME CallbackInv, ~dangling', [Next]_vars
    PROVE  CallbackInv'
<1>1. CASE User
  <2>1. CASE RegisterValueChange
    BY <2>1, RegisterValueChangeOk
  <2>2. CASE RegisterPhase
    BY <2>2, RegisterPhaseOk
  <2>3. CASE RegisterSync
    BY <2>3, RegisterSyncOk
  <2>4. ASSUME NEW c \in Callbacks, vpi_remove_cb(c) PROVE CallbackInv'
    BY <2>4, RemoveOk
  <2>5. ASSUME NEW o \in Objects, NEW w \in Words[o], Change(o, w) PROVE CallbackInv'
    BY <2>5, ChangeOk
  <2>. QED  BY <1>1, <2>1, <2>2, <2>3, <2>4, <2>5 DEF User
<1>2. CASE Return
  <2>1. CASE Top.list \in Objects
    BY <1>2, <2>1, ReturnToWalkOk
  <2>2. CASE Top.list \notin Objects
    BY <1>2, <2>2, ReturnFromCallOk
  <2>. QED  BY <2>1, <2>2
<1>3. CASE Vvp
  <2>1. CASE WalkEnd
    BY <2>1, WalkEndOk
  <2>2. ASSUME NEW c \in Callbacks, WalkPast(c) PROVE CallbackInv'
    BY <2>2, WalkPastOk
  <2>3. ASSUME NEW c \in Callbacks, callback_execute(c) PROVE CallbackInv'
    BY <2>3, ExecuteOk
  <2>4. ASSUME NEW c \in Callbacks, Reap(c) PROVE CallbackInv'
    <3>1. ~Loses(c)
      BY <2>4 DEF Reap
    <3>. QED  BY <2>4, <3>1, ReapOk
  <2>5. CASE PhaseCall
    BY <2>5, PhaseCallOk
  <2>6. CASE run_run
    BY <2>6, RunRunOk
  <2>7. CASE PhaseEnd \/ Begin \/ InitDone \/ StartOver \/ Advance \/ Finish
    BY <2>7, QuietStepsOk
  <2>. QED  BY <1>3, <2>1, <2>2, <2>3, <2>4, <2>5, <2>6, <2>7 DEF Vvp
<1>4. CASE UNCHANGED vars
  BY <1>4 DEF vars, CallbackInv, Typed, ListsLinked, Linked, InOrder, OnAgenda, Piled,
     WalksOk, WalkOk, ModesOk, ModeUnder, ModeOut, UpToDate, Coming,
     In, Called, Live, Watches, CallOk
<1>. QED  BY <1>1, <1>2, <1>3, <1>4 DEF Next

\* What was lost stays lost.
LEMMA DanglingStays ==
    ASSUME [Next]_vars, dangling
    PROVE  dangling'
BY DEF Next, User, Vvp, vars, RegisterValueChange, RegisterPhase, RegisterSync, Insert,
   vpi_remove_cb, Change, Return, WalkEnd, WalkPast, callback_execute, Reap, PhaseCall,
   PhaseEnd, Begin, InitDone, run_run, StartOver, Advance, Finish

\* In every state in which no walk has lost its place.
IInv == ~dangling => CallbackInv

\* The invariant holds in every state.
LEMMA Invariance == Spec => []IInv
<1>1. Init => IInv
  BY InitOk DEF IInv
<1>2. IInv /\ [Next]_vars => IInv'
  BY NextOk, DanglingStays DEF IInv
<1>. QED  BY <1>1, <1>2, PTL DEF Spec

-----------------------------------------------------------------------------
(* The theorems.  All speak of executions in which no inner walk has freed *)
(* the callback an outer walk is at or goes on with (vpi_callback.cc:561). *)

\* Every callback that is alive is held once and only once, by the list of its
\* object or phase, by the scheduler or by the call of its routine, and nothing
\* holds one that was freed: however routines register and remove callbacks and
\* change values while the lists they are in are walked (vpi_callback.cc:415-454).
THEOREM CallbacksHeldOnce == Spec => []HeldOnce
<1>1. CallbackInv => HeldOnce
  BY AllHeld
<1>2. IInv => HeldOnce
  BY <1>1 DEF IInv, HeldOnce
<1>. QED  BY <1>2, Invariance, PTL

\* The assertions of vpi_callback.cc hold: the mode is "none" whenever vvp sets
\* another, and a walk that unlinks a callback finds it where it left it.
THEOREM WalksFindTheirLists == Spec => []AssertsHold
<1>1. CallbackInv => AssertsHold
  BY AllAssertsHold
<1>2. IInv => AssertsHold
  BY <1>1 DEF IInv, AssertsHold
<1>. QED  BY <1>2, Invariance, PTL

\* When all calls have returned, no callback on an object has missed a change of
\* a word it watches, although its routine or another one may have changed it,
\* and have started another walk, before the first walk had come by.
THEOREM LatestValueSeen == Spec => []ChangesSeen
<1>1. CallbackInv => ChangesSeen
  BY AllSeen
<1>2. IInv => ChangesSeen
  BY <1>1 DEF IInv, ChangesSeen
<1>. QED  BY <1>2, Invariance, PTL
=============================================================================
