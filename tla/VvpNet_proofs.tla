---------------------------- MODULE VvpNet_proofs ----------------------------
(***************************************************************************)
(* The fan-out chains stay exact in every netlist, however often processes *)
(* assign, force, deassign and release its signals.                        *)
(***************************************************************************)
EXTENDS VvpNet, FiniteSetTheorems, WellFoundedInduction, TLAPS

-----------------------------------------------------------------------------
(* Chains of a design d, with o the first pointers and r the next ones.    *)

SignalsOf(d) == d.vars \union d.nets
NodesOf(d) == d.vars \union d.nets \union DOMAIN d.functor

\* The inputs a chain may pass through.
TargetsOf(d) == (SignalsOf(d) \X {0, 1, 2}) \union ((DOMAIN d.functor) \X (0..3))

\* The pointers in the order of the chain that begins with n.
Lists(o, r, n, q) ==
    /\ o[n] = IF Len(q) = 0 THEN Nil ELSE q[1]
    /\ \A i \in 1..Len(q) : r[q[i]] = IF i = Len(q) THEN Nil ELSE q[i + 1]

\* q has the members of a set, each once.
Enumerates(q, S) ==
    /\ \A i, j \in 1..Len(q) : q[i] = q[j] => i = j
    /\ \A i \in 1..Len(q) : q[i] \in S
    /\ \A p \in S : \E i \in 1..Len(q) : q[i] = p

\* drv[n] is what n drives: its chain has that, no other has any of it, and
\* what no node drives leads nowhere.
Exact(d, o, r, drv) ==
    /\ DOMAIN o = NodesOf(d) /\ DOMAIN r = Pointers(d)
    /\ \A n \in NodesOf(d) : drv[n] \subseteq TargetsOf(d)
    /\ \A n \in NodesOf(d) : \E q \in Seq(TargetsOf(d)) : Lists(o, r, n, q) /\ Enumerates(q, drv[n])
    /\ \A n, m \in NodesOf(d) : n # m => drv[n] \intersect drv[m] = {}
    /\ \A p \in Pointers(d) : (\A n \in NodesOf(d) : p \notin drv[n]) => r[p] = Nil

\* p is put first in the chain of n.
PutFirst(o, r, o2, r2, p, n) ==
    /\ DOMAIN o2 = DOMAIN o /\ DOMAIN r2 = DOMAIN r
    /\ \A m \in DOMAIN o : o2[m] = IF m = n THEN p ELSE o[m]
    /\ \A x \in DOMAIN r : r2[x] = IF x = p THEN o[n] ELSE r[x]

\* p is taken out of the chain of n, of which it is the first, or comes after b.
TakenFirst(o, r, o2, r2, p, n) ==
    /\ DOMAIN o2 = DOMAIN o /\ DOMAIN r2 = DOMAIN r
    /\ o[n] = p
    /\ \A m \in DOMAIN o : o2[m] = IF m = n THEN r[p] ELSE o[m]
    /\ \A x \in DOMAIN r : r2[x] = IF x = p THEN Nil ELSE r[x]

TakenAfter(o, r, o2, r2, p, n, b) ==
    /\ DOMAIN o2 = DOMAIN o /\ DOMAIN r2 = DOMAIN r
    /\ o[n] # p /\ r[b] = p
    /\ \A m \in DOMAIN o : o2[m] = o[m]
    /\ \A x \in DOMAIN r : r2[x] = IF x = p THEN Nil ELSE IF x = b THEN r[p] ELSE r[x]

\* What precedes the i-th pointer of the chain q of n now leads to what follows it.
Bridged(o, r, o2, r2, n, q, i, S) ==
    /\ o2[n] = IF i = 1 THEN r[q[i]] ELSE o[n]
    /\ i # 1 => r2[q[i - 1]] = r[q[i]]
    /\ \A x \in S : x # q[i] /\ (i = 1 \/ x # q[i - 1]) => r2[x] = r[x]

\* The inputs n drives: p is added to those of one node, or removed.
Adds(d, drv, drv2, p, n) ==
    \A m \in NodesOf(d) : drv2[m] = IF m = n THEN drv[m] \union {p} ELSE drv[m]
Drops(d, drv, drv2, p, n) ==
    \A m \in NodesOf(d) : drv2[m] = IF m = n THEN drv[m] \ {p} ELSE drv[m]

-----------------------------------------------------------------------------
(* What linking and unlinking do to chains.                                *)

\* Pairs have two parts, whichever way their set is written.
LEMMA Pairs ==
    ASSUME NEW A, NEW B
    PROVE  /\ \A p \in {<<n, k>> : n \in A, k \in B} : \E n \in A, k \in B : p = <<n, k>>
           /\ \A n \in A, k \in B : <<n, k>> \in {<<m, j>> : m \in A, j \in B}
           /\ \A p \in A \X B : \E n \in A, k \in B : p = <<n, k>>
  OBVIOUS

\* No input stands for the end of a chain.
LEMMA NilIsNone ==
    ASSUME NEW d, NoNode \notin NodesOf(d)
    PROVE  /\ Nil \notin TargetsOf(d) /\ Nil \notin Pointers(d)
           /\ TargetsOf(d) \subseteq Pointers(d)
<1>1. \A p \in TargetsOf(d) : \E n \in NodesOf(d), k \in 0..3 : p = <<n, k>>
  <2>1. 0 \in 0..3 /\ 1 \in 0..3 /\ 2 \in 0..3
    OBVIOUS
  <2>. DEFINE B == 0..3
  <2>. HIDE DEF B
  <2>2. \A p \in (DOMAIN d.functor) \X B : \E n \in NodesOf(d), k \in B : p = <<n, k>>
    BY Pairs DEF NodesOf
  <2>3. \A p \in SignalsOf(d) \X {0, 1, 2} : \E n \in NodesOf(d), k \in {0, 1, 2} : p = <<n, k>>
    BY Pairs DEF SignalsOf, NodesOf
  <2>4. \A p \in TargetsOf(d) : p \in (DOMAIN d.functor) \X B \/ p \in SignalsOf(d) \X {0, 1, 2}
    BY DEF TargetsOf, B
  <2>5. \A k \in {0, 1, 2} : k \in B
    BY <2>1 DEF B
  <2>6. \A p \in TargetsOf(d) : \E n \in NodesOf(d), k \in B : p = <<n, k>>
    BY <2>2, <2>3, <2>4, <2>5
  <2>. QED  BY <2>6 DEF B
<1>2. /\ \A p \in Pointers(d) : \E n \in NodesOf(d), k \in 0..3 : p = <<n, k>>
      /\ \A n \in NodesOf(d), k \in 0..3 : <<n, k>> \in Pointers(d)
  <2>. DEFINE B == 0..3
  <2>1. Pointers(d) = {<<n, k>> : n \in NodesOf(d), k \in B}
    BY DEF Pointers, NodesOf
  <2>. HIDE DEF B
  <2>2. /\ \A p \in Pointers(d) : \E n \in NodesOf(d), k \in B : p = <<n, k>>
        /\ \A n \in NodesOf(d), k \in B : <<n, k>> \in Pointers(d)
    BY <2>1, Pairs
  <2>. QED  BY <2>2 DEF B
<1>3. \A n \in NodesOf(d), k \in 0..3 : <<n, k>> # Nil
  BY DEF Nil
<1>. QED  BY <1>1, <1>2, <1>3

\* A chain that none of the changes concern stays.
LEMMA OtherChain ==
    ASSUME NEW T, NEW S, NEW q \in Seq(T), NEW o, NEW r, NEW o2, NEW r2, NEW n,
           Lists(o, r, n, q), Enumerates(q, S),
           o2[n] = o[n], \A x \in S : r2[x] = r[x]
    PROVE  Lists(o2, r2, n, q)
  BY DEF Lists, Enumerates

\* A pointer in front.
LEMMA FirstPut ==
    ASSUME NEW T, NEW S, NEW q \in Seq(T), NEW o, NEW r, NEW o2, NEW r2, NEW n,
           NEW p \in T, p \notin S,
           Lists(o, r, n, q), Enumerates(q, S),
           o2[n] = p, r2[p] = o[n], \A x \in S : r2[x] = r[x]
    PROVE  \E s \in Seq(T) : Lists(o2, r2, n, s) /\ Enumerates(s, S \union {p})
<1>. DEFINE s == [i \in 1..(Len(q) + 1) |-> IF i = 1 THEN p ELSE q[i - 1]]
<1>1. Len(q) \in Nat /\ \A i \in 1..Len(q) : q[i] \in T /\ q[i] \in S
  BY DEF Enumerates
<1>2. \A i \in 1..(Len(q) + 1) : i = 1 \/ i - 1 \in 1..Len(q)
  BY <1>1
<1>3. s \in Seq(T) /\ Len(s) = Len(q) + 1
  <2>1. \A i \in 1..(Len(q) + 1) : s[i] \in T
    BY <1>1, <1>2
  <2>2. Len(q) + 1 \in Nat
    BY <1>1
  <2>. QED  BY <2>1, <2>2
<1>4. /\ s[1] = p
      /\ \A i \in 1..Len(q) : i + 1 \in 1..(Len(q) + 1) /\ s[i + 1] = q[i]
  BY <1>1
<1>. HIDE DEF s
<1>5. Lists(o2, r2, n, s)
  <2>1. o2[n] = s[1] /\ Len(s) # 0
    BY <1>1, <1>3, <1>4
  <2>2. r2[s[1]] = IF 1 = Len(s) THEN Nil ELSE s[1 + 1]
    <3>1. CASE Len(q) = 0
      BY <1>3, <1>4, <3>1 DEF Lists
    <3>2. CASE Len(q) # 0
      <4>1. 1 \in 1..Len(q) /\ 1 # Len(s)
        BY <1>1, <1>3, <3>2
      <4>2. s[1 + 1] = q[1]
        BY <1>4, <4>1
      <4>. QED  BY <1>4, <3>2, <4>1, <4>2 DEF Lists
    <3>. QED  BY <3>1, <3>2
  <2>3. ASSUME NEW i \in 1..Len(q)
        PROVE  r2[s[i + 1]] = IF i + 1 = Len(s) THEN Nil ELSE s[(i + 1) + 1]
    <3>1. r2[s[i + 1]] = r[q[i]]
      BY <1>1, <1>4
    <3>2. r[q[i]] = IF i = Len(q) THEN Nil ELSE q[i + 1]
      BY DEF Lists
    <3>3. CASE i = Len(q)
      BY <1>3, <3>1, <3>2, <3>3
    <3>4. CASE i # Len(q)
      <4>1. i + 1 \in 1..Len(q) /\ i + 1 # Len(s)
        BY <1>1, <1>3, <3>4
      <4>2. s[(i + 1) + 1] = q[i + 1]
        BY <1>4, <4>1
      <4>. QED  BY <3>1, <3>2, <3>4, <4>1, <4>2
    <3>. QED  BY <3>3, <3>4
  <2>4. \A k \in 1..Len(s) : k = 1 \/ \E i \in 1..Len(q) : k = i + 1
    <3>1. \A k \in 1..(Len(q) + 1) : k = 1 \/ (k - 1 \in 1..Len(q) /\ k = (k - 1) + 1)
      BY <1>1
    <3>. QED  BY <1>3, <3>1
  <2>5. \A k \in 1..Len(s) : r2[s[k]] = IF k = Len(s) THEN Nil ELSE s[k + 1]
    BY <2>2, <2>3, <2>4
  <2>. QED  BY <2>1, <2>5 DEF Lists
<1>6. Enumerates(s, S \union {p})
  <2>1. \A k \in 1..Len(s) : k = 1 \/ \E i \in 1..Len(q) : k = i + 1
    <3>1. \A k \in 1..(Len(q) + 1) : k = 1 \/ (k - 1 \in 1..Len(q) /\ k = (k - 1) + 1)
      BY <1>1
    <3>. QED  BY <1>3, <3>1
  <2>2. \A k \in 1..Len(s) : s[k] \in S \union {p}
    BY <1>1, <1>4, <2>1
  <2>3. \A k, l \in 1..Len(s) : s[k] = s[l] => k = l
    <3>1. \A i \in 1..Len(q) : s[i + 1] # p /\ s[i + 1] # s[1]
      BY <1>1, <1>4
    <3>2. \A i, j \in 1..Len(q) : s[i + 1] = s[j + 1] => i = j
      BY <1>4 DEF Enumerates
    <3>3. ASSUME NEW k \in 1..Len(s), NEW l \in 1..Len(s), s[k] = s[l]
          PROVE  k = l
      <4>1. CASE k = 1 /\ l = 1
        BY <4>1
      <4>2. CASE k = 1 /\ \E j \in 1..Len(q) : l = j + 1
        BY <3>1, <3>3, <4>2
      <4>3. CASE l = 1 /\ \E j \in 1..Len(q) : k = j + 1
        BY <3>1, <3>3, <4>3
      <4>4. CASE (\E i \in 1..Len(q) : k = i + 1) /\ (\E j \in 1..Len(q) : l = j + 1)
        BY <3>2, <3>3, <4>4
      <4>. QED  BY <2>1, <4>1, <4>2, <4>3, <4>4
    <3>. QED  BY <3>3
  <2>4. ASSUME NEW x \in S \union {p}
        PROVE  \E k \in 1..Len(s) : s[k] = x
    <3>1. CASE x = p
      <4>1. 1 \in 1..Len(s)
        BY <1>1, <1>3
      <4>. QED  BY <1>4, <3>1, <4>1
    <3>2. CASE x # p
      <4>1. PICK i \in 1..Len(q) : q[i] = x
        BY <3>2 DEF Enumerates
      <4>. QED  BY <1>3, <1>4, <4>1
    <3>. QED  BY <3>1, <3>2
  <2>. QED  BY <2>2, <2>3, <2>4 DEF Enumerates
<1>. QED  BY <1>3, <1>5, <1>6

\* A pointer taken out, wherever it stands.
LEMMA OneTaken ==
    ASSUME NEW T, NEW S, NEW q \in Seq(T), NEW o, NEW r, NEW o2, NEW r2, NEW n,
           NEW i \in 1..Len(q),
           Lists(o, r, n, q), Enumerates(q, S),
           Bridged(o, r, o2, r2, n, q, i, S)
    PROVE  \E s \in Seq(T) : Lists(o2, r2, n, s) /\ Enumerates(s, S \ {q[i]})
<1>. USE DEF Bridged
<1>. DEFINE s == [j \in 1..(Len(q) - 1) |-> IF j < i THEN q[j] ELSE q[j + 1]]
<1>1. Len(q) \in Nat /\ Len(q) - 1 \in Nat /\ \A j \in 1..Len(q) : q[j] \in T /\ q[j] \in S
  BY DEF Enumerates
<1>2. \A j \in 1..(Len(q) - 1) : /\ j \in Nat /\ j \in 1..Len(q) /\ j # Len(q)
                                 /\ j + 1 \in 1..Len(q) /\ j + 1 # 1
                                 /\ (j < i \/ i <= j)
                                 /\ (j = Len(q) - 1 <=> j + 1 = Len(q))
                                 /\ (j + 1 # Len(q) => j + 1 \in 1..(Len(q) - 1))
  BY <1>1
<1>3. s \in Seq(T) /\ Len(s) = Len(q) - 1
  <2>1. \A j \in 1..(Len(q) - 1) : s[j] \in T
    BY <1>1, <1>2
  <2>. QED  BY <1>1, <2>1
<1>4. \A j \in 1..(Len(q) - 1) : s[j] = IF j < i THEN q[j] ELSE q[j + 1]
  OBVIOUS
<1>. HIDE DEF s
<1>5. \A j, k \in 1..Len(q) : q[j] = q[k] => j = k
  BY DEF Enumerates
<1>6. \A j \in 1..Len(q) : r[q[j]] = IF j = Len(q) THEN Nil ELSE q[j + 1]
  BY DEF Lists
<1>7. \A j \in 1..Len(q) : j # i /\ (i = 1 \/ j # i - 1) => r2[q[j]] = r[q[j]]
  <2>1. i # 1 => i - 1 \in 1..Len(q)
    BY <1>1
  <2>. QED  BY <1>1, <1>5, <2>1
<1>8. Lists(o2, r2, n, s)
  <2>1. o2[n] = IF Len(s) = 0 THEN Nil ELSE s[1]
    <3>1. CASE i = 1
      <4>1. CASE Len(q) = 1
        BY <1>1, <1>3, <1>6, <3>1, <4>1
      <4>2. CASE Len(q) # 1
        <5>1. 1 \in 1..(Len(q) - 1) /\ 1 \in 1..Len(q)
          <6>1. Len(q) - 1 >= 1 /\ Len(q) >= 1
            <7>1. \A k \in Nat : \A j \in 1..k : k >= 1 /\ (k # 1 => k - 1 >= 1)
              OBVIOUS
            <7>. QED  BY <1>1, <4>2, <7>1
          <6>2. \A k \in Nat : k >= 1 => 1 \in 1..k
            OBVIOUS
          <6>. QED  BY <1>1, <6>1, <6>2
        <5>2. s[1] = q[1 + 1]
          BY <1>4, <3>1, <5>1
        <5>3. r[q[1]] = q[1 + 1]
          BY <1>6, <4>2, <5>1
        <5>. QED  BY <1>1, <1>3, <3>1, <4>2, <5>2, <5>3
      <4>. QED  BY <4>1, <4>2
    <3>2. CASE i # 1
      <4>1. 1 \in 1..(Len(q) - 1) /\ 1 < i /\ Len(q) # 0
        BY <1>1, <3>2
      <4>2. s[1] = q[1]
        BY <1>4, <4>1
      <4>3. o[n] = q[1]
        BY <4>1 DEF Lists
      <4>. QED  BY <1>1, <1>3, <3>2, <4>1, <4>2, <4>3
    <3>. QED  BY <3>1, <3>2
  <2>2. ASSUME NEW j \in 1..(Len(q) - 1)
        PROVE  r2[s[j]] = IF j = Len(q) - 1 THEN Nil ELSE s[j + 1]
    <3>1. CASE j < i - 1
      <4>1. j < i /\ j # i /\ j # i - 1 /\ j + 1 < i /\ j + 1 \in 1..(Len(q) - 1) /\ j # Len(q) - 1
        BY <1>1, <1>2, <3>1
      <4>2. s[j] = q[j] /\ s[j + 1] = q[j + 1]
        BY <1>4, <4>1
      <4>3. r2[q[j]] = r[q[j]] /\ r[q[j]] = q[j + 1]
        BY <1>2, <1>6, <1>7, <4>1
      <4>. QED  BY <4>1, <4>2, <4>3
    <3>2. CASE j = i - 1
      <4>1. j < i /\ i = j + 1 /\ i # 1 /\ ~(j + 1 < i)
        BY <1>2, <3>2
      <4>2. s[j] = q[j] /\ r2[q[j]] = r[q[i]]
        BY <1>4, <3>2, <4>1
      <4>3. CASE j + 1 = Len(q)
        BY <1>2, <1>6, <4>1, <4>2, <4>3
      <4>4. CASE j + 1 # Len(q)
        <5>1. s[j + 1] = q[(j + 1) + 1]
          BY <1>2, <1>4, <4>1, <4>4
        <5>. QED  BY <1>2, <1>6, <4>1, <4>2, <4>4, <5>1
      <4>. QED  BY <4>3, <4>4
    <3>3. CASE i <= j
      <4>1. ~(j < i) /\ j + 1 # i /\ j + 1 # i - 1 /\ ~(j + 1 < i)
        BY <1>2, <3>3
      <4>2. s[j] = q[j + 1] /\ r2[q[j + 1]] = r[q[j + 1]]
        BY <1>2, <1>4, <1>7, <4>1
      <4>3. CASE j + 1 = Len(q)
        BY <1>2, <1>6, <4>2, <4>3
      <4>4. CASE j + 1 # Len(q)
        <5>1. s[j + 1] = q[(j + 1) + 1]
          BY <1>2, <1>4, <4>1, <4>4
        <5>. QED  BY <1>2, <1>6, <4>2, <4>4, <5>1
      <4>. QED  BY <4>3, <4>4
    <3>. QED  BY <1>2, <3>1, <3>2, <3>3
  <2>. QED  BY <1>3, <2>1, <2>2 DEF Lists
<1>9. Enumerates(s, S \ {q[i]})
  <2>1. \A j \in 1..(Len(q) - 1) : s[j] \in S \ {q[i]}
    <3>1. ASSUME NEW j \in 1..(Len(q) - 1)  PROVE  s[j] \in S \ {q[i]}
      <4>1. CASE j < i
        BY <1>1, <1>2, <1>4, <1>5, <4>1
      <4>2. CASE i <= j
        <5>1. ~(j < i) /\ j + 1 # i
          BY <1>2, <4>2
        <5>. QED  BY <1>1, <1>2, <1>4, <1>5, <5>1
      <4>. QED  BY <1>2, <4>1, <4>2
    <3>. QED  BY <3>1
  <2>2. \A j, k \in 1..(Len(q) - 1) : s[j] = s[k] => j = k
    <3>1. ASSUME NEW j \in 1..(Len(q) - 1), NEW k \in 1..(Len(q) - 1), s[j] = s[k]  PROVE  j = k
      <4>1. CASE j < i /\ k < i
        <5>1. q[j] = q[k]
          BY <1>4, <3>1, <4>1
        <5>. QED  BY <1>2, <1>5, <5>1
      <4>2. CASE j < i /\ i <= k
        <5>1. ~(k < i) /\ j # k + 1
          BY <1>2, <4>2
        <5>. QED  BY <1>2, <1>4, <1>5, <3>1, <4>2, <5>1
      <4>3. CASE i <= j /\ k < i
        <5>1. ~(j < i) /\ k # j + 1
          BY <1>2, <4>3
        <5>. QED  BY <1>2, <1>4, <1>5, <3>1, <4>3, <5>1
      <4>4. CASE i <= j /\ i <= k
        <5>1. ~(j < i) /\ ~(k < i)
          BY <1>2, <4>4
        <5>2. q[j + 1] = q[k + 1]
          BY <1>4, <3>1, <5>1
        <5>3. j + 1 = k + 1
          BY <1>2, <1>5, <5>2
        <5>. QED  BY <1>2, <5>3
      <4>. QED  BY <1>2, <4>1, <4>2, <4>3, <4>4
    <3>. QED  BY <3>1
  <2>3. ASSUME NEW x \in S \ {q[i]}  PROVE  \E k \in 1..(Len(q) - 1) : s[k] = x
    <3>1. PICK j \in 1..Len(q) : q[j] = x
      BY DEF Enumerates
    <3>2. j # i
      BY <3>1
    <3>3. CASE j < i
      <4>1. j \in 1..(Len(q) - 1)
        BY <1>1, <3>3
      <4>. QED  BY <1>4, <3>1, <3>3, <4>1
    <3>4. CASE i < j
      <4>1. j - 1 \in 1..(Len(q) - 1) /\ ~(j - 1 < i) /\ (j - 1) + 1 = j
        BY <1>1, <3>4
      <4>. QED  BY <1>4, <3>1, <4>1
    <3>. QED  BY <1>1, <3>2, <3>3, <3>4
  <2>. QED  BY <1>3, <2>1, <2>2, <2>3 DEF Enumerates
<1>. QED  BY <1>3, <1>8, <1>9

-----------------------------------------------------------------------------
(* What linking and unlinking do to all chains.                            *)

\* Linking an input that is in no chain adds it to one.
LEMMA LinkKeeps ==
    ASSUME NEW d, NEW o, NEW r, NEW o2, NEW r2, NEW drv, NEW drv2, NEW p \in TargetsOf(d),
           NEW n \in NodesOf(d), NoNode \notin NodesOf(d),
           Exact(d, o, r, drv), \A m \in NodesOf(d) : p \notin drv[m],
           PutFirst(o, r, o2, r2, p, n), Adds(d, drv, drv2, p, n)
    PROVE  Exact(d, o2, r2, drv2)
<1>1. TargetsOf(d) \subseteq Pointers(d)
  BY NilIsNone
<1>2. DOMAIN o = NodesOf(d) /\ DOMAIN r = Pointers(d)
  BY DEF Exact
<1>3. DOMAIN o2 = NodesOf(d) /\ DOMAIN r2 = Pointers(d)
  BY <1>2 DEF PutFirst
<1>4. \A m \in NodesOf(d) : drv[m] \subseteq TargetsOf(d)
  BY DEF Exact
<1>5. \A m \in NodesOf(d) : drv2[m] \subseteq TargetsOf(d)
  BY <1>4 DEF Adds
<1>6. o2[n] = p /\ r2[p] = o[n] /\ \A m \in NodesOf(d) : m # n => o2[m] = o[m]
  BY <1>1, <1>2 DEF PutFirst
<1>7. \A x \in Pointers(d) : x # p => r2[x] = r[x]
  BY <1>2 DEF PutFirst
<1>8. \A m \in NodesOf(d) : \A x \in drv[m] : r2[x] = r[x]
  BY <1>1, <1>4, <1>7
<1>9. ASSUME NEW m \in NodesOf(d)
      PROVE  \E q \in Seq(TargetsOf(d)) : Lists(o2, r2, m, q) /\ Enumerates(q, drv2[m])
  <2>1. PICK q \in Seq(TargetsOf(d)) : Lists(o, r, m, q) /\ Enumerates(q, drv[m])
    BY DEF Exact
  <2>2. CASE m = n
    <3>1. \E s \in Seq(TargetsOf(d)) : Lists(o2, r2, n, s) /\ Enumerates(s, drv[n] \union {p})
      <4>1. Lists(o, r, n, q) /\ Enumerates(q, drv[n]) /\ p \notin drv[n]
        BY <2>1, <2>2
      <4>2. o2[n] = p /\ r2[p] = o[n] /\ \A x \in drv[n] : r2[x] = r[x]
        BY <1>6, <1>8
      <4>. QED  BY FirstPut, <4>1, <4>2, Zenon
    <3>2. drv2[n] = drv[n] \union {p}
      BY DEF Adds
    <3>. QED  BY <2>2, <3>1, <3>2
  <2>3. CASE m # n
    <3>1. Lists(o2, r2, m, q)
      BY OtherChain, <1>6, <1>8, <2>1, <2>3
    <3>2. drv2[m] = drv[m]
      BY <2>3 DEF Adds
    <3>. QED  BY <2>1, <3>1, <3>2
  <2>. QED  BY <2>2, <2>3
<1>10. \A k, m \in NodesOf(d) : k # m => drv2[k] \intersect drv2[m] = {}
  <2>1. \A k, m \in NodesOf(d) : k # m => drv[k] \intersect drv[m] = {}
    BY DEF Exact
  <2>2. \A m \in NodesOf(d) : drv2[m] = IF m = n THEN drv[m] \union {p} ELSE drv[m]
    BY DEF Adds
  <2>. QED  BY <2>1, <2>2
<1>11. \A x \in Pointers(d) : (\A m \in NodesOf(d) : x \notin drv2[m]) => r2[x] = Nil
  <2>1. \A x \in Pointers(d) : (\A m \in NodesOf(d) : x \notin drv[m]) => r[x] = Nil
    BY DEF Exact
  <2>2. \A m \in NodesOf(d) : drv[m] \subseteq drv2[m] /\ p \in drv2[n]
    BY DEF Adds
  <2>. QED  BY <1>7, <2>1, <2>2
<1>. QED  BY <1>3, <1>5, <1>9, <1>10, <1>11 DEF Exact

\* What precedes an input in the whole netlist precedes it in its chain.
LEMMA Predecessor ==
    ASSUME NEW d, NEW o, NEW r, NEW drv, NEW n \in NodesOf(d), NEW p \in drv[n],
           NEW b \in Pointers(d), NoNode \notin NodesOf(d), Exact(d, o, r, drv), r[b] = p
    PROVE  b \in drv[n]
<1>1. p \in TargetsOf(d) /\ p # Nil
  BY NilIsNone DEF Exact
<1>2. PICK m \in NodesOf(d) : b \in drv[m]
  BY <1>1 DEF Exact
<1>3. PICK q \in Seq(TargetsOf(d)) : Lists(o, r, m, q) /\ Enumerates(q, drv[m])
  BY DEF Exact
<1>4. PICK k \in 1..Len(q) : q[k] = b
  BY <1>2, <1>3 DEF Enumerates
<1>5. k # Len(q) /\ q[k + 1] = p
  BY <1>1, <1>3, <1>4 DEF Lists
<1>6. k + 1 \in 1..Len(q)
  BY <1>5
<1>7. p \in drv[m]
  BY <1>3, <1>5, <1>6 DEF Enumerates
<1>8. m = n
  BY <1>7 DEF Exact
<1>. QED  BY <1>2, <1>8

\* Unlinking an input takes it out of its chain and changes nothing else.
LEMMA UnlinkKeeps ==
    ASSUME NEW d, NEW o, NEW r, NEW o2, NEW r2, NEW drv, NEW drv2,
           NEW n \in NodesOf(d), NEW p \in drv[n], NoNode \notin NodesOf(d),
           Exact(d, o, r, drv),
           \/ TakenFirst(o, r, o2, r2, p, n)
           \/ \E b \in Pointers(d) : TakenAfter(o, r, o2, r2, p, n, b),
           Drops(d, drv, drv2, p, n)
    PROVE  Exact(d, o2, r2, drv2)
<1>1. p \in TargetsOf(d) /\ p # Nil /\ p \in Pointers(d)
  BY NilIsNone DEF Exact
<1>2. DOMAIN o = NodesOf(d) /\ DOMAIN r = Pointers(d)
  BY DEF Exact
<1>3. DOMAIN o2 = NodesOf(d) /\ DOMAIN r2 = Pointers(d)
  BY <1>2 DEF TakenFirst, TakenAfter
<1>4. \A m \in NodesOf(d) : drv[m] \subseteq TargetsOf(d) /\ drv[m] \subseteq Pointers(d)
  BY NilIsNone DEF Exact
<1>5. \A m \in NodesOf(d) : drv2[m] = IF m = n THEN drv[m] \ {p} ELSE drv[m]
  BY DEF Drops
<1>6. \A m \in NodesOf(d) : drv2[m] \subseteq TargetsOf(d)
  BY <1>4, <1>5
<1>7. \A k, m \in NodesOf(d) : k # m => drv[k] \intersect drv[m] = {}
  BY DEF Exact
<1>8. r2[p] = Nil /\ \A m \in NodesOf(d) : m # n => o2[m] = o[m]
  BY <1>1, <1>2 DEF TakenFirst, TakenAfter
<1>9. \A x \in Pointers(d) : x \notin drv[n] => r2[x] = r[x]
  <2>1. CASE TakenFirst(o, r, o2, r2, p, n)
    BY <1>2, <2>1 DEF TakenFirst
  <2>2. ASSUME NEW b \in Pointers(d), TakenAfter(o, r, o2, r2, p, n, b)
        PROVE  \A x \in Pointers(d) : x \notin drv[n] => r2[x] = r[x]
    <3>1. b \in drv[n]
      BY Predecessor, <2>2 DEF TakenAfter
    <3>. QED  BY <1>2, <2>2, <3>1 DEF TakenAfter
  <2>. QED  BY <2>1, <2>2
<1>10. ASSUME NEW m \in NodesOf(d)
       PROVE  \E q \in Seq(TargetsOf(d)) : Lists(o2, r2, m, q) /\ Enumerates(q, drv2[m])
  <2>1. PICK q \in Seq(TargetsOf(d)) : Lists(o, r, m, q) /\ Enumerates(q, drv[m])
    BY DEF Exact
  <2>2. CASE m # n
    <3>1. \A x \in drv[m] : r2[x] = r[x]
      BY <1>4, <1>7, <1>9, <2>2
    <3>2. Lists(o2, r2, m, q)
      BY OtherChain, <1>8, <2>1, <2>2, <3>1
    <3>. QED  BY <1>5, <2>1, <2>2, <3>2
  <2>3. CASE m = n
    <3>1. PICK i \in 1..Len(q) : q[i] = p
      BY <2>1, <2>3 DEF Enumerates
    <3>2. Len(q) # 0 /\ o[n] = q[1] /\ 1 \in 1..Len(q)
      <4>1. \A k \in Nat : \A j \in 1..k : k # 0 /\ 1 \in 1..k
        OBVIOUS
      <4>. QED  BY <2>1, <2>3, <4>1 DEF Lists
    <3>3. Bridged(o, r, o2, r2, n, q, i, drv[n])
      <4>1. CASE TakenFirst(o, r, o2, r2, p, n)
        <5>1. i = 1
          BY <2>1, <2>3, <3>1, <3>2, <4>1 DEF TakenFirst, Enumerates
        <5>. QED  BY <1>2, <1>4, <3>1, <4>1, <5>1 DEF TakenFirst, Bridged
      <4>2. ASSUME NEW b \in Pointers(d), TakenAfter(o, r, o2, r2, p, n, b)
            PROVE  Bridged(o, r, o2, r2, n, q, i, drv[n])
        <5>1. b \in drv[n] /\ r[b] = p
          BY Predecessor, <4>2 DEF TakenAfter
        <5>2. PICK k \in 1..Len(q) : q[k] = b
          BY <2>1, <2>3, <5>1 DEF Enumerates
        <5>3. k # Len(q) /\ q[k + 1] = p
          BY <1>1, <2>1, <2>3, <5>1, <5>2 DEF Lists
        <5>4. k + 1 \in 1..Len(q)
          BY <5>3
        <5>5. i = k + 1
          BY <2>1, <3>1, <5>3, <5>4 DEF Enumerates
        <5>6. i # 1 /\ i - 1 = k
          BY <5>5
        <5>7. b # p
          BY <2>1, <3>1, <5>2, <5>6 DEF Enumerates
        <5>. QED  BY <1>2, <1>4, <3>1, <4>2, <5>2, <5>6, <5>7 DEF TakenAfter, Bridged
      <4>. QED  BY <4>1, <4>2
    <3>4. \E s \in Seq(TargetsOf(d)) : Lists(o2, r2, n, s) /\ Enumerates(s, drv[n] \ {q[i]})
      <4>1. Lists(o, r, n, q) /\ Enumerates(q, drv[n])
        BY <2>1, <2>3
      <4>. QED  BY OneTaken, <3>3, <4>1
    <3>. QED  BY <1>5, <2>3, <3>1, <3>4
  <2>. QED  BY <2>2, <2>3
<1>11. \A k, m \in NodesOf(d) : k # m => drv2[k] \intersect drv2[m] = {}
  BY <1>5, <1>7
<1>12. \A x \in Pointers(d) : (\A m \in NodesOf(d) : x \notin drv2[m]) => r2[x] = Nil
  <2>1. \A x \in Pointers(d) : (\A m \in NodesOf(d) : x \notin drv[m]) => r[x] = Nil
    BY DEF Exact
  <2>2. \A x \in Pointers(d) : (\A m \in NodesOf(d) : x \notin drv2[m])
                                 => x = p \/ \A m \in NodesOf(d) : x \notin drv[m]
    BY <1>5
  <2>. QED  BY <1>8, <1>9, <2>1, <2>2
<1>. QED  BY <1>3, <1>6, <1>10, <1>11, <1>12 DEF Exact

-----------------------------------------------------------------------------
(* The netlist as it is linked.                                            *)

\* Every set of numbers that is not empty has a least one.
LEMMA LeastNumber ==
    ASSUME NEW T \in SUBSET Nat, T # {}
    PROVE  \E x \in T : \A y \in T : x <= y
<1>1. PICK x \in T : \A y \in T : ~(<<y, x>> \in OpToRel(<, Nat))
  BY NatLessThanWellFounded, WFMin
<1>2. \A y \in T : ~(y < x)
  BY <1>1 DEF OpToRel
<1>. QED  BY <1>2

\* A set with 0 and with the successor of each of its numbers has them all.
LEMMA SetInduction ==
    ASSUME NEW S \in SUBSET Nat, 0 \in S, \A n \in S : n + 1 \in S
    PROVE  S = Nat
<1>. SUFFICES ASSUME S # Nat PROVE FALSE
  OBVIOUS
<1>1. PICK x \in Nat \ S : \A y \in Nat \ S : x <= y
  BY LeastNumber
<1>2. x # 0 /\ x - 1 \in Nat
  BY <1>1
<1>3. x - 1 \in S
  BY <1>1, <1>2
<1>. QED  BY <1>1, <1>3

\* Nothing is linked yet.
Nothing(d) == [out |-> [n \in d.vars \union d.nets \union DOMAIN d.functor |-> Nil],
               port |-> [p \in Pointers(d) |-> Nil]]

\* The recursion that links a design defines a function.
LEMMA LinkedUpToDefined ==
    ASSUME NEW d, Len(d.links) \in Nat
    PROVE  LinkedUpTo(d) = [k \in 0..Len(d.links) |->
              IF k = 0 THEN Nothing(d)
              ELSE Linked(LinkedUpTo(d)[k - 1], d.links[k].to, d.links[k].from)]
<1>. DEFINE After(f, n) == f = [k \in 0..n |-> IF k = 0 THEN Nothing(d)
                                               ELSE Linked(f[k - 1], d.links[k].to, d.links[k].from)]
            S == {n \in Nat : \E f : After(f, n)}
<1>1. 0 \in S
  <2>1. After([k \in 0..0 |-> Nothing(d)], 0)
    OBVIOUS
  <2>. QED  BY <2>1
<1>2. ASSUME NEW n \in S PROVE n + 1 \in S
  <2>1. PICK f : After(f, n)
    BY <1>2
  <2>. DEFINE last == Linked(f[n], d.links[n + 1].to, d.links[n + 1].from)
              g == [k \in 0..(n + 1) |-> IF k <= n THEN f[k] ELSE last]
  <2>. HIDE DEF last
  <2>2. \A k \in 0..(n + 1) : g[k] = IF k = 0 THEN Nothing(d)
                                     ELSE Linked(g[k - 1], d.links[k].to, d.links[k].from)
    <3>1. ASSUME NEW k \in 0..n
          PROVE  f[k] = IF k = 0 THEN Nothing(d)
                        ELSE Linked(f[k - 1], d.links[k].to, d.links[k].from)
      BY <2>1
    <3>2. n \in Nat
      OBVIOUS
    <3>3. ASSUME NEW k \in 0..(n + 1)
          PROVE  g[k] = IF k = 0 THEN Nothing(d)
                        ELSE Linked(g[k - 1], d.links[k].to, d.links[k].from)
      <4>1. CASE k <= n
        <5>1. k \in 0..n
          BY <3>2, <4>1
        <5>2. g[k] = f[k]
          BY <4>1
        <5>3. k # 0 => g[k - 1] = f[k - 1]
          BY <3>2, <4>1
        <5>. HIDE DEF g
        <5>. QED  BY <3>1, <5>1, <5>2, <5>3
      <4>2. CASE k = n + 1
        <5>1. g[k] = last
          BY <3>2, <4>2
        <5>2. g[k - 1] = f[n] /\ k # 0
          BY <3>2, <4>2
        <5>. HIDE DEF g
        <5>. QED  BY <4>2, <5>1, <5>2 DEF last
      <4>. QED  BY <3>2, <4>1, <4>2
    <3>. QED  BY <3>3
  <2>3. After(g, n + 1)
    <3>1. g = [k \in 0..(n + 1) |-> g[k]]
      OBVIOUS
    <3>. HIDE DEF g
    <3>. QED  BY <2>2, <3>1
  <2>. HIDE DEF g, After
  <2>. QED  BY <2>3
<1>3. S = Nat
  <2>. HIDE DEF S
  <2>1. S \in SUBSET Nat
    BY DEF S
  <2>. QED  BY <1>1, <1>2, <2>1, SetInduction
<1>4. \E f : After(f, Len(d.links))
  BY <1>3
<1>. QED  BY <1>4 DEF LinkedUpTo, Nothing

\* What a design declares, as far as it concerns chains.
GoodDesign(d) ==
    /\ NoNode \notin NodesOf(d)
    /\ SignalsOf(d) \intersect DOMAIN d.functor = {}
    /\ Len(d.links) \in Nat /\ DOMAIN d.links = 1..Len(d.links)
    /\ \A k \in 1..Len(d.links) : /\ d.links[k].to \in TargetsOf(d)
                                  /\ d.links[k].to \notin SignalsOf(d) \X {1, 2}
                                  /\ d.links[k].from \in NodesOf(d)
    /\ \A j, k \in 1..Len(d.links) : d.links[j].to = d.links[k].to => j = k

\* Every design is such a design.
LEMMA DesignIsGood ==
    ASSUME NEW d \in Range(Designs)
    PROVE  GoodDesign(d)
<1>. DEFINE A == SignalsOf(d)
            F == DOMAIN d.functor
            inputs == (A \X {0}) \union (F \X (0..3))
<1>1. /\ A \intersect F = {} /\ NoNode \notin A \union F
      /\ d.links \in Seq([to : inputs, from : A \union F])
      /\ \A j, k \in DOMAIN d.links : d.links[j].to = d.links[k].to => j = k
  BY DesignsAssumption DEF SignalsOf
<1>2. NodesOf(d) = A \union F
  BY DEF NodesOf, SignalsOf
<1>3. inputs \subseteq TargetsOf(d) /\ \A p \in inputs : p \notin A \X {1, 2}
  <2>. DEFINE B == 0..3
  <2>. HIDE DEF A, F, B
  <2>1. A \intersect F = {}
    BY <1>1
  <2>2. \A p \in A \X {0} : p \notin A \X {1, 2} /\ p \in A \X {0, 1, 2}
    OBVIOUS
  <2>3. \A p \in F \X B : p \notin A \X {1, 2}
    BY <2>1
  <2>4. inputs = (A \X {0}) \union (F \X B)
    BY DEF B
  <2>5. TargetsOf(d) = (A \X {0, 1, 2}) \union (F \X B)
    BY DEF TargetsOf, A, F, B
  <2>. HIDE DEF inputs
  <2>. QED  BY <2>2, <2>3, <2>4, <2>5
<1>. HIDE DEF inputs, A, F
<1>4. Len(d.links) \in Nat /\ DOMAIN d.links = 1..Len(d.links)
  BY <1>1
<1>5. \A k \in 1..Len(d.links) : d.links[k].to \in inputs /\ d.links[k].from \in A \union F
  <2>1. \A k \in 1..Len(d.links) : d.links[k] \in [to : inputs, from : A \union F]
    <3>1. ASSUME NEW R, d.links \in Seq(R)
          PROVE  \A k \in 1..Len(d.links) : d.links[k] \in R
      BY <3>1
    <3>. QED  BY <1>1, <3>1
  <2>2. \A l \in [to : inputs, from : A \union F] : l.to \in inputs /\ l.from \in A \union F
    OBVIOUS
  <2>. QED  BY <2>1, <2>2
<1>6. NoNode \notin NodesOf(d) /\ SignalsOf(d) \intersect DOMAIN d.functor = {}
  BY <1>1, <1>2 DEF A, F
<1>7. \A k \in 1..Len(d.links) : /\ d.links[k].to \in TargetsOf(d)
                                 /\ d.links[k].to \notin SignalsOf(d) \X {1, 2}
                                 /\ d.links[k].from \in NodesOf(d)
  BY <1>2, <1>3, <1>5 DEF A
<1>. QED  BY <1>1, <1>4, <1>6, <1>7 DEF GoodDesign

\* Linked puts a pointer first.
LEMMA LinkedPuts ==
    ASSUME NEW c, NEW p, NEW n
    PROVE  PutFirst(c.out, c.port, Linked(c, p, n).out, Linked(c, p, n).port, p, n)
  BY DEF PutFirst, Linked

\* The inputs declared with each node by the first declarations.
Declared(d, k) ==
    [n \in NodesOf(d) |-> {d.links[j].to : j \in {i \in 1..k : d.links[i].from = n}}]

\* What is linked so far is in the chains.
LEMMA LinkedUpToExact ==
    ASSUME NEW d, GoodDesign(d)
    PROVE  \A k \in 0..Len(d.links) :
              Exact(d, LinkedUpTo(d)[k].out, LinkedUpTo(d)[k].port, Declared(d, k))
<1>. DEFINE c == LinkedUpTo(d)
            N == Len(d.links)
            Ok(k) == Exact(d, c[k].out, c[k].port, Declared(d, k))
            S == {k \in Nat : k \in 0..N => Ok(k)}
<1>1. N \in Nat /\ NoNode \notin NodesOf(d)
  BY DEF GoodDesign
<1>2. /\ c[0] = Nothing(d)
      /\ \A k \in 1..N : c[k] = Linked(c[k - 1], d.links[k].to, d.links[k].from)
  <2>1. c = [k \in 0..N |-> IF k = 0 THEN Nothing(d)
                            ELSE Linked(c[k - 1], d.links[k].to, d.links[k].from)]
    BY <1>1, LinkedUpToDefined
  <2>. HIDE DEF c
  <2>2. 0 \in 0..N /\ \A k \in 1..N : k \in 0..N /\ k # 0
    BY <1>1
  <2>. QED  BY <2>1, <2>2
<1>. HIDE DEF c, N
<1>3. 0 \in S
  <2>1. Nothing(d).out = [n \in NodesOf(d) |-> Nil] /\ Nothing(d).port = [p \in Pointers(d) |-> Nil]
    BY DEF Nothing, NodesOf
  <2>2. Declared(d, 0) = [n \in NodesOf(d) |-> {}]
    BY DEF Declared
  <2>. DEFINE o == Nothing(d).out
              r == Nothing(d).port
  <2>3. ASSUME NEW n \in NodesOf(d)
        PROVE  \E q \in Seq(TargetsOf(d)) : Lists(o, r, n, q) /\ Enumerates(q, {})
    <3>1. <<>> \in Seq(TargetsOf(d)) /\ Len(<<>>) = 0
      OBVIOUS
    <3>2. PICK q \in Seq(TargetsOf(d)) : Len(q) = 0
      BY <3>1
    <3>3. \A i \in 1..Len(q) : FALSE
      BY <3>2
    <3>4. o[n] = Nil
      BY <2>1
    <3>. HIDE DEF o, r
    <3>5. Lists(o, r, n, q)
      BY <3>2, <3>3, <3>4 DEF Lists
    <3>6. Enumerates(q, {})
      BY <3>3 DEF Enumerates
    <3>. QED  BY <3>5, <3>6
  <2>4. Exact(d, o, r, [n \in NodesOf(d) |-> {}])
    BY <2>1, <2>3 DEF Exact
  <2>. QED  BY <1>2, <2>2, <2>4
<1>4. ASSUME NEW k \in S PROVE k + 1 \in S
  <2>1. k \in Nat /\ k + 1 \in Nat
    OBVIOUS
  <2>2. ASSUME k + 1 \in 0..N PROVE Ok(k + 1)
    <3>. DEFINE p == d.links[k + 1].to
                n == d.links[k + 1].from
                j == k + 1
    <3>1. j \in 1..N /\ k \in 0..N /\ j - 1 = k
      BY <1>1, <2>1, <2>2
    <3>2. Exact(d, c[k].out, c[k].port, Declared(d, k))
      BY <3>1
    <3>3. c[j] = Linked(c[k], p, n)
      BY <1>2, <3>1
    <3>4. p \in TargetsOf(d) /\ n \in NodesOf(d)
      BY <3>1 DEF GoodDesign, N
    <3>5. \A i \in 1..k : i \in 1..N /\ i \in 1..j /\ i # j
      BY <1>1, <3>1
    <3>6. \A m \in NodesOf(d) : p \notin Declared(d, k)[m]
      <4>1. \A i \in 1..k : d.links[i].to # p
        BY <3>1, <3>5 DEF GoodDesign, N
      <4>. HIDE DEF p
      <4>. QED  BY <4>1 DEF Declared
    <3>7. Adds(d, Declared(d, k), Declared(d, j), p, n)
      <4>1. \A i \in 1..j : i = j \/ i \in 1..k
        BY <2>1
      <4>2. j \in 1..j
        BY <2>1
      <4>3. ASSUME NEW m \in NodesOf(d)
            PROVE  Declared(d, j)[m] = IF m = n THEN Declared(d, k)[m] \union {p} ELSE Declared(d, k)[m]
        <5>1. \A x : x \in Declared(d, j)[m] <=> \E i \in 1..j : d.links[i].from = m /\ x = d.links[i].to
          BY DEF Declared
        <5>2. \A x : x \in Declared(d, k)[m] <=> \E i \in 1..k : d.links[i].from = m /\ x = d.links[i].to
          BY DEF Declared
        <5>3. n = d.links[j].from /\ p = d.links[j].to
          OBVIOUS
        <5>. HIDE DEF p, n, j
        <5>4. \A x : x \in Declared(d, j)[m] <=> x \in Declared(d, k)[m] \/ (m = n /\ x = p)
          BY <3>5, <4>1, <4>2, <5>1, <5>2, <5>3
        <5>. QED  BY <5>4
      <4>. QED  BY <4>3 DEF Adds
    <3>8. PutFirst(c[k].out, c[k].port, c[j].out, c[j].port, p, n)
      BY <3>3, LinkedPuts
    <3>. HIDE DEF p, n, j
    <3>9. Exact(d, c[j].out, c[j].port, Declared(d, j))
      BY <1>1, <3>2, <3>4, <3>6, <3>7, <3>8, LinkKeeps
    <3>. QED  BY <3>9 DEF j
  <2>. QED  BY <2>1, <2>2
<1>5. S = Nat
  <2>. HIDE DEF S
  <2>1. S \in SUBSET Nat
    BY DEF S
  <2>. QED  BY <1>3, <1>4, <2>1, SetInduction
<1>6. ASSUME NEW k \in 0..N PROVE Ok(k)
  <2>1. k \in Nat
    BY <1>1
  <2>2. k \in S
    BY <1>5, <2>1
  <2>. QED  BY <2>2
<1>. QED  BY <1>6 DEF c, N

-----------------------------------------------------------------------------
(* Linking and unlinking as the opcodes do it, with lk[<<n, k>>] what is    *)
(* linked to port k of the signal n.                                       *)

Linkable(d) == SignalsOf(d) \X {1, 2}

\* What each node drives: the inputs declared with it and those linked to it.
Drives(d, lk) ==
    [n \in NodesOf(d) |->
        {p \in TargetsOf(d) : \/ \E k \in 1..Len(d.links) : d.links[k].from = n /\ d.links[k].to = p
                              \/ p \in Linkable(d) /\ lk[p] = n}]

\* lk2 links p to n, otherwise what lk does.
Relinks(d, lk, lk2, p, n) ==
    \A x \in Linkable(d) : lk2[x] = IF x = p THEN n ELSE lk[x]

\* A chain that has an input and does not begin with it has its predecessor.
LEMMA SomePredecessor ==
    ASSUME NEW d, NEW o, NEW r, NEW drv, NEW n \in NodesOf(d), NEW p \in drv[n],
           NoNode \notin NodesOf(d), Exact(d, o, r, drv), o[n] # p
    PROVE  \E b \in Pointers(d) : r[b] = p
<1>1. PICK q \in Seq(TargetsOf(d)) : Lists(o, r, n, q) /\ Enumerates(q, drv[n])
  BY DEF Exact
<1>2. PICK i \in 1..Len(q) : q[i] = p
  BY <1>1 DEF Enumerates
<1>3. i # 1 /\ i - 1 \in 1..Len(q) /\ i - 1 # Len(q) /\ (i - 1) + 1 = i
  <2>1. o[n] = q[1]
    BY <1>1 DEF Lists
  <2>. QED  BY <1>2, <2>1
<1>4. r[q[i - 1]] = p
  BY <1>1, <1>2, <1>3 DEF Lists
<1>5. q[i - 1] \in Pointers(d)
  BY <1>1, <1>3, NilIsNone DEF Exact, Enumerates
<1>. QED  BY <1>4, <1>5

\* Unlinked takes an input out of the chain that has it.
LEMMA UnlinkedTakes ==
    ASSUME NEW d, NEW o, NEW r, NEW drv, NEW n \in NodesOf(d), NEW p \in drv[n],
           NoNode \notin NodesOf(d), Exact(d, o, r, drv),
           NEW c, c = Unlinked([out |-> o, port |-> r], p, n)
    PROVE  \/ TakenFirst(o, r, c.out, c.port, p, n)
           \/ \E b \in Pointers(d) : TakenAfter(o, r, c.out, c.port, p, n, b)
<1>0. ASSUME NEW o3, NEW r3, c = [out |-> o3, port |-> r3]
      PROVE  c.out = o3 /\ c.port = r3
  BY <1>0
<1>1. n \in DOMAIN o /\ p \in DOMAIN r /\ DOMAIN r = Pointers(d)
  BY NilIsNone DEF Exact
<1>2. CASE o[n] = p
  <2>1. c = [out |-> [o EXCEPT ![n] = r[p]], port |-> [r EXCEPT ![p] = Nil]]
    BY <1>2 DEF Unlinked
  <2>2. c.out = [o EXCEPT ![n] = r[p]] /\ c.port = [r EXCEPT ![p] = Nil]
    BY <1>0, <2>1, Zenon
  <2>. QED  BY <1>1, <1>2, <2>2 DEF TakenFirst
<1>3. CASE o[n] # p
  <2>. DEFINE b == CHOOSE x \in {x \in DOMAIN r : r[x] = p} : TRUE
  <2>1. b \in DOMAIN r /\ r[b] = p
    BY <1>1, <1>3, SomePredecessor
  <2>2. c = [out |-> o, port |-> [[r EXCEPT ![b] = r[p]] EXCEPT ![p] = Nil]]
    BY <1>3 DEF Unlinked
  <2>. HIDE DEF b
  <2>3. c.out = o /\ c.port = [[r EXCEPT ![b] = r[p]] EXCEPT ![p] = Nil]
    BY <1>0, <2>2, Zenon
  <2>. QED  BY <1>1, <1>3, <2>1, <2>3 DEF TakenAfter
<1>. QED  BY <1>2, <1>3

\* Unlinking what is linked keeps the chains exact.
LEMMA UnlinkedExact ==
    ASSUME NEW d, GoodDesign(d), NEW o, NEW r, NEW lk, NEW lk2, NEW p \in Linkable(d),
           Exact(d, o, r, Drives(d, lk)), lk[p] \in NodesOf(d),
           Relinks(d, lk, lk2, p, NoNode),
           NEW c, c = Unlinked([out |-> o, port |-> r], p, lk[p])
    PROVE  Exact(d, c.out, c.port, Drives(d, lk2))
<1>. DEFINE n == lk[p]
<1>1. NoNode \notin NodesOf(d) /\ p \in TargetsOf(d)
  BY DEF GoodDesign, TargetsOf, Linkable
<1>2. p \in Drives(d, lk)[n]
  BY <1>1 DEF Drives
<1>3. \A k \in 1..Len(d.links) : d.links[k].to # p
  BY DEF GoodDesign, Linkable
<1>4. Drops(d, Drives(d, lk), Drives(d, lk2), p, n)
  <2>1. ASSUME NEW m \in NodesOf(d)
        PROVE  Drives(d, lk2)[m] = IF m = n THEN Drives(d, lk)[m] \ {p} ELSE Drives(d, lk)[m]
    <3>. DEFINE Decl(x) == \E k \in 1..Len(d.links) : d.links[k].from = m /\ d.links[k].to = x
    <3>1. \A x : x \in Drives(d, lk2)[m] <=> x \in TargetsOf(d) /\ (Decl(x) \/ (x \in Linkable(d) /\ lk2[x] = m))
      BY DEF Drives
    <3>2. \A x : x \in Drives(d, lk)[m] <=> x \in TargetsOf(d) /\ (Decl(x) \/ (x \in Linkable(d) /\ lk[x] = m))
      BY DEF Drives
    <3>3. ~Decl(p) /\ m # NoNode
      BY <1>1, <1>3
    <3>4. \A x \in Linkable(d) : lk2[x] = IF x = p THEN NoNode ELSE lk[x]
      BY DEF Relinks
    <3>. HIDE DEF Decl
    <3>5. \A x : x \in Drives(d, lk2)[m] <=> x \in Drives(d, lk)[m] /\ ~(m = n /\ x = p)
      BY <3>1, <3>2, <3>3, <3>4
    <3>. HIDE DEF n
    <3>. QED  BY <3>5
  <2>. QED  BY <2>1 DEF Drops
<1>5. \/ TakenFirst(o, r, c.out, c.port, p, n)
      \/ \E b \in Pointers(d) : TakenAfter(o, r, c.out, c.port, p, n, b)
  BY <1>1, <1>2, UnlinkedTakes
<1>6. n \in NodesOf(d)
  OBVIOUS
<1>. HIDE DEF n
<1>. QED  BY <1>1, <1>2, <1>4, <1>5, <1>6, UnlinkKeeps

\* Linking what is not linked keeps the chains exact.
LEMMA LinkedExact ==
    ASSUME NEW d, GoodDesign(d), NEW o, NEW r, NEW lk, NEW lk2, NEW p \in Linkable(d),
           Exact(d, o, r, Drives(d, lk)), lk[p] = NoNode, NEW n \in NodesOf(d),
           Relinks(d, lk, lk2, p, n),
           NEW c, c = Linked([out |-> o, port |-> r], p, n)
    PROVE  Exact(d, c.out, c.port, Drives(d, lk2))
<1>1. NoNode \notin NodesOf(d) /\ p \in TargetsOf(d)
  BY DEF GoodDesign, TargetsOf, Linkable
<1>2. \A k \in 1..Len(d.links) : d.links[k].to # p
  BY DEF GoodDesign, Linkable
<1>3. \A m \in NodesOf(d) : p \notin Drives(d, lk)[m]
  BY <1>1, <1>2 DEF Drives
<1>4. Adds(d, Drives(d, lk), Drives(d, lk2), p, n)
  <2>1. ASSUME NEW m \in NodesOf(d)
        PROVE  Drives(d, lk2)[m] = IF m = n THEN Drives(d, lk)[m] \union {p} ELSE Drives(d, lk)[m]
    <3>. DEFINE Decl(x) == \E k \in 1..Len(d.links) : d.links[k].from = m /\ d.links[k].to = x
    <3>1. \A x : x \in Drives(d, lk2)[m] <=> x \in TargetsOf(d) /\ (Decl(x) \/ (x \in Linkable(d) /\ lk2[x] = m))
      BY DEF Drives
    <3>2. \A x : x \in Drives(d, lk)[m] <=> x \in TargetsOf(d) /\ (Decl(x) \/ (x \in Linkable(d) /\ lk[x] = m))
      BY DEF Drives
    <3>3. ~Decl(p) /\ m # NoNode
      BY <1>1, <1>2
    <3>4. \A x \in Linkable(d) : lk2[x] = IF x = p THEN n ELSE lk[x]
      BY DEF Relinks
    <3>. HIDE DEF Decl
    <3>5. \A x : x \in Drives(d, lk2)[m] <=> x \in Drives(d, lk)[m] \/ (m = n /\ x = p)
      BY <1>1, <3>1, <3>2, <3>3, <3>4
    <3>. QED  BY <3>5
  <2>. QED  BY <2>1 DEF Adds
<1>5. PutFirst(o, r, c.out, c.port, p, n)
  BY LinkedPuts
<1>. QED  BY <1>1, <1>3, <1>4, <1>5, LinkKeeps

-----------------------------------------------------------------------------
(* Following a chain.                                                      *)

\* The recursion that follows a chain defines a function.
LEMMA ReachedDefined ==
    ASSUME NEW o, NEW r, NEW n, NEW steps \in Nat
    PROVE  Reached(o, r, n, steps) = [k \in 0..steps |->
              IF k = 0 THEN IF o[n] = Nil THEN <<>> ELSE <<o[n]>>
              ELSE LET c == Reached(o, r, n, steps)[k - 1] IN
                   IF c = <<>> \/ r[Last(c)] = Nil THEN c ELSE Append(c, r[Last(c)])]
<1>. DEFINE first == IF o[n] = Nil THEN <<>> ELSE <<o[n]>>
            more(c) == IF c = <<>> \/ r[Last(c)] = Nil THEN c ELSE Append(c, r[Last(c)])
            After(f, m) == f = [k \in 0..m |-> IF k = 0 THEN first ELSE more(f[k - 1])]
            S == {m \in Nat : \E f : After(f, m)}
<1>. HIDE DEF first, more
<1>1. 0 \in S
  <2>1. After([k \in 0..0 |-> first], 0)
    OBVIOUS
  <2>. QED  BY <2>1
<1>2. ASSUME NEW m \in S PROVE m + 1 \in S
  <2>1. PICK f : After(f, m)
    BY <1>2
  <2>. DEFINE last == more(f[m])
              g == [k \in 0..(m + 1) |-> IF k <= m THEN f[k] ELSE last]
  <2>. HIDE DEF last
  <2>2. \A k \in 0..(m + 1) : g[k] = IF k = 0 THEN first ELSE more(g[k - 1])
    <3>1. ASSUME NEW k \in 0..m
          PROVE  f[k] = IF k = 0 THEN first ELSE more(f[k - 1])
      BY <2>1
    <3>2. m \in Nat
      OBVIOUS
    <3>3. ASSUME NEW k \in 0..(m + 1)
          PROVE  g[k] = IF k = 0 THEN first ELSE more(g[k - 1])
      <4>1. CASE k <= m
        <5>1. k \in 0..m
          BY <3>2, <4>1
        <5>2. g[k] = f[k]
          BY <4>1
        <5>3. k # 0 => g[k - 1] = f[k - 1]
          BY <3>2, <4>1
        <5>. HIDE DEF g
        <5>. QED  BY <3>1, <5>1, <5>2, <5>3
      <4>2. CASE k = m + 1
        <5>1. g[k] = last
          BY <3>2, <4>2
        <5>2. g[k - 1] = f[m] /\ k # 0
          BY <3>2, <4>2
        <5>. HIDE DEF g
        <5>. QED  BY <4>2, <5>1, <5>2 DEF last
      <4>. QED  BY <3>2, <4>1, <4>2
    <3>. QED  BY <3>3
  <2>3. After(g, m + 1)
    <3>1. g = [k \in 0..(m + 1) |-> g[k]]
      OBVIOUS
    <3>. HIDE DEF g
    <3>. QED  BY <2>2, <3>1
  <2>. HIDE DEF g, After
  <2>. QED  BY <2>3
<1>3. S = Nat
  <2>. HIDE DEF S
  <2>1. S \in SUBSET Nat
    BY DEF S
  <2>. QED  BY <1>1, <1>2, <2>1, SetInduction
<1>4. \E f : After(f, steps)
  BY <1>3
<1>. QED  BY <1>4 DEF Reached, first, more

\* The first pointers of a chain.
Foremost(q, k) == [i \in 1..k |-> q[i]]

\* One more pointer is appended to the first ones.
LEMMA ForemostGrows ==
    ASSUME NEW T, NEW q \in Seq(T), NEW k \in Nat, k + 1 \in 1..Len(q)
    PROVE  Append(Foremost(q, k), q[k + 1]) = Foremost(q, k + 1)
<1>. DEFINE c == Foremost(q, k)
            x == q[k + 1]
<1>1. c \in Seq(T) /\ Len(c) = k /\ x \in T
  <2>1. \A i \in 1..k : q[i] \in T
    OBVIOUS
  <2>. QED  BY <2>1 DEF Foremost
<1>2. \A i \in 1..k : c[i] = q[i]
  BY DEF Foremost
<1>. HIDE DEF c, x
<1>3. Append(c, x) = [i \in 1..(k + 1) |-> IF i = k + 1 THEN x ELSE c[i]]
  <2>1. /\ Append(c, x) \in Seq(T) /\ Len(Append(c, x)) = k + 1
        /\ Append(c, x)[k + 1] = x /\ \A i \in 1..k : Append(c, x)[i] = c[i]
    BY <1>1
  <2>2. PICK s \in Seq(T) : s = Append(c, x)
    BY <2>1
  <2>3. s = [i \in 1..Len(s) |-> s[i]]
    OBVIOUS
  <2>4. Len(s) = k + 1 /\ \A i \in 1..(k + 1) : s[i] = IF i = k + 1 THEN x ELSE c[i]
    BY <2>1, <2>2
  <2>5. s = [i \in 1..(k + 1) |-> IF i = k + 1 THEN x ELSE c[i]]
    BY <2>3, <2>4, Zenon
  <2>. QED  BY <2>2, <2>5
<1>4. \A i \in 1..(k + 1) : (IF i = k + 1 THEN x ELSE c[i]) = q[i]
  BY <1>2 DEF x
<1>5. Append(c, x) = Foremost(q, k + 1)
  BY <1>3, <1>4 DEF Foremost
<1>. QED  BY <1>5 DEF c, x

\* All of a chain.
LEMMA ForemostIsAll ==
    ASSUME NEW T, NEW q \in Seq(T)
    PROVE  Foremost(q, Len(q)) = q
  BY DEF Foremost

\* What is reached in k steps are the first k + 1 pointers, or all of them.
LEMMA ReachedIsChain ==
    ASSUME NEW T, Nil \notin T, NEW q \in Seq(T), NEW o, NEW r, NEW n, NEW steps \in Nat,
           Lists(o, r, n, q)
    PROVE  \A k \in 0..steps :
              Reached(o, r, n, steps)[k] = Foremost(q, IF k < Len(q) THEN k + 1 ELSE Len(q))
<1>. DEFINE c == Reached(o, r, n, steps)
            Ok(k) == c[k] = Foremost(q, IF k < Len(q) THEN k + 1 ELSE Len(q))
            S == {k \in Nat : k \in 0..steps => Ok(k)}
<1>1. /\ c[0] = IF o[n] = Nil THEN <<>> ELSE <<o[n]>>
      /\ \A k \in 1..steps : c[k] = IF c[k - 1] = <<>> \/ r[Last(c[k - 1])] = Nil THEN c[k - 1]
                                    ELSE Append(c[k - 1], r[Last(c[k - 1])])
  <2>1. c = [k \in 0..steps |->
              IF k = 0 THEN IF o[n] = Nil THEN <<>> ELSE <<o[n]>>
              ELSE IF c[k - 1] = <<>> \/ r[Last(c[k - 1])] = Nil THEN c[k - 1]
                   ELSE Append(c[k - 1], r[Last(c[k - 1])])]
    BY ReachedDefined
  <2>. HIDE DEF c
  <2>2. 0 \in 0..steps /\ \A k \in 1..steps : k \in 0..steps /\ k # 0
    OBVIOUS
  <2>. QED  BY <2>1, <2>2
<1>. HIDE DEF c
<1>2. Len(q) \in Nat /\ \A i \in 1..Len(q) : q[i] \in T /\ q[i] # Nil
  OBVIOUS
<1>3. Ok(0)
  <2>1. CASE Len(q) = 0
    <3>1. o[n] = Nil
      BY <2>1 DEF Lists
    <3>2. Foremost(q, Len(q)) = <<>>
      BY <2>1 DEF Foremost
    <3>. QED  BY <1>1, <2>1, <3>1, <3>2
  <2>2. CASE Len(q) # 0
    <3>1. o[n] = q[1] /\ 1 \in 1..Len(q) /\ 0 < Len(q)
      BY <1>2, <2>2 DEF Lists
    <3>2. Foremost(q, 0 + 1) = <<q[1]>>
      BY DEF Foremost
    <3>. QED  BY <1>1, <1>2, <3>1, <3>2
  <2>. QED  BY <2>1, <2>2
<1>4. ASSUME NEW k \in S PROVE k + 1 \in S
  <2>1. k \in Nat /\ k + 1 \in Nat
    OBVIOUS
  <2>2. ASSUME k + 1 \in 0..steps PROVE Ok(k + 1)
    <3>1. k + 1 \in 1..steps /\ k \in 0..steps /\ (k + 1) - 1 = k
      BY <2>1, <2>2
    <3>2. c[k] = Foremost(q, IF k < Len(q) THEN k + 1 ELSE Len(q))
      BY <3>1
    <3>3. c[k + 1] = IF c[k] = <<>> \/ r[Last(c[k])] = Nil THEN c[k]
                     ELSE Append(c[k], r[Last(c[k])])
      BY <1>1, <3>1
    <3>4. CASE k + 1 < Len(q)
      <4>1. k + 1 \in 1..Len(q) /\ (k + 1) + 1 \in 1..Len(q) /\ k + 1 # Len(q) /\ k < Len(q)
        BY <1>2, <2>1, <3>4
      <4>2. c[k] = Foremost(q, k + 1)
        BY <3>2, <4>1
      <4>3. Len(Foremost(q, k + 1)) = k + 1 /\ Foremost(q, k + 1)[k + 1] = q[k + 1]
            /\ Foremost(q, k + 1) # <<>>
        BY <2>1 DEF Foremost
      <4>4. r[Last(c[k])] = q[(k + 1) + 1] /\ c[k] # <<>>
        BY <4>1, <4>2, <4>3 DEF Last, Lists
      <4>5. c[k + 1] = Append(Foremost(q, k + 1), q[(k + 1) + 1])
        BY <1>2, <3>3, <4>1, <4>2, <4>4
      <4>. QED  BY <2>1, <3>4, <4>1, <4>5, ForemostGrows
    <3>5. CASE ~(k + 1 < Len(q))
      <4>1. (IF k < Len(q) THEN k + 1 ELSE Len(q)) = Len(q)
        BY <1>2, <2>1, <3>5
      <4>2. c[k] = q
        BY <3>2, <4>1, ForemostIsAll
      <4>3. q = <<>> \/ r[Last(q)] = Nil
        <5>1. CASE Len(q) = 0
          BY <5>1
        <5>2. CASE Len(q) # 0
          <6>1. Len(q) \in 1..Len(q)
            BY <1>2, <5>2
          <6>. QED  BY <6>1 DEF Last, Lists
        <5>. QED  BY <5>1, <5>2
      <4>4. c[k + 1] = q
        BY <3>3, <4>2, <4>3
      <4>. QED  BY <3>5, <4>4, ForemostIsAll
    <3>. QED  BY <3>4, <3>5
  <2>. QED  BY <2>1, <2>2
<1>5. S = Nat
  <2>0. 0 \in S
    BY <1>3
  <2>. HIDE DEF S
  <2>1. S \in SUBSET Nat
    BY DEF S
  <2>. QED  BY <1>4, <2>0, <2>1, SetInduction
<1>6. ASSUME NEW k \in 0..steps PROVE Ok(k)
  <2>1. k \in S
    BY <1>5
  <2>. QED  BY <2>1
<1>. QED  BY <1>6 DEF c

\* A chain without repetitions counts what it lists, and is followed to its end.
LEMMA AllReached ==
    ASSUME NEW T, Nil \notin T, NEW q \in Seq(T), NEW o, NEW r, NEW n, NEW S,
           Lists(o, r, n, q), Enumerates(q, S)
    PROVE  Reached(o, r, n, Cardinality(S))[Cardinality(S)] = q
<1>1. Len(q) \in Nat /\ \A i \in 1..Len(q) : q[i] \in S
  BY DEF Enumerates
<1>2. Cardinality(S) = Len(q)
  <2>1. q \in [1..Len(q) -> S]
    BY <1>1
  <2>2. q \in Bijection(1..Len(q), S)
    BY <2>1 DEF Bijection, Injection, Surjection, IsInjective, Enumerates
  <2>. QED  BY <1>1, <2>2, FS_CountingElements DEF ExistsBijection
<1>3. Len(q) \in 0..Len(q) /\ ~(Len(q) < Len(q))
  BY <1>1
<1>4. Reached(o, r, n, Len(q))[Len(q)] = Foremost(q, Len(q))
  BY <1>1, <1>3, ReachedIsChain
<1>. QED  BY <1>2, <1>4, ForemostIsAll

-----------------------------------------------------------------------------
(* What is on its way.                                                     *)

\* The frames of a sequence are for inputs of the design.
FrameOk(d, f) == "to" \in DOMAIN f /\ f.to \in TargetsOf(d)
FramesOk(d, s) == \E T : s \in Seq(T) /\ \A f \in T : FrameOk(d, f)

\* The end of a sequence of frames.
LEMMA FramesTail ==
    ASSUME NEW d, NEW s, FramesOk(d, s), s # <<>>
    PROVE  FramesOk(d, Tail(s)) /\ FrameOk(d, Head(s))
<1>1. PICK T : s \in Seq(T) /\ \A f \in T : FrameOk(d, f)
  BY DEF FramesOk
<1>2. Tail(s) \in Seq(T) /\ Head(s) \in T
  BY <1>1
<1>. QED  BY <1>1, <1>2 DEF FramesOk

\* A frame in front of others.
LEMMA FramesPut ==
    ASSUME NEW d, NEW s, FramesOk(d, s), NEW x, FrameOk(d, x)
    PROVE  FramesOk(d, <<x>> \o s)
<1>1. PICK T : s \in Seq(T) /\ \A f \in T : FrameOk(d, f)
  BY DEF FramesOk
<1>. DEFINE U == T \union {x}
<1>2. s \in Seq(U) /\ <<x>> \in Seq(U)
  BY <1>1
<1>3. \A f \in U : FrameOk(d, f)
  BY <1>1
<1>. HIDE DEF U
<1>4. \A a, b \in Seq(U) : a \o b \in Seq(U)
  OBVIOUS
<1>. QED  BY <1>2, <1>3, <1>4 DEF FramesOk

\* A frame behind others.
LEMMA FramesAppend ==
    ASSUME NEW d, NEW s, FramesOk(d, s), NEW x, FrameOk(d, x)
    PROVE  FramesOk(d, Append(s, x))
<1>1. PICK T : s \in Seq(T) /\ \A f \in T : FrameOk(d, f)
  BY DEF FramesOk
<1>. DEFINE U == T \union {x}
<1>2. s \in Seq(U) /\ x \in U
  BY <1>1
<1>3. \A f \in U : FrameOk(d, f)
  BY <1>1
<1>. HIDE DEF U
<1>4. Append(s, x) \in Seq(U)
  BY <1>2
<1>. QED  BY <1>3, <1>4 DEF FramesOk

\* No frames, and one.
LEMMA FewFrames ==
    ASSUME NEW d
    PROVE  /\ FramesOk(d, <<>>)
           /\ \A x : FrameOk(d, x) => FramesOk(d, <<x>>)
<1>1. ASSUME NEW T, NEW s, s \in Seq(T), \A f \in T : FrameOk(d, f)  PROVE  FramesOk(d, s)
  BY <1>1 DEF FramesOk
<1>2. FramesOk(d, <<>>)
  <2>1. PICK T : T = {}
    OBVIOUS
  <2>2. <<>> \in Seq(T) /\ \A f \in T : FrameOk(d, f)
    BY <2>1
  <2>. QED  BY <1>1, <2>2
<1>3. ASSUME NEW x, FrameOk(d, x) PROVE FramesOk(d, <<x>>)
  <2>1. PICK T : T = {x}
    OBVIOUS
  <2>2. <<x>> \in Seq(T) /\ \A f \in T : FrameOk(d, f)
    BY <1>3, <2>1
  <2>3. PICK s : s = <<x>>
    OBVIOUS
  <2>. QED  BY <1>1, <2>2, <2>3
<1>. QED  BY <1>2, <1>3

\* A frame made for an input.
LEMMA FrameMade ==
    ASSUME NEW d, NEW to \in TargetsOf(d), NEW v, NEW base
    PROVE  FrameOk(d, Frame(to, v)) /\ FrameOk(d, PartFrame(to, v, base))
  BY DEF FrameOk, Frame, PartFrame

\* A frame sent on to another input.
LEMMA FrameMoved ==
    ASSUME NEW d, NEW f, FrameOk(d, f), NEW to \in TargetsOf(d)
    PROVE  FrameOk(d, [f EXCEPT !.to = to])
  BY DEF FrameOk

\* Chains lead to inputs.
LEMMA ChainsLead ==
    ASSUME NEW d, NEW o, NEW r, NEW drv, Exact(d, o, r, drv)
    PROVE  /\ \A n \in NodesOf(d) : o[n] # Nil => o[n] \in TargetsOf(d)
           /\ \A p \in Pointers(d) : r[p] # Nil => r[p] \in TargetsOf(d)
<1>1. ASSUME NEW n \in NodesOf(d)
      PROVE  /\ o[n] # Nil => o[n] \in TargetsOf(d)
             /\ \A p \in drv[n] : r[p] # Nil => r[p] \in TargetsOf(d)
  <2>1. PICK q \in Seq(TargetsOf(d)) : Lists(o, r, n, q) /\ Enumerates(q, drv[n])
    BY DEF Exact
  <2>2. Len(q) \in Nat /\ \A i \in 1..Len(q) : q[i] \in TargetsOf(d)
    OBVIOUS
  <2>3. o[n] # Nil => o[n] \in TargetsOf(d)
    <3>1. Len(q) # 0 => 1 \in 1..Len(q)
      BY <2>2
    <3>. QED  BY <2>1, <2>2, <3>1 DEF Lists
  <2>4. ASSUME NEW p \in drv[n], r[p] # Nil PROVE r[p] \in TargetsOf(d)
    <3>1. PICK i \in 1..Len(q) : q[i] = p
      BY <2>1 DEF Enumerates
    <3>2. i # Len(q) /\ r[p] = q[i + 1]
      BY <2>1, <2>4, <3>1 DEF Lists
    <3>3. i + 1 \in 1..Len(q)
      BY <2>2, <3>2
    <3>. QED  BY <2>2, <3>2, <3>3
  <2>. QED  BY <2>3, <2>4
<1>2. \A p \in Pointers(d) : (\A n \in NodesOf(d) : p \notin drv[n]) => r[p] = Nil
  BY DEF Exact
<1>. QED  BY <1>1, <1>2

-----------------------------------------------------------------------------
(* The invariant.                                                          *)

\* An opcode is about a signal; one that links is about two.
OpOk(d, t) ==
    /\ t.op \in {"write", "link", "clear"}
    /\ t.st.to \in SignalsOf(d)
    /\ t.op = "write" => t.st.do \in {"set", "assign", "force"}
    /\ t.op = "link" => t.st.do \in {"assign", "force"} /\ t.st.from \in SignalsOf(d)
    /\ t.op = "clear" => t.st.do \in {"deassign", "release"}
OpsOk(d, s) == \E T : s \in Seq(T) /\ \A t \in T : OpOk(d, t)

\* Each signal says what is linked to its ports 1 and 2.
LinksTyped(d, s) ==
    /\ DOMAIN s = SignalsOf(d)
    /\ \A n \in SignalsOf(d) :
         /\ "link" \in DOMAIN s[n] /\ DOMAIN s[n].link = {1, 2}
         /\ \A k \in {1, 2} : s[n].link[k] \in NodesOf(d) \union {NoNode}

LinksIn(d, s) == [p \in Linkable(d) |-> s[p[1]].link[p[2]]]

\* Inductive: the chains are exact for the links the signals have, and what is
\* on its way is for inputs of the design.
NetInv ==
    /\ design \in DOMAIN Designs
    /\ LinksTyped(D, sig)
    /\ Exact(D, out, port, Drives(D, LinksIn(D, sig)))
    /\ FramesOk(D, sending) /\ FramesOk(D, active)
    /\ OpsOk(D, thread)

\* The design of a state is a good one.
LEMMA DIsGood ==
    ASSUME design \in DOMAIN Designs
    PROVE  GoodDesign(D)
<1>1. D \in Range(Designs)
  BY DEF D, Range
<1>. QED  BY <1>1, DesignIsGood

\* A change of signals that leaves the links.
LEMMA SameLinks ==
    ASSUME NEW d, NEW s, NEW s2, LinksTyped(d, s), DOMAIN s2 = DOMAIN s,
           \A n \in SignalsOf(d) : "link" \in DOMAIN s2[n] /\ s2[n].link = s[n].link
    PROVE  LinksTyped(d, s2) /\ LinksIn(d, s2) = LinksIn(d, s)
<1>1. LinksTyped(d, s2)
  BY DEF LinksTyped
<1>2. \A p \in Linkable(d) : s2[p[1]].link[p[2]] = s[p[1]].link[p[2]]
  BY DEF Linkable
<1>. QED  BY <1>1, <1>2 DEF LinksIn

\* What a signal receives leaves its links.
LEMMA ReceivedKeepsLinks ==
    ASSUME NEW n, NEW f, f.to[2] \in {0, 1, 2}, "link" \in DOMAIN sig[n]
    PROVE  /\ "link" \in DOMAIN Received(n, f).state
           /\ Received(n, f).state.link = sig[n].link
  BY DEF Received

-----------------------------------------------------------------------------
(* Links of signals.                                                       *)

\* A change of one link of one signal.
LEMMA OneRelinked ==
    ASSUME NEW d, NEW s, NEW s2, LinksTyped(d, s), NEW n \in SignalsOf(d), NEW k \in {1, 2},
           NEW x \in NodesOf(d) \union {NoNode},
           DOMAIN s2 = DOMAIN s, \A m \in SignalsOf(d) : m # n => s2[m] = s[m],
           "link" \in DOMAIN s2[n], s2[n].link = [s[n].link EXCEPT ![k] = x]
    PROVE  LinksTyped(d, s2) /\ Relinks(d, LinksIn(d, s), LinksIn(d, s2), <<n, k>>, x)
<1>1. DOMAIN s2[n].link = {1, 2} /\ \A j \in {1, 2} : s2[n].link[j] = IF j = k THEN x ELSE s[n].link[j]
  BY DEF LinksTyped
<1>2. LinksTyped(d, s2)
  BY <1>1 DEF LinksTyped
<1>3. ASSUME NEW m \in SignalsOf(d), NEW j \in {1, 2}
      PROVE  s2[m].link[j] = IF <<m, j>> = <<n, k>> THEN x ELSE s[m].link[j]
  <2>1. <<m, j>> = <<n, k>> <=> m = n /\ j = k
    OBVIOUS
  <2>2. CASE m = n
    BY <1>1, <2>1, <2>2
  <2>3. CASE m # n
    BY <2>1, <2>3
  <2>. QED  BY <2>2, <2>3
<1>4. \A p \in Linkable(d) : \E m \in SignalsOf(d), j \in {1, 2} : p = <<m, j>>
  BY DEF Linkable
<1>5. \A p \in Linkable(d) : s2[p[1]].link[p[2]] = IF p = <<n, k>> THEN x ELSE s[p[1]].link[p[2]]
  <2>1. ASSUME NEW p \in Linkable(d)
        PROVE  s2[p[1]].link[p[2]] = IF p = <<n, k>> THEN x ELSE s[p[1]].link[p[2]]
    <3>1. PICK m \in SignalsOf(d), j \in {1, 2} : p = <<m, j>>
      BY <1>4
    <3>2. p[1] = m /\ p[2] = j
      BY <3>1
    <3>. QED  BY <1>3, <3>1, <3>2
  <2>. QED  BY <2>1
<1>. QED  BY <1>2, <1>5 DEF LinksIn, Relinks

\* What was linked to an input is unlinked, if anything was.
LEMMA FreedExact ==
    ASSUME NEW d, GoodDesign(d), NEW o, NEW r, NEW lk, NEW lk2, NEW p \in Linkable(d),
           Exact(d, o, r, Drives(d, lk)), lk[p] \in NodesOf(d) \union {NoNode},
           Relinks(d, lk, lk2, p, NoNode),
           NEW c, c = IF lk[p] = NoNode THEN [out |-> o, port |-> r]
                      ELSE Unlinked([out |-> o, port |-> r], p, lk[p])
    PROVE  Exact(d, c.out, c.port, Drives(d, lk2))
<1>1. CASE lk[p] = NoNode
  <2>1. c.out = o /\ c.port = r
    BY <1>1
  <2>2. \A x \in Linkable(d) : lk2[x] = lk[x]
    BY <1>1 DEF Relinks
  <2>3. Drives(d, lk2) = Drives(d, lk)
    BY <2>2 DEF Drives
  <2>. QED  BY <2>1, <2>3
<1>2. CASE lk[p] # NoNode
  <2>1. c = Unlinked([out |-> o, port |-> r], p, lk[p]) /\ lk[p] \in NodesOf(d)
    BY <1>2
  <2>. QED  BY <2>1, UnlinkedExact
<1>. QED  BY <1>1, <1>2

\* Linked needs of a record its two fields.
LEMMA LinkedFields ==
    ASSUME NEW c, NEW p, NEW n
    PROVE  Linked(c, p, n) = Linked([out |-> c.out, port |-> c.port], p, n)
  BY DEF Linked

-----------------------------------------------------------------------------
(* The steps.                                                              *)

\* An input of a signal is one of three; a node has an input 0.
LEMMA TargetParts ==
    ASSUME NEW d, SignalsOf(d) \intersect DOMAIN d.functor = {}
    PROVE  /\ \A p \in TargetsOf(d) : p[1] \in NodesOf(d)
           /\ \A p \in TargetsOf(d) : p[1] \in SignalsOf(d) => p[2] \in {0, 1, 2}
           /\ \A n \in NodesOf(d) : <<n, 0>> \in TargetsOf(d)
           /\ \A n \in SignalsOf(d) : \A k \in {0, 1, 2} : <<n, k>> \in TargetsOf(d)
<1>. DEFINE F == DOMAIN d.functor
            A == SignalsOf(d)
            B == 0..3
<1>1. TargetsOf(d) = (A \X {0, 1, 2}) \union (F \X B) /\ NodesOf(d) = A \union F /\ A \intersect F = {}
  BY DEF TargetsOf, NodesOf, SignalsOf
<1>2. 0 \in B
  OBVIOUS
<1>. HIDE DEF A, F, B
<1>3. \A p \in A \X {0, 1, 2} : p[1] \in A /\ p[2] \in {0, 1, 2}
  OBVIOUS
<1>4. \A p \in F \X B : p[1] \in F
  OBVIOUS
<1>5. /\ \A p \in TargetsOf(d) : p[1] \in NodesOf(d)
      /\ \A p \in TargetsOf(d) : p[1] \in A => p[2] \in {0, 1, 2}
  BY <1>1, <1>3, <1>4
<1>6. \A n \in A : \A k \in {0, 1, 2} : <<n, k>> \in TargetsOf(d)
  BY <1>1
<1>7. \A n \in F : <<n, 0>> \in TargetsOf(d)
  BY <1>1, <1>2
<1>8. \A n \in NodesOf(d) : <<n, 0>> \in TargetsOf(d)
  BY <1>1, <1>6, <1>7
<1>. QED  BY <1>5, <1>6, <1>8 DEF A

\* What is left of a send is for inputs of the design.
LEMMA RestOk ==
    ASSUME NetInv, sending # <<>>
    PROVE  FramesOk(D, Rest)
<1>. DEFINE f == Head(sending)
<1>1. FramesOk(D, Tail(sending)) /\ FrameOk(D, f)
  BY FramesTail DEF NetInv
<1>2. f.to \in Pointers(D)
  <2>1. TargetsOf(D) \subseteq Pointers(D)
    BY DIsGood, NilIsNone DEF NetInv, GoodDesign
  <2>. QED  BY <1>1, <2>1 DEF FrameOk
<1>3. port[f.to] # Nil => port[f.to] \in TargetsOf(D)
  BY <1>2, ChainsLead DEF NetInv
<1>4. Rest = IF port[f.to] = Nil THEN Tail(sending)
             ELSE <<[f EXCEPT !.to = port[f.to]]>> \o Tail(sending)
  BY DEF Rest
<1>. HIDE DEF f
<1>5. CASE port[f.to] # Nil
  <2>1. FrameOk(D, [f EXCEPT !.to = port[f.to]])
    BY <1>1, <1>3, <1>5, FrameMoved
  <2>2. FramesOk(D, <<[f EXCEPT !.to = port[f.to]]>> \o Tail(sending))
    BY <1>1, <2>1, FramesPut
  <2>. QED  BY <1>4, <1>5, <2>2
<1>. QED  BY <1>1, <1>4, <1>5

\* A node sends to an input of the design.
LEMMA SendOk ==
    ASSUME NetInv, NEW n \in NodesOf(D), NEW v, NEW rest, FramesOk(D, rest), Send(n, v, rest)
    PROVE  FramesOk(D, sending')
<1>1. out[n] # Nil => out[n] \in TargetsOf(D)
  BY ChainsLead DEF NetInv
<1>2. CASE out[n] = Nil
  <2>1. sending' = <<>> \o rest
    BY <1>2 DEF Send
  <2>2. \A T : \A s \in Seq(T) : <<>> \o s = s
    OBVIOUS
  <2>3. PICK T : rest \in Seq(T)
    BY DEF FramesOk
  <2>4. sending' = rest
    BY <2>1, <2>2, <2>3
  <2>. QED  BY <2>4
<1>3. CASE out[n] # Nil
  <2>1. sending' = <<Frame(out[n], v)>> \o rest
    BY <1>3 DEF Send
  <2>2. FrameOk(D, Frame(out[n], v))
    BY <1>1, <1>3, FrameMade
  <2>. QED  BY <2>1, <2>2, FramesPut
<1>. QED  BY <1>2, <1>3

\* The netlist is linked as it is declared.
LEMMA InitOk ==
    ASSUME Init
    PROVE  NetInv
<1>1. design \in DOMAIN Designs /\ GoodDesign(D) /\ D \in Range(Designs)
  BY DIsGood DEF Init, D, Range
<1>2. NoNode \notin NodesOf(D) /\ SignalsOf(D) \intersect DOMAIN D.functor = {}
  BY <1>1 DEF GoodDesign
<1>3. DOMAIN sig = SignalsOf(D) /\ \A n \in SignalsOf(D) : "link" \in DOMAIN sig[n] /\ sig[n].link = <<NoNode, NoNode>>
  <2>1. sig = [n \in SignalsOf(D) |->
                 [bits |-> [i \in 1..Width(n) |-> IF n \in D.nets THEN "z" ELSE "x"],
                  assign_mask |-> <<>>, force_mask |-> <<>>, force |-> <<>>,
                  needs_init |-> TRUE, link |-> <<NoNode, NoNode>>]]
    BY DEF Init, Signals, SignalsOf
  <2>2. ASSUME NEW a, NEW b, NEW c, NEW e
        PROVE  /\ "link" \in DOMAIN [bits |-> a, assign_mask |-> b, force_mask |-> b, force |-> b,
                                     needs_init |-> c, link |-> e]
               /\ [bits |-> a, assign_mask |-> b, force_mask |-> b, force |-> b,
                   needs_init |-> c, link |-> e].link = e
    OBVIOUS
  <2>. QED  BY <2>1, <2>2
<1>4. LinksTyped(D, sig)
  <2>1. DOMAIN <<NoNode, NoNode>> = {1, 2} /\ \A k \in {1, 2} : <<NoNode, NoNode>>[k] = NoNode
    OBVIOUS
  <2>. QED  BY <1>3, <2>1 DEF LinksTyped
<1>5. Exact(D, out, port, Drives(D, LinksIn(D, sig)))
  <2>. DEFINE k == Len(D.links)
  <2>1. k \in 0..k /\ out = LinkedUpTo(D)[k].out /\ port = LinkedUpTo(D)[k].port
    BY <1>1 DEF GoodDesign, Init, LinkedDesign
  <2>2. Exact(D, out, port, Declared(D, k))
    BY <1>1, <2>1, LinkedUpToExact
  <2>3. \A p \in Linkable(D) : LinksIn(D, sig)[p] = NoNode
    <3>1. \A p \in Linkable(D) : sig[p[1]].link[p[2]] = NoNode
      BY <1>3 DEF Linkable
    <3>. QED  BY <3>1 DEF LinksIn
  <2>4. ASSUME NEW n \in NodesOf(D)
        PROVE  Drives(D, LinksIn(D, sig))[n] = Declared(D, k)[n]
    <3>1. \A x : x \in Declared(D, k)[n] <=> \E i \in 1..k : D.links[i].from = n /\ x = D.links[i].to
      BY DEF Declared
    <3>2. \A x : x \in Drives(D, LinksIn(D, sig))[n] <=>
                   /\ x \in TargetsOf(D)
                   /\ \/ \E i \in 1..k : D.links[i].from = n /\ D.links[i].to = x
                      \/ x \in Linkable(D) /\ LinksIn(D, sig)[x] = n
      BY DEF Drives
    <3>3. \A i \in 1..k : D.links[i].to \in TargetsOf(D)
      BY <1>1 DEF GoodDesign
    <3>4. n # NoNode /\ \A x \in Linkable(D) : LinksIn(D, sig)[x] # n
      BY <1>2, <2>3
    <3>5. \A x : x \in Drives(D, LinksIn(D, sig))[n] <=>
                   x \in TargetsOf(D) /\ \E i \in 1..k : D.links[i].from = n /\ x = D.links[i].to
      BY <3>2, <3>4
    <3>6. \A x : x \in Drives(D, LinksIn(D, sig))[n] <=> x \in Declared(D, k)[n]
      <4>. HIDE DEF k
      <4>. QED  BY <3>1, <3>3, <3>5
    <3>. QED  BY <3>6
  <2>5. Drives(D, LinksIn(D, sig)) = Declared(D, k)
    BY <2>4 DEF Drives, Declared
  <2>. QED  BY <2>2, <2>5
<1>6. FramesOk(D, sending) /\ OpsOk(D, thread)
  <2>1. sending = <<>> /\ thread = <<>>
    BY DEF Init
  <2>2. PICK T : T = {}
    OBVIOUS
  <2>3. <<>> \in Seq(T) /\ \A t \in T : OpOk(D, t)
    BY <2>2
  <2>4. OpsOk(D, <<>>)
    BY <2>3 DEF OpsOk
  <2>. QED  BY <2>1, <2>4, FewFrames
<1>7. FramesOk(D, active)
  <2>. DEFINE first == [k \in DOMAIN D.initial |-> Frame(<<D.initial[k], 0>>, X(D.initial[k]))]
              then == [k \in DOMAIN D.constants |-> Frame(D.constants[k].to, D.constants[k].val)]
              inputs == (SignalsOf(D) \X {0}) \union ((DOMAIN D.functor) \X (0..3))
  <2>1. /\ D.initial \in Seq(SignalsOf(D))
        /\ D.constants \in Seq([to : inputs, val : Seq(Bit4)])
    BY <1>1, DesignsAssumption DEF SignalsOf
  <2>2. \A p \in inputs : p \in TargetsOf(D)
    <3>. DEFINE F == (DOMAIN D.functor) \X (0..3)
                A == SignalsOf(D)
    <3>1. inputs = (A \X {0}) \union F /\ TargetsOf(D) = (A \X {0, 1, 2}) \union F
      BY DEF TargetsOf
    <3>. HIDE DEF F, A, inputs
    <3>2. \A p \in A \X {0} : p \in A \X {0, 1, 2}
      OBVIOUS
    <3>. QED  BY <3>1, <3>2
  <2>. HIDE DEF inputs
  <2>3. \A k \in 1..Len(D.constants) : D.constants[k].to \in TargetsOf(D)
    <3>1. ASSUME NEW R, D.constants \in Seq(R)
          PROVE  \A k \in 1..Len(D.constants) : D.constants[k] \in R
      BY <3>1
    <3>2. \A k \in 1..Len(D.constants) : D.constants[k] \in [to : inputs, val : Seq(Bit4)]
      BY <2>1, <3>1
    <3>. QED  BY <2>2, <3>2
  <2>4. \A k \in 1..Len(D.initial) : <<D.initial[k], 0>> \in TargetsOf(D)
    <3>1. \A k \in 1..Len(D.initial) : D.initial[k] \in SignalsOf(D)
      BY <2>1
    <3>2. \A n \in SignalsOf(D) : <<n, 0>> \in TargetsOf(D)
      BY <1>2, TargetParts
    <3>. QED  BY <3>1, <3>2
  <2>. DEFINE T == {first[k] : k \in 1..Len(D.initial)} \union {then[k] : k \in 1..Len(D.constants)}
  <2>5. \A f \in T : FrameOk(D, f)
    <3>1. DOMAIN D.initial = 1..Len(D.initial) /\ DOMAIN D.constants = 1..Len(D.constants)
      BY <2>1
    <3>2. \A k \in 1..Len(D.initial) : FrameOk(D, first[k])
      BY <2>4, <3>1, FrameMade
    <3>3. \A k \in 1..Len(D.constants) : FrameOk(D, then[k])
      BY <2>3, <3>1, FrameMade
    <3>. HIDE DEF first, then
    <3>. QED  BY <3>2, <3>3
  <2>6. first \in Seq(T) /\ then \in Seq(T)
    <3>1. /\ DOMAIN D.initial = 1..Len(D.initial) /\ Len(D.initial) \in Nat
          /\ DOMAIN D.constants = 1..Len(D.constants) /\ Len(D.constants) \in Nat
      BY <2>1
    <3>2. /\ first = [k \in 1..Len(D.initial) |-> first[k]]
          /\ then = [k \in 1..Len(D.constants) |-> then[k]]
      BY <3>1
    <3>. HIDE DEF first, then
    <3>. QED  BY <3>1, <3>2
  <2>7. active = first \o then
    BY DEF Init
  <2>. HIDE DEF first, then, T
  <2>8. \A a, b \in Seq(T) : a \o b \in Seq(T)
    OBVIOUS
  <2>. QED  BY <2>5, <2>6, <2>7, <2>8 DEF FramesOk
<1>. QED  BY <1>1, <1>4, <1>5, <1>6, <1>7 DEF NetInv

\* A signal that receives keeps its links.
LEMMA ReceiveSignalOk ==
    ASSUME NetInv, ReceiveSignal
    PROVE  NetInv'
<1>. DEFINE f == Head(sending)
            n == f.to[1]
            r == Received(n, f)
<1>1. sending # <<>> /\ n \in Signals /\ sig' = [sig EXCEPT ![n] = r.state]
      /\ IF r.sends THEN Send(n, vec4_value(r.state), Rest) ELSE sending' = Rest /\ UNCHANGED sent
  BY DEF ReceiveSignal
<1>2. UNCHANGED <<design, out, port, active, thread>>
  BY DEF ReceiveSignal, chains
<1>3. D' = D /\ GoodDesign(D) /\ SignalsOf(D) = Signals
  BY <1>2, DIsGood DEF NetInv, D, SignalsOf, Signals
<1>4. FrameOk(D, f) /\ FramesOk(D, Rest)
  BY <1>1, FramesTail, RestOk DEF NetInv
<1>5. n \in NodesOf(D) /\ n \in SignalsOf(D) /\ f.to[2] \in {0, 1, 2}
  BY <1>1, <1>3, <1>4, TargetParts DEF FrameOk, GoodDesign
<1>6. "link" \in DOMAIN r.state /\ r.state.link = sig[n].link
  BY <1>5, ReceivedKeepsLinks DEF NetInv, LinksTyped
<1>. HIDE DEF f, n, r
<1>7. LinksTyped(D, sig') /\ LinksIn(D, sig') = LinksIn(D, sig)
  <2>1. LinksTyped(D, sig)
    BY DEF NetInv
  <2>2. DOMAIN sig' = DOMAIN sig
    BY <1>1
  <2>3. \A m \in SignalsOf(D) : sig'[m] = IF m = n THEN r.state ELSE sig[m]
    BY <1>1, <2>1 DEF LinksTyped
  <2>4. \A m \in SignalsOf(D) : "link" \in DOMAIN sig'[m] /\ sig'[m].link = sig[m].link
    BY <1>6, <2>1, <2>3 DEF LinksTyped
  <2>. QED  BY <2>1, <2>2, <2>4, SameLinks
<1>8. FramesOk(D, sending')
  BY <1>1, <1>4, <1>5, SendOk
<1>. QED  BY <1>2, <1>3, <1>7, <1>8 DEF NetInv

\* A functor passes on what it computes, or is put in the queue.
LEMMA ReceiveFunctorOk ==
    ASSUME NetInv, ReceiveFunctor
    PROVE  NetInv'
<1>. DEFINE f == Head(sending)
            g == f.to[1]
<1>1. sending # <<>> /\ g \in Functors
  BY DEF ReceiveFunctor
<1>2. UNCHANGED <<design, out, port, sig, thread>>
  BY DEF ReceiveFunctor, chains
<1>3. sending' = Rest \/ \E v : Send(g, v, Rest)
  BY DEF ReceiveFunctor
<1>4. active' = active \/ active' = Append(active, RunOf(g))
  BY DEF ReceiveFunctor
<1>. HIDE DEF f, g
<1>5. D' = D /\ GoodDesign(D) /\ g \in NodesOf(D)
  BY <1>1, <1>2, DIsGood DEF NetInv, D, NodesOf, Functors
<1>6. FramesOk(D, sending')
  BY <1>1, <1>3, <1>5, RestOk, SendOk
<1>7. FramesOk(D, active')
  <2>1. FrameOk(D, RunOf(g))
    BY <1>5, TargetParts, FrameMade DEF RunOf, GoodDesign
  <2>. QED  BY <1>4, <2>1, FramesAppend DEF NetInv
<1>. QED  BY <1>2, <1>5, <1>6, <1>7 DEF NetInv

\* An event of the queue is sent or makes a functor send.
LEMMA RunEventOk ==
    ASSUME NetInv, RunEvent
    PROVE  NetInv'
<1>. DEFINE e == Head(active)
            g == e.to[1]
<1>1. active # <<>> /\ active' = Tail(active)
  BY DEF RunEvent
<1>2. UNCHANGED <<design, out, port, sig, thread>>
  BY DEF RunEvent, chains
<1>3. sending' = <<e>> \/ \E v : Send(g, v, <<>>)
  BY DEF RunEvent
<1>4. D' = D /\ GoodDesign(D)
  BY <1>2, DIsGood DEF NetInv, D
<1>5. FramesOk(D, active') /\ FrameOk(D, e)
  BY <1>1, FramesTail DEF NetInv
<1>6. g \in NodesOf(D)
  BY <1>4, <1>5, TargetParts DEF FrameOk, GoodDesign
<1>. HIDE DEF e, g
<1>7. FramesOk(D, sending')
  BY <1>3, <1>5, <1>6, FewFrames, SendOk
<1>. QED  BY <1>2, <1>4, <1>5, <1>7 DEF NetInv

\* The rest of the opcodes.
LEMMA OpsTail ==
    ASSUME NEW d, NEW s, OpsOk(d, s), s # <<>>
    PROVE  OpsOk(d, Tail(s)) /\ OpOk(d, Head(s))
<1>1. PICK T : s \in Seq(T) /\ \A t \in T : OpOk(d, t)
  BY DEF OpsOk
<1>2. Tail(s) \in Seq(T) /\ Head(s) \in T
  BY <1>1
<1>. QED  BY <1>1, <1>2 DEF OpsOk

\* now is the statement st of a design, with another value.
SameStatement(d, st, now) ==
    /\ now.do = st.do /\ now.to = st.to /\ now.from = st.from
    /\ st.do \in {"set", "assign", "deassign", "force", "release"}
    /\ st.to \in SignalsOf(d) /\ st.from \in SignalsOf(d) \union {NoNode}

\* Of a statement, only the value is filled in.
LEMMA StatementKept ==
    ASSUME NEW d \in Range(Designs), NEW st \in d.statements
    PROVE  \A v : SameStatement(d, st, [st EXCEPT !.val = v])
<1>. SUFFICES ASSUME NEW v, NEW now, now = [st EXCEPT !.val = v]
              PROVE  SameStatement(d, st, now)
  OBVIOUS
<1>. DEFINE A == SignalsOf(d)
            W == Seq(Bit4)
<1>1. st \in [do : {"set", "assign", "deassign", "force", "release"}, to : A,
              base : Nat, wid : Nat, val : W, from : A \union {NoNode}]
  BY DesignsAssumption DEF SignalsOf
<1>. HIDE DEF A, W
<1>2. /\ now.do = st.do /\ now.to = st.to /\ now.from = st.from
      /\ st.do \in {"set", "assign", "deassign", "force", "release"}
      /\ st.to \in A /\ st.from \in A \union {NoNode}
  BY <1>1
<1>. QED  BY <1>2 DEF A, SameStatement

\* A statement becomes opcodes about signals of the design.
LEMMA BeginStatementOk ==
    ASSUME NetInv, BeginStatement
    PROVE  NetInv'
<1>1. UNCHANGED <<design, out, port, sig, active, sending>>
  BY DEF BeginStatement, chains
<1>2. D' = D /\ D \in Range(Designs)
  BY <1>1 DEF NetInv, D, Range
<1>3. PICK st \in D.statements :
         LET ops == Opcodes(st)
             now == [st EXCEPT !.val = ValueOf(st)]
         IN  thread' = [k \in DOMAIN ops |-> [op |-> ops[k], st |-> now]]
  BY DEF BeginStatement
<1>. DEFINE ops == Opcodes(st)
            now == [st EXCEPT !.val = ValueOf(st)]
            T == {[op |-> ops[k], st |-> now] : k \in DOMAIN ops}
<1>4. /\ now.do = st.do /\ now.to = st.to /\ now.from = st.from
      /\ st.do \in {"set", "assign", "deassign", "force", "release"}
      /\ st.to \in SignalsOf(D) /\ st.from \in SignalsOf(D) \union {NoNode}
  <2>1. \A v : SameStatement(D, st, [st EXCEPT !.val = v])
    BY <1>2, StatementKept
  <2>2. SameStatement(D, st, now)
    BY <2>1, Zenon
  <2>. QED  BY <2>2 DEF SameStatement
<1>5. thread' = [k \in DOMAIN ops |-> [op |-> ops[k], st |-> now]]
  BY <1>3
<1>6. /\ \E n \in Nat : DOMAIN ops = 1..n
      /\ \A k \in DOMAIN ops :
           \/ ops[k] = "write" /\ st.do \in {"set", "assign", "force"}
           \/ ops[k] = "link" /\ st.do \in {"assign", "force"} /\ st.from # NoNode
           \/ ops[k] = "clear" /\ st.do \in {"deassign", "release"}
  <2>1. /\ DOMAIN <<"write">> = 1..1 /\ DOMAIN <<"clear">> = 1..1 /\ DOMAIN <<"write", "link">> = 1..2
        /\ \A k \in 1..1 : <<"write">>[k] = "write" /\ <<"clear">>[k] = "clear"
        /\ \A k \in 1..2 : <<"write", "link">>[k] \in {"write", "link"}
    OBVIOUS
  <2>2. CASE st.do = "set"
    <3>1. ops = <<"write">>
      BY <2>2 DEF Opcodes
    <3>. QED  BY <2>1, <2>2, <3>1
  <2>3. CASE st.do \in {"assign", "force"}
    <3>1. ops = IF st.from = NoNode THEN <<"write">> ELSE <<"write", "link">>
      BY <2>3 DEF Opcodes
    <3>2. CASE st.from = NoNode
      BY <2>1, <2>3, <3>1, <3>2
    <3>3. CASE st.from # NoNode
      BY <2>1, <2>3, <3>1, <3>3
    <3>. QED  BY <3>2, <3>3
  <2>4. CASE st.do \in {"deassign", "release"}
    <3>1. ops = <<"clear">>
      BY <2>4 DEF Opcodes
    <3>. QED  BY <2>1, <2>4, <3>1
  <2>. QED  BY <1>4, <2>2, <2>3, <2>4
<1>. HIDE DEF ops, now
<1>7. \A t \in T : OpOk(D, t)
  <2>1. \A k \in DOMAIN ops : OpOk(D, [op |-> ops[k], st |-> now])
    BY <1>4, <1>6 DEF OpOk
  <2>. QED  BY <2>1
<1>8. thread' \in Seq(T)
  <2>1. PICK n \in Nat : DOMAIN ops = 1..n
    BY <1>6
  <2>2. thread' = [k \in 1..n |-> thread'[k]] /\ \A k \in 1..n : thread'[k] \in T
    BY <1>5, <2>1
  <2>. HIDE DEF T
  <2>. QED  BY <2>2
<1>9. OpsOk(D, thread')
  BY <1>7, <1>8 DEF OpsOk
<1>. QED  BY <1>1, <1>2, <1>9 DEF NetInv

\* A value is written to a port of a signal.
LEMMA WriteOk ==
    ASSUME NetInv, Write
    PROVE  NetInv'
<1>. DEFINE st == Head(thread).st
            to == <<st.to, Port(st)>>
<1>1. /\ thread # <<>> /\ Head(thread).op = "write" /\ thread' = Tail(thread)
      /\ sending' = <<IF Whole(st) THEN Frame(to, st.val) ELSE PartFrame(to, st.val, st.base)>>
  BY DEF Write, Executes
<1>2. UNCHANGED <<design, out, port, sig, active>>
  BY DEF Write, chains
<1>3. D' = D /\ GoodDesign(D)
  BY <1>2, DIsGood DEF NetInv, D
<1>4. OpsOk(D, thread') /\ OpOk(D, Head(thread))
  BY <1>1, OpsTail DEF NetInv
<1>5. st.to \in SignalsOf(D) /\ st.do \in {"set", "assign", "force"}
  BY <1>1, <1>4 DEF OpOk
<1>6. Port(st) \in {0, 1, 2}
  BY <1>5 DEF Port
<1>7. to \in TargetsOf(D)
  BY <1>3, <1>5, <1>6, TargetParts DEF GoodDesign
<1>. HIDE DEF st, to
<1>8. FrameOk(D, IF Whole(st) THEN Frame(to, st.val) ELSE PartFrame(to, st.val, st.base))
  BY <1>7, FrameMade
<1>9. FramesOk(D, sending')
  BY <1>1, <1>8, FewFrames
<1>. QED  BY <1>2, <1>3, <1>4, <1>9 DEF NetInv

\* A signal is linked to its source, in whose chain it comes first.
LEMMA LinkOk ==
    ASSUME NetInv, Link
    PROVE  NetInv'
<1>. DEFINE st == Head(thread).st
            n == st.to
            k == Port(st)
            p == <<n, k>>
            old == sig[n].link[k]
            c == IF old = NoNode THEN Chains ELSE Unlinked(Chains, p, old)
            d == Linked(c, p, st.from)
<1>1. /\ thread # <<>> /\ Head(thread).op = "link" /\ thread' = Tail(thread)
      /\ IF old = st.from THEN UNCHANGED <<chains, sig>>
         ELSE /\ out' = d.out /\ port' = d.port
              /\ sig' = [sig EXCEPT ![n].link[k] = st.from]
  BY DEF Link, Executes
<1>2. UNCHANGED <<design, active, sending>>
  BY DEF Link
<1>3. D' = D /\ GoodDesign(D)
  BY <1>2, DIsGood DEF NetInv, D
<1>4. OpsOk(D, thread') /\ OpOk(D, Head(thread))
  BY <1>1, OpsTail DEF NetInv
<1>5. /\ n \in SignalsOf(D) /\ k \in {1, 2}
      /\ st.from \in SignalsOf(D) /\ st.from \in NodesOf(D)
  <2>1. n \in SignalsOf(D) /\ st.do \in {"assign", "force"} /\ st.from \in SignalsOf(D)
    BY <1>1, <1>4 DEF OpOk
  <2>2. k \in {1, 2}
    BY <2>1 DEF Port
  <2>. QED  BY <2>1, <2>2 DEF NodesOf, SignalsOf
<1>. DEFINE x == st.from
<1>6. LinksTyped(D, sig) /\ Exact(D, out, port, Drives(D, LinksIn(D, sig)))
  BY DEF NetInv
<1>7. CASE old = x
  BY <1>1, <1>2, <1>3, <1>4, <1>7 DEF NetInv, chains
<1>8. CASE old # x
  <2>. DEFINE lk == LinksIn(D, sig)
              lk1 == [q \in Linkable(D) |-> IF q = p THEN NoNode ELSE lk[q]]
              lk2 == LinksIn(D, sig')
  <2>1. p \in Linkable(D) /\ lk[p] = old /\ old \in NodesOf(D) \union {NoNode}
    <3>1. p \in Linkable(D) /\ p[1] = n /\ p[2] = k
      BY <1>5 DEF Linkable
    <3>. HIDE DEF p
    <3>2. lk[p] = old
      BY <3>1 DEF LinksIn
    <3>. QED  BY <1>5, <1>6, <3>1, <3>2 DEF LinksTyped
  <2>2. c = IF lk[p] = NoNode THEN [out |-> out, port |-> port]
            ELSE Unlinked([out |-> out, port |-> port], p, lk[p])
    BY <2>1 DEF Chains
  <2>3. d = Linked([out |-> c.out, port |-> c.port], p, x)
    BY LinkedFields
  <2>4. out' = d.out /\ port' = d.port /\ sig' = [sig EXCEPT ![n].link[k] = x]
    BY <1>1, <1>8
  <2>. HIDE DEF c, d, n, k, x, old
  <2>5. LinksTyped(D, sig') /\ Relinks(D, lk, lk2, p, x)
    <3>1. /\ DOMAIN sig' = DOMAIN sig /\ \A m \in SignalsOf(D) : m # n => sig'[m] = sig[m]
          /\ "link" \in DOMAIN sig'[n] /\ sig'[n].link = [sig[n].link EXCEPT ![k] = x]
      BY <1>5, <1>6, <2>4 DEF LinksTyped
    <3>2. x \in NodesOf(D) \union {NoNode}
      BY <1>5 DEF x
    <3>. QED  BY <1>5, <1>6, <3>1, <3>2, OneRelinked
  <2>. HIDE DEF p, lk, lk2
  <2>6. Relinks(D, lk, lk1, p, NoNode) /\ Relinks(D, lk1, lk2, p, x) /\ lk1[p] = NoNode
    BY <2>1, <2>5 DEF Relinks
  <2>. HIDE DEF lk1
  <2>7. Exact(D, out, port, Drives(D, lk))
    BY <1>6 DEF lk
  <2>8. Exact(D, c.out, c.port, Drives(D, lk1))
    BY <1>3, <2>1, <2>2, <2>6, <2>7, FreedExact
  <2>9. Exact(D, d.out, d.port, Drives(D, lk2))
    <3>1. x \in NodesOf(D)
      BY <1>5 DEF x
    <3>. QED  BY <1>3, <2>1, <2>3, <2>6, <2>8, <3>1, LinkedExact
  <2>. QED  BY <1>2, <1>3, <1>4, <2>4, <2>5, <2>9 DEF NetInv, lk2
<1>. QED  BY <1>7, <1>8

\* Clearing the masks of a signal leaves its links.
LEMMA ClearedKeepsLinks ==
    ASSUME NEW s, NEW st, "link" \in DOMAIN s
    PROVE  /\ "link" \in DOMAIN Deassigned(s, st) /\ Deassigned(s, st).link = s.link
           /\ "link" \in DOMAIN Released(s, st) /\ Released(s, st).link = s.link
  BY DEF Deassigned, Released

\* The link of a signal goes, or vvp ends.
LEMMA ClearOk ==
    ASSUME NetInv, Clear
    PROVE  NetInv'
<1>. DEFINE st == Head(thread).st
            n == st.to
            k == Port(st)
            p == <<n, k>>
            link == sig[n].link[k]
            c == IF link = NoNode THEN Chains ELSE Unlinked(Chains, p, link)
            s == [sig[n] EXCEPT !.link[k] = NoNode]
            cleared == IF st.do = "deassign" THEN Deassigned(s, st) ELSE Released(s, st)
<1>1. /\ thread # <<>> /\ Head(thread).op = "clear" /\ thread' = Tail(thread)
      /\ IF link # NoNode /\ ~Whole(st)
         THEN halted' = TRUE /\ UNCHANGED <<chains, sig, sending, sent>>
         ELSE /\ out' = c.out /\ port' = c.port
              /\ sig' = [sig EXCEPT ![n] = cleared]
              /\ IF st.do = "release" /\ n \in D.nets /\ s.force_mask # <<>>
                 THEN Send(n, vec4_value(cleared), <<>>)
                 ELSE UNCHANGED <<sending, sent>>
              /\ UNCHANGED halted
  BY DEF Clear, Executes
<1>2. UNCHANGED <<design, active>>
  BY DEF Clear
<1>3. D' = D /\ GoodDesign(D)
  BY <1>2, DIsGood DEF NetInv, D
<1>4. OpsOk(D, thread') /\ OpOk(D, Head(thread))
  BY <1>1, OpsTail DEF NetInv
<1>5. n \in SignalsOf(D) /\ n \in NodesOf(D) /\ k \in {1, 2}
  <2>1. n \in SignalsOf(D) /\ st.do \in {"deassign", "release"}
    BY <1>1, <1>4 DEF OpOk
  <2>2. k \in {1, 2}
    BY <2>1 DEF Port
  <2>. QED  BY <2>1, <2>2 DEF NodesOf, SignalsOf
<1>6. LinksTyped(D, sig) /\ Exact(D, out, port, Drives(D, LinksIn(D, sig))) /\ FramesOk(D, sending)
  BY DEF NetInv
<1>7. CASE link # NoNode /\ ~Whole(st)
  BY <1>1, <1>2, <1>3, <1>4, <1>7 DEF NetInv, chains
<1>8. CASE ~(link # NoNode /\ ~Whole(st))
  <2>. DEFINE lk == LinksIn(D, sig)
              lk2 == LinksIn(D, sig')
  <2>1. p \in Linkable(D) /\ lk[p] = link /\ link \in NodesOf(D) \union {NoNode}
    <3>1. p \in Linkable(D) /\ p[1] = n /\ p[2] = k
      BY <1>5 DEF Linkable
    <3>. HIDE DEF p
    <3>2. lk[p] = link
      BY <3>1 DEF LinksIn
    <3>. QED  BY <1>5, <1>6, <3>1, <3>2 DEF LinksTyped
  <2>2. c = IF lk[p] = NoNode THEN [out |-> out, port |-> port]
            ELSE Unlinked([out |-> out, port |-> port], p, lk[p])
    BY <2>1 DEF Chains
  <2>3. out' = c.out /\ port' = c.port /\ sig' = [sig EXCEPT ![n] = cleared]
    BY <1>1, <1>8
  <2>4. sending' = sending \/ \E v : Send(n, v, <<>>)
    BY <1>1, <1>8
  <2>5. "link" \in DOMAIN s /\ s.link = [sig[n].link EXCEPT ![k] = NoNode]
    <3>1. "link" \in DOMAIN sig[n]
      BY <1>5, <1>6 DEF LinksTyped
    <3>. HIDE DEF n, k
    <3>. QED  BY <3>1
  <2>6. "link" \in DOMAIN cleared /\ cleared.link = s.link
    <3>. HIDE DEF s
    <3>. QED  BY <2>5, ClearedKeepsLinks
  <2>. HIDE DEF c, n, k, link, s, cleared
  <2>7. LinksTyped(D, sig') /\ Relinks(D, lk, lk2, p, NoNode)
    <3>1. /\ DOMAIN sig' = DOMAIN sig /\ \A m \in SignalsOf(D) : m # n => sig'[m] = sig[m]
          /\ "link" \in DOMAIN sig'[n] /\ sig'[n].link = [sig[n].link EXCEPT ![k] = NoNode]
      BY <1>5, <1>6, <2>3, <2>5, <2>6 DEF LinksTyped
    <3>. QED  BY <1>5, <1>6, <3>1, OneRelinked
  <2>8. FramesOk(D, sending')
    BY <1>5, <1>6, <2>4, FewFrames, SendOk
  <2>. HIDE DEF p, lk, lk2
  <2>9. Exact(D, out, port, Drives(D, lk))
    BY <1>6 DEF lk
  <2>10. Exact(D, c.out, c.port, Drives(D, lk2))
    BY <1>3, <2>1, <2>2, <2>7, <2>9, FreedExact
  <2>. QED  BY <1>2, <1>3, <1>4, <2>3, <2>7, <2>8, <2>10 DEF NetInv, lk2
<1>. QED  BY <1>7, <1>8

-----------------------------------------------------------------------------
(* The theorem.                                                            *)

\* What a node drives in a state is what its chain must have.
LEMMA DrivenIsDrives ==
    ASSUME NetInv, NEW n \in NodesOf(D)
    PROVE  Driven(n) = Drives(D, LinksIn(D, sig))[n]
<1>. DEFINE lk == LinksIn(D, sig)
            N == Len(D.links)
            L == D.links
<1>1. GoodDesign(D)
  BY DIsGood DEF NetInv
<1>2. /\ DOMAIN L = 1..N
      /\ \A k \in 1..N : L[k].to \in TargetsOf(D)
  BY <1>1 DEF GoodDesign
<1>3. Linkable(D) \subseteq TargetsOf(D)
  BY DEF Linkable, TargetsOf
<1>4. \A x : x \in Driven(n) <=> \/ \E l \in Range(L) : l.from = n /\ x = l.to
                                 \/ x \in Linkable(D) /\ sig[x[1]].link[x[2]] = n
  BY DEF Driven, Linkable, Signals, SignalsOf
<1>5. \A x : x \in Drives(D, lk)[n] <=>
               x \in TargetsOf(D) /\ (\/ \E k \in 1..N : L[k].from = n /\ L[k].to = x
                                      \/ x \in Linkable(D) /\ lk[x] = n)
  BY DEF Drives
<1>6. \A x \in Linkable(D) : lk[x] = sig[x[1]].link[x[2]]
  BY DEF LinksIn
<1>7. \A x : (\E l \in Range(L) : l.from = n /\ x = l.to) <=> \E k \in 1..N : L[k].from = n /\ L[k].to = x
  BY <1>2 DEF Range
<1>. HIDE DEF lk, N, L
<1>8. \A x : x \in Driven(n) <=> x \in Drives(D, lk)[n]
  BY <1>2, <1>3, <1>4, <1>5, <1>6, <1>7
<1>9. Driven(n) = Drives(D, lk)[n]
  BY <1>8
<1>. QED  BY <1>9 DEF lk

\* Chains that are exact for the links of the signals are what FanoutExact asks for.
LEMMA NetInvImpliesFanoutExact == NetInv => FanoutExact
<1>. SUFFICES ASSUME NetInv PROVE FanoutExact
  OBVIOUS
<1>. DEFINE drv == Drives(D, LinksIn(D, sig))
<1>1. GoodDesign(D) /\ Exact(D, out, port, drv) /\ NodesOf(D) = Nodes
  BY DIsGood DEF NetInv, NodesOf, Nodes, Signals, Functors
<1>2. \A n \in NodesOf(D) : Driven(n) = drv[n]
  BY DrivenIsDrives
<1>. HIDE DEF drv
<1>3. Nil \notin TargetsOf(D)
  BY <1>1, NilIsNone DEF GoodDesign
<1>4. ASSUME NEW n \in Nodes
      PROVE  IsInjective(Chain(n)) /\ Range(Chain(n)) = Driven(n)
  <2>1. PICK q \in Seq(TargetsOf(D)) : Lists(out, port, n, q) /\ Enumerates(q, Driven(n))
    BY <1>1, <1>2 DEF Exact
  <2>2. Chain(n) = q
    BY <1>3, <2>1, AllReached DEF Chain
  <2>3. DOMAIN q = 1..Len(q)
    OBVIOUS
  <2>4. IsInjective(q)
    BY <2>1, <2>3 DEF IsInjective, Enumerates
  <2>5. \A x : x \in Range(q) <=> x \in Driven(n)
    BY <2>1, <2>3 DEF Range, Enumerates
  <2>6. Range(q) = Driven(n)
    BY <2>5
  <2>. QED  BY <2>2, <2>4, <2>6
<1>5. ASSUME NEW p \in DOMAIN port, p \notin UNION {Driven(n) : n \in Nodes}
      PROVE  port[p] = Nil
  <2>1. \A n \in NodesOf(D) : p \notin drv[n]
    BY <1>1, <1>2, <1>5
  <2>. QED  BY <1>1, <2>1 DEF Exact
<1>. QED  BY <1>4, <1>5 DEF FanoutExact

\* Every step keeps the invariant.
LEMMA NextOk == NetInv /\ [Next]_vars => NetInv'
<1>. SUFFICES ASSUME NetInv, [Next]_vars PROVE NetInv'
  OBVIOUS
<1>1. CASE BeginStatement
  BY <1>1, BeginStatementOk
<1>2. CASE Write
  BY <1>2, WriteOk
<1>3. CASE Link
  BY <1>3, LinkOk
<1>4. CASE Clear
  BY <1>4, ClearOk
<1>5. CASE ReceiveSignal
  BY <1>5, ReceiveSignalOk
<1>6. CASE ReceiveFunctor
  BY <1>6, ReceiveFunctorOk
<1>7. CASE RunEvent
  BY <1>7, RunEventOk
<1>8. CASE UNCHANGED vars
  BY <1>8 DEF NetInv, vars, chains, D
<1>. QED  BY <1>1, <1>2, <1>3, <1>4, <1>5, <1>6, <1>7, <1>8 DEF Next, Execute, Propagate

\* In every netlist, with signals bound anew as often as the processes like, the
\* chain of a node passes through the inputs declared with it and those linked
\* to it, each once, and ends; an input in no chain leads nowhere.
THEOREM FanoutStaysExact == Spec => []FanoutExact
<1>1. Init => NetInv
  BY InitOk
<1>2. NetInv /\ [Next]_vars => NetInv'
  BY NextOk
<1>3. NetInv => FanoutExact
  BY NetInvImpliesFanoutExact
<1>. QED  BY <1>1, <1>2, <1>3, PTL DEF Spec
=============================================================================
