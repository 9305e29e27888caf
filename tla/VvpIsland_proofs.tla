--------------------------- MODULE VvpIsland_proofs ---------------------------
(***************************************************************************)
(* An island at rest has sent each port what all the drivers it is         *)
(* connected with make, for every mesh of branches and any inputs.         *)
(***************************************************************************)
EXTENDS VvpIsland, FiniteSetTheorems, SequenceTheorems, WellFoundedInduction, TLAPS

\* No branch ends at the enable of a branch: the code tests an enable with the
\* value it sent last, and does not run again when that has changed.
EnablesApart ==
    \A m \in DOMAIN Meshes : \A br, other \in Range(Meshes[m].branches) :
        br.en \notin {other.a, other.b}

-----------------------------------------------------------------------------
(* The inductive invariant.                                                *)

Vector(p) == [1..Width[p] -> Bit]
Phases == {"link", "idle", "resolve", "output"}

\* v has a value for some of the ports.
Valued(v) == DOMAIN v = Ports /\ \A p \in Ports : v[p] = Nil \/ v[p] \in Vector(p)

Typed ==
    /\ mesh \in DOMAIN Meshes
    /\ linked \in 0..Len(Branch)
    /\ rings \in [link : [Ends -> Ends], first : [Ports -> Ends \cup {Nil}]]
    /\ Valued(invalue) /\ Valued(outvalue) /\ Valued(value)
    /\ flagged \in BOOLEAN /\ phase \in Phases
    /\ enabled \in [Branches -> BOOLEAN]
    /\ todo \in Seq(Ends) /\ stack \in Seq([port : Ports, rest : Seq(Ends)])

\* The ends that have been linked.
LinkedEnds == {e \in Ends : e[1] <= linked}

\* c goes once around the ends S of a port, from the one that came first.
Circle(r, p, c, S) ==
    /\ \A i, j \in 1..Len(c) : c[i] = c[j] => i = j
    /\ \A i \in 1..Len(c) : c[i] \in S
    /\ \A e \in S : \E i \in 1..Len(c) : c[i] = e
    /\ r.first[p] = IF c = <<>> THEN Nil ELSE c[1]
    /\ \A i \in 1..Len(c) : r.link[c[i]] = IF i = Len(c) THEN c[1] ELSE c[i + 1]

\* Every port has its ends of E in a circle, of n at the most.
Circles(r, E, n) == \A p \in Ports : \E c \in Seq(Ends) :
                       Len(c) <= n /\ Circle(r, p, c, {e \in E : PortOf(e) = p})

\* Is e one of s?
In(e, s) == \E i \in 1..Len(s) : s[i] = e

EndPort(p) == \E e \in Ends : PortOf(e) = p

\* Only what ends a branch has a value of the island's; outside a run none has.
Held ==
    /\ \A p \in Ports : value[p] # Nil \/ outvalue[p] # Nil => EndPort(p)
    /\ phase \in {"link", "idle"} => todo = <<>> /\ \A p \in Ports : value[p] = Nil
    /\ phase # "resolve" => stack = <<>>
    /\ phase # "link" => linked = Len(Branch)
    /\ phase = "link" => ~flagged /\ \A p \in Ports : invalue[p] = Nil

\* In the order of values, b has at least what a has.
Within(a, b) == a.strength < b.strength \/ (a.strength = b.strength /\ a.levels \subseteq b.levels)

WithinVector(v, w) == \A i \in DOMAIN w : Within(v[i], w[i])

\* The value at e has reached the other end, or some frame will bring it there.
Reached(e) ==
    /\ value[PortOf(Other(e))] # Nil
    /\ WithinVector(Across(value[PortOf(e)], Other(e)), value[PortOf(Other(e))])

Pending(e) == \E k \in 1..Len(stack) : stack[k].port = PortOf(e) /\ In(e, stack[k].rest)

Frames ==
    \A k \in 1..Len(stack) : \A i \in 1..Len(stack[k].rest) :
        PortOf(stack[k].rest[i]) = stack[k].port /\ value[stack[k].port] # Nil

\* Every port with an input comes to have a value, and every such value is passed on.
Spread ==
    /\ \A e \in Ends : invalue[PortOf(e)] # Nil =>
          \/ value[PortOf(e)] = Nil /\ In(e, todo)
          \/ value[PortOf(e)] # Nil /\ (enabled[e[1]] => Reached(e) \/ Pending(e))
    /\ \A p \in Ports : value[p] # Nil /\ invalue[p] # Nil => WithinVector(invalue[p], value[p])

\* The least set with a bit and with what its members are wired to.
Closed(S) == Touching(S) = S
Component(bit) == {n \in AllBits : \A S \in SUBSET AllBits : bit \in S /\ Closed(S) => n \in S}

\* What bounds the drivers of a component bounds the values in it.
Bounded ==
    \A p \in Ports : value[p] # Nil =>
        \A i \in 1..Width[p] : \A u \in Bit :
            (\A n \in Component(<<p, i>>) : invalue[n[1]] # Nil => Within(invalue[n[1]][n[2]], u))
                => Within(value[p][i], u)

\* All that is connected with the port has an input.
Complete(p) == \A i \in 1..Width[p] : \A n \in Component(<<p, i>>) : invalue[n[1]] # Nil

\* v is what the drivers of all that is connected with the port make.
Right(p, v) == v = [i \in 1..Width[p] |-> Driven(Component(<<p, i>>))]

Resolving ==
    phase = "resolve" =>
        /\ enabled = [b \in Branches |-> Enabled(b)]
        /\ Frames /\ Spread /\ Bounded

Sending ==
    phase = "output" =>
        /\ \A p \in Ports : value[p] # Nil => \E i \in 1..Len(todo) : PortOf(todo[i]) = p
        /\ ~flagged => \A p \in Ports : EndPort(p) /\ Complete(p) =>
              Right(p, IF value[p] # Nil THEN value[p] ELSE outvalue[p])

Resting ==
    phase = "idle" /\ ~flagged => \A p \in Ports : EndPort(p) /\ Complete(p) => Right(p, outvalue[p])

IslandInv == Typed /\ Circles(rings, LinkedEnds, 2 * linked) /\ Held /\ Resolving /\ Sending /\ Resting

-----------------------------------------------------------------------------
(* Values.                                                                 *)

LEMMA ZIsBit == Z \in Bit
  BY DEF Z, Bit

\* Values of a bit are ordered, and resolving takes the least that has both.
LEMMA WithinOrder ==
    ASSUME NEW a \in Bit, NEW b \in Bit
    PROVE  /\ Within(a, a) /\ Within(Z, a)
           /\ Within(a, b) /\ Within(b, a) => a = b
           /\ \A c \in Bit : Within(a, b) /\ Within(b, c) => Within(a, c)
<1>1. Within(a, a) /\ Within(Z, a)
  BY DEF Within, Z, Bit
<1>2. Within(a, b) /\ Within(b, a) => a = b
  BY DEF Within, Bit
<1>3. ASSUME NEW c \in Bit, Within(a, b), Within(b, c) PROVE Within(a, c)
  BY <1>3 DEF Within, Bit
<1>. QED  BY <1>1, <1>2, <1>3

LEMMA ResolvedLeast ==
    ASSUME NEW a \in Bit, NEW b \in Bit
    PROVE  /\ Resolved(a, b) \in Bit
           /\ Within(a, Resolved(a, b)) /\ Within(b, Resolved(a, b))
           /\ \A u \in Bit : Within(a, u) /\ Within(b, u) => Within(Resolved(a, b), u)
<1>1. Resolved(a, b) \in Bit
  BY DEF Resolved, Bit
<1>2. Within(a, Resolved(a, b)) /\ Within(b, Resolved(a, b))
  BY DEF Resolved, Within, Bit
<1>3. ASSUME NEW u \in Bit, Within(a, u), Within(b, u) PROVE Within(Resolved(a, b), u)
  BY <1>3 DEF Resolved, Within, Bit
<1>. QED  BY <1>1, <1>2, <1>3

\* A port has at least one bit, so a vector is not Nil.
LEMMA VectorNotNil ==
    ASSUME NEW w \in Nat \ {0}, NEW v \in [1..w -> Bit]
    PROVE  v # Nil /\ DOMAIN v = 1..w
<1>1. DOMAIN v = 1..w /\ 1 \in 1..w
  OBVIOUS
<1>2. DOMAIN Nil = {}
  BY DEF Nil
<1>. QED  BY <1>1, <1>2

-----------------------------------------------------------------------------
(* Branches.                                                               *)

\* The part of a vector.
LEMMA PartOfVector ==
    ASSUME NEW w \in Nat, NEW v \in [1..w -> Bit], NEW off \in Nat, NEW part \in Nat, off + part <= w
    PROVE  /\ SubSeq(v, off + 1, off + part) \in [1..part -> Bit]
           /\ \A i \in 1..part : SubSeq(v, off + 1, off + part)[i] = v[off + i]
<1>. DEFINE m == off + 1
            n == off + part
            sub == SubSeq(v, m, n)
<1>1. m \in Int /\ n \in Int /\ \A i \in m..n : v[i] \in Bit
  OBVIOUS
<1>2. n - m + 1 = part /\ (m <= n <=> part > 0) /\ \A i \in 1..part : m + i - 1 = off + i
  OBVIOUS
<1>. HIDE DEF m, n
<1>3. /\ sub \in Seq(Bit) /\ Len(sub) = IF m <= n THEN n - m + 1 ELSE 0
      /\ \A i \in 1..n - m + 1 : sub[i] = v[m + i - 1]
  BY <1>1, SubSeqProperties
<1>. HIDE DEF sub
<1>4. Len(sub) = part
  BY <1>2, <1>3
<1>5. sub \in [1..part -> Bit]
  BY <1>3, <1>4
<1>6. \A i \in 1..part : sub[i] = v[off + i]
  BY <1>2, <1>3
<1>. QED  BY <1>5, <1>6 DEF sub, m, n

LEMMA MeshTyped ==
    ASSUME mesh \in DOMAIN Meshes
    PROVE  /\ IsFiniteSet(Ports) /\ NoPort \notin Ports
           /\ Width \in [Ports -> Nat \ {0}] /\ Drives \subseteq Bit
           /\ Len(Branch) \in Nat /\ Branches = 1..Len(Branch)
           /\ \A b \in Branches :
                 /\ Branch[b].a \in Ports /\ Branch[b].b \in Ports
                 /\ Branch[b].en \in Ports \cup {NoPort}
                 /\ Branch[b].width \in Nat /\ Branch[b].part \in Nat /\ Branch[b].offset \in Nat
                 /\ IF Branch[b].width = 0 THEN Width[Branch[b].a] = Width[Branch[b].b]
                    ELSE /\ Branch[b].width = Width[Branch[b].a]
                         /\ Branch[b].part = Width[Branch[b].b]
                         /\ Branch[b].offset + Branch[b].part <= Branch[b].width
<1>. DEFINE R == [a : Ports, b : Ports, en : Ports \cup {NoPort}, high : BOOLEAN,
                  width : Nat, part : Nat, offset : Nat]
<1>1. /\ IsFiniteSet(Ports) /\ NoPort \notin Ports
      /\ Width \in [Ports -> Nat \ {0}] /\ Drives \subseteq Bit
      /\ Branch \in Seq(R)
      /\ \A br \in Range(Branch) :
            IF br.width = 0 THEN Width[br.a] = Width[br.b]
            ELSE br.width = Width[br.a] /\ br.part = Width[br.b] /\ br.offset + br.part <= br.width
  BY MeshesAssumption DEF Width, Ports, Branch, Drives
<1>2. Len(Branch) \in Nat /\ Branches = 1..Len(Branch)
  BY <1>1 DEF Branches
<1>3. ASSUME NEW b \in Branches PROVE Branch[b] \in R /\ Branch[b] \in Range(Branch)
  <2>1. Branch[b] \in R
    <3>. HIDE DEF R
    <3>. QED  BY <1>1, <1>2
  <2>2. Branch[b] \in Range(Branch)
    BY DEF Range, Branches
  <2>. QED  BY <2>1, <2>2
<1>4. ASSUME NEW b \in Branches
      PROVE  /\ Branch[b].a \in Ports /\ Branch[b].b \in Ports
             /\ Branch[b].en \in Ports \cup {NoPort}
             /\ Branch[b].width \in Nat /\ Branch[b].part \in Nat /\ Branch[b].offset \in Nat
  BY <1>3
<1>5. ASSUME NEW b \in Branches
      PROVE  IF Branch[b].width = 0 THEN Width[Branch[b].a] = Width[Branch[b].b]
             ELSE /\ Branch[b].width = Width[Branch[b].a]
                  /\ Branch[b].part = Width[Branch[b].b]
                  /\ Branch[b].offset + Branch[b].part <= Branch[b].width
  BY <1>1, <1>3
<1>. QED  BY <1>1, <1>2, <1>4, <1>5

LEMMA EndTyped ==
    ASSUME mesh \in DOMAIN Meshes, NEW e \in Ends
    PROVE  /\ e[1] \in Branches /\ e[2] \in {0, 1} /\ e = <<e[1], e[2]>>
           /\ PortOf(e) \in Ports /\ Other(e) \in Ends /\ Other(Other(e)) = e
           /\ Other(e)[1] = e[1]
           /\ Width[PortOf(e)] \in Nat \ {0}
<1>1. e[1] \in Branches /\ e[2] \in {0, 1} /\ e = <<e[1], e[2]>>
  BY DEF Ends
<1>2. PortOf(e) \in Ports
  BY <1>1, MeshTyped DEF PortOf
<1>3. Other(e) \in Ends /\ Other(Other(e)) = e /\ Other(e)[1] = e[1]
  BY <1>1 DEF Other, Ends
<1>. QED  BY <1>1, <1>2, <1>3, MeshTyped

\* Bit j of the port at the other end is bit i of the port at e.
Joins(e, j, i) ==
    LET br == Branch[e[1]] IN
    /\ j \in 1..Width[PortOf(Other(e))] /\ i \in 1..Width[PortOf(e)]
    /\ IF br.width = 0 THEN i = j
       ELSE IF e[2] = 1 THEN j = i + br.offset ELSE i = j + br.offset

LEMMA JoinsBothWays ==
    ASSUME mesh \in DOMAIN Meshes, NEW e \in Ends, NEW i, NEW j, Joins(e, j, i)
    PROVE  Joins(Other(e), i, j)
<1>1. e[2] \in {0, 1} /\ Other(Other(e)) = e /\ Other(e)[1] = e[1] /\ Other(e)[2] = 1 - e[2]
  BY EndTyped DEF Other
<1>. QED  BY <1>1 DEF Joins

\* What a value is on the other side.
LEMMA AcrossJoins ==
    ASSUME mesh \in DOMAIN Meshes, NEW e \in Ends, NEW v \in Vector(PortOf(Other(e)))
    PROVE  /\ Across(v, e) \in Vector(PortOf(e))
           /\ \A i \in 1..Width[PortOf(e)] :
                 \/ \E j : Joins(e, j, i) /\ Across(v, e)[i] = v[j]
                 \/ Across(v, e)[i] = Z
           /\ \A i, j : Joins(e, j, i) => Across(v, e)[i] = v[j]
<1>. DEFINE br == Branch[e[1]]
            src == PortOf(Other(e))
            dst == PortOf(e)
<1>1. /\ e[1] \in Branches /\ e[2] \in {0, 1} /\ Other(e)[1] = e[1] /\ Other(e)[2] = 1 - e[2]
      /\ src \in Ports /\ dst \in Ports
  BY EndTyped DEF Other
<1>2. Width[src] \in Nat /\ Width[dst] \in Nat /\ br.width \in Nat /\ br.part \in Nat /\ br.offset \in Nat
  BY <1>1, MeshTyped
<1>3. /\ DOMAIN v = 1..Width[src] /\ Len(v) = Width[src] /\ v \in Seq(Bit)
      /\ \A i \in 1..Width[src] : v[i] \in Bit
  BY <1>2 DEF Vector
<1>4. CASE br.width = 0
  <2>1. Width[src] = Width[dst]
    BY <1>1, <1>4, MeshTyped DEF PortOf
  <2>2. Across(v, e) = v
    BY <1>4 DEF Across
  <2>. QED  BY <1>2, <1>3, <1>4, <2>1, <2>2 DEF Joins, Vector
<1>5. CASE br.width # 0 /\ e[2] = 1
  <2>1. Width[src] = br.width /\ Width[dst] = br.part /\ br.offset + br.part <= br.width
    BY <1>1, <1>5, MeshTyped DEF PortOf
  <2>2. Across(v, e) = SubSeq(v, br.offset + 1, br.offset + br.part)
    BY <1>5 DEF Across, subvalue
  <2>4. \A i \in 1..br.part : br.offset + i \in 1..Width[src]
    BY <1>2, <2>1
  <2>3. /\ Across(v, e) \in [1..br.part -> Bit]
        /\ \A i \in 1..br.part : Across(v, e)[i] = v[br.offset + i]
    <3>1. /\ Width[src] \in Nat /\ v \in [1..Width[src] -> Bit]
          /\ br.offset \in Nat /\ br.part \in Nat /\ br.offset + br.part <= Width[src]
      BY <1>2, <2>1 DEF Vector
    <3>. DEFINE off == br.offset
                part == br.part
                w == Width[src]
    <3>. HIDE DEF off, part, w
    <3>2. w \in Nat /\ v \in [1..w -> Bit] /\ off \in Nat /\ part \in Nat /\ off + part <= w
      BY <3>1 DEF off, part, w
    <3>3. /\ SubSeq(v, off + 1, off + part) \in [1..part -> Bit]
          /\ \A i \in 1..part : SubSeq(v, off + 1, off + part)[i] = v[off + i]
      BY <3>2, PartOfVector
    <3>. QED  BY <2>2, <3>3 DEF off, part
  <2>5. Across(v, e) \in Vector(dst)
    BY <2>1, <2>3 DEF Vector
  <2>6. ASSUME NEW i \in 1..Width[dst]
        PROVE  Joins(e, br.offset + i, i) /\ Across(v, e)[i] = v[br.offset + i]
    BY <1>2, <1>5, <2>1, <2>3, <2>4 DEF Joins
  <2>7. ASSUME NEW i, NEW j, Joins(e, j, i) PROVE Across(v, e)[i] = v[j]
    BY <1>2, <1>5, <2>1, <2>3, <2>7 DEF Joins
  <2>. QED  BY <2>5, <2>6, <2>7
<1>6. CASE br.width # 0 /\ e[2] = 0
  <2>1. Width[dst] = br.width /\ Width[src] = br.part /\ br.offset + br.part <= br.width
    BY <1>1, <1>6, MeshTyped DEF PortOf
  <2>2. Across(v, e) = [i \in 1..br.width |-> IF i - br.offset \in 1..br.part THEN v[i - br.offset] ELSE Z]
    BY <1>3, <1>6, <2>1 DEF Across, part_expand
  <2>3. Across(v, e) \in Vector(dst)
    BY <1>2, <1>3, <2>1, <2>2, ZIsBit DEF Vector
  <2>4. ASSUME NEW i \in 1..Width[dst]
        PROVE  \/ \E j : Joins(e, j, i) /\ Across(v, e)[i] = v[j]
               \/ Across(v, e)[i] = Z
    <3>1. CASE i - br.offset \in 1..br.part
      <4>1. Joins(e, i - br.offset, i)
        BY <1>2, <1>6, <2>1, <3>1 DEF Joins
      <4>. QED  BY <2>1, <2>2, <3>1, <4>1
    <3>. QED  BY <2>1, <2>2, <3>1
  <2>5. ASSUME NEW i, NEW j, Joins(e, j, i) PROVE Across(v, e)[i] = v[j]
    <3>1. j \in 1..br.part /\ i = j + br.offset /\ i \in 1..br.width
      BY <1>6, <2>1, <2>5 DEF Joins
    <3>2. i - br.offset = j
      BY <1>2, <3>1
    <3>. QED  BY <2>2, <3>1, <3>2
  <2>. QED  BY <2>3, <2>4, <2>5
<1>. QED  BY <1>1, <1>4, <1>5, <1>6

-----------------------------------------------------------------------------
(* What is connected.                                                      *)

\* The bits a branch that is on joins.
LEMMA WiresJoin ==
    ASSUME mesh \in DOMAIN Meshes
    PROVE  /\ \A x, y : <<x, y>> \in Wires =>
                 \E b \in Branches : \E i, j :
                    Enabled(b) /\ x = <<Branch[b].a, j>> /\ y = <<Branch[b].b, i>> /\ Joins(<<b, 1>>, j, i)
           /\ \A b \in Branches : \A i, j :
                 Enabled(b) /\ Joins(<<b, 1>>, j, i) => <<<<Branch[b].a, j>>, <<Branch[b].b, i>>>> \in Wires
<1>. DEFINE W(b) == IF Branch[b].width = 0
                    THEN {<<<<Branch[b].a, i>>, <<Branch[b].b, i>>>> : i \in 1..Width[Branch[b].a]}
                    ELSE {<<<<Branch[b].a, Branch[b].offset + i>>, <<Branch[b].b, i>>>>
                            : i \in 1..Branch[b].part}
<1>1. ASSUME NEW x, NEW y, NEW b \in Branches
      PROVE  <<x, y>> \in W(b) <=>
                \E i, j : x = <<Branch[b].a, j>> /\ y = <<Branch[b].b, i>> /\ Joins(<<b, 1>>, j, i)
  <2>1. PortOf(<<b, 1>>) = Branch[b].b /\ PortOf(Other(<<b, 1>>)) = Branch[b].a
    BY DEF PortOf, Other
  <2>2. /\ Width[Branch[b].a] \in Nat /\ Width[Branch[b].b] \in Nat
        /\ Branch[b].offset \in Nat /\ Branch[b].part \in Nat
    BY MeshTyped
  <2>3. CASE Branch[b].width = 0
    <3>1. Width[Branch[b].a] = Width[Branch[b].b]
      BY <2>3, MeshTyped
    <3>2. \A i, j : Joins(<<b, 1>>, j, i) <=> i = j /\ j \in 1..Width[Branch[b].a]
      BY <2>1, <2>3, <3>1 DEF Joins
    <3>. QED  BY <2>3, <3>2
  <2>4. CASE Branch[b].width # 0
    <3>1. /\ Branch[b].width = Width[Branch[b].a] /\ Branch[b].part = Width[Branch[b].b]
          /\ Branch[b].offset + Branch[b].part <= Branch[b].width
      BY <2>4, MeshTyped
    <3>2. \A i, j : Joins(<<b, 1>>, j, i) <=> i \in 1..Branch[b].part /\ j = Branch[b].offset + i
      <4>1. \A i, j : Joins(<<b, 1>>, j, i) <=>
               j \in 1..Width[Branch[b].a] /\ i \in 1..Width[Branch[b].b] /\ j = i + Branch[b].offset
        BY <2>1, <2>4 DEF Joins
      <4>. QED  BY <2>2, <3>1, <4>1
    <3>. QED  BY <2>4, <3>2
  <2>. QED  BY <2>3, <2>4
<1>2. Wires = UNION {W(b) : b \in {c \in Branches : Enabled(c)}}
  BY DEF Wires
<1>. HIDE DEF W
<1>3. ASSUME NEW x, NEW y
      PROVE  <<x, y>> \in Wires <=> \E b \in Branches : Enabled(b) /\ <<x, y>> \in W(b)
  BY <1>2
<1>4. ASSUME NEW x, NEW y, <<x, y>> \in Wires
      PROVE  \E b \in Branches : \E i, j :
                Enabled(b) /\ x = <<Branch[b].a, j>> /\ y = <<Branch[b].b, i>> /\ Joins(<<b, 1>>, j, i)
  <2>1. PICK b \in Branches : Enabled(b) /\ <<x, y>> \in W(b)
    BY <1>3, <1>4
  <2>2. PICK i, j : x = <<Branch[b].a, j>> /\ y = <<Branch[b].b, i>> /\ Joins(<<b, 1>>, j, i)
    BY <1>1, <2>1
  <2>. QED  BY <2>1, <2>2
<1>5. ASSUME NEW b \in Branches, NEW i, NEW j, Enabled(b), Joins(<<b, 1>>, j, i)
      PROVE  <<<<Branch[b].a, j>>, <<Branch[b].b, i>>>> \in Wires
  <2>1. <<<<Branch[b].a, j>>, <<Branch[b].b, i>>>> \in W(b)
    BY <1>1, <1>5
  <2>. QED  BY <1>3, <1>5, <2>1
<1>. QED  BY <1>4, <1>5

\* Closed sets take in both ends of a wire or none.
LEMMA ClosedJoins ==
    ASSUME mesh \in DOMAIN Meshes, NEW S
    PROVE  Closed(S) <=>
              \A e \in Ends : \A i, j : Enabled(e[1]) /\ Joins(e, j, i) =>
                 (<<PortOf(Other(e)), j>> \in S => <<PortOf(e), i>> \in S)
<1>1. Closed(S) <=> \A x, y : <<x, y>> \in Wires => (x \in S <=> y \in S)
  <2>1. \A w \in Wires : w = <<w[1], w[2]>>
    BY DEF Wires
  <2>2. Touching(S) = S <=> \A w \in Wires : w[1] \in S <=> w[2] \in S
    BY DEF Touching
  <2>. QED  BY <2>1, <2>2 DEF Closed
<1>2. ASSUME Closed(S), NEW e \in Ends, NEW i, NEW j, Enabled(e[1]), Joins(e, j, i),
             <<PortOf(Other(e)), j>> \in S
      PROVE  <<PortOf(e), i>> \in S
  <2>1. e[1] \in Branches /\ e[2] \in {0, 1} /\ e = <<e[1], e[2]>>
    BY EndTyped
  <2>2. CASE e[2] = 1
    <3>1. PortOf(e) = Branch[e[1]].b /\ PortOf(Other(e)) = Branch[e[1]].a /\ e = <<e[1], 1>>
      BY <2>1, <2>2 DEF PortOf, Other
    <3>2. <<<<Branch[e[1]].a, j>>, <<Branch[e[1]].b, i>>>> \in Wires
      BY <1>2, <2>1, <3>1, WiresJoin
    <3>. QED  BY <1>1, <1>2, <3>1, <3>2
  <2>3. CASE e[2] = 0
    <3>1. PortOf(e) = Branch[e[1]].a /\ PortOf(Other(e)) = Branch[e[1]].b /\ Other(e) = <<e[1], 1>>
      BY <2>1, <2>3 DEF PortOf, Other
    <3>2. Joins(Other(e), i, j)
      BY <1>2, JoinsBothWays
    <3>3. <<<<Branch[e[1]].a, i>>, <<Branch[e[1]].b, j>>>> \in Wires
      BY <1>2, <2>1, <3>1, <3>2, WiresJoin
    <3>. QED  BY <1>1, <1>2, <3>1, <3>3
  <2>. QED  BY <2>1, <2>2, <2>3
<1>3. ASSUME \A e \in Ends : \A i, j : Enabled(e[1]) /\ Joins(e, j, i) =>
                (<<PortOf(Other(e)), j>> \in S => <<PortOf(e), i>> \in S)
      PROVE  Closed(S)
  <2>1. SUFFICES ASSUME NEW x, NEW y, <<x, y>> \in Wires PROVE x \in S <=> y \in S
    BY <1>1
  <2>5. PICK b \in Branches : \E i, j :
           Enabled(b) /\ x = <<Branch[b].a, j>> /\ y = <<Branch[b].b, i>> /\ Joins(<<b, 1>>, j, i)
    BY <2>1, WiresJoin
  <2>2. PICK i, j : Enabled(b) /\ x = <<Branch[b].a, j>> /\ y = <<Branch[b].b, i>> /\ Joins(<<b, 1>>, j, i)
    BY <2>5
  <2>3. /\ <<b, 1>> \in Ends /\ <<b, 0>> \in Ends /\ <<b, 1>>[1] = b /\ <<b, 0>>[1] = b
        /\ Other(<<b, 1>>) = <<b, 0>> /\ Other(<<b, 0>>) = <<b, 1>>
        /\ PortOf(<<b, 1>>) = Branch[b].b /\ PortOf(<<b, 0>>) = Branch[b].a
    BY DEF Ends, Other, PortOf
  <2>4. Joins(<<b, 0>>, i, j)
    BY <2>2, <2>3, JoinsBothWays
  <2>. QED  BY <1>3, <2>2, <2>3, <2>4
<1>. QED  BY <1>2, <1>3

\* The component of a bit is closed, and in every closed set that has the bit.
LEMMA ComponentLeast ==
    ASSUME mesh \in DOMAIN Meshes, NEW bit \in AllBits
    PROVE  /\ Component(bit) \subseteq AllBits /\ bit \in Component(bit) /\ Closed(Component(bit))
           /\ \A S \in SUBSET AllBits : bit \in S /\ Closed(S) => Component(bit) \subseteq S
<1>1. Component(bit) \subseteq AllBits /\ bit \in Component(bit)
  BY DEF Component
<1>2. \A S \in SUBSET AllBits : bit \in S /\ Closed(S) => Component(bit) \subseteq S
  BY DEF Component
<1>3. \A e \in Ends : \A i, j : Joins(e, j, i) => <<PortOf(e), i>> \in AllBits
  BY EndTyped DEF Joins, AllBits
<1>4. ASSUME NEW e \in Ends, NEW i, NEW j, Enabled(e[1]), Joins(e, j, i),
             <<PortOf(Other(e)), j>> \in Component(bit)
      PROVE  <<PortOf(e), i>> \in Component(bit)
  <2>1. ASSUME NEW S \in SUBSET AllBits, bit \in S, Closed(S) PROVE <<PortOf(e), i>> \in S
    <3>1. <<PortOf(Other(e)), j>> \in S
      BY <1>2, <1>4, <2>1
    <3>. QED  BY <1>4, <2>1, <3>1, ClosedJoins
  <2>. QED  BY <1>3, <1>4, <2>1 DEF Component
<1>5. Closed(Component(bit))
  BY <1>4, ClosedJoins
<1>. QED  BY <1>1, <1>2, <1>5

\* Joined bits are in one component.
LEMMA JoinedTogether ==
    ASSUME mesh \in DOMAIN Meshes, NEW e \in Ends, NEW i, NEW j, Enabled(e[1]), Joins(e, j, i)
    PROVE  /\ <<PortOf(e), i>> \in AllBits
           /\ Component(<<PortOf(Other(e)), j>>) = Component(<<PortOf(e), i>>)
<1>. DEFINE x == <<PortOf(Other(e)), j>>
            y == <<PortOf(e), i>>
<1>1. Other(e) \in Ends /\ Other(Other(e)) = e /\ Other(e)[1] = e[1] /\ Joins(Other(e), i, j)
  BY EndTyped, JoinsBothWays
<1>2. x \in AllBits /\ y \in AllBits
  BY EndTyped DEF Joins, AllBits
<1>3. \A S : Closed(S) => (x \in S <=> y \in S)
  BY <1>1, ClosedJoins
<1>. HIDE DEF x, y
<1>4. Component(x) = Component(y)
  BY <1>3 DEF Component
<1>. QED  BY <1>2, <1>4 DEF x, y

\* What a function makes of a finite set is finite.
LEMMA FiniteImage ==
    ASSUME NEW S, IsFiniteSet(S), NEW f, DOMAIN f = S
    PROVE  IsFiniteSet({f[x] : x \in S})
<1>. DEFINE T == {f[x] : x \in S}
            g == [x \in S |-> f[x]]
<1>1. g \in Surjection(S, T)
  BY DEF Surjection
<1>. HIDE DEF T, g
<1>2. IsFiniteSet(T)
  BY <1>1, FS_Surjection
<1>. QED  BY <1>2 DEF T

LEMMA BitsFinite ==
    ASSUME mesh \in DOMAIN Meshes
    PROVE  IsFiniteSet(AllBits)
<1>. DEFINE of == [p \in Ports |-> {<<p, i>> : i \in 1..Width[p]}]
<1>1. ASSUME NEW p \in Ports PROVE IsFiniteSet(of[p])
  <2>. DEFINE bit == [i \in 1..Width[p] |-> <<p, i>>]
  <2>1. IsFiniteSet(1..Width[p])
    BY MeshTyped, FS_Interval
  <2>2. of[p] = {bit[i] : i \in 1..Width[p]} /\ DOMAIN bit = 1..Width[p]
    OBVIOUS
  <2>. HIDE DEF bit, of
  <2>3. IsFiniteSet({bit[i] : i \in 1..Width[p]})
    <3>. DEFINE I == 1..Width[p]
    <3>1. IsFiniteSet(I) /\ DOMAIN bit = I
      BY <2>1, <2>2
    <3>. HIDE DEF I
    <3>2. IsFiniteSet({bit[i] : i \in I})
      BY <3>1, FiniteImage
    <3>. QED  BY <3>2 DEF I
  <2>. QED  BY <2>2, <2>3
<1>2. AllBits = UNION {of[p] : p \in Ports} /\ DOMAIN of = Ports
  BY DEF AllBits
<1>. HIDE DEF of
<1>. DEFINE Sets == {of[p] : p \in Ports}
<1>3. \A s \in Sets : IsFiniteSet(s)
  BY <1>1
<1>4. IsFiniteSet(Sets)
  BY <1>2, MeshTyped, FiniteImage
<1>. HIDE DEF Sets
<1>5. IsFiniteSet(UNION Sets)
  BY <1>3, <1>4, FS_UNION
<1>. QED  BY <1>2, <1>5 DEF Sets

\* A set of numbers has a least one.
LEMMA LeastNumber ==
    ASSUME NEW T \in SUBSET Nat, T # {}
    PROVE  \E x \in T : \A y \in T : x <= y
<1>1. PICK x \in T : \A y \in T : ~(<<y, x>> \in OpToRel(<, Nat))
  BY NatLessThanWellFounded, WFMin
<1>2. \A y \in T : ~(y < x)
  BY <1>1 DEF OpToRel
<1>. QED  BY <1>2

\* A set with 0 and with the successor of each of its numbers has them all.
LEMMA SetInduction ==
    ASSUME NEW S \in SUBSET Nat, 0 \in S, \A n \in S : n + 1 \in S
    PROVE  S = Nat
<1>. SUFFICES ASSUME S # Nat PROVE FALSE
  OBVIOUS
<1>1. PICK x \in Nat \ S : \A y \in Nat \ S : x <= y
  BY LeastNumber
<1>2. x # 0 /\ x - 1 \in Nat
  BY <1>1
<1>3. x - 1 \in S
  BY <1>1, <1>2
<1>. QED  BY <1>1, <1>3

\* The least closed set around some bits.
Least(bits) == {n \in AllBits : \A S \in SUBSET AllBits : bits \subseteq S /\ Closed(S) => n \in S}

LEMMA LeastOfTouching ==
    ASSUME mesh \in DOMAIN Meshes, NEW bits \in SUBSET AllBits
    PROVE  /\ bits \subseteq Touching(bits) /\ Touching(bits) \in SUBSET AllBits
           /\ Touching(bits) = bits => Least(bits) = bits
           /\ Least(Touching(bits)) = Least(bits)
<1>1. bits \subseteq Touching(bits)
  BY DEF Touching
<1>2. ASSUME NEW w \in Wires PROVE w[1] \in AllBits /\ w[2] \in AllBits /\ w = <<w[1], w[2]>>
  <2>1. w = <<w[1], w[2]>>
    BY DEF Wires
  <2>2. PICK b \in Branches : \E i, j :
           /\ Enabled(b) /\ w[1] = <<Branch[b].a, j>> /\ w[2] = <<Branch[b].b, i>>
           /\ Joins(<<b, 1>>, j, i)
    <3>1. <<w[1], w[2]>> \in Wires
      BY <2>1
    <3>. QED  BY <3>1, WiresJoin
  <2>3. PortOf(<<b, 1>>) = Branch[b].b /\ PortOf(Other(<<b, 1>>)) = Branch[b].a
    BY DEF PortOf, Other
  <2>4. Branch[b].a \in Ports /\ Branch[b].b \in Ports
    BY MeshTyped
  <2>. QED  BY <2>1, <2>2, <2>3, <2>4 DEF Joins, AllBits
<1>3. Touching(bits) \in SUBSET AllBits
  BY <1>2 DEF Touching
<1>4. Touching(bits) = bits => Least(bits) = bits
  BY DEF Least, Closed
<1>5. ASSUME NEW S \in SUBSET AllBits, Closed(S) PROVE bits \subseteq S <=> Touching(bits) \subseteq S
  <2>1. bits \subseteq S => Touching(bits) \subseteq Touching(S)
    BY DEF Touching
  <2>. QED  BY <1>1, <1>5, <2>1 DEF Closed
<1>6. Least(Touching(bits)) = Least(bits)
  BY <1>5 DEF Least
<1>. QED  BY <1>1, <1>3, <1>4, <1>6

\* What a spread of bits comes to in the end: the recursion of Connected ends
\* because every step takes in another of finitely many bits.
LEMMA SpreadIsLeast ==
    ASSUME mesh \in DOMAIN Meshes, NEW f,
           f = [bits \in SUBSET AllBits |-> IF Touching(bits) = bits THEN bits ELSE f[Touching(bits)]]
    PROVE  \A bits \in SUBSET AllBits : f[bits] = Least(bits)
<1>. DEFINE Size(bits) == Cardinality(AllBits \ bits)
            Wrong == {n \in Nat : \E bits \in SUBSET AllBits : Size(bits) = n /\ f[bits] # Least(bits)}
<1>1. \A bits \in SUBSET AllBits : f[bits] = IF Touching(bits) = bits THEN bits ELSE f[Touching(bits)]
  OBVIOUS
<1>2. ASSUME NEW bits \in SUBSET AllBits PROVE Size(bits) \in Nat /\ IsFiniteSet(AllBits \ bits)
  BY BitsFinite, FS_Difference, FS_CardinalityType
<1>3. SUFFICES ASSUME Wrong # {} PROVE FALSE
  BY <1>2
<1>4. PICK n \in Wrong : \A m \in Wrong : n <= m
  BY <1>3, LeastNumber
<1>5. PICK bits \in SUBSET AllBits : Size(bits) = n /\ f[bits] # Least(bits)
  BY <1>4
<1>6. Touching(bits) # bits /\ bits \subseteq Touching(bits) /\ Touching(bits) \in SUBSET AllBits
  BY <1>1, <1>5, LeastOfTouching
<1>7. f[Touching(bits)] # Least(Touching(bits))
  BY <1>1, <1>5, <1>6, LeastOfTouching
<1>8. Size(Touching(bits)) < Size(bits)
  <2>. DEFINE A == AllBits \ bits
              B == AllBits \ Touching(bits)
  <2>1. B \subseteq A /\ B # A
    BY <1>6
  <2>2. IsFiniteSet(A)
    BY <1>2
  <2>. HIDE DEF A, B
  <2>3. Cardinality(B) < Cardinality(A)
    <3>1. /\ Cardinality(B) <= Cardinality(A) /\ Cardinality(B) # Cardinality(A)
          /\ IsFiniteSet(B)
      BY <2>1, <2>2, FS_Subset
    <3>2. Cardinality(A) \in Nat /\ Cardinality(B) \in Nat
      BY <2>2, <3>1, FS_CardinalityType
    <3>. QED  BY <3>1, <3>2
  <2>. QED  BY <2>3 DEF A, B
<1>9. Size(Touching(bits)) \in Wrong
  BY <1>2, <1>6, <1>7
<1>. HIDE DEF Wrong, Size
<1>10. n \in Nat /\ Size(Touching(bits)) \in Nat
  BY <1>4, <1>9 DEF Wrong
<1>. QED  BY <1>4, <1>5, <1>8, <1>9, <1>10

LEMMA ConnectedComponents ==
    ASSUME mesh \in DOMAIN Meshes
    PROVE  Connected = [bit \in AllBits |-> Component(bit)]
<1>. DEFINE Is_grown(f) == f = [bits \in SUBSET AllBits |->
                                  IF Touching(bits) = bits THEN bits ELSE f[Touching(bits)]]
            least == [bits \in SUBSET AllBits |-> Least(bits)]
            grown == CHOOSE f : Is_grown(f)
<1>1. Is_grown(least)
  BY LeastOfTouching
<1>2. Is_grown(grown)
  BY <1>1
<1>3. \A bits \in SUBSET AllBits : grown[bits] = Least(bits)
  <2>. HIDE DEF grown
  <2>. QED  BY <1>2, SpreadIsLeast
<1>4. Connected = [bit \in AllBits |-> grown[{bit}]]
  BY DEF Connected
<1>5. \A bit \in AllBits : Least({bit}) = Component(bit)
  BY DEF Least, Component
<1>. HIDE DEF grown
<1>. QED  BY <1>3, <1>4, <1>5

\* A finite set of numbers has a greatest one.
LEMMA GreatestNumber ==
    ASSUME NEW T \in SUBSET Nat, IsFiniteSet(T), T # {}
    PROVE  \E x \in T : \A y \in T : x >= y
<1>. DEFINE Sized(n) == \A S \in SUBSET Nat : IsFiniteSet(S) /\ Cardinality(S) = n /\ S # {} =>
                            \E x \in S : \A y \in S : x >= y
            Q == {n \in Nat : Sized(n)}
<1>1. 0 \in Q
  BY FS_EmptySet
<1>2. ASSUME NEW n \in Q PROVE n + 1 \in Q
  <2>1. SUFFICES ASSUME NEW S \in SUBSET Nat, IsFiniteSet(S), Cardinality(S) = n + 1, S # {}
                 PROVE  \E x \in S : \A y \in S : x >= y
    BY <1>2
  <2>2. PICK a \in S : TRUE
    BY <2>1
  <2>. DEFINE R == S \ {a}
  <2>3. IsFiniteSet(R) /\ Cardinality(R) = n /\ R \in SUBSET Nat
    <3>1. IsFiniteSet(R) /\ Cardinality(R) = Cardinality(S) - 1
      BY <2>1, <2>2, FS_RemoveElement
    <3>2. n \in Nat
      BY <1>2
    <3>. QED  BY <2>1, <3>1, <3>2
  <2>4. CASE R = {}
    BY <2>2, <2>4
  <2>5. CASE R # {}
    <3>1. PICK x \in R : \A y \in R : x >= y
      BY <1>2, <2>3, <2>5
    <3>. QED  BY <2>2, <3>1
  <2>. QED  BY <2>4, <2>5
<1>. HIDE DEF Q
<1>3. Q = Nat
  <2>1. Q \in SUBSET Nat
    BY DEF Q
  <2>. QED  BY <1>1, <1>2, <2>1, SetInduction
<1>4. Cardinality(T) \in Nat
  BY FS_CardinalityType
<1>. QED  BY <1>3, <1>4 DEF Q

\* All that has an input in a set of bits.
HaveInputs(bits) == \A n \in bits : invalue[n[1]] # Nil

\* The drivers of some bits make the least value that has what each of them has.
LEMMA DrivenLeast ==
    ASSUME Typed, NEW bits \in SUBSET AllBits, bits # {}, HaveInputs(bits)
    PROVE  /\ Driven(bits) \in Bit
           /\ \A n \in bits : Within(invalue[n[1]][n[2]], Driven(bits))
           /\ \A u \in Bit : (\A n \in bits : Within(invalue[n[1]][n[2]], u)) => Within(Driven(bits), u)
<1>. DEFINE drives == {invalue[n[1]][n[2]] : n \in bits}
            Strongest(d) == d \in drives /\ \A c \in drives : d.strength >= c.strength
            strongest == CHOOSE d \in drives : \A c \in drives : d.strength >= c.strength
            levels == UNION {d.levels : d \in {c \in drives : c.strength = strongest.strength}}
<1>1. mesh \in DOMAIN Meshes
  BY DEF Typed
<1>2. \A n \in bits : n[1] \in Ports /\ n[2] \in 1..Width[n[1]]
  BY DEF AllBits
<1>3. \A n \in bits : invalue[n[1]] \in Vector(n[1])
  BY <1>2 DEF Typed, Valued, HaveInputs
<1>4. drives \in SUBSET Bit /\ drives # {}
  BY <1>2, <1>3 DEF Vector
<1>5. IsFiniteSet(drives)
  <2>. DEFINE f == [n \in bits |-> invalue[n[1]][n[2]]]
  <2>1. IsFiniteSet(bits)
    BY <1>1, BitsFinite, FS_Subset
  <2>2. drives = {f[n] : n \in bits} /\ DOMAIN f = bits
    OBVIOUS
  <2>. HIDE DEF f, drives
  <2>3. IsFiniteSet({f[n] : n \in bits})
    BY <2>1, <2>2, FiniteImage
  <2>. QED  BY <2>2, <2>3
<1>. HIDE DEF drives
<1>6. \E d : Strongest(d)
  <2>. DEFINE f == [d \in drives |-> d.strength]
              T == {f[d] : d \in drives}
  <2>1. T \in SUBSET Nat /\ T # {}
    BY <1>4 DEF Bit
  <2>2. IsFiniteSet(T)
    <3>1. DOMAIN f = drives
      OBVIOUS
    <3>. HIDE DEF f
    <3>. QED  BY <1>5, <3>1, FiniteImage
  <2>. HIDE DEF T
  <2>3. PICK x \in T : \A y \in T : x >= y
    BY <2>1, <2>2, GreatestNumber
  <2>4. \A d \in drives : d.strength \in T
    BY DEF T
  <2>5. PICK d \in drives : x = d.strength
    BY <2>3 DEF T
  <2>. QED  BY <2>3, <2>4, <2>5
<1>7. Strongest(strongest)
  BY <1>6
<1>. HIDE DEF strongest
<1>8. Driven(bits) = [strongest EXCEPT !.levels = levels]
  BY DEF Driven, strongest, drives
<1>9. strongest \in Bit /\ levels \in SUBSET {0, 1}
  BY <1>4, <1>7 DEF Bit
<1>. DEFINE d0 == [strength |-> strongest.strength, levels |-> levels]
<1>. HIDE DEF levels
<1>10. Driven(bits) = d0 /\ d0 \in Bit
  BY <1>8, <1>9 DEF Bit
<1>11. ASSUME NEW c \in drives PROVE Within(c, d0)
  <2>1. c.strength \in Nat /\ strongest.strength \in Nat /\ c.strength <= strongest.strength
    BY <1>4, <1>7, <1>9 DEF Bit
  <2>2. c.strength = strongest.strength => c.levels \subseteq levels
    BY DEF levels
  <2>. QED  BY <2>1, <2>2 DEF Within
<1>12. ASSUME NEW u \in Bit, \A c \in drives : Within(c, u) PROVE Within(d0, u)
  <2>1. Within(strongest, u) /\ strongest.strength \in Nat /\ u.strength \in Nat
    BY <1>7, <1>9, <1>12 DEF Bit
  <2>2. CASE strongest.strength = u.strength
    <3>1. \A c \in drives : c.strength = strongest.strength => c.levels \subseteq u.levels
      BY <1>12, <2>1, <2>2 DEF Within
    <3>2. levels \subseteq u.levels
      BY <3>1 DEF levels
    <3>. QED  BY <2>2, <3>2 DEF Within
  <2>. QED  BY <2>1, <2>2 DEF Within
<1>13. \A n \in bits : invalue[n[1]][n[2]] \in drives
  BY DEF drives
<1>14. \A c \in drives : \E n \in bits : c = invalue[n[1]][n[2]]
  BY DEF drives
<1>. HIDE DEF d0
<1>15. ASSUME NEW u \in Bit, \A n \in bits : Within(invalue[n[1]][n[2]], u) PROVE Within(d0, u)
  BY <1>12, <1>14, <1>15
<1>. QED  BY <1>10, <1>11, <1>13, <1>15

-----------------------------------------------------------------------------
(* The circles.                                                            *)

Rings == [link : [Ends -> Ends], first : [Ports -> Ends \cup {Nil}]]

LEMMA EndNotNil ==
    ASSUME NEW e \in Ends
    PROVE  e # Nil
<1>1. e = <<e[1], e[2]>>
  BY DEF Ends
<1>2. Len(<<e[1], e[2]>>) = 2 /\ Len(Nil) = 0
  BY DEF Nil
<1>. QED  BY <1>1, <1>2

\* An end is put into the circle of its port behind the first, and in no other.
LEMMA LinkedKeepsCircles ==
    ASSUME mesh \in DOMAIN Meshes, NEW r \in Rings, NEW E \in SUBSET Ends, NEW n \in Nat,
           Circles(r, E, n), NEW e \in Ends \ E
    PROVE  Linked(r, e) \in Rings /\ Circles(Linked(r, e), E \cup {e}, n + 1)
<1>. DEFINE q == PortOf(e)
            f == r.first[q]
            s == Linked(r, e)
<1>1. q \in Ports /\ f \in Ends \cup {Nil} /\ r.link \in [Ends -> Ends] /\ r.first \in [Ports -> Ends \cup {Nil}]
  BY EndTyped DEF Rings
<1>2. PICK d \in Seq(Ends) : Len(d) <= n /\ Circle(r, q, d, {x \in E : PortOf(x) = q})
  BY <1>1 DEF Circles
<1>3. /\ Len(d) \in Nat /\ \A i \in 1..Len(d) : d[i] \in Ends
      /\ d = <<>> <=> Len(d) = 0
      /\ \A i \in 1..Len(d) : d[i] \in E /\ PortOf(d[i]) = q /\ d[i] # e
      /\ f = IF d = <<>> THEN Nil ELSE d[1]
  BY <1>2 DEF Circle
<1>4. /\ \A i, j \in 1..Len(d) : d[i] = d[j] => i = j
      /\ \A x \in E : PortOf(x) = q => \E i \in 1..Len(d) : d[i] = x
  BY <1>2 DEF Circle
<1>12. \A i \in 1..Len(d) : r.link[d[i]] = IF i = Len(d) THEN d[1] ELSE d[i + 1]
  BY <1>2 DEF Circle
<1>5. f = Nil <=> d = <<>>
  <2>1. d # <<>> => d[1] \in Ends
    BY <1>3
  <2>. QED  BY <1>3, <2>1, EndNotNil
<1>6. /\ f = Nil => s.link = [r.link EXCEPT ![e] = e] /\ s.first = [r.first EXCEPT ![q] = e]
      /\ f # Nil => /\ s.link = [[r.link EXCEPT ![e] = r.link[f]] EXCEPT ![f] = e]
                    /\ s.first = r.first
      /\ s = [link |-> s.link, first |-> s.first]
  BY DEF Linked, Rings
<1>7. s \in Rings
  <2>1. s.link \in [Ends -> Ends] /\ s.first \in [Ports -> Ends \cup {Nil}]
    BY <1>1, <1>6
  <2>. QED  BY <1>6, <2>1 DEF Rings
<1>8. \A x \in Ends : x # e /\ x # f => s.link[x] = r.link[x]
  BY <1>1, <1>6
<1>. HIDE DEF s
<1>9. ASSUME NEW p \in Ports, p # q
      PROVE  \E c \in Seq(Ends) : Len(c) <= n + 1 /\ Circle(s, p, c, {x \in E \cup {e} : PortOf(x) = p})
  <2>1. PICK c \in Seq(Ends) : Len(c) <= n /\ Circle(r, p, c, {x \in E : PortOf(x) = p})
    BY DEF Circles
  <2>2. {x \in E \cup {e} : PortOf(x) = p} = {x \in E : PortOf(x) = p}
    BY <1>9
  <2>3. s.first[p] = r.first[p]
    BY <1>1, <1>6, <1>9
  <2>4. \A i \in 1..Len(c) : s.link[c[i]] = r.link[c[i]]
    <3>1. \A i \in 1..Len(c) : c[i] \in Ends /\ PortOf(c[i]) = p
      BY <2>1 DEF Circle
    <3>2. f # Nil => PortOf(f) = q
      BY <1>3, <1>4, <1>5
    <3>. QED  BY <1>8, <1>9, <3>1, <3>2, EndNotNil
  <2>5. Circle(s, p, c, {x \in E : PortOf(x) = p})
    BY <2>1, <2>3, <2>4 DEF Circle
  <2>6. Len(c) <= n + 1
    BY <2>1
  <2>. QED  BY <2>2, <2>5, <2>6
<1>10. \E c \in Seq(Ends) : Len(c) <= n + 1 /\ Circle(s, q, c, {x \in E \cup {e} : PortOf(x) = q})
  <2>. DEFINE at(i) == IF d = <<>> \/ i = 2 THEN e ELSE IF i = 1 THEN d[1] ELSE d[i - 1]
              c == [i \in 1..Len(d) + 1 |-> at(i)]
              S == {x \in E \cup {e} : PortOf(x) = q}
  <2>1. \A i \in 1..Len(d) + 1 : at(i) \in S /\ at(i) \in Ends
    BY <1>3, <1>4
  <2>2. c \in Seq(Ends) /\ Len(c) = Len(d) + 1 /\ \A i \in 1..Len(c) : c[i] = at(i)
    BY <1>3, <2>1
  <2>. HIDE DEF c, S
  <2>3. ASSUME NEW i \in 1..Len(c), NEW j \in 1..Len(c), c[i] = c[j] PROVE i = j
    <3>1. d = <<>> => i = j
      BY <1>3, <2>2, <2>3
    <3>2. ASSUME d # <<>>, NEW k \in 1..Len(c), k # 2 
          PROVE  \E m \in 1..Len(d) : c[k] = d[m] /\ m = (IF k = 1 THEN 1 ELSE k - 1)
      BY <1>3, <2>2, <3>2
    <3>3. ASSUME d # <<>>, i # 2, j # 2 PROVE i = j
      <4>1. PICK m \in 1..Len(d) : c[i] = d[m] /\ m = IF i = 1 THEN 1 ELSE i - 1
        BY <3>2, <3>3
      <4>2. PICK l \in 1..Len(d) : c[j] = d[l] /\ l = IF j = 1 THEN 1 ELSE j - 1
        BY <3>2, <3>3
      <4>3. m = l
        <5>1. d[m] = d[l]
          BY <2>3, <4>1, <4>2
        <5>. QED  BY <1>4, <5>1
      <4>4. i \in Nat /\ j \in Nat /\ i >= 1 /\ j >= 1
        BY <1>3, <2>2
      <4>. QED  BY <3>3, <4>1, <4>2, <4>3, <4>4
    <3>4. d # <<>> /\ 2 \in 1..Len(c) => c[2] = e
      BY <2>2
    <3>. QED  BY <1>3, <2>3, <3>1, <3>2, <3>3, <3>4
  <2>4. ASSUME NEW x \in S PROVE \E i \in 1..Len(c) : c[i] = x
    <3>1. CASE x = e
      <4>1. CASE d = <<>>
        BY <1>3, <2>2, <3>1, <4>1
      <4>2. CASE d # <<>>
        <5>1. 2 \in 1..Len(c)
          BY <1>3, <1>4, <2>2, <4>2
        <5>. QED  BY <2>2, <3>1, <5>1
      <4>. QED  BY <4>1, <4>2
    <3>2. CASE x # e
      <4>1. PICK i \in 1..Len(d) : d[i] = x
        BY <1>4, <2>4, <3>2 DEF S
      <4>2. d # <<>>
        BY <1>3, <1>4, <4>1
      <4>3. CASE i = 1
        <5>1. 1 \in 1..Len(c) /\ at(1) = x
          BY <1>3, <2>2, <4>1, <4>2, <4>3
        <5>. QED  BY <2>2, <5>1
      <4>4. CASE i # 1
        <5>1. i + 1 \in 1..Len(c) /\ at(i + 1) = x
          BY <1>3, <2>2, <4>1, <4>2, <4>4
        <5>. QED  BY <2>2, <5>1
      <4>. QED  BY <4>3, <4>4
    <3>. QED  BY <3>1, <3>2
  <2>5. c # <<>> /\ s.first[q] = c[1]
    <3>1. 1 \in 1..Len(c) /\ c # <<>> /\ c[1] = at(1)
      BY <1>3, <2>2
    <3>2. CASE d = <<>>
      BY <1>1, <1>5, <1>6, <3>1, <3>2
    <3>3. CASE d # <<>>
      BY <1>3, <1>5, <1>6, <3>1, <3>3
    <3>. QED  BY <3>1, <3>2, <3>3
  <2>6. ASSUME NEW i \in 1..Len(c)
        PROVE  s.link[c[i]] = IF i = Len(c) THEN c[1] ELSE c[i + 1]
    <3>1. CASE d = <<>>
      BY <1>1, <1>3, <1>4, <1>5, <1>6, <2>2, <3>1
    <3>2. CASE d # <<>>
      <4>1. f = d[1] /\ f # Nil /\ f \in Ends /\ f # e /\ Len(d) >= 1
        BY <1>3, <1>4, <1>5, <3>2
      <4>2. s.link[f] = e /\ s.link[e] = r.link[f]
        BY <1>1, <1>6, <4>1
      <4>3. CASE i = 1
        <5>1. 2 \in 1..Len(c) /\ 1 # Len(c) /\ at(1) = f /\ at(2) = e
          BY <1>3, <2>2, <3>2, <4>1
        <5>. QED  BY <2>2, <4>2, <4>3, <5>1
      <4>4. CASE i = 2
        <5>1. c[2] = e
          BY <2>2, <4>4
        <5>3. r.link[d[1]] = IF Len(d) = 1 THEN d[1] ELSE d[2]
          <6>1. 1 \in 1..Len(d)
            BY <1>3, <4>1
          <6>2. r.link[d[1]] = IF 1 = Len(d) THEN d[1] ELSE d[1 + 1]
            BY <1>12, <6>1
          <6>. QED  BY <6>2
        <5>2. c[1] = d[1]
          BY <1>3, <2>2, <3>2
        <5>4. Len(d) # 1 => 3 \in 1..Len(c) /\ c[3] = d[2]
          <6>1. Len(d) # 1 => 3 \in 1..Len(c)
            <7>1. Len(c) = Len(d) + 1 /\ Len(d) \in Nat /\ Len(d) >= 1
              BY <1>3, <2>2, <4>1
            <7>2. \A k \in Nat : k >= 1 /\ k # 1 => 3 \in 1..(k + 1)
              OBVIOUS
            <7>. QED  BY <7>1, <7>2
          <6>2. at(3) = d[2]
            BY <3>2
          <6>. QED  BY <2>2, <6>1, <6>2
        <5>5. s.link[c[i]] = r.link[d[1]]
          BY <4>1, <4>2, <4>4, <5>1
        <5>. QED  BY <1>3, <2>2, <4>4, <5>2, <5>3, <5>4, <5>5
      <4>5. CASE i > 2
        <5>1. c[i] = d[i - 1] /\ i - 1 \in 1..Len(d) /\ c[1] = d[1] /\ (i # Len(c) => c[i + 1] = d[i])
          BY <1>3, <2>2, <3>2, <4>1, <4>5
        <5>2. d[i - 1] # e /\ d[i - 1] # f /\ d[i - 1] \in Ends
          BY <1>3, <1>4, <3>2, <4>1, <4>5, <5>1
        <5>3. s.link[c[i]] = r.link[d[i - 1]]
          BY <1>8, <5>1, <5>2
        <5>4. r.link[d[i - 1]] = IF i - 1 = Len(d) THEN d[1] ELSE d[i]
          <6>1. i - 1 \in 1..Len(d) /\ i - 1 + 1 = i
            BY <1>3, <2>2, <4>5, <5>1
          <6>. QED  BY <1>12, <6>1
        <5>. QED  BY <1>3, <2>2, <5>1, <5>3, <5>4
      <4>. QED  BY <2>2, <1>3, <4>3, <4>4, <4>5
    <3>. QED  BY <3>1, <3>2
  <2>7. \A i \in 1..Len(c) : c[i] \in S
    BY <2>1, <2>2 DEF S
  <2>8. Circle(s, q, c, S)
    BY <2>3, <2>4, <2>5, <2>6, <2>7 DEF Circle
  <2>9. Len(c) <= n + 1
    BY <1>2, <1>3, <2>2
  <2>. QED  BY <2>2, <2>8, <2>9 DEF S
<1>11. Circles(s, E \cup {e}, n + 1)
  BY <1>9, <1>10 DEF Circles
<1>. QED  BY <1>7, <1>11 DEF s

\* The turn around a circle is defined: a function that follows the links exists.
LEMMA TurnDefined ==
    ASSUME NEW g, NEW e, NEW m \in Nat
    PROVE  \E f : f = [k \in 0..m |-> IF k = 0 THEN e ELSE g[f[k - 1]]]
<1>. DEFINE Turns(f, n) == f = [k \in 0..n |-> IF k = 0 THEN e ELSE g[f[k - 1]]]
            Q == {n \in Nat : \E f : Turns(f, n)}
<1>1. 0 \in Q
  <2>1. Turns([k \in 0..0 |-> e], 0)
    OBVIOUS
  <2>. QED  BY <2>1
<1>2. ASSUME NEW n \in Q PROVE n + 1 \in Q
  <2>1. PICK f : Turns(f, n)
    BY <1>2
  <2>. DEFINE h == [k \in 0..(n + 1) |-> IF k <= n THEN f[k] ELSE g[f[n]]]
  <2>2. ASSUME NEW k \in 0..(n + 1)
        PROVE  h[k] = IF k = 0 THEN e ELSE g[h[k - 1]]
    <3>1. n \in Nat /\ \A i \in 0..n : f[i] = IF i = 0 THEN e ELSE g[f[i - 1]]
      BY <2>1
    <3>2. CASE k <= n
      <4>1. k \in 0..n /\ h[k] = f[k] /\ (k # 0 => h[k - 1] = f[k - 1])
        BY <3>1, <3>2
      <4>. HIDE DEF h
      <4>. QED  BY <3>1, <4>1
    <3>3. CASE k = n + 1
      <4>1. h[k] = g[f[n]] /\ h[k - 1] = f[n] /\ k # 0
        BY <3>1, <3>3
      <4>. HIDE DEF h
      <4>. QED  BY <4>1
    <3>. QED  BY <3>1, <3>2, <3>3
  <2>3. Turns(h, n + 1)
    <3>1. h = [k \in 0..(n + 1) |-> h[k]]
      OBVIOUS
    <3>. HIDE DEF h
    <3>. QED  BY <2>2, <3>1
  <2>. HIDE DEF h, Turns
  <2>. QED  BY <2>3
<1>3. Q = Nat
  <2>. HIDE DEF Q
  <2>1. Q \in SUBSET Nat
    BY DEF Q
  <2>. QED  BY <1>1, <1>2, <2>1, SetInduction
<1>. QED  BY <1>3

\* From any end of it, the circle lists all the ends at the port.
LEMMA NodeLists ==
    ASSUME mesh \in DOMAIN Meshes, Circles(rings, Ends, 2 * Len(Branch)), NEW e \in Ends
    PROVE  /\ Node(e) \in Seq(Ends)
           /\ \A i \in 1..Len(Node(e)) : PortOf(Node(e)[i]) = PortOf(e)
           /\ \A x \in Ends : PortOf(x) = PortOf(e) => In(x, Node(e))
<1>. DEFINE M == 2 * Len(Branch)
            p == PortOf(e)
            Turns(f) == f = [k \in 0..M |-> IF k = 0 THEN e ELSE rings.link[f[k - 1]]]
            after == CHOOSE f : Turns(f)
            Size(k) == after[k] = e /\ \A j \in 1..(k - 1) : after[j] # e
            size == CHOOSE k \in 1..M : Size(k)
<1>1. M \in Nat /\ p \in Ports
  BY MeshTyped, EndTyped
<1>2. PICK c \in Seq(Ends) : Len(c) <= M /\ Circle(rings, p, c, {x \in Ends : PortOf(x) = p})
  BY <1>1 DEF Circles
<1>3. /\ Len(c) \in Nat /\ \A i \in 1..Len(c) : c[i] \in Ends /\ PortOf(c[i]) = p
      /\ \A x \in Ends : PortOf(x) = p => \E i \in 1..Len(c) : c[i] = x
  BY <1>2 DEF Circle
<1>4. \A i, j \in 1..Len(c) : c[i] = c[j] => i = j
  BY <1>2 DEF Circle
<1>5. \A i \in 1..Len(c) : rings.link[c[i]] = IF i = Len(c) THEN c[1] ELSE c[i + 1]
  BY <1>2 DEF Circle
<1>6. PICK s \in 1..Len(c) : c[s] = e
  BY <1>3
<1>. DEFINE n == Len(c)
            at(k) == IF s + k <= n THEN s + k ELSE (s + k) - n
<1>7. n \in Nat /\ n <= M /\ n >= 1 /\ s \in 1..n
  BY <1>2, <1>3, <1>6
<1>8. Turns(after)
  <2>1. \E f : Turns(f)
    <3>. DEFINE g == rings.link
    <3>. HIDE DEF M, g
    <3>1. \E f : f = [k \in 0..M |-> IF k = 0 THEN e ELSE g[f[k - 1]]]
      BY <1>1, TurnDefined
    <3>. QED  BY <3>1 DEF g
  <2>. QED  BY <2>1
<1>. HIDE DEF after, M, n
<1>9. after[0] = e /\ \A k \in 0..M : k # 0 => after[k] = rings.link[after[k - 1]]
  BY <1>1, <1>8
<1>10. \A k \in 0..n : after[k] = c[at(k)]
  <2>. DEFINE Q == {k \in Nat : k <= n => after[k] = c[at(k)]}
  <2>1. 0 \in Q
    BY <1>6, <1>7, <1>9
  <2>2. ASSUME NEW k \in Q PROVE k + 1 \in Q
    <3>1. SUFFICES ASSUME k + 1 <= n PROVE after[k + 1] = c[at(k + 1)]
      OBVIOUS
    <3>2. k \in Nat /\ k + 1 \in 0..M /\ k + 1 # 0 /\ k + 1 - 1 = k
      BY <1>1, <1>7, <3>1
    <3>3. after[k] = c[at(k)]
      BY <1>7, <3>1, <3>2
    <3>4. after[k + 1] = rings.link[after[k]]
      <4>1. after[k + 1] = rings.link[after[k + 1 - 1]]
        BY <1>9, <3>2
      <4>. QED  BY <3>2, <4>1
    <3>5. at(k) \in 1..n
      BY <1>7, <3>1, <3>2
    <3>6. rings.link[c[at(k)]] = IF at(k) = n THEN c[1] ELSE c[at(k) + 1]
      BY <1>5, <3>5 DEF n
    <3>7. IF at(k) = n THEN at(k + 1) = 1 ELSE at(k + 1) = at(k) + 1
      BY <1>7, <3>1, <3>2
    <3>. HIDE DEF at
    <3>. QED  BY <3>3, <3>4, <3>6, <3>7
  <2>. HIDE DEF Q
  <2>3. Q = Nat
    <3>1. Q \in SUBSET Nat
      BY DEF Q
    <3>. QED  BY <2>1, <2>2, <3>1, SetInduction
  <2>. QED  BY <1>7, <2>3 DEF Q
<1>11. \A k \in 1..n : after[k] = e <=> k = n
  <2>1. ASSUME NEW k \in 1..n PROVE at(k) \in 1..n /\ (at(k) = s <=> k = n)
    BY <1>7
  <2>2. ASSUME NEW k \in 1..n PROVE c[at(k)] = c[s] <=> at(k) = s
    <3>. HIDE DEF at
    <3>. QED  BY <1>4, <1>6, <2>1 DEF n
  <2>. HIDE DEF at
  <2>3. \A k \in 1..n : k \in 0..n
    BY <1>7
  <2>. QED  BY <1>6, <1>10, <2>1, <2>2, <2>3
<1>. HIDE DEF at
<1>12. size = n
  <2>1. n \in 1..M /\ Size(n)
    BY <1>1, <1>7, <1>11
  <2>2. size \in 1..M /\ Size(size)
    BY <2>1
  <2>. HIDE DEF size
  <2>3. ~(n < size)
    <3>1. n < size => n \in 1..(size - 1)
      BY <1>1, <1>7, <2>2
    <3>. QED  BY <1>1, <1>7, <1>11, <2>2, <3>1
  <2>4. ~(size < n)
    BY <1>1, <1>7, <1>11, <2>2
  <2>. QED  BY <1>1, <1>7, <2>2, <2>3, <2>4
<1>. DEFINE node == [k \in 1..n |-> after[k - 1]]
<1>13. Node(e) = node
  <2>1. Node(e) = [k \in 1..size |-> after[k - 1]]
    BY DEF Node, after, size, M
  <2>. QED  BY <1>12, <2>1
<1>. HIDE DEF size
<1>14. ASSUME NEW k \in 1..n PROVE node[k] = c[at(k - 1)] /\ at(k - 1) \in 1..n
  <2>1. k - 1 \in 0..n
    BY <1>7
  <2>2. at(k - 1) \in 1..n
    BY <1>7 DEF at
  <2>. QED  BY <1>10, <2>1, <2>2
<1>15. node \in Seq(Ends) /\ Len(node) = n
  <2>1. \A k \in 1..n : node[k] \in Ends
    BY <1>3, <1>14 DEF n
  <2>. QED  BY <1>7, <2>1
<1>. HIDE DEF node
<1>16. \A i \in 1..Len(node) : PortOf(node[i]) = p
  BY <1>3, <1>14, <1>15 DEF n
<1>17. ASSUME NEW x \in Ends, PortOf(x) = p PROVE In(x, node)
  <2>1. PICK i \in 1..n : c[i] = x
    BY <1>3, <1>17 DEF n
  <2>. DEFINE k == IF i >= s THEN i - s + 1 ELSE i - s + n + 1
  <2>2. k \in 1..n /\ at(k - 1) = i
    BY <1>7 DEF at
  <2>. QED  BY <1>14, <1>15, <2>1, <2>2 DEF In
<1>. QED  BY <1>13, <1>15, <1>16, <1>17

\* EndsInOrder lists every end.
LEMMA OrderLists ==
    ASSUME mesh \in DOMAIN Meshes
    PROVE  /\ EndsInOrder \in Seq(Ends)
           /\ \A e \in Ends : In(e, EndsInOrder)
<1>. DEFINE B == Len(Branch)
            at(i) == <<B - (i - 1) \div 2, (i - 1) % 2>>
<1>1. B \in Nat /\ Ends = (1..B) \X {0, 1}
  BY MeshTyped DEF Ends
<1>2. EndsInOrder = [i \in 1..(2 * B) |-> at(i)]
  BY DEF EndsInOrder
<1>. HIDE DEF B
<1>3. ASSUME NEW i \in 1..(2 * B) PROVE at(i) \in Ends
  <2>1. (i - 1) \div 2 \in 0..(B - 1) /\ (i - 1) % 2 \in {0, 1}
    BY <1>1
  <2>. QED  BY <1>1, <2>1
<1>4. EndsInOrder \in Seq(Ends) /\ Len(EndsInOrder) = 2 * B
  <2>. HIDE DEF at
  <2>. QED  BY <1>1, <1>2, <1>3
<1>5. ASSUME NEW e \in Ends PROVE In(e, EndsInOrder)
  <2>1. PICK b \in 1..B, d \in {0, 1} : e = <<b, d>>
    BY <1>1
  <2>. DEFINE i == 2 * (B - b) + d + 1
  <2>2. i \in 1..(2 * B) /\ (i - 1) \div 2 = B - b /\ (i - 1) % 2 = d
    BY <1>1
  <2>. HIDE DEF i
  <2>3. at(i) = e
    BY <1>1, <2>1, <2>2
  <2>. QED  BY <1>2, <1>4, <2>2, <2>3 DEF In
<1>. QED  BY <1>4, <1>5

-----------------------------------------------------------------------------
(* What a step leaves as it was.                                           *)

LEMMA SameEnabled ==
    ASSUME UNCHANGED <<mesh, invalue>>, mesh \in DOMAIN Meshes,
           \A b \in Branches : Branch[b].en # NoPort => outvalue'[Branch[b].en] = outvalue[Branch[b].en]
    PROVE  \A b \in Branches : Enabled(b)' = Enabled(b)
<1>1. Branch' = Branch /\ Branches' = Branches
  BY DEF Branch, Branches
<1>. QED  BY <1>1 DEF Enabled

LEMMA SameMesh ==
    ASSUME UNCHANGED mesh
    PROVE  /\ Branch' = Branch /\ Branches' = Branches /\ Ports' = Ports /\ Width' = Width
           /\ Ends' = Ends /\ AllBits' = AllBits /\ Drives' = Drives /\ EndsInOrder' = EndsInOrder
           /\ \A e : PortOf(e)' = PortOf(e)
           /\ \A p : Vector(p)' = Vector(p) /\ EndPort(p)' = EndPort(p)
           /\ \A v, e : Across(v, e)' = Across(v, e)
           /\ \A e, i, j : Joins(e, j, i)' = Joins(e, j, i)
  BY DEF Branch, Branches, Ports, Width, Ends, AllBits, Drives, EndsInOrder, PortOf, Vector, EndPort,
         Across, Joins, Other

\* With the branches that are on, the components stay; with the inputs, what drives them.
LEMMA SameComponents ==
    ASSUME UNCHANGED mesh, \A b \in Branches : Enabled(b)' = Enabled(b)
    PROVE  \A bit : Component(bit)' = Component(bit)
<1>1. Branch' = Branch /\ Branches' = Branches /\ Width' = Width /\ AllBits' = AllBits
  BY SameMesh
<1>2. {c \in Branches : Enabled(c)}' = {c \in Branches : Enabled(c)}
  BY <1>1
<1>3. Wires' = Wires
  BY <1>1, <1>2 DEF Wires
<1>4. \A S : Closed(S)' = Closed(S)
  BY <1>3 DEF Closed, Touching
<1>. QED  BY <1>1, <1>4 DEF Component

LEMMA SameDriven ==
    ASSUME UNCHANGED <<mesh, invalue>>, \A b \in Branches : Enabled(b)' = Enabled(b)
    PROVE  /\ \A p : Complete(p)' = Complete(p)
           /\ \A p : \A v : Right(p, v)' = Right(p, v)
<1>1. \A bit : Component(bit)' = Component(bit)
  BY SameComponents
<1>2. \A bits : Driven(bits)' = Driven(bits)
  BY DEF Driven
<1>3. Width' = Width
  BY SameMesh
<1>4. \A p : Complete(p)' = Complete(p)
  BY <1>1, <1>3 DEF Complete
<1>5. \A p : \A v : Right(p, v)' = Right(p, v)
  BY <1>1, <1>2, <1>3 DEF Right
<1>. QED  BY <1>4, <1>5

LEMMA SameCircles ==
    ASSUME UNCHANGED <<mesh, rings, linked>>
    PROVE  Circles(rings, LinkedEnds, 2 * linked)' = Circles(rings, LinkedEnds, 2 * linked)
<1>1. Ends' = Ends /\ Ports' = Ports /\ \A e : PortOf(e)' = PortOf(e)
  BY SameMesh
<1>2. LinkedEnds' = LinkedEnds
  BY <1>1 DEF LinkedEnds
<1>3. \A p, c, S : Circle(rings, p, c, S)' = Circle(rings, p, c, S)
  BY DEF Circle
<1>4. \A p : {e \in LinkedEnds : PortOf(e) = p}' = {e \in LinkedEnds : PortOf(e) = p}
  BY <1>1, <1>2
<1>. QED  BY <1>1, <1>3, <1>4 DEF Circles

\* A value put into a vector of values.
LEMMA ValuedExcept ==
    ASSUME NEW v, Valued(v), NEW p \in Ports, NEW w \in Vector(p) \cup {Nil}
    PROVE  Valued([v EXCEPT ![p] = w])
  BY DEF Valued

LEMMA SameValued ==
    ASSUME UNCHANGED mesh
    PROVE  /\ Valued(invalue)' <=> Valued(invalue')
           /\ Valued(outvalue)' <=> Valued(outvalue')
           /\ Valued(value)' <=> Valued(value')
  BY SameMesh DEF Valued

\* A port with a value has a vector of its width.
LEMMA ValueTyped ==
    ASSUME Typed, NEW p \in Ports
    PROVE  /\ invalue[p] # Nil <=> invalue[p] \in Vector(p)
           /\ outvalue[p] # Nil <=> outvalue[p] \in Vector(p)
           /\ value[p] # Nil <=> value[p] \in Vector(p)
           /\ Nil \notin Vector(p) /\ Width[p] \in Nat \ {0}
<1>1. Width[p] \in Nat \ {0}
  BY MeshTyped DEF Typed
<1>2. \A v \in Vector(p) : v # Nil
  BY <1>1, VectorNotNil DEF Vector
<1>. QED  BY <1>1, <1>2 DEF Typed, Valued

-----------------------------------------------------------------------------
(* The first state, loading, and what comes from outside.                  *)

LEMMA InitIsland == Init => IslandInv
<1>. SUFFICES ASSUME Init PROVE IslandInv
  OBVIOUS
<1>1. mesh \in DOMAIN Meshes
  BY DEF Init
<1>2. Len(Branch) \in Nat /\ \A e \in Ends : PortOf(e) \in Ports /\ e[1] \in 1..Len(Branch)
  BY <1>1, MeshTyped, EndTyped
<1>3. Valued(invalue) /\ Valued(outvalue) /\ Valued(value)
  BY DEF Init, Valued
<1>4. rings \in [link : [Ends -> Ends], first : [Ports -> Ends \cup {Nil}]]
  BY DEF Init
<1>5. Typed
  <2>1. \A S : <<>> \in Seq(S)
    OBVIOUS
  <2>2. todo \in Seq(Ends) /\ stack \in Seq([port : Ports, rest : Seq(Ends)])
    BY <2>1 DEF Init
  <2>3. flagged \in BOOLEAN /\ phase \in Phases /\ enabled \in [Branches -> BOOLEAN] /\ linked \in 0..Len(Branch)
    <3>1. flagged = FALSE /\ phase = "link" /\ linked = 0 /\ enabled = [b \in Branches |-> FALSE]
      BY DEF Init
    <3>2. enabled \in [Branches -> BOOLEAN]
      BY <3>1
    <3>3. linked \in 0..Len(Branch)
      BY <1>2, <3>1
    <3>4. flagged \in BOOLEAN
      BY <3>1
    <3>5. phase \in Phases
      BY <3>1 DEF Phases
    <3>. QED  BY <3>2, <3>3, <3>4, <3>5
  <2>. QED  BY <1>1, <1>3, <1>4, <2>2, <2>3 DEF Typed
<1>6. Circles(rings, LinkedEnds, 2 * linked)
  <2>1. LinkedEnds = {} /\ 2 * linked = 0
    BY <1>2 DEF Init, LinkedEnds
  <2>2. ASSUME NEW p \in Ports PROVE Circle(rings, p, <<>>, {})
    BY DEF Init, Circle
  <2>3. <<>> \in Seq(Ends) /\ Len(<<>>) = 0
    OBVIOUS
  <2>4. ASSUME NEW p \in Ports
        PROVE  \E c \in Seq(Ends) : Len(c) <= 0 /\ Circle(rings, p, c, {e \in LinkedEnds : PortOf(e) = p})
    <3>1. {e \in LinkedEnds : PortOf(e) = p} = {}
      BY <2>1
    <3>2. Len(<<>>) <= 0 /\ Circle(rings, p, <<>>, {e \in LinkedEnds : PortOf(e) = p})
      BY <2>2, <2>3, <3>1
    <3>. HIDE DEF Circle
    <3>. QED  BY <2>3, <3>2
  <2>. QED  BY <2>1, <2>4 DEF Circles
<1>. QED  BY <1>5, <1>6 DEF Init, IslandInv, Held, Resolving, Sending, Resting

LEMMA AddBranchIsland ==
    ASSUME IslandInv, add_branch
    PROVE  IslandInv'
<1>. DEFINE b == linked + 1
            r == Linked(rings, <<b, 0>>)
<1>1. mesh \in DOMAIN Meshes /\ rings \in Rings /\ Circles(rings, LinkedEnds, 2 * linked)
  BY DEF IslandInv, Typed, Rings
<1>2. linked \in Nat /\ b \in Branches /\ b \in 0..Len(Branch) /\ linked' = b
  BY <1>1, MeshTyped DEF IslandInv, Typed, add_branch
<1>3. /\ <<b, 0>> \in Ends \ LinkedEnds /\ LinkedEnds \cup {<<b, 0>>} \in SUBSET Ends
      /\ <<b, 1>> \in Ends \ (LinkedEnds \cup {<<b, 0>>})
  BY <1>2 DEF Ends, LinkedEnds
<1>4. r \in Rings /\ Circles(r, LinkedEnds \cup {<<b, 0>>}, 2 * linked + 1)
  <2>1. LinkedEnds \in SUBSET Ends /\ 2 * linked \in Nat
    BY <1>2 DEF LinkedEnds
  <2>. QED  BY <1>1, <1>3, <2>1, LinkedKeepsCircles
<1>5. rings' = Linked(r, <<b, 1>>)
  BY <1>2 DEF add_branch
<1>. HIDE DEF r
<1>6. rings' \in Rings /\ Circles(rings', (LinkedEnds \cup {<<b, 0>>}) \cup {<<b, 1>>}, (2 * linked + 1) + 1)
  <2>1. 2 * linked + 1 \in Nat
    BY <1>2
  <2>. QED  BY <1>1, <1>3, <1>4, <1>5, <2>1, LinkedKeepsCircles
<1>7. /\ UNCHANGED mesh /\ Ends' = Ends /\ Branch' = Branch /\ Branches' = Branches /\ Ports' = Ports
      /\ \A e : PortOf(e)' = PortOf(e)
  BY SameMesh DEF add_branch
<1>8. LinkedEnds' = (LinkedEnds \cup {<<b, 0>>}) \cup {<<b, 1>>}
  <2>1. ASSUME NEW e \in Ends PROVE e[1] <= b <=> e[1] <= linked \/ e = <<b, 0>> \/ e = <<b, 1>>
    <3>1. e[1] \in Nat /\ e[2] \in {0, 1} /\ e = <<e[1], e[2]>>
      BY <1>1, EndTyped, MeshTyped
    <3>. QED  BY <1>2, <3>1
  <2>. QED  BY <1>2, <1>3, <1>7, <2>1 DEF LinkedEnds
<1>9. 2 * linked' = (2 * linked + 1) + 1
  BY <1>2
<1>10. Circles(rings, LinkedEnds, 2 * linked)'
  BY <1>6, <1>7, <1>8, <1>9 DEF Circles, Circle
<1>11. Typed'
  <2>1. Valued(invalue)' /\ Valued(outvalue)' /\ Valued(value)'
    BY <1>7, SameValued DEF IslandInv, Typed, add_branch, ports
  <2>. QED  BY <1>2, <1>6, <1>7, <2>1 DEF IslandInv, Typed, add_branch, Rings
<1>12. Held'
  BY <1>7, SameMesh DEF IslandInv, Held, add_branch, ports
<1>13. phase' = "link"
  BY DEF add_branch
<1>. QED  BY <1>10, <1>11, <1>12, <1>13 DEF IslandInv, Resolving, Sending, Resting

LEMMA CleanupIsland ==
    ASSUME IslandInv, compile_cleanup
    PROVE  IslandInv'
<1>1. UNCHANGED <<mesh, rings, linked>> /\ mesh \in DOMAIN Meshes
  BY DEF compile_cleanup, IslandInv, Typed
<1>2. /\ Ends' = Ends /\ Branch' = Branch /\ Branches' = Branches /\ Ports' = Ports
      /\ Width' = Width /\ \A p : EndPort(p)' = EndPort(p)
  BY <1>1, SameMesh
<1>3. Circles(rings, LinkedEnds, 2 * linked)'
  BY <1>1, SameCircles DEF IslandInv
<1>4. Typed'
  BY <1>1, <1>2, SameValued DEF IslandInv, Typed, compile_cleanup, Phases, ports
<1>5. Held'
  BY <1>2 DEF IslandInv, Held, compile_cleanup, ports
<1>6. ASSUME NEW p \in Ports PROVE ~Complete(p)'
  <2>1. Width[p] \in Nat \ {0} /\ invalue'[p] = Nil
    BY <1>1, MeshTyped DEF IslandInv, Held, compile_cleanup, ports
  <2>2. <<p, 1>> \in AllBits' /\ 1 \in 1..Width'[p]
    BY <1>2, <2>1 DEF AllBits
  <2>3. <<p, 1>> \in Component(<<p, 1>>)'
    BY <2>2 DEF Component
  <2>. QED  BY <2>1, <2>2, <2>3 DEF Complete
<1>. QED  BY <1>2, <1>3, <1>4, <1>5, <1>6 DEF IslandInv, Resolving, Sending, Resting, compile_cleanup

LEMMA RecvIsland ==
    ASSUME IslandInv, recv_vec8 \/ recv_vec4_pv
    PROVE  IslandInv'
<1>1. UNCHANGED <<mesh, rings, linked>> /\ mesh \in DOMAIN Meshes /\ Receives
  BY DEF recv_vec8, recv_vec4_pv, IslandInv, Typed
<1>2. /\ Ends' = Ends /\ Branch' = Branch /\ Branches' = Branches /\ Ports' = Ports
      /\ \A e : PortOf(e)' = PortOf(e) /\ \A p : EndPort(p)' = EndPort(p)
  BY <1>1, SameMesh
<1>3. Circles(rings, LinkedEnds, 2 * linked)'
  BY <1>1, SameCircles DEF IslandInv
<1>4. Drives \subseteq Bit /\ \A p \in Ports : Width[p] \in Nat
  BY <1>1, MeshTyped
<1>5. Valued(invalue')
  <2>1. ASSUME recv_vec8 PROVE Valued(invalue')
    <3>3. PICK p \in Ports : \E v \in [1..Width[p] -> Drives] : invalue' = [invalue EXCEPT ![p] = v]
      BY <2>1 DEF recv_vec8
    <3>1. PICK v \in [1..Width[p] -> Drives] : invalue' = [invalue EXCEPT ![p] = v]
      BY <3>3
    <3>2. v \in Vector(p)
      BY <1>4 DEF Vector
    <3>. QED  BY <3>1, <3>2, ValuedExcept DEF IslandInv, Typed
  <2>2. ASSUME recv_vec4_pv PROVE Valued(invalue')
    <3>5. PICK p \in Ports : \E i \in 1..Width[p], d \in Drives :
            invalue' = [invalue EXCEPT ![p] =
              IF invalue[p] = Nil THEN part_expand(<<d>>, Width[p], i - 1) ELSE [invalue[p] EXCEPT ![i] = d]]
      BY <2>2 DEF recv_vec4_pv
    <3>1. PICK i \in 1..Width[p], d \in Drives :
            invalue' = [invalue EXCEPT ![p] =
              IF invalue[p] = Nil THEN part_expand(<<d>>, Width[p], i - 1) ELSE [invalue[p] EXCEPT ![i] = d]]
      BY <3>5
    <3>2. part_expand(<<d>>, Width[p], i - 1) \in Vector(p)
      BY <1>4, ZIsBit DEF part_expand, Vector
    <3>3. invalue[p] # Nil => [invalue[p] EXCEPT ![i] = d] \in Vector(p)
      <4>1. invalue[p] # Nil => invalue[p] \in Vector(p)
        BY ValueTyped DEF IslandInv
      <4>. QED  BY <1>4, <4>1 DEF Vector
    <3>. DEFINE w == IF invalue[p] = Nil THEN part_expand(<<d>>, Width[p], i - 1)
                     ELSE [invalue[p] EXCEPT ![i] = d]
    <3>4. w \in Vector(p)
      BY <3>2, <3>3
    <3>6. invalue' = [invalue EXCEPT ![p] = w]
      BY <3>1
    <3>. HIDE DEF w
    <3>. QED  BY <3>4, <3>6, ValuedExcept DEF IslandInv, Typed
  <2>. QED  BY <2>1, <2>2
<1>6. UNCHANGED <<outvalue, value, phase, enabled, todo, stack>> /\ flagged' = TRUE
  BY DEF recv_vec8, recv_vec4_pv
<1>7. Typed'
  BY <1>1, <1>2, <1>5, <1>6, SameValued DEF IslandInv, Typed
<1>8. Held'
  BY <1>1, <1>2, <1>6 DEF IslandInv, Held, Receives
<1>9. Resolving' /\ Resting'
  BY <1>1, <1>6 DEF Resolving, Resting, Receives
<1>10. Sending'
  BY <1>2, <1>6 DEF IslandInv, Sending
<1>. QED  BY <1>3, <1>7, <1>8, <1>9, <1>10 DEF IslandInv

-----------------------------------------------------------------------------
(* A run.                                                                  *)

\* What a step of a run leaves alone, and what then stays.
RunKeeps == UNCHANGED <<mesh, rings, linked, invalue>>

LEMMA RunFrame ==
    ASSUME IslandInv, RunKeeps
    PROVE  /\ mesh \in DOMAIN Meshes
           /\ Ends' = Ends /\ Branch' = Branch /\ Branches' = Branches /\ Ports' = Ports /\ Width' = Width
           /\ \A e : PortOf(e)' = PortOf(e)
           /\ \A p : Vector(p)' = Vector(p) /\ EndPort(p)' = EndPort(p)
           /\ \A v, e : Across(v, e)' = Across(v, e)
           /\ Circles(rings, LinkedEnds, 2 * linked)'
<1>1. mesh \in DOMAIN Meshes /\ UNCHANGED <<mesh, rings, linked>>
  BY DEF IslandInv, Typed, RunKeeps
<1>2. Circles(rings, LinkedEnds, 2 * linked)'
  BY <1>1, SameCircles DEF IslandInv
<1>. QED  BY <1>1, <1>2, SameMesh

\* Once all branches are linked, a frame has all the ends at its port.
LEMMA FrameLists ==
    ASSUME IslandInv, phase # "link", NEW e \in Ends
    PROVE  /\ Frame(e) \in [port : Ports, rest : Seq(Ends)]
           /\ Frame(e).port = PortOf(e)
           /\ \A i \in 1..Len(Frame(e).rest) : PortOf(Frame(e).rest[i]) = PortOf(e)
           /\ \A x \in Ends : PortOf(x) = PortOf(e) => In(x, Frame(e).rest)
<1>1. mesh \in DOMAIN Meshes /\ linked = Len(Branch) /\ Circles(rings, LinkedEnds, 2 * linked)
  BY DEF IslandInv, Typed, Held
<1>2. LinkedEnds = Ends
  BY <1>1, EndTyped, MeshTyped DEF LinkedEnds
<1>3. Circles(rings, Ends, 2 * Len(Branch))
  BY <1>1, <1>2
<1>4. PortOf(e) \in Ports
  BY <1>1, EndTyped
<1>5. Frame(e).port = PortOf(e) /\ Frame(e).rest = Node(e) /\ Frame(e) = [port |-> PortOf(e), rest |-> Node(e)]
  BY DEF Frame
<1>. QED  BY <1>1, <1>3, <1>4, <1>5, NodeLists

LEMMA RunIsland ==
    ASSUME IslandInv, run_run
    PROVE  IslandInv'
<1>1. /\ RunKeeps /\ UNCHANGED <<outvalue, value, stack>> /\ phase = "idle" /\ phase' = "resolve"
      /\ flagged' = FALSE /\ todo' = EndsInOrder /\ enabled' = [b \in Branches |-> Enabled(b)]
  BY DEF run_run, RunKeeps, ports
<1>2. /\ mesh \in DOMAIN Meshes
      /\ Ends' = Ends /\ Branch' = Branch /\ Branches' = Branches /\ Ports' = Ports /\ Width' = Width
      /\ \A e : PortOf(e)' = PortOf(e)
      /\ \A p : EndPort(p)' = EndPort(p)
      /\ Circles(rings, LinkedEnds, 2 * linked)'
  BY <1>1, RunFrame
<1>3. stack = <<>> /\ \A p \in Ports : value[p] = Nil
  BY <1>1 DEF IslandInv, Held
<1>4. EndsInOrder \in Seq(Ends) /\ \A e \in Ends : In(e, EndsInOrder)
  BY <1>2, OrderLists
<1>5. Typed'
  <2>1. Valued(invalue)' /\ Valued(outvalue)' /\ Valued(value)'
    BY <1>1, SameValued DEF IslandInv, Typed, RunKeeps
  <2>2. enabled' \in [Branches -> BOOLEAN]
    BY <1>1 DEF Enabled
  <2>. QED  BY <1>1, <1>2, <1>4, <2>1, <2>2 DEF IslandInv, Typed, RunKeeps, Phases
<1>6. Held'
  BY <1>1, <1>2 DEF IslandInv, Held, RunKeeps
<1>7. \A b \in Branches : Enabled(b)' = Enabled(b)
  BY <1>1, <1>2 DEF Enabled, RunKeeps
<1>8. Resolving'
  <2>1. enabled' = [b \in Branches |-> Enabled(b)]'
    BY <1>1, <1>2, <1>7
  <2>2. Frames'
    BY <1>1, <1>3 DEF Frames
  <2>3. \A e \in Ends' : In(e, todo)' /\ PortOf(e)' \in Ports /\ value'[PortOf(e)'] = Nil
    BY <1>1, <1>2, <1>3, <1>4, EndTyped DEF In
  <2>4. Spread'
    BY <1>1, <1>2, <1>3, <2>3 DEF Spread
  <2>5. Bounded'
    BY <1>1, <1>2, <1>3 DEF Bounded
  <2>. QED  BY <2>1, <2>2, <2>4, <2>5 DEF Resolving
<1>. QED  BY <1>1, <1>2, <1>5, <1>6, <1>8 DEF IslandInv, Sending, Resting

\* What stays in a step of resolving: the branches that are on and the components.
LEMMA ResolveFrame ==
    ASSUME IslandInv, phase = "resolve", RunKeeps, UNCHANGED <<outvalue, enabled>>
    PROVE  /\ enabled' = [b \in Branches |-> Enabled(b)]'
           /\ \A bit : Component(bit)' = Component(bit)
           /\ \A p : Complete(p)' = Complete(p)
           /\ \A p : \A v : Right(p, v)' = Right(p, v)
<1>1. Branch' = Branch /\ Branches' = Branches /\ UNCHANGED <<mesh, invalue>> /\ mesh \in DOMAIN Meshes
  BY RunFrame DEF RunKeeps
<1>2. \A b \in Branches : Enabled(b)' = Enabled(b)
  BY <1>1, SameEnabled
<1>3. enabled' = [b \in Branches |-> Enabled(b)]'
  BY <1>1, <1>2 DEF IslandInv, Resolving
<1>. QED  BY <1>1, <1>2, <1>3, SameComponents, SameDriven

LEMMA ReturnIsland ==
    ASSUME IslandInv, Return
    PROVE  IslandInv'
<1>1. /\ RunKeeps /\ UNCHANGED <<outvalue, value, flagged, phase, enabled, todo>> /\ phase = "resolve"
      /\ stack # <<>> /\ stack[1].rest = <<>> /\ stack' = Tail(stack)
  BY DEF Return, RunKeeps, ports
<1>2. /\ mesh \in DOMAIN Meshes
      /\ Ends' = Ends /\ Branch' = Branch /\ Branches' = Branches /\ Ports' = Ports /\ Width' = Width
      /\ \A e : PortOf(e)' = PortOf(e)
      /\ \A p : EndPort(p)' = EndPort(p)
      /\ \A v, e : Across(v, e)' = Across(v, e)
      /\ Circles(rings, LinkedEnds, 2 * linked)'
  BY <1>1, RunFrame
<1>. DEFINE F == [port : Ports, rest : Seq(Ends)]
<1>3. stack \in Seq(F)
  BY DEF IslandInv, Typed
<1>. HIDE DEF F
<1>4. /\ stack' \in Seq(F) /\ Len(stack') = Len(stack) - 1 /\ Len(stack) \in Nat
      /\ \A k \in 1..Len(stack') : stack'[k] = stack[k + 1] /\ k + 1 \in 1..Len(stack)
  BY <1>1, <1>3
<1>5. Typed'
  <2>1. Valued(invalue)' /\ Valued(outvalue)' /\ Valued(value)'
    BY <1>1, SameValued DEF IslandInv, Typed, RunKeeps
  <2>. QED  BY <1>1, <1>2, <1>4, <2>1 DEF IslandInv, Typed, RunKeeps, F
<1>6. Held'
  BY <1>1, <1>2 DEF IslandInv, Held, RunKeeps
<1>7. Frames'
  BY <1>1, <1>2, <1>4 DEF IslandInv, Resolving, Frames
<1>8. \A e : Pending(e) => Pending(e)'
  <2>1. SUFFICES ASSUME NEW e, Pending(e) PROVE Pending(e)'
    OBVIOUS
  <2>2. PICK k \in 1..Len(stack) : stack[k].port = PortOf(e) /\ In(e, stack[k].rest)
    BY <2>1 DEF Pending
  <2>3. k # 1
    BY <1>1, <2>2 DEF In
  <2>4. k - 1 \in 1..Len(stack') /\ stack'[k - 1] = stack[k]
    BY <1>4, <2>2, <2>3
  <2>. QED  BY <1>2, <2>2, <2>4 DEF Pending, In
<1>9. \A e : Reached(e)' = Reached(e) /\ In(e, todo)' = In(e, todo)
  BY <1>1, <1>2, SameMesh DEF Reached, WithinVector, In, Other
<1>10. Spread'
  BY <1>1, <1>2, <1>8, <1>9 DEF IslandInv, Resolving, Spread, RunKeeps, WithinVector
<1>11. Bounded'
  BY <1>1, <1>2, ResolveFrame DEF IslandInv, Resolving, Bounded, RunKeeps
<1>12. Resolving'
  BY <1>1, <1>7, <1>10, <1>11, ResolveFrame DEF Resolving
<1>. QED  BY <1>1, <1>2, <1>5, <1>6, <1>12 DEF IslandInv, Sending, Resting

LEMMA ResolutionIsland ==
    ASSUME IslandInv, run_resolution
    PROVE  IslandInv'
<1>. DEFINE e == Head(todo)
            p == PortOf(e)
            F == [port : Ports, rest : Seq(Ends)]
<1>1. /\ RunKeeps /\ UNCHANGED <<outvalue, flagged, phase, enabled>> /\ phase = "resolve"
      /\ stack = <<>> /\ todo # <<>> /\ todo' = Tail(todo)
      /\ IF value[p] # Nil \/ invalue[p] = Nil THEN UNCHANGED <<value, stack>>
         ELSE value' = [value EXCEPT ![p] = invalue[p]] /\ stack' = <<Frame(e)>>
  BY DEF run_resolution, RunKeeps
<1>2. /\ mesh \in DOMAIN Meshes
      /\ Ends' = Ends /\ Branch' = Branch /\ Branches' = Branches /\ Ports' = Ports /\ Width' = Width
      /\ \A x : PortOf(x)' = PortOf(x)
      /\ \A q : Vector(q)' = Vector(q) /\ EndPort(q)' = EndPort(q)
      /\ \A v, x : Across(v, x)' = Across(v, x)
      /\ Circles(rings, LinkedEnds, 2 * linked)'
  BY <1>1, RunFrame
<1>3. todo \in Seq(Ends) /\ Valued(value) /\ Valued(invalue) /\ Typed
  BY DEF IslandInv, Typed
<1>4. /\ e \in Ends /\ todo' \in Seq(Ends) /\ Len(todo') = Len(todo) - 1 /\ Len(todo) \in Nat
      /\ \A k \in 1..Len(todo') : todo'[k] = todo[k + 1]
      /\ todo[1] = e
  BY <1>1, <1>3
<1>5. p \in Ports
  BY <1>2, <1>4, EndTyped
<1>6. /\ Frame(e) \in F /\ Frame(e).port = p
      /\ \A i \in 1..Len(Frame(e).rest) : PortOf(Frame(e).rest[i]) = p
      /\ \A x \in Ends : PortOf(x) = p => In(x, Frame(e).rest)
  BY <1>1, <1>4, FrameLists
<1>. HIDE DEF e, p, F
<1>7. ASSUME NEW x, In(x, todo) PROVE x = e \/ In(x, todo')
  <2>1. PICK i \in 1..Len(todo) : todo[i] = x
    BY <1>7 DEF In
  <2>2. i # 1 => i - 1 \in 1..Len(todo') /\ todo'[i - 1] = x
    BY <1>4, <2>1
  <2>3. CASE i = 1
    <3>1. todo[1] = e
      BY <1>4
    <3>2. todo[1] = x
      BY <2>1, <2>3
    <3>. QED  BY <3>1, <3>2
  <2>4. CASE i # 1
    BY <2>2, <2>4 DEF In
  <2>. QED  BY <2>3, <2>4
<1>8. Frames /\ Spread /\ Bounded
  BY <1>1 DEF IslandInv, Resolving
<1>9. /\ \A x : In(x, todo)' <=> In(x, todo')
      /\ \A x : Reached(x)' <=>
            /\ value'[PortOf(Other(x))] # Nil
            /\ WithinVector(Across(value'[PortOf(x)], Other(x)), value'[PortOf(Other(x))])
      /\ \A x : Pending(x)' <=> \E k \in 1..Len(stack') : stack'[k].port = PortOf(x) /\ In(x, stack'[k].rest)
  BY <1>2 DEF In, Reached, Pending, WithinVector, Other
<1>10. \A x : ~Pending(x)
  BY <1>1 DEF Pending
<1>11. CASE value[p] # Nil \/ invalue[p] = Nil
  <2>1. UNCHANGED <<value, stack>>
    BY <1>1, <1>11
  <2>2. Typed'
    <3>1. Valued(invalue)' /\ Valued(outvalue)' /\ Valued(value)'
      BY <1>1, <1>3, <2>1, SameValued DEF Typed, RunKeeps
    <3>. QED  BY <1>1, <1>2, <1>3, <1>4, <2>1, <3>1 DEF Typed, RunKeeps
  <2>3. Held'
    BY <1>1, <1>2, <2>1 DEF IslandInv, Held, RunKeeps
  <2>4. Frames'
    BY <1>1, <1>2, <2>1 DEF Frames
  <2>5. Bounded'
    BY <1>1, <1>2, <1>8, <2>1, ResolveFrame DEF Bounded, RunKeeps
  <2>6. Spread'
    <3>1. ASSUME NEW x \in Ends, invalue[PortOf(x)] # Nil
          PROVE  \/ value[PortOf(x)] = Nil /\ In(x, todo')
                 \/ value[PortOf(x)] # Nil /\ (enabled[x[1]] => Reached(x) \/ Pending(x))
      <4>1. CASE value[PortOf(x)] = Nil
        <5>1. In(x, todo)
          BY <1>8, <3>1, <4>1 DEF Spread
        <5>2. x # e
          BY <1>11, <3>1, <4>1 DEF p
        <5>. QED  BY <1>7, <4>1, <5>1, <5>2
      <4>. QED  BY <1>8, <3>1, <4>1 DEF Spread
    <3>2. \A x : Reached(x)' <=> Reached(x)
      BY <1>9, <2>1 DEF Reached
    <3>3. \A x : Pending(x)' <=> Pending(x)
      BY <1>9, <2>1 DEF Pending
    <3>. QED  BY <1>1, <1>2, <1>8, <1>9, <2>1, <3>1, <3>2, <3>3 DEF Spread, RunKeeps, WithinVector
  <2>7. Resolving'
    BY <1>1, <2>4, <2>5, <2>6, ResolveFrame DEF Resolving
  <2>. QED  BY <1>1, <1>2, <2>2, <2>3, <2>7 DEF IslandInv, Sending, Resting
<1>12. CASE value[p] = Nil /\ invalue[p] # Nil
  <2>1. value' = [value EXCEPT ![p] = invalue[p]] /\ stack' = <<Frame(e)>>
    BY <1>1, <1>12
  <2>2. invalue[p] \in Vector(p) /\ value'[p] = invalue[p] /\ \A q \in Ports : q # p => value'[q] = value[q]
    BY <1>3, <1>5, <1>12, <2>1, ValueTyped DEF Valued
  <2>3. Len(stack') = 1 /\ stack'[1] = Frame(e) /\ stack' \in Seq(F)
    BY <1>6, <2>1
  <2>4. Typed'
    <3>1. Valued(value')
      BY <1>3, <1>5, <2>1, <2>2, ValuedExcept
    <3>2. Valued(invalue)' /\ Valued(outvalue)' /\ Valued(value)'
      BY <1>1, <1>3, <3>1, SameValued DEF Typed, RunKeeps
    <3>. QED  BY <1>1, <1>2, <1>3, <1>4, <2>3, <3>2 DEF Typed, RunKeeps, F
  <2>5. EndPort(p)
    BY <1>4 DEF EndPort, p
  <2>6. Held'
    BY <1>1, <1>2, <2>2, <2>5 DEF IslandInv, Held, RunKeeps
  <2>7. Frames'
    BY <1>2, <1>6, <1>12, <2>2, <2>3 DEF Frames
  <2>8. Bounded'
    <3>1. ASSUME NEW q \in Ports, value'[q] # Nil, NEW i \in 1..Width[q], NEW u \in Bit,
                 \A n \in Component(<<q, i>>) : invalue[n[1]] # Nil => Within(invalue[n[1]][n[2]], u)
          PROVE  Within(value'[q][i], u)
      <4>1. CASE q = p
        <5>1. <<p, i>> \in AllBits
          BY <3>1, <4>1 DEF AllBits
        <5>2. <<p, i>> \in Component(<<p, i>>)
          BY <5>1 DEF Component
        <5>3. Within(invalue[p][i], u)
          BY <1>12, <3>1, <4>1, <5>2
        <5>. QED  BY <2>2, <4>1, <5>3
      <4>2. CASE q # p
        BY <1>8, <2>2, <3>1, <4>2 DEF Bounded
      <4>. QED  BY <4>1, <4>2
    <3>2. \A bit : Component(bit)' = Component(bit)
      BY <1>1, ResolveFrame
    <3>. QED  BY <1>1, <1>2, <3>1, <3>2 DEF Bounded, RunKeeps, Within
  <2>9. Spread'
    <3>1. ASSUME NEW x \in Ends, invalue[PortOf(x)] # Nil
          PROVE  \/ value'[PortOf(x)] = Nil /\ In(x, todo')
                 \/ value'[PortOf(x)] # Nil /\ (enabled[x[1]] => Reached(x)' \/ Pending(x)')
      <4>1. PortOf(x) \in Ports /\ PortOf(Other(x)) \in Ports
        BY <1>2, EndTyped
      <4>2. CASE PortOf(x) = p
        <5>1. In(x, stack'[1].rest) /\ stack'[1].port = PortOf(x) /\ 1 \in 1..Len(stack')
          <6>1. In(x, Frame(e).rest)
            BY <1>6, <3>1, <4>2
          <6>. QED  BY <1>6, <2>3, <4>2, <6>1
        <5>2. Pending(x)'
          BY <1>9, <5>1
        <5>. QED  BY <1>12, <2>2, <4>2, <5>2
      <4>3. CASE PortOf(x) # p /\ value[PortOf(x)] = Nil
        <5>1. In(x, todo) /\ x # e
          BY <1>8, <3>1, <4>3 DEF Spread, p
        <5>. QED  BY <1>7, <2>2, <4>1, <4>3, <5>1
      <4>4. CASE PortOf(x) # p /\ value[PortOf(x)] # Nil
        <5>1. enabled[x[1]] => Reached(x)
          BY <1>8, <1>10, <3>1, <4>4 DEF Spread
        <5>2. Reached(x) => Reached(x)'
          BY <1>9, <1>12, <2>2, <4>1, <4>4 DEF Reached
        <5>. QED  BY <2>2, <4>1, <4>4, <5>1, <5>2
      <4>. QED  BY <4>2, <4>3, <4>4
    <3>2. ASSUME NEW q \in Ports, value'[q] # Nil, invalue[q] # Nil
          PROVE  WithinVector(invalue[q], value'[q])
      <4>1. CASE q = p
        <5>1. \A i \in DOMAIN invalue[p] : invalue[p][i] \in Bit
          BY <2>2 DEF Vector
        <5>. QED  BY <2>2, <4>1, <5>1, WithinOrder DEF WithinVector
      <4>2. CASE q # p
        BY <1>8, <2>2, <3>2, <4>2 DEF Spread
      <4>. QED  BY <4>1, <4>2
    <3>3. \A x \in Ends : invalue'[PortOf(x)'] # Nil =>
             \/ value'[PortOf(x)'] = Nil /\ In(x, todo)'
             \/ value'[PortOf(x)'] # Nil /\ (enabled'[x[1]] => Reached(x)' \/ Pending(x)')
      BY <1>1, <1>2, <1>9, <3>1 DEF RunKeeps
    <3>. QED  BY <1>1, <1>2, <3>2, <3>3 DEF Spread, RunKeeps, WithinVector, Within
  <2>10. Resolving'
    BY <1>1, <2>7, <2>8, <2>9, ResolveFrame DEF Resolving
  <2>. QED  BY <1>1, <1>2, <2>4, <2>6, <2>10 DEF IslandInv, Sending, Resting
<1>. QED  BY <1>11, <1>12

\* When nothing is left to push, the values are what the drivers make.
LEMMA AllRight ==
    ASSUME IslandInv, phase = "resolve", stack = <<>>, todo = <<>>,
           NEW p \in Ports, EndPort(p), Complete(p)
    PROVE  value[p] # Nil /\ Right(p, value[p])
<1>1. /\ mesh \in DOMAIN Meshes /\ Typed
      /\ enabled = [b \in Branches |-> Enabled(b)] /\ Spread /\ Bounded
  BY DEF IslandInv, Typed, Resolving
<1>2. Width[p] \in Nat \ {0} /\ \A i \in 1..Width[p] : <<p, i>> \in AllBits /\ <<p, i>> \in Component(<<p, i>>)
  BY <1>1, MeshTyped DEF AllBits, Component
<1>3. ASSUME NEW e \in Ends, invalue[PortOf(e)] # Nil
      PROVE  value[PortOf(e)] # Nil /\ (Enabled(e[1]) => Reached(e))
  <2>1. e[1] \in Branches
    BY <1>1, EndTyped
  <2>. QED  BY <1>1, <1>3, <2>1 DEF Spread, In, Pending
<1>4. value[p] # Nil
  <2>1. 1 \in 1..Width[p]
    BY <1>2
  <2>2. invalue[p] # Nil
    BY <1>2, <2>1 DEF Complete
  <2>. QED  BY <1>3, <2>2 DEF EndPort
<1>5. value[p] \in Vector(p)
  BY <1>1, <1>4, ValueTyped
<1>6. ASSUME NEW i \in 1..Width[p] PROVE value[p][i] = Driven(Component(<<p, i>>))
  <2>. DEFINE C == Component(<<p, i>>)
              v == value[p][i]
              d == Driven(C)
              K == {n \in C : value[n[1]] # Nil /\ Within(value[n[1]][n[2]], v)}
  <2>1. /\ C \in SUBSET AllBits /\ <<p, i>> \in C /\ C # {} /\ HaveInputs(C)
        /\ \A S \in SUBSET AllBits : <<p, i>> \in S /\ Closed(S) => C \subseteq S
        /\ Closed(C)
    BY <1>1, <1>2, ComponentLeast DEF Complete, HaveInputs
  <2>2. v \in Bit
    BY <1>5 DEF Vector
  <2>3. /\ d \in Bit /\ \A n \in C : Within(invalue[n[1]][n[2]], d)
        /\ \A u \in Bit : (\A n \in C : Within(invalue[n[1]][n[2]], u)) => Within(d, u)
    <3>. HIDE DEF C
    <3>. QED  BY <1>1, <2>1, DrivenLeast
  <2>. HIDE DEF d
  <2>4. Within(v, d)
    BY <1>1, <1>4, <2>3 DEF Bounded
  <2>. HIDE DEF C
  <2>5. ASSUME NEW e \in Ends, NEW k, NEW j, Enabled(e[1]), Joins(e, j, k), <<PortOf(Other(e)), j>> \in K
        PROVE  <<PortOf(e), k>> \in K
    <3>. DEFINE src == PortOf(Other(e))
                dst == PortOf(e)
    <3>1. <<src, j>> \in C /\ value[src] # Nil /\ Within(value[src][j], v)
      BY <2>5
    <3>2. <<dst, k>> \in C
      BY <1>1, <2>1, <2>5, <3>1, ClosedJoins
    <3>3. invalue[dst] # Nil
      BY <2>1, <3>2 DEF HaveInputs
    <3>4. value[dst] # Nil /\ Reached(e)
      BY <1>3, <2>5, <3>3
    <3>5. /\ src \in Ports /\ dst \in Ports /\ Other(e) \in Ends /\ Other(Other(e)) = e
          /\ Joins(Other(e), k, j)
      BY <1>1, <2>5, EndTyped, JoinsBothWays
    <3>6. value[src] \in Vector(src) /\ value[dst] \in Vector(dst)
      BY <1>1, <3>1, <3>4, <3>5, ValueTyped
    <3>7. Across(value[dst], Other(e))[j] = value[dst][k]
      BY <1>1, <3>5, <3>6, AcrossJoins
    <3>8. j \in 1..Width[src] /\ k \in 1..Width[dst]
      BY <2>5 DEF Joins
    <3>9. Within(value[dst][k], value[src][j])
      <4>1. WithinVector(Across(value[dst], Other(e)), value[src])
        BY <3>4 DEF Reached
      <4>2. j \in DOMAIN value[src]
        BY <3>6, <3>8 DEF Vector
      <4>. QED  BY <3>7, <4>1, <4>2 DEF WithinVector
    <3>10. Within(value[dst][k], v)
      <4>1. value[dst][k] \in Bit /\ value[src][j] \in Bit
        BY <3>6, <3>8 DEF Vector
      <4>. HIDE DEF v
      <4>. QED  BY <2>2, <3>1, <3>9, <4>1, WithinOrder
    <3>. QED  BY <3>2, <3>4, <3>10
  <2>6. K \in SUBSET AllBits /\ <<p, i>> \in K
    BY <1>4, <2>1, <2>2, WithinOrder
  <2>7. Closed(K)
    <3>. HIDE DEF K
    <3>. QED  BY <1>1, <2>5, ClosedJoins
  <2>8. C \subseteq K
    <3>. HIDE DEF K
    <3>. QED  BY <2>1, <2>6, <2>7
  <2>9. ASSUME NEW n \in C PROVE Within(invalue[n[1]][n[2]], v)
    <3>1. /\ n[1] \in Ports /\ n[2] \in 1..Width[n[1]] /\ invalue[n[1]] # Nil
          /\ value[n[1]] # Nil /\ Within(value[n[1]][n[2]], v)
      BY <2>1, <2>8, <2>9 DEF AllBits, HaveInputs
    <3>2. invalue[n[1]] \in Vector(n[1]) /\ value[n[1]] \in Vector(n[1])
      BY <1>1, <3>1, ValueTyped
    <3>3. Within(invalue[n[1]][n[2]], value[n[1]][n[2]])
      <4>1. WithinVector(invalue[n[1]], value[n[1]])
        BY <1>1, <3>1 DEF Spread
      <4>2. n[2] \in DOMAIN value[n[1]]
        BY <3>1, <3>2 DEF Vector
      <4>. QED  BY <4>1, <4>2 DEF WithinVector
    <3>4. invalue[n[1]][n[2]] \in Bit /\ value[n[1]][n[2]] \in Bit
      BY <3>1, <3>2 DEF Vector
    <3>. HIDE DEF v
    <3>. QED  BY <2>2, <3>1, <3>3, <3>4, WithinOrder
  <2>10. Within(d, v)
    BY <2>2, <2>3, <2>9
  <2>. HIDE DEF v
  <2>11. v = d
    BY <2>2, <2>3, <2>4, <2>10, WithinOrder
  <2>. QED  BY <2>11 DEF v, d, C
<1>7. value[p] = [i \in 1..Width[p] |-> value[p][i]]
  BY <1>5 DEF Vector
<1>8. Right(p, value[p])
  BY <1>6, <1>7 DEF Right
<1>. QED  BY <1>4, <1>8

LEMMA AllResolvedIsland ==
    ASSUME IslandInv, AllResolved
    PROVE  IslandInv'
<1>1. /\ RunKeeps /\ UNCHANGED <<outvalue, value, flagged, enabled, stack>> /\ phase = "resolve"
      /\ stack = <<>> /\ todo = <<>> /\ phase' = "output" /\ todo' = EndsInOrder
  BY DEF AllResolved, RunKeeps, ports
<1>2. /\ mesh \in DOMAIN Meshes
      /\ Ends' = Ends /\ Branch' = Branch /\ Branches' = Branches /\ Ports' = Ports /\ Width' = Width
      /\ \A x : PortOf(x)' = PortOf(x)
      /\ \A q : Vector(q)' = Vector(q) /\ EndPort(q)' = EndPort(q)
      /\ Circles(rings, LinkedEnds, 2 * linked)'
  BY <1>1, RunFrame
<1>3. EndsInOrder \in Seq(Ends) /\ \A e \in Ends : In(e, EndsInOrder)
  BY <1>2, OrderLists
<1>4. Typed'
  <2>1. Valued(invalue)' /\ Valued(outvalue)' /\ Valued(value)'
    BY <1>1, SameValued DEF IslandInv, Typed, RunKeeps
  <2>. QED  BY <1>1, <1>2, <1>3, <2>1 DEF IslandInv, Typed, RunKeeps, Phases
<1>5. Held'
  BY <1>1, <1>2 DEF IslandInv, Held, RunKeeps
<1>6. /\ \A p : Complete(p)' = Complete(p)
      /\ \A p : \A v : Right(p, v)' = Right(p, v)
  BY <1>1, ResolveFrame
<1>7. ASSUME NEW p \in Ports, value[p] # Nil PROVE \E i \in 1..Len(EndsInOrder) : PortOf(EndsInOrder[i]) = p
  <2>1. PICK e \in Ends : PortOf(e) = p
    BY <1>7 DEF IslandInv, Held, EndPort
  <2>. QED  BY <1>3, <2>1 DEF In
<1>8. ASSUME NEW p \in Ports, EndPort(p), Complete(p) PROVE value[p] # Nil /\ Right(p, value[p])
  BY <1>1, <1>8, AllRight
<1>9. \A p \in Ports' : EndPort(p)' /\ Complete(p)' =>
         Right(p, IF value[p] # Nil THEN value[p] ELSE outvalue[p])'
  <2>1. SUFFICES ASSUME NEW p \in Ports, EndPort(p), Complete(p)
                 PROVE  Right(p, IF value[p] # Nil THEN value[p] ELSE outvalue[p])'
    BY <1>2, <1>6
  <2>2. value'[p] = value[p] /\ value[p] # Nil /\ Right(p, value[p])
    BY <1>1, <1>8, <2>1
  <2>3. Right(p, value[p])'
    BY <1>1, <2>2, <1>6, SameMesh DEF Right
  <2>. QED  BY <2>2, <2>3
<1>10. Sending'
  BY <1>1, <1>2, <1>7, <1>9 DEF Sending
<1>. QED  BY <1>1, <1>2, <1>4, <1>5, <1>10 DEF IslandInv, Resolving, Resting

\* What the island sends is no enable of its branches, so they stay as they are.
LEMMA OutputIsland ==
    ASSUME EnablesApart, IslandInv, run_output
    PROVE  IslandInv'
<1>. DEFINE e == Head(todo)
            p == PortOf(e)
<1>1. /\ RunKeeps /\ UNCHANGED <<flagged, enabled, stack>> /\ phase = "output"
      /\ todo # <<>> /\ todo' = Tail(todo) /\ phase' = (IF Len(todo) = 1 THEN "idle" ELSE "output")
      /\ outvalue' = (IF value[p] = Nil THEN outvalue ELSE [outvalue EXCEPT ![p] = value[p]])
      /\ value' = [value EXCEPT ![p] = Nil]
  BY DEF run_output, RunKeeps
<1>2. /\ mesh \in DOMAIN Meshes
      /\ Ends' = Ends /\ Branch' = Branch /\ Branches' = Branches /\ Ports' = Ports /\ Width' = Width
      /\ \A x : PortOf(x)' = PortOf(x)
      /\ \A q : Vector(q)' = Vector(q) /\ EndPort(q)' = EndPort(q)
      /\ Circles(rings, LinkedEnds, 2 * linked)'
  BY <1>1, RunFrame
<1>3. todo \in Seq(Ends) /\ Valued(value) /\ Valued(outvalue) /\ Valued(invalue) /\ Typed
  BY DEF IslandInv, Typed
<1>4. /\ e \in Ends /\ todo' \in Seq(Ends) /\ Len(todo') = Len(todo) - 1 /\ Len(todo) \in Nat
      /\ todo[1] = e
      /\ \A k \in 1..Len(todo') : todo'[k] = todo[k + 1]
  BY <1>1, <1>3
<1>5. p \in Ports /\ EndPort(p)
  BY <1>2, <1>4, EndTyped DEF EndPort
<1>6. /\ value'[p] = Nil /\ \A q \in Ports : q # p => value'[q] = value[q]
      /\ outvalue'[p] = (IF value[p] = Nil THEN outvalue[p] ELSE value[p])
      /\ \A q \in Ports : q # p => outvalue'[q] = outvalue[q]
      /\ Valued(value') /\ Valued(outvalue')
  <2>1. Valued(value')
    BY <1>1, <1>3, <1>5, ValuedExcept
  <2>2. Valued(outvalue')
    <3>1. value[p] # Nil => value[p] \in Vector(p)
      BY <1>3, <1>5, ValueTyped
    <3>. QED  BY <1>1, <1>3, <1>5, <3>1, ValuedExcept
  <2>. QED  BY <1>1, <1>3, <1>5, <2>1, <2>2 DEF Valued
<1>7. \A b \in Branches : Branch[b].en # NoPort => outvalue'[Branch[b].en] = outvalue[Branch[b].en]
  <2>1. SUFFICES ASSUME NEW b \in Branches, Branch[b].en # NoPort
                 PROVE  Branch[b].en \in Ports /\ Branch[b].en # p
    BY <1>6
  <2>2. Branch[b].en \in Ports
    BY <1>2, <2>1, MeshTyped
  <2>3. Branch[b] \in Range(Branch) /\ Branch[e[1]] \in Range(Branch)
    BY <1>2, <1>4, EndTyped DEF Range, Branches
  <2>4. Branch[b].en \notin {Branch[e[1]].a, Branch[e[1]].b}
    BY <1>2, <2>3 DEF EnablesApart, Branch
  <2>. QED  BY <2>2, <2>4 DEF PortOf
<1>. HIDE DEF e, p
<1>8. \A b \in Branches : Enabled(b)' = Enabled(b)
  BY <1>1, <1>2, <1>7, SameEnabled DEF RunKeeps
<1>9. /\ \A q : Complete(q)' = Complete(q)
      /\ \A q : \A v : Right(q, v)' = Right(q, v)
  BY <1>1, <1>8, SameDriven DEF RunKeeps
<1>10. Typed'
  <2>1. Valued(invalue)' /\ Valued(outvalue)' /\ Valued(value)'
    BY <1>1, <1>3, <1>6, SameValued DEF RunKeeps
  <2>. QED  BY <1>1, <1>2, <1>3, <1>4, <2>1 DEF Typed, RunKeeps, Phases
<1>11. ASSUME NEW q \in Ports, value'[q] # Nil PROVE \E i \in 1..Len(todo') : PortOf(todo'[i]) = q
  <2>1. q # p /\ value[q] # Nil
    BY <1>6, <1>11
  <2>2. PICK i \in 1..Len(todo) : PortOf(todo[i]) = q
    BY <1>1, <1>11, <2>1 DEF IslandInv, Sending
  <2>3. i # 1
    BY <1>4, <2>1, <2>2 DEF p
  <2>4. i - 1 \in 1..Len(todo') /\ todo'[i - 1] = todo[i]
    BY <1>4, <2>2, <2>3
  <2>. QED  BY <2>2, <2>4
<1>12. Len(todo) = 1 => todo' = <<>> /\ \A q \in Ports : value'[q] = Nil
  BY <1>4, <1>11
<1>13. Held'
  <2>1. \A q \in Ports : value'[q] # Nil \/ outvalue'[q] # Nil => EndPort(q)
    BY <1>5, <1>6 DEF IslandInv, Held
  <2>. QED  BY <1>1, <1>2, <1>12, <2>1 DEF IslandInv, Held, RunKeeps
<1>14. ASSUME ~flagged, NEW q \in Ports, EndPort(q), Complete(q)
       PROVE  Right(q, IF value'[q] # Nil THEN value'[q] ELSE outvalue'[q])
  <2>1. Right(q, IF value[q] # Nil THEN value[q] ELSE outvalue[q])
    BY <1>1, <1>14 DEF IslandInv, Sending
  <2>. QED  BY <1>6, <1>14, <2>1
<1>15. ASSUME ~flagged', NEW q \in Ports, EndPort(q)', Complete(q)'
       PROVE  Right(q, IF value[q] # Nil THEN value[q] ELSE outvalue[q])'
  <2>1. Right(q, IF value'[q] # Nil THEN value'[q] ELSE outvalue'[q])
    BY <1>1, <1>2, <1>9, <1>14, <1>15
  <2>. QED  BY <1>9, <2>1 DEF Right
<1>16. Sending'
  BY <1>2, <1>11, <1>15 DEF Sending
<1>17. Resting'
  <2>1. SUFFICES ASSUME phase' = "idle", ~flagged', NEW q \in Ports, EndPort(q)', Complete(q)'
                 PROVE  Right(q, outvalue[q])'
    BY <1>2 DEF Resting
  <2>2. value'[q] = Nil
    BY <1>1, <1>12, <2>1
  <2>. QED  BY <1>15, <2>1, <2>2
<1>. QED  BY <1>1, <1>2, <1>10, <1>13, <1>16, <1>17 DEF IslandInv, Resolving

LEMMA PushIsland ==
    ASSUME IslandInv, push_value_through_branch
    PROVE  IslandInv'
<1>. DEFINE e0 == stack[1].rest[1]
            e == Other(e0)
            src == stack[1].port
            dst == PortOf(e)
            tmp == Across(value[src], e)
            new == IF Present(e) = Nil THEN tmp ELSE ResolvedVector(Present(e), tmp)
            F == [port : Ports, rest : Seq(Ends)]
<1>1. /\ RunKeeps /\ UNCHANGED <<outvalue, flagged, phase, enabled, todo>> /\ phase = "resolve"
      /\ stack # <<>> /\ stack[1].rest # <<>>
      /\ IF ~enabled[e[1]] THEN stack' = Remaining /\ UNCHANGED value
         ELSE /\ value' = [value EXCEPT ![dst] = new]
              /\ stack' = IF Present(e) # Nil /\ new # value[dst]
                          THEN <<Frame(e)>> \o Remaining ELSE Remaining
  BY DEF push_value_through_branch, RunKeeps
<1>2. /\ mesh \in DOMAIN Meshes
      /\ Ends' = Ends /\ Branch' = Branch /\ Branches' = Branches /\ Ports' = Ports /\ Width' = Width
      /\ \A x : PortOf(x)' = PortOf(x)
      /\ \A q : Vector(q)' = Vector(q) /\ EndPort(q)' = EndPort(q)
      /\ \A v, x : Across(v, x)' = Across(v, x)
      /\ Circles(rings, LinkedEnds, 2 * linked)'
  BY <1>1, RunFrame
<1>3. /\ Typed /\ stack \in Seq(F) /\ Valued(value) /\ Valued(invalue)
      /\ Frames /\ Spread /\ Bounded /\ enabled = [b \in Branches |-> Enabled(b)]
  BY <1>1 DEF IslandInv, Typed, Resolving
<1>. HIDE DEF F
<1>4. Len(stack) \in Nat /\ Len(stack) >= 1 /\ \A k \in 1..Len(stack) : stack[k] \in F
  BY <1>1, <1>3
<1>. DEFINE f == stack[1]
            g == [f EXCEPT !.rest = Tail(@)]
<1>5. /\ f.port \in Ports /\ f.rest \in Seq(Ends) /\ Len(f.rest) \in Nat /\ Len(f.rest) >= 1
      /\ f.rest[1] = e0 /\ e0 \in Ends
  <2>1. f \in F
    BY <1>4
  <2>2. f.port \in Ports /\ f.rest \in Seq(Ends)
    BY <2>1 DEF F
  <2>. HIDE DEF f
  <2>. QED  BY <1>1, <2>2 DEF f
<1>6. /\ g \in F /\ g.port = src /\ g.rest = Tail(f.rest)
      /\ Len(g.rest) = Len(f.rest) - 1
      /\ \A i \in 1..Len(g.rest) : g.rest[i] = f.rest[i + 1] /\ i + 1 \in 1..Len(f.rest)
  <2>1. f \in F
    BY <1>4
  <2>2. g \in F /\ g.port = src /\ g.rest = Tail(f.rest)
    <3>1. Tail(f.rest) \in Seq(Ends)
      BY <1>1, <1>5
    <3>. QED  BY <2>1, <3>1 DEF F
  <2>. HIDE DEF f, g
  <2>. QED  BY <1>5, <2>2
<1>7. /\ Remaining \in Seq(F) /\ Len(Remaining) = Len(stack)
      /\ Remaining[1] = g /\ \A k \in 2..Len(stack) : Remaining[k] = stack[k]
  <2>1. Remaining = <<g>> \o Tail(stack)
    BY DEF Remaining
  <2>2. Tail(stack) \in Seq(F) /\ Len(Tail(stack)) = Len(stack) - 1
        /\ \A k \in 1..(Len(stack) - 1) : Tail(stack)[k] = stack[k + 1]
    BY <1>1, <1>3
  <2>. HIDE DEF g
  <2>3. <<g>> \in Seq(F) /\ Len(<<g>>) = 1 /\ <<g>>[1] = g
    BY <1>6
  <2>. QED  BY <1>4, <2>1, <2>2, <2>3
<1>. HIDE DEF g, f
<1>8. /\ PortOf(e0) = src /\ value[src] # Nil /\ src \in Ports /\ dst \in Ports
      /\ e \in Ends /\ Other(e) = e0 /\ e[1] = e0[1] /\ EndPort(dst)
  <2>1. 1 \in 1..Len(stack) /\ 1 \in 1..Len(stack[1].rest)
    BY <1>4, <1>5 DEF f
  <2>2. PortOf(e0) = src /\ value[src] # Nil
    BY <1>3, <2>1 DEF Frames
  <2>. QED  BY <1>2, <1>5, <2>2, EndTyped DEF f, EndPort
<1>9. value[src] \in Vector(src) /\ tmp \in Vector(dst) /\ (Present(e) # Nil => Present(e) \in Vector(dst))
  <2>1. value[src] \in Vector(src)
    BY <1>3, <1>8, ValueTyped
  <2>2. Across(value[src], e) \in Vector(dst)
    BY <1>2, <1>8, <2>1, AcrossJoins
  <2>. QED  BY <1>3, <1>8, <2>1, <2>2, ValueTyped DEF Present
\* The new value is the least with what was there and what comes.
<1>10. /\ new \in Vector(dst) /\ WithinVector(tmp, new)
       /\ Present(e) # Nil => WithinVector(Present(e), new)
       /\ \A i \in 1..Width[dst] : \A u \in Bit :
             Within(tmp[i], u) /\ (Present(e) # Nil => Within(Present(e)[i], u)) => Within(new[i], u)
  <2>. HIDE DEF tmp
  <2>1. CASE Present(e) = Nil
    <3>1. \A i \in 1..Width[dst] : tmp[i] \in Bit
      BY <1>9 DEF Vector
    <3>2. DOMAIN tmp = 1..Width[dst]
      BY <1>9 DEF Vector
    <3>. QED  BY <1>9, <2>1, <3>1, <3>2, WithinOrder DEF WithinVector
  <2>2. CASE Present(e) # Nil
    <3>. DEFINE had == Present(e)
    <3>1. had \in Vector(dst) /\ new = [i \in DOMAIN had |-> Resolved(had[i], tmp[i])]
      BY <1>9, <2>2 DEF ResolvedVector
    <3>. HIDE DEF new, had
    <3>2. \A i \in 1..Width[dst] : had[i] \in Bit /\ tmp[i] \in Bit
      BY <1>9, <3>1 DEF Vector
    <3>3. DOMAIN had = 1..Width[dst] /\ DOMAIN new = 1..Width[dst]
      BY <3>1 DEF Vector
    <3>4. ASSUME NEW i \in 1..Width[dst]
          PROVE  /\ new[i] = Resolved(had[i], tmp[i]) /\ new[i] \in Bit
                 /\ Within(had[i], new[i]) /\ Within(tmp[i], new[i])
                 /\ \A u \in Bit : Within(had[i], u) /\ Within(tmp[i], u) => Within(new[i], u)
      BY <3>1, <3>2, <3>3, ResolvedLeast
    <3>5. new \in Vector(dst)
      BY <3>1, <3>3, <3>4 DEF Vector
    <3>6. WithinVector(had, new) /\ WithinVector(tmp, new)
      BY <3>3, <3>4 DEF WithinVector
    <3>7. \A i \in 1..Width[dst] : \A u \in Bit :
             Within(tmp[i], u) /\ Within(had[i], u) => Within(new[i], u)
      BY <3>4
    <3>8. Present(e) = had /\ had # Nil
      BY <2>2 DEF had
    <3>. QED  BY <3>5, <3>6, <3>7, <3>8
  <2>. QED  BY <2>1, <2>2
<1>11. Nil \notin Vector(dst) /\ \A q \in Ports : Nil \notin Vector(q)
  BY <1>3, <1>8, ValueTyped
<1>. HIDE DEF new, tmp, e0
<1>12. /\ \A x : In(x, todo)' <=> In(x, todo)
       /\ \A x : Reached(x)' <=>
             /\ value'[PortOf(Other(x))] # Nil
             /\ WithinVector(Across(value'[PortOf(x)], Other(x)), value'[PortOf(Other(x))])
       /\ \A x : Pending(x)' <=> \E k \in 1..Len(stack') : stack'[k].port = PortOf(x) /\ In(x, stack'[k].rest)
  BY <1>1, <1>2 DEF In, Reached, Pending, WithinVector, Other
\* Whatever is pending stays so, but for the end that is served.
<1>13. ASSUME NEW x, Pending(x), x # e0
       PROVE  \E k \in 1..Len(Remaining) : Remaining[k].port = PortOf(x) /\ In(x, Remaining[k].rest)
  <2>1. PICK k \in 1..Len(stack) : stack[k].port = PortOf(x) /\ In(x, stack[k].rest)
    BY <1>13 DEF Pending
  <2>2. CASE k = 1
    <3>1. PICK i \in 1..Len(f.rest) : f.rest[i] = x
      BY <2>1, <2>2 DEF In, f
    <3>2. i # 1
      BY <1>5, <1>13, <3>1
    <3>3. i - 1 \in 1..Len(g.rest) /\ g.rest[i - 1] = x
      BY <1>5, <1>6, <3>1, <3>2
    <3>4. In(x, g.rest)
      BY <3>3 DEF In
    <3>5. 1 \in 1..Len(Remaining) /\ Remaining[1].port = PortOf(x)
      BY <1>4, <1>6, <1>7, <2>1, <2>2
    <3>. QED  BY <1>7, <3>4, <3>5
  <2>3. CASE k # 1
    <3>1. k \in 2..Len(stack)
      BY <1>4, <2>1, <2>3
    <3>2. k \in 1..Len(Remaining) /\ Remaining[k] = stack[k]
      BY <1>4, <1>7, <3>1
    <3>. QED  BY <2>1, <3>2
  <2>. QED  BY <2>2, <2>3
\* What is pushed, if the branch is on: values only grow.
<1>14. /\ \A q \in Ports : q # dst => value'[q] = value[q]
       /\ value'[dst] = IF enabled[e[1]] THEN new ELSE value[dst]
       /\ Valued(value')
       /\ stack' = IF enabled[e[1]] /\ Present(e) # Nil /\ new # value[dst]
                   THEN <<Frame(e)>> \o Remaining ELSE Remaining
  <2>1. enabled[e[1]] \in BOOLEAN
    BY <1>2, <1>3, <1>8, EndTyped DEF Typed
  <2>2. CASE enabled[e[1]]
    BY <1>1, <1>3, <1>8, <1>10, <2>2, ValuedExcept DEF Valued
  <2>3. CASE ~enabled[e[1]]
    BY <1>1, <1>3, <2>3
  <2>. QED  BY <2>2, <2>3
<1>15. /\ Frame(e) \in F /\ Frame(e).port = dst
       /\ \A i \in 1..Len(Frame(e).rest) : PortOf(Frame(e).rest[i]) = dst
       /\ \A x \in Ends : PortOf(x) = dst => In(x, Frame(e).rest)
  BY <1>1, <1>8, FrameLists DEF F
<1>. DEFINE Pushes == enabled[e[1]] /\ Present(e) # Nil /\ new # value[dst]
<1>16. /\ stack' \in Seq(F)
       /\ ~Pushes => stack' = Remaining
       /\ Pushes => /\ Len(stack') = Len(Remaining) + 1 /\ stack'[1] = Frame(e)
                    /\ \A k \in 1..Len(Remaining) : stack'[k + 1] = Remaining[k]
  <2>. DEFINE h == Frame(e)
  <2>. HIDE DEF h
  <2>1. h \in F /\ Remaining \in Seq(F)
    BY <1>7, <1>15 DEF h
  <2>2. /\ <<h>> \o Remaining \in Seq(F) /\ Len(<<h>> \o Remaining) = Len(Remaining) + 1
        /\ (<<h>> \o Remaining)[1] = h
        /\ \A k \in 1..Len(Remaining) : (<<h>> \o Remaining)[k + 1] = Remaining[k]
    BY <2>1
  <2>. QED  BY <1>7, <1>14, <2>2 DEF h
<1>. HIDE DEF Pushes
<1>17. Len(Remaining) \in Nat
  BY <1>4, <1>7
<1>18. \A k \in 1..Len(stack') : \/ Pushes /\ k = 1 /\ stack'[k] = Frame(e)
                                 \/ \E l \in 1..Len(Remaining) : stack'[k] = Remaining[l]
  <2>1. CASE Pushes
    <3>1. \A k \in 1..Len(stack') : k # 1 => k - 1 \in 1..Len(Remaining) /\ stack'[k] = Remaining[k - 1]
      <4>1. ASSUME NEW k \in 1..Len(stack'), k # 1
            PROVE  k - 1 \in 1..Len(Remaining) /\ stack'[k] = Remaining[k - 1]
        <5>1. k - 1 \in 1..Len(Remaining) /\ k - 1 + 1 = k
          BY <1>16, <1>17, <2>1, <4>1
        <5>2. stack'[k - 1 + 1] = Remaining[k - 1]
          BY <1>16, <2>1, <5>1
        <5>. QED  BY <5>1, <5>2
      <4>. QED  BY <4>1
    <3>. QED  BY <1>16, <2>1, <3>1
  <2>2. CASE ~Pushes
    BY <1>16, <2>2
  <2>. QED  BY <2>1, <2>2
<1>19. \A l \in 1..Len(Remaining) : \E k \in 1..Len(stack') : stack'[k] = Remaining[l]
  <2>1. CASE Pushes
    <3>1. \A l \in 1..Len(Remaining) : l + 1 \in 1..Len(stack') /\ stack'[l + 1] = Remaining[l]
      BY <1>16, <1>17, <2>1
    <3>. QED  BY <3>1
  <2>2. CASE ~Pushes
    BY <1>16, <2>2
  <2>. QED  BY <2>1, <2>2
<1>20. \A q \in Ports : value[q] # Nil => value'[q] # Nil
  BY <1>10, <1>11, <1>14
<1>21. Typed'
  <2>1. Valued(invalue)' /\ Valued(outvalue)' /\ Valued(value)'
    BY <1>1, <1>3, <1>14, SameValued DEF Typed, RunKeeps
  <2>. QED  BY <1>1, <1>2, <1>3, <1>16, <2>1 DEF Typed, RunKeeps, F
<1>22. Held'
  BY <1>1, <1>2, <1>8, <1>14 DEF IslandInv, Held, RunKeeps
<1>23. Frames'
  <2>1. ASSUME NEW l \in 1..Len(Remaining), NEW i \in 1..Len(Remaining[l].rest)
        PROVE  PortOf(Remaining[l].rest[i]) = Remaining[l].port /\ value[Remaining[l].port] # Nil
               /\ Remaining[l].port \in Ports
    <3>1. \A k \in 1..Len(stack) : stack[k].port \in Ports
      BY <1>4 DEF F
    <3>2. CASE l = 1
      <4>1. Remaining[l] = g /\ g.port = f.port /\ g.rest[i] = f.rest[i + 1] /\ i + 1 \in 1..Len(f.rest)
        BY <1>6, <1>7, <2>1, <3>2 DEF f
      <4>2. 1 \in 1..Len(stack)
        BY <1>4
      <4>. QED  BY <1>3, <3>1, <4>1, <4>2 DEF Frames, f
    <3>3. CASE l # 1
      <4>1. l \in 2..Len(stack) /\ l \in 1..Len(stack)
        BY <1>4, <1>7, <2>1, <3>3
      <4>2. Remaining[l] = stack[l]
        BY <1>7, <4>1
      <4>. QED  BY <1>3, <2>1, <3>1, <4>1, <4>2 DEF Frames
    <3>. QED  BY <3>2, <3>3
  <2>2. ASSUME NEW k \in 1..Len(stack'), NEW i \in 1..Len(stack'[k].rest)
        PROVE  PortOf(stack'[k].rest[i]) = stack'[k].port /\ value'[stack'[k].port] # Nil
    <3>1. CASE Pushes /\ k = 1 /\ stack'[k] = Frame(e)
      <4>1. value'[dst] # Nil
        BY <1>10, <1>11, <1>14, <3>1 DEF Pushes
      <4>. QED  BY <1>15, <2>2, <3>1, <4>1
    <3>2. CASE \E l \in 1..Len(Remaining) : stack'[k] = Remaining[l]
      BY <1>20, <2>1, <2>2, <3>2
    <3>. QED  BY <1>18, <3>1, <3>2
  <2>. QED  BY <1>2, <2>2 DEF Frames

<1>24. Bounded'
  <2>1. ASSUME NEW q \in Ports, value'[q] # Nil, NEW i \in 1..Width[q], NEW u \in Bit,
               \A n \in Component(<<q, i>>) : invalue[n[1]] # Nil => Within(invalue[n[1]][n[2]], u)
        PROVE  Within(value'[q][i], u)
    <3>1. CASE value'[q] = value[q]
      BY <1>3, <2>1, <3>1 DEF Bounded
    <3>2. CASE value'[q] # value[q]
      <4>1. q = dst /\ enabled[e[1]] /\ value'[dst] = new
        BY <1>14, <2>1, <3>2
      <4>2. Enabled(e[1])
        BY <1>2, <1>3, <1>8, <4>1, EndTyped
      <4>3. Within(tmp[i], u)
        <5>1. \/ \E j : Joins(e, j, i) /\ tmp[i] = value[src][j]
              \/ tmp[i] = Z
          BY <1>2, <1>8, <1>9, <2>1, <4>1, AcrossJoins DEF tmp
        <5>2. ASSUME NEW j, Joins(e, j, i), tmp[i] = value[src][j] PROVE Within(tmp[i], u)
          <6>1. Component(<<src, j>>) = Component(<<dst, i>>)
            <7>1. Component(<<PortOf(Other(e)), j>>) = Component(<<PortOf(e), i>>)
              BY <1>2, <1>8, <4>2, <5>2, JoinedTogether
            <7>. QED  BY <1>8, <7>1
          <6>2. j \in 1..Width[src]
            BY <1>8, <5>2 DEF Joins
          <6>3. Within(value[src][j], u)
            BY <1>3, <1>8, <2>1, <4>1, <6>1, <6>2 DEF Bounded
          <6>. QED  BY <5>2, <6>3
        <5>3. Within(Z, u)
          BY <2>1, WithinOrder
        <5>. QED  BY <5>1, <5>2, <5>3
      <4>4. Present(e) # Nil => Within(Present(e)[i], u)
        <5>1. CASE value[dst] # Nil
          <6>1. Within(value[dst][i], u)
            BY <1>3, <1>8, <2>1, <4>1, <5>1 DEF Bounded
          <6>. QED  BY <5>1, <6>1 DEF Present
        <5>2. CASE value[dst] = Nil
          <6>1. <<dst, i>> \in AllBits
            BY <1>8, <2>1, <4>1 DEF AllBits
          <6>2. <<dst, i>> \in Component(<<dst, i>>)
            BY <6>1 DEF Component
          <6>3. invalue[dst] # Nil => Within(invalue[dst][i], u)
            BY <2>1, <4>1, <6>2
          <6>. QED  BY <5>2, <6>3 DEF Present
        <5>. QED  BY <5>1, <5>2
      <4>5. i \in 1..Width[dst] /\ u \in Bit
        BY <2>1, <4>1
      <4>6. Within(new[i], u)
        BY <1>10, <4>3, <4>4, <4>5
      <4>. QED  BY <4>1, <4>6
    <3>. QED  BY <3>1, <3>2
  <2>2. \A bit : Component(bit)' = Component(bit)
    BY <1>1, ResolveFrame
  <2>. QED  BY <1>1, <1>2, <2>1, <2>2 DEF Bounded, RunKeeps, Within
<1>25. ASSUME NEW q \in Ports, value[q] # Nil
       PROVE  \A i \in 1..Width[q] : /\ Within(value[q][i], value'[q][i])
                                     /\ value[q][i] \in Bit /\ value'[q][i] \in Bit
  <2>1. value[q] \in Vector(q) /\ value'[q] \in Vector(q)
    BY <1>3, <1>14, <1>20, <1>25, ValueTyped DEF Valued
  <2>2. \A i \in 1..Width[q] : value[q][i] \in Bit /\ value'[q][i] \in Bit
    BY <2>1 DEF Vector
  <2>3. CASE value'[q] = value[q]
    BY <2>2, <2>3, WithinOrder
  <2>4. CASE value'[q] # value[q]
    <3>1. q = dst /\ value'[q] = new /\ Present(e) = value[q]
      BY <1>14, <1>25, <2>4 DEF Present
    <3>2. WithinVector(value[q], value'[q]) /\ DOMAIN value'[q] = 1..Width[q]
      BY <1>10, <1>25, <2>1, <3>1 DEF Vector
    <3>. QED  BY <2>2, <3>2 DEF WithinVector
  <2>. QED  BY <2>3, <2>4
\* What has been reached stays so where it came from a port that did not change.
<1>26. ASSUME NEW x \in Ends, Reached(x), value'[PortOf(x)] = value[PortOf(x)], value[PortOf(x)] # Nil
       PROVE  Reached(x)'
  <2>. DEFINE to == PortOf(Other(x))
              a == Across(value[PortOf(x)], Other(x))
  <2>1. to \in Ports /\ PortOf(x) \in Ports /\ Other(x) \in Ends /\ Other(Other(x)) = x
    BY <1>2, <1>26, EndTyped
  <2>2. value[to] # Nil /\ WithinVector(a, value[to])
    BY <1>26 DEF Reached
  <2>3. value[to] \in Vector(to) /\ value'[to] \in Vector(to) /\ value'[to] # Nil
    BY <1>3, <1>14, <1>20, <2>1, <2>2, ValueTyped DEF Valued
  <2>4. a \in Vector(to)
    <3>1. value[PortOf(x)] \in Vector(PortOf(x))
      BY <1>3, <1>26, <2>1, ValueTyped
    <3>. QED  BY <1>2, <2>1, <3>1, AcrossJoins
  <2>. HIDE DEF a
  <2>5. ASSUME NEW i \in DOMAIN value'[to] PROVE Within(a[i], value'[to][i])
    <3>1. i \in 1..Width[to] /\ i \in DOMAIN value[to]
      BY <2>3, <2>5 DEF Vector
    <3>2. Within(a[i], value[to][i])
      BY <2>2, <3>1 DEF WithinVector
    <3>3. a[i] \in Bit
      BY <2>4, <3>1 DEF Vector
    <3>4. Within(value[to][i], value'[to][i]) /\ value[to][i] \in Bit /\ value'[to][i] \in Bit
      BY <1>25, <2>1, <2>2, <3>1
    <3>. QED  BY <3>2, <3>3, <3>4, WithinOrder
  <2>6. WithinVector(a, value'[to])
    BY <2>5 DEF WithinVector
  <2>. QED  BY <1>12, <1>26, <2>3, <2>6 DEF a
\* The end that is served has been reached, if it has the value it had.
<1>27. ASSUME NEW x, x = e0, enabled[e[1]], src # dst PROVE Reached(x)'
  <2>1. value'[src] = value[src] /\ value'[dst] = new /\ new # Nil
    BY <1>8, <1>10, <1>11, <1>14, <1>27
  <2>2. PortOf(Other(x)) = dst /\ PortOf(x) = src /\ Other(x) = e
    BY <1>2, <1>5, <1>8, <1>27 DEF e0
  <2>3. Across(value'[PortOf(x)], Other(x)) = tmp
    BY <2>1, <2>2 DEF tmp
  <2>. QED  BY <1>10, <1>12, <2>1, <2>2, <2>3
<1>28. ASSUME NEW x \in Ends, invalue[PortOf(x)] # Nil
       PROVE  \/ value'[PortOf(x)] = Nil /\ In(x, todo)
              \/ value'[PortOf(x)] # Nil /\ (enabled[x[1]] => Reached(x)' \/ Pending(x)')
  <2>1. PortOf(x) \in Ports
    BY <1>2, <1>28, EndTyped
  <2>2. CASE value[PortOf(x)] = Nil
    <3>1. In(x, todo)
      BY <1>3, <1>28, <2>2 DEF Spread
    <3>2. CASE value'[PortOf(x)] = Nil
      BY <3>1, <3>2
    <3>3. CASE value'[PortOf(x)] # Nil
      <4>1. PortOf(x) = dst /\ enabled[e[1]] /\ value'[dst] = new
        BY <1>14, <2>1, <2>2, <3>3
      <4>2. Pushes
        BY <1>10, <1>11, <1>28, <2>2, <4>1 DEF Pushes, Present
      <4>3. In(x, stack'[1].rest) /\ stack'[1].port = dst /\ 1 \in 1..Len(stack')
        BY <1>15, <1>16, <1>17, <1>28, <4>1, <4>2
      <4>. QED  BY <1>12, <3>3, <4>1, <4>3
    <3>. QED  BY <3>2, <3>3
  <2>3. CASE value[PortOf(x)] # Nil
    <3>1. value'[PortOf(x)] # Nil
      BY <1>20, <2>1, <2>3
    <3>2. CASE Pushes /\ PortOf(x) = dst
      <4>1. In(x, stack'[1].rest) /\ stack'[1].port = dst /\ 1 \in 1..Len(stack')
        BY <1>15, <1>16, <1>17, <1>28, <3>2
      <4>. QED  BY <1>12, <3>1, <3>2, <4>1
    <3>3. CASE ~(Pushes /\ PortOf(x) = dst)
      <4>1. value'[PortOf(x)] = value[PortOf(x)]
        BY <1>14, <2>1, <2>3, <3>3 DEF Pushes, Present
      <4>2. SUFFICES ASSUME enabled[x[1]] PROVE Reached(x)' \/ Pending(x)'
        BY <3>1
      <4>3. Reached(x) \/ Pending(x)
        BY <1>3, <1>28, <2>3, <4>2 DEF Spread
      <4>4. CASE Reached(x)
        BY <1>26, <1>28, <2>3, <4>1, <4>4
      <4>5. CASE Pending(x) /\ x # e0
        <5>1. PICK l \in 1..Len(Remaining) : Remaining[l].port = PortOf(x) /\ In(x, Remaining[l].rest)
          BY <1>13, <4>5
        <5>2. PICK k \in 1..Len(stack') : stack'[k] = Remaining[l]
          BY <1>19
        <5>. QED  BY <1>12, <5>1, <5>2
      <4>6. CASE x = e0
        <5>1. enabled[e[1]] /\ PortOf(x) = src
          BY <1>8, <4>2, <4>6
        <5>2. CASE src # dst
          BY <1>27, <4>6, <5>1, <5>2
        <5>3. CASE src = dst
          <6>1. value'[dst] = new /\ new = value[dst]
            BY <1>14, <4>1, <5>1, <5>3
          <6>2. PortOf(Other(e0)) = dst /\ PortOf(e0) = src /\ Other(e0) = e
            BY <1>2, <1>5, <1>8 DEF e0
          <6>. QED  BY <1>8, <1>10, <1>12, <4>6, <5>3, <6>1, <6>2 DEF tmp
        <5>. QED  BY <5>2, <5>3
      <4>. QED  BY <4>3, <4>4, <4>5, <4>6
    <3>. QED  BY <3>2, <3>3
  <2>. QED  BY <2>2, <2>3
<1>29. ASSUME NEW q \in Ports, value'[q] # Nil, invalue[q] # Nil
       PROVE  WithinVector(invalue[q], value'[q])
  <2>1. invalue[q] \in Vector(q) /\ value'[q] \in Vector(q)
    BY <1>3, <1>14, <1>29, ValueTyped DEF Valued
  <2>2. CASE value[q] # Nil
    <3>1. WithinVector(invalue[q], value[q]) /\ value[q] \in Vector(q)
      BY <1>3, <1>29, <2>2, ValueTyped DEF Spread
    <3>2. ASSUME NEW i \in 1..Width[q] PROVE Within(invalue[q][i], value'[q][i])
      <4>1. Within(invalue[q][i], value[q][i]) /\ invalue[q][i] \in Bit
        BY <2>1, <3>1, <3>2 DEF WithinVector, Vector
      <4>2. Within(value[q][i], value'[q][i]) /\ value[q][i] \in Bit /\ value'[q][i] \in Bit
        BY <1>25, <2>2, <3>2
      <4>. QED  BY <4>1, <4>2, WithinOrder
    <3>3. DOMAIN value'[q] = 1..Width[q]
      BY <2>1 DEF Vector
    <3>. QED  BY <3>2, <3>3 DEF WithinVector
  <2>3. CASE value[q] = Nil
    <3>1. q = dst /\ value'[q] = new /\ Present(e) = invalue[q]
      BY <1>14, <1>29, <2>3 DEF Present
    <3>. QED  BY <1>10, <1>29, <3>1
  <2>. QED  BY <2>2, <2>3
<1>30. Spread'
  <2>1. \A x \in Ends : invalue'[PortOf(x)'] # Nil =>
           \/ value'[PortOf(x)'] = Nil /\ In(x, todo)'
           \/ value'[PortOf(x)'] # Nil /\ (enabled'[x[1]] => Reached(x)' \/ Pending(x)')
    BY <1>1, <1>2, <1>12, <1>28 DEF RunKeeps
  <2>. QED  BY <1>1, <1>2, <1>29, <2>1 DEF Spread, RunKeeps, WithinVector, Within
<1>31. Resolving'
  BY <1>1, <1>23, <1>24, <1>30, ResolveFrame DEF Resolving
<1>. QED  BY <1>1, <1>2, <1>21, <1>22, <1>31 DEF IslandInv, Sending, Resting

-----------------------------------------------------------------------------
(* The theorems.                                                           *)

LEMMA StutterIsland ==
    ASSUME IslandInv, UNCHANGED vars
    PROVE  IslandInv'
<1>1. RunKeeps /\ UNCHANGED <<outvalue, value, flagged, phase, enabled, todo, stack>>
  BY DEF vars, ports, RunKeeps
<1>2. /\ mesh \in DOMAIN Meshes
      /\ Ends' = Ends /\ Branch' = Branch /\ Branches' = Branches /\ Ports' = Ports /\ Width' = Width
      /\ \A x : PortOf(x)' = PortOf(x)
      /\ \A q : Vector(q)' = Vector(q) /\ EndPort(q)' = EndPort(q)
      /\ \A v, x : Across(v, x)' = Across(v, x)
      /\ Circles(rings, LinkedEnds, 2 * linked)'
  BY <1>1, RunFrame
<1>3. Typed'
  <2>1. Valued(invalue)' /\ Valued(outvalue)' /\ Valued(value)'
    BY <1>1, SameValued DEF IslandInv, Typed, RunKeeps
  <2>. QED  BY <1>1, <1>2, <2>1 DEF IslandInv, Typed, RunKeeps
<1>4. Held'
  BY <1>1, <1>2 DEF IslandInv, Held, RunKeeps
<1>5. \A b \in Branches : Enabled(b)' = Enabled(b)
  BY <1>1, <1>2 DEF Enabled, RunKeeps
<1>6. /\ \A q : Complete(q)' = Complete(q)
      /\ \A q : \A v : Right(q, v)' = Right(q, v)
      /\ \A bit : Component(bit)' = Component(bit)
  BY <1>1, <1>5, SameDriven, SameComponents DEF RunKeeps
<1>7. Resolving'
  <2>1. SUFFICES ASSUME phase = "resolve" PROVE Resolving'
    BY <1>1 DEF Resolving
  <2>2. Frames' /\ Bounded' /\ enabled' = [b \in Branches |-> Enabled(b)]'
    BY <1>1, <1>2, <1>5, <1>6, <2>1 DEF IslandInv, Resolving, Frames, Bounded, RunKeeps
  <2>3. \A e : Reached(e)' = Reached(e) /\ In(e, todo)' = In(e, todo) /\ Pending(e)' = Pending(e)
    BY <1>1, <1>2, SameMesh DEF Reached, WithinVector, In, Other, Pending
  <2>4. Spread'
    BY <1>1, <1>2, <2>1, <2>3 DEF IslandInv, Resolving, Spread, RunKeeps, WithinVector
  <2>. QED  BY <2>2, <2>4 DEF Resolving
<1>8. Sending' /\ Resting'
  <2>1. \A q : /\ Right(q, outvalue[q])' = Right(q, outvalue[q])
               /\ Right(q, IF value[q] # Nil THEN value[q] ELSE outvalue[q])'
                    = Right(q, IF value[q] # Nil THEN value[q] ELSE outvalue[q])
    BY <1>1, <1>6 DEF Right
  <2>. QED  BY <1>1, <1>2, <1>6, <2>1 DEF IslandInv, Sending, Resting
<1>. QED  BY <1>2, <1>3, <1>4, <1>7, <1>8 DEF IslandInv

\* The invariant of an island holds in every state, for every mesh in which no
\* branch ends at an enable.
THEOREM IslandInvariant ==
    ASSUME EnablesApart
    PROVE  Spec => []IslandInv
<1>1. Init => IslandInv
  BY InitIsland
<1>2. IslandInv /\ [Next]_vars => IslandInv'
  <2>. SUFFICES ASSUME IslandInv, [Next]_vars PROVE IslandInv'
    OBVIOUS
  <2>1. CASE add_branch
    BY <2>1, AddBranchIsland
  <2>2. CASE compile_cleanup
    BY <2>2, CleanupIsland
  <2>3. CASE recv_vec8 \/ recv_vec4_pv
    BY <2>3, RecvIsland
  <2>4. CASE run_run
    BY <2>4, RunIsland
  <2>5. CASE run_resolution
    BY <2>5, ResolutionIsland
  <2>6. CASE push_value_through_branch
    BY <2>6, PushIsland
  <2>7. CASE Return
    BY <2>7, ReturnIsland
  <2>8. CASE AllResolved
    BY <2>8, AllResolvedIsland
  <2>9. CASE run_output
    BY <2>9, OutputIsland
  <2>10. CASE UNCHANGED vars
    BY <2>10, StutterIsland
  <2>. QED
    BY <2>1, <2>2, <2>3, <2>4, <2>5, <2>6, <2>7, <2>8, <2>9, <2>10 DEF Next, run_island
<1>. QED  BY <1>1, <1>2, PTL DEF Spec

\* At rest every port has been sent what all the drivers it is connected with
\* make: whatever the mesh, its cycles and part selects, the order of its
\* branches and of the inputs, and inputs that come while the island sends.
THEOREM IslandAlwaysSettled ==
    ASSUME EnablesApart
    PROVE  Spec => []MeshSettled
<1>1. IslandInv => MeshSettled
  <2>. SUFFICES ASSUME IslandInv, phase = "idle", ~flagged PROVE MeshSettled
    BY DEF MeshSettled
  <2>1. mesh \in DOMAIN Meshes /\ Resting
    BY DEF IslandInv, Typed
  <2>. DEFINE connected == Connected
  <2>2. connected = [bit \in AllBits |-> Component(bit)]
    BY <2>1, ConnectedComponents
  <2>. HIDE DEF connected
  <2>3. ASSUME NEW e \in Ends,
               \A i \in 1..Width[PortOf(e)] : \A n \in connected[<<PortOf(e), i>>] : invalue[n[1]] # Nil
        PROVE  outvalue[PortOf(e)] = [i \in 1..Width[PortOf(e)] |-> Driven(connected[<<PortOf(e), i>>])]
    <3>. DEFINE p == PortOf(e)
    <3>1. p \in Ports /\ EndPort(p)
      BY <2>1, <2>3, EndTyped DEF EndPort
    <3>2. \A i \in 1..Width[p] : connected[<<p, i>>] = Component(<<p, i>>)
      BY <2>2, <3>1 DEF AllBits
    <3>. HIDE DEF p
    <3>3. Complete(p)
      BY <2>3, <3>2 DEF Complete, p
    <3>4. Right(p, outvalue[p])
      BY <2>1, <3>1, <3>3 DEF Resting
    <3>5. outvalue[p] = [i \in 1..Width[p] |-> Driven(connected[<<p, i>>])]
      BY <3>2, <3>4 DEF Right
    <3>. QED  BY <3>5 DEF p
  <2>. QED  BY <2>3 DEF MeshSettled, connected
<1>. QED  BY <1>1, IslandInvariant, PTL

=============================================================================
