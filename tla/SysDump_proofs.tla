---------------------------- MODULE SysDump_proofs ----------------------------
(***************************************************************************)
(* A waveform file tells the values the signals had, and declares what was *)
(* asked for, for every design, any calls and any number of changes.       *)
(***************************************************************************)
EXTENDS SysDump, FiniteSetTheorems, SequenceTheorems, WellFoundedInduction, TLAPS

-----------------------------------------------------------------------------
(* The tables of $dumpvars.                                                *)

Declaration == [name : Signals, ident : Nat]
Info == [item : Signals, ident : Nat]
NameTable == [listed : SUBSET Scopes, sorted : SUBSET Scopes]
Tables == [declared : Seq(Declaration), vcd_list : Seq(Info), vcd_tab : NameTable,
           vcd_var : SUBSET Signals, vcd_ids : SUBSET (Nets \X Nat)]

Names(s) == {d.name : d \in Range(s.declared)}
Given(s) == {d.ident : d \in Range(s.declared)}

\* No name is declared twice, and the idents are the first numbers.
Counted(s) ==
    /\ Len(s.declared) = Cardinality(Names(s))
    /\ \E m \in Nat : Given(s) = 1..m

\* The cache has the idents of the nets of one bit, which alone are shared.
SharedByNet(D) ==
    \A d, e \in D : d.ident = e.ident <=> d.name = e.name \/ Nexus(d.name) \cap Nexus(e.name) # {}

Shared(s) ==
    /\ SharedByNet(Range(s.declared))
    /\ s.vcd_ids = UNION {Nexus(d.name) \X {d.ident} : d \in Range(s.declared)}

\* Each ident has one info.
Covered(s) ==
    /\ \A i \in Given(s) : \E k \in DOMAIN s.vcd_list : s.vcd_list[k].ident = i
    /\ \A k \in DOMAIN s.vcd_list : s.vcd_list[k].ident \in Given(s) \cup {NoIdent}
    /\ \A j, k \in DOMAIN s.vcd_list :
          s.vcd_list[j].ident = s.vcd_list[k].ident /\ s.vcd_list[j].ident # NoIdent => j = k

Sound(s) == s \in Tables /\ Counted(s) /\ Shared(s) /\ Covered(s)

\* A longer sequence.
LEMMA RangeAppend ==
    ASSUME NEW S, NEW q \in Seq(S), NEW x \in S
    PROVE  /\ Append(q, x) \in Seq(S) /\ Len(Append(q, x)) = Len(q) + 1 /\ Len(q) \in Nat
           /\ DOMAIN q = 1..Len(q) /\ DOMAIN Append(q, x) = 1..(Len(q) + 1)
           /\ Append(q, x)[Len(q) + 1] = x
           /\ \A k \in 1..Len(q) : Append(q, x)[k] = q[k]
           /\ Range(Append(q, x)) = Range(q) \cup {x}
<1>1. /\ Append(q, x) \in Seq(S) /\ Len(Append(q, x)) = Len(q) + 1 /\ Len(q) \in Nat
      /\ DOMAIN q = 1..Len(q) /\ DOMAIN Append(q, x) = 1..(Len(q) + 1)
      /\ Append(q, x)[Len(q) + 1] = x
      /\ \A k \in 1..Len(q) : Append(q, x)[k] = q[k]
  OBVIOUS
<1>. DEFINE r == Append(q, x)
<1>. HIDE DEF r
<1>2. Range(r) = Range(q) \cup {x}
  <2>1. ASSUME NEW y \in Range(r) PROVE y \in Range(q) \cup {x}
    <3>1. PICK k \in 1..(Len(q) + 1) : y = r[k]
      BY <1>1, <2>1 DEF Range, r
    <3>2. CASE k = Len(q) + 1
      BY <1>1, <3>1, <3>2 DEF r
    <3>3. CASE k # Len(q) + 1
      <4>1. k \in 1..Len(q)
        BY <1>1, <3>1, <3>3
      <4>. QED  BY <1>1, <3>1, <4>1 DEF Range, r
    <3>. QED  BY <3>2, <3>3
  <2>2. ASSUME NEW y \in Range(q) PROVE y \in Range(r)
    <3>1. PICK k \in 1..Len(q) : y = q[k]
      BY <1>1, <2>2 DEF Range
    <3>2. k \in 1..(Len(q) + 1)
      BY <1>1, <3>1
    <3>. QED  BY <1>1, <3>1, <3>2 DEF Range, r
  <2>3. x \in Range(r)
    <3>1. Len(q) + 1 \in 1..(Len(q) + 1)
      BY <1>1
    <3>. QED  BY <1>1, <3>1 DEF Range, r
  <2>. QED  BY <2>1, <2>2, <2>3
<1>. QED  BY <1>1, <1>2 DEF r

\* What a range of a sequence is taken from.
LEMMA RangeOf ==
    ASSUME NEW S, NEW q \in Seq(S)
    PROVE  /\ Range(q) \subseteq S /\ DOMAIN q = 1..Len(q) /\ Len(q) \in Nat
           /\ \A k \in 1..Len(q) : q[k] \in S /\ q[k] \in Range(q)
           /\ \A y \in Range(q) : \E k \in 1..Len(q) : q[k] = y
  BY DEF Range

\* The names are a finite set of signals.
LEMMA NamesFinite ==
    ASSUME NEW s \in Tables
    PROVE  /\ Range(s.declared) \subseteq Declaration
           /\ Names(s) \subseteq Signals /\ IsFiniteSet(Names(s))
           /\ Given(s) \subseteq Nat
<1>1. s.declared \in Seq(Declaration)
  BY DEF Tables
<1>2. Range(s.declared) \subseteq Declaration
  BY <1>1, RangeOf
<1>3. Names(s) \subseteq Signals /\ Given(s) \subseteq Nat
  BY <1>2 DEF Names, Given, Declaration
<1>. QED  BY <1>2, <1>3, FS_Subset, DesignAssumption

\* The idents found in the cache.
Found(s, item) == {p[2] : p \in {q \in s.vcd_ids : q[1] \in Nexus(item)}}

LEMMA FoundIdents ==
    ASSUME NEW s, Sound(s), NEW item \in Signals
    PROVE  /\ \A i : i \in Found(s, item) <=>
                 \E d \in Range(s.declared) : d.ident = i /\ Nexus(d.name) \cap Nexus(item) # {}
           /\ Nexus(item) # {} => Nexus(item) = {Net[item]}
<1>1. s.vcd_ids = UNION {Nexus(d.name) \X {d.ident} : d \in Range(s.declared)}
  BY DEF Sound, Shared
<1>. SUFFICES ASSUME NEW i
              PROVE  i \in Found(s, item) <=>
                 \E d \in Range(s.declared) : d.ident = i /\ Nexus(d.name) \cap Nexus(item) # {}
  BY DEF Nexus
<1>2. ASSUME i \in Found(s, item)
      PROVE  \E d \in Range(s.declared) : d.ident = i /\ Nexus(d.name) \cap Nexus(item) # {}
  <2>1. PICK p \in s.vcd_ids : p[1] \in Nexus(item) /\ i = p[2]
    BY <1>2 DEF Found
  <2>2. PICK d \in Range(s.declared) : p \in Nexus(d.name) \X {d.ident}
    BY <1>1, <2>1
  <2>. QED  BY <2>1, <2>2
<1>3. ASSUME NEW d \in Range(s.declared), d.ident = i, Nexus(d.name) \cap Nexus(item) # {}
      PROVE  i \in Found(s, item)
  <2>1. PICK n : n \in Nexus(d.name) /\ n \in Nexus(item)
    BY <1>3
  <2>2. <<n, i>> \in s.vcd_ids
    BY <1>1, <1>3, <2>1
  <2>. DEFINE p == <<n, i>>
  <2>3. p \in s.vcd_ids /\ p[1] = n /\ p[2] = i
    BY <2>2
  <2>. HIDE DEF p
  <2>. QED  BY <2>1, <2>3 DEF Found
<1>. QED  BY <1>2, <1>3

\* The ident of a new name: that of its net, or a new one.
IdentFor(s, item, i) ==
    \/ i \in Found(s, item)
    \/ Found(s, item) = {} /\ \E m \in Nat : Given(s) = 1..m /\ i = m + 1

\* A name is declared, with a new ident or with that of its net.
LEMMA DeclareNew ==
    ASSUME NEW s, Sound(s), NEW item \in Signals, item \notin Names(s), NEW i \in Nat,
           NEW r \in Tables, r.declared = Append(s.declared, [name |-> item, ident |-> i]),
           IdentFor(s, item, i)
    PROVE  /\ Counted(r)
           /\ Names(r) = Names(s) \cup {item}
           /\ Given(r) = Given(s) \cup {i}
           /\ SharedByNet(Range(r.declared))
<1>. DEFINE new == [name |-> item, ident |-> i]
<1>1. /\ s \in Tables /\ s.declared \in Seq(Declaration) /\ new \in Declaration
      /\ new.name = item /\ new.ident = i
  BY DEF Sound, Tables, Declaration
<1>. HIDE DEF new
<1>2. /\ Range(r.declared) = Range(s.declared) \cup {new}
      /\ Len(r.declared) = Len(s.declared) + 1
  BY <1>1, RangeAppend DEF new
<1>3. Names(r) = Names(s) \cup {item} /\ Given(r) = Given(s) \cup {i}
  BY <1>1, <1>2 DEF Names, Given
<1>4. Len(r.declared) = Cardinality(Names(r))
  <2>1. IsFiniteSet(Names(s)) /\ Len(s.declared) = Cardinality(Names(s))
    BY <1>1, NamesFinite DEF Sound, Counted
  <2>2. Cardinality(Names(s) \cup {item}) = Cardinality(Names(s)) + 1
    BY <2>1, FS_AddElement
  <2>. QED  BY <1>2, <1>3, <2>1, <2>2
<1>5. \A j : j \in Found(s, item) <=>
          \E d \in Range(s.declared) : d.ident = j /\ Nexus(d.name) \cap Nexus(item) # {}
  BY FoundIdents
<1>6. \E m \in Nat : Given(r) = 1..m
  <2>1. CASE i \in Found(s, item)
    <3>1. i \in Given(s)
      BY <1>5, <2>1 DEF Given
    <3>. QED  BY <1>3, <3>1 DEF Sound, Counted
  <2>2. CASE \E m \in Nat : Given(s) = 1..m /\ i = m + 1
    <3>1. PICK m \in Nat : Given(s) = 1..m /\ i = m + 1
      BY <2>2
    <3>2. Given(r) = 1..(m + 1) /\ m + 1 \in Nat
      BY <1>3, <3>1
    <3>. QED  BY <3>2
  <2>. QED  BY <2>1, <2>2 DEF IdentFor
<1>7. ASSUME NEW d \in Range(s.declared)
      PROVE  /\ d.name # item
             /\ d.ident = i <=> Nexus(d.name) \cap Nexus(item) # {}
  <2>1. d.name \in Names(s) /\ d.ident \in Given(s) /\ d.name \in Signals
    BY <1>1, <1>7, NamesFinite DEF Names, Given, Declaration
  <2>2. CASE Found(s, item) = {} /\ \E m \in Nat : Given(s) = 1..m /\ i = m + 1
    <3>1. d.ident # i
      BY <2>1, <2>2
    <3>2. Nexus(d.name) \cap Nexus(item) = {}
      BY <1>5, <2>2
    <3>. QED  BY <2>1, <3>1, <3>2
  <2>3. CASE i \in Found(s, item)
    <3>1. PICK e \in Range(s.declared) : e.ident = i /\ Nexus(e.name) \cap Nexus(item) # {}
      BY <1>5, <2>3
    <3>2. d.ident = e.ident <=> d.name = e.name \/ Nexus(d.name) \cap Nexus(e.name) # {}
      BY <1>7, <3>1 DEF Sound, Shared, SharedByNet
    <3>3. Nexus(e.name) = Nexus(item)
      BY <3>1 DEF Nexus
    <3>. QED  BY <2>1, <3>1, <3>2, <3>3
  <2>. QED  BY <2>2, <2>3 DEF IdentFor
<1>8. ASSUME NEW d \in Range(r.declared), NEW e \in Range(r.declared)
      PROVE  d.ident = e.ident <=> d.name = e.name \/ Nexus(d.name) \cap Nexus(e.name) # {}
  <2>1. CASE d \in Range(s.declared) /\ e \in Range(s.declared)
    BY <2>1 DEF Sound, Shared, SharedByNet
  <2>2. CASE d = new /\ e = new
    BY <2>2
  <2>3. CASE d \in Range(s.declared) /\ e = new
    BY <1>1, <1>7, <2>3
  <2>4. CASE e \in Range(s.declared) /\ d = new
    <3>1. Nexus(e.name) \cap Nexus(item) = Nexus(item) \cap Nexus(e.name)
      OBVIOUS
    <3>. QED  BY <1>1, <1>7, <2>4, <3>1
  <2>. QED  BY <1>2, <1>8, <2>1, <2>2, <2>3, <2>4
<1>. QED  BY <1>3, <1>4, <1>6, <1>8 DEF Counted, SharedByNet

\* Appending an info keeps the others where they are.
LEMMA CoverMore ==
    ASSUME NEW s, Sound(s), NEW item \in Signals, NEW i \in Nat, i \notin Given(s),
           NEW r \in Tables, r.vcd_list = Append(s.vcd_list, [item |-> item, ident |-> i]),
           IF i = NoIdent THEN Given(r) = Given(s) ELSE Given(r) = Given(s) \cup {i}
    PROVE  Covered(r)
<1>. DEFINE new == [item |-> item, ident |-> i]
            q == s.vcd_list
<1>1. /\ q \in Seq(Info) /\ new \in Info /\ new.ident = i
      /\ Covered(s)
  BY DEF Sound, Tables, Info
<1>. HIDE DEF new
<1>2. /\ DOMAIN q = 1..Len(q) /\ DOMAIN r.vcd_list = 1..(Len(q) + 1) /\ Len(q) \in Nat
      /\ r.vcd_list[Len(q) + 1] = new
      /\ \A k \in 1..Len(q) : r.vcd_list[k] = q[k]
  BY <1>1, RangeAppend DEF new
<1>3. \A k \in 1..Len(q) : k \in DOMAIN r.vcd_list /\ r.vcd_list[k] = q[k]
  BY <1>2
<1>4. Len(q) + 1 \in DOMAIN r.vcd_list
  BY <1>2
<1>5. \A k \in DOMAIN r.vcd_list : k \in 1..Len(q) \/ k = Len(q) + 1
  BY <1>2
<1>6. \A k \in 1..Len(q) : q[k].ident \in Given(s) \cup {NoIdent}
  BY <1>1, <1>2 DEF Covered
<1>7. \A j \in Given(r) : \E k \in DOMAIN r.vcd_list : r.vcd_list[k].ident = j
  <2>1. ASSUME NEW j \in Given(s) PROVE \E k \in DOMAIN r.vcd_list : r.vcd_list[k].ident = j
    <3>1. PICK k \in DOMAIN q : q[k].ident = j
      BY <1>1, <2>1 DEF Covered
    <3>. QED  BY <1>2, <1>3, <3>1
  <2>2. r.vcd_list[Len(q) + 1].ident = i
    BY <1>1, <1>2
  <2>. QED  BY <1>4, <2>1, <2>2
<1>8. \A k \in DOMAIN r.vcd_list : r.vcd_list[k].ident \in Given(r) \cup {NoIdent}
  BY <1>1, <1>2, <1>3, <1>5, <1>6
<1>9. \A j, k \in DOMAIN r.vcd_list :
          r.vcd_list[j].ident = r.vcd_list[k].ident /\ r.vcd_list[j].ident # NoIdent => j = k
  <2>. SUFFICES ASSUME NEW j \in DOMAIN r.vcd_list, NEW k \in DOMAIN r.vcd_list,
                       r.vcd_list[j].ident = r.vcd_list[k].ident, r.vcd_list[j].ident # NoIdent
                PROVE  j = k
    OBVIOUS
  <2>1. CASE j \in 1..Len(q) /\ k \in 1..Len(q)
    BY <1>1, <1>2, <1>3, <2>1 DEF Covered
  <2>2. CASE j \in 1..Len(q) /\ k = Len(q) + 1
    BY <1>1, <1>2, <1>3, <1>6, <2>2
  <2>3. CASE k \in 1..Len(q) /\ j = Len(q) + 1
    BY <1>1, <1>2, <1>3, <1>6, <2>3
  <2>. QED  BY <1>5, <2>1, <2>2, <2>3
<1>. QED  BY <1>7, <1>8, <1>9 DEF Covered

\* Changing fields of the tables.
LEMMA FieldSet ==
    ASSUME NEW a1, NEW a2, NEW a3, NEW a4, NEW a5, NEW x, NEW s,
           s = [declared |-> a1, vcd_list |-> a2, vcd_tab |-> a3, vcd_var |-> a4, vcd_ids |-> a5]
    PROVE  /\ [s EXCEPT !.declared = x]
                = [declared |-> x, vcd_list |-> a2, vcd_tab |-> a3, vcd_var |-> a4, vcd_ids |-> a5]
           /\ [s EXCEPT !.vcd_list = x]
                = [declared |-> a1, vcd_list |-> x, vcd_tab |-> a3, vcd_var |-> a4, vcd_ids |-> a5]
           /\ [s EXCEPT !.vcd_ids = x]
                = [declared |-> a1, vcd_list |-> a2, vcd_tab |-> a3, vcd_var |-> a4, vcd_ids |-> x]
           /\ s.declared = a1 /\ s.vcd_list = a2 /\ s.vcd_tab = a3 /\ s.vcd_var = a4
           /\ s.vcd_ids = a5
  OBVIOUS

LEMMA FieldsOf ==
    ASSUME NEW s \in Tables, NEW a, NEW b, NEW c
    PROVE  /\ [s EXCEPT !.declared = a]
                = [declared |-> a, vcd_list |-> s.vcd_list, vcd_tab |-> s.vcd_tab,
                   vcd_var |-> s.vcd_var, vcd_ids |-> s.vcd_ids]
           /\ [s EXCEPT !.vcd_list = b, !.vcd_ids = c]
                = [declared |-> s.declared, vcd_list |-> b, vcd_tab |-> s.vcd_tab,
                   vcd_var |-> s.vcd_var, vcd_ids |-> c]
           /\ [[s EXCEPT !.declared = a] EXCEPT !.vcd_list = b, !.vcd_ids = c]
                = [declared |-> a, vcd_list |-> b, vcd_tab |-> s.vcd_tab,
                   vcd_var |-> s.vcd_var, vcd_ids |-> c]
<1>1. s = [declared |-> s.declared, vcd_list |-> s.vcd_list, vcd_tab |-> s.vcd_tab,
           vcd_var |-> s.vcd_var, vcd_ids |-> s.vcd_ids]
  BY DEF Tables
<1>2. [s EXCEPT !.declared = a] = [declared |-> a, vcd_list |-> s.vcd_list, vcd_tab |-> s.vcd_tab,
                                   vcd_var |-> s.vcd_var, vcd_ids |-> s.vcd_ids]
  BY <1>1, FieldSet
<1>3. ASSUME NEW r, NEW d, r = [declared |-> d, vcd_list |-> s.vcd_list, vcd_tab |-> s.vcd_tab,
                                vcd_var |-> s.vcd_var, vcd_ids |-> s.vcd_ids]
      PROVE  [r EXCEPT !.vcd_list = b, !.vcd_ids = c]
               = [declared |-> d, vcd_list |-> b, vcd_tab |-> s.vcd_tab,
                  vcd_var |-> s.vcd_var, vcd_ids |-> c]
  <2>1. [r EXCEPT !.vcd_list = b] = [declared |-> d, vcd_list |-> b, vcd_tab |-> s.vcd_tab,
                                     vcd_var |-> s.vcd_var, vcd_ids |-> s.vcd_ids]
    BY <1>3, FieldSet
  <2>. DEFINE u == [r EXCEPT !.vcd_list = b]
  <2>2. [r EXCEPT !.vcd_list = b, !.vcd_ids = c] = [u EXCEPT !.vcd_ids = c]
    OBVIOUS
  <2>. HIDE DEF u
  <2>3. [u EXCEPT !.vcd_ids = c] = [declared |-> d, vcd_list |-> b, vcd_tab |-> s.vcd_tab,
                                    vcd_var |-> s.vcd_var, vcd_ids |-> c]
    <3>1. u = [declared |-> d, vcd_list |-> b, vcd_tab |-> s.vcd_tab,
               vcd_var |-> s.vcd_var, vcd_ids |-> s.vcd_ids]
      BY <2>1 DEF u
    <3>. QED  BY <3>1, FieldSet
  <2>. QED  BY <2>2, <2>3
<1>. QED  BY <1>1, <1>2, <1>3

\* The pairs of one more declaration.
LEMMA PairsMore ==
    ASSUME NEW D, NEW new
    PROVE  UNION {Nexus(d.name) \X {d.ident} : d \in D \cup {new}}
             = (UNION {Nexus(d.name) \X {d.ident} : d \in D}) \cup (Nexus(new.name) \X {new.ident})
<1>. DEFINE pairs(d) == Nexus(d.name) \X {d.ident}
            all(E) == UNION {pairs(d) : d \in E}
<1>1. \A E : \A p : p \in all(E) <=> \E d \in E : p \in pairs(d)
  OBVIOUS
<1>. HIDE DEF pairs, all
<1>2. all(D \cup {new}) = all(D) \cup pairs(new)
  BY <1>1
<1>. QED  BY <1>2 DEF pairs, all

\* The names of r are those of s, and item if it is new.
Adds(s, r, item) == Names(r) = Names(s) \cup {item}

\* An info is made: of a new ident, or of none if a writer knows the name.
LEMMA AddInfoSound ==
    ASSUME NEW s, Sound(s), NEW item \in Signals, Found(s, item) = {},
           KeepsNames => item \notin Names(s)
    PROVE  LET r == AddInfo(s, item)
           IN Sound(r) /\ r.vcd_tab = s.vcd_tab /\ r.vcd_var = s.vcd_var /\ Adds(s, r, item)
<1>. DEFINE r == AddInfo(s, item)
<1>1. /\ s \in Tables /\ s.declared \in Seq(Declaration) /\ s.vcd_list \in Seq(Info)
      /\ s.vcd_ids \subseteq Nets \X Nat
      /\ s = [declared |-> s.declared, vcd_list |-> s.vcd_list, vcd_tab |-> s.vcd_tab,
              vcd_var |-> s.vcd_var, vcd_ids |-> s.vcd_ids]
      /\ s.vcd_tab \in NameTable /\ s.vcd_var \subseteq Signals
  BY DEF Sound, Tables
<1>2. (\E d \in Range(s.declared) : d.name = item) <=> item \in Names(s)
  BY DEF Names
<1>3. PICK m \in Nat : Given(s) = 1..m
  BY DEF Sound, Counted
<1>4. Cardinality({d.ident : d \in Range(s.declared)}) = m
  <2>1. Cardinality(1..m) = m
    BY <1>3, FS_Interval
  <2>. QED  BY <1>3, <2>1 DEF Given
<1>5. CASE item \in Names(s)
  <2>1. ~KeepsNames
    BY <1>5
  <2>2. r = [declared |-> s.declared, vcd_list |-> Append(s.vcd_list, [item |-> item, ident |-> NoIdent]),
             vcd_tab |-> s.vcd_tab, vcd_var |-> s.vcd_var,
             vcd_ids |-> s.vcd_ids \cup (Nexus(item) \X {NoIdent})]
    <3>1. Declare(s, item, NoIdent) = s
      BY <1>2, <1>5, <2>1 DEF Declare
    <3>2. r = [s EXCEPT !.vcd_list = Append(@, [item |-> item, ident |-> NoIdent]),
                        !.vcd_ids = @ \cup (Nexus(item) \X {NoIdent})]
      BY <1>2, <1>5, <2>1, <3>1 DEF AddInfo
    <3>. HIDE DEF r
    <3>. QED  BY <1>1, <3>2, FieldsOf
  <2>3. Nexus(item) = {}
    <3>1. PICK d \in Range(s.declared) : d.name = item
      BY <1>2, <1>5
    <3>2. ASSUME Nexus(item) # {} PROVE FALSE
      <4>1. d.ident \in Found(s, item)
        BY <3>1, <3>2, FoundIdents
      <4>. QED  BY <4>1
    <3>. QED  BY <3>2
  <2>4. /\ r.declared = s.declared /\ r.vcd_ids = s.vcd_ids /\ r.vcd_tab = s.vcd_tab
        /\ r.vcd_var = s.vcd_var
        /\ r.vcd_list = Append(s.vcd_list, [item |-> item, ident |-> NoIdent])
    BY <2>2, <2>3
  <2>5. r \in Tables
    <3>1. Append(s.vcd_list, [item |-> item, ident |-> NoIdent]) \in Seq(Info)
      BY <1>1 DEF Info, NoIdent
    <3>. QED  BY <1>1, <2>2, <2>3, <3>1 DEF Tables
  <2>. HIDE DEF r
  <2>6. Names(r) = Names(s) /\ Given(r) = Given(s) /\ Counted(r) /\ Shared(r)
    BY <2>4 DEF Names, Given, Counted, Shared, Sound
  <2>7. Covered(r)
    <3>1. NoIdent \in Nat /\ NoIdent \notin Given(s)
      BY <1>3 DEF NoIdent
    <3>. QED  BY <2>4, <2>5, <2>6, <3>1, CoverMore
  <2>. QED  BY <1>5, <2>4, <2>5, <2>6, <2>7 DEF Sound, Adds, r
<1>6. CASE item \notin Names(s)
  <2>. DEFINE i == m + 1
  <2>1. r = [declared |-> Append(s.declared, [name |-> item, ident |-> i]),
             vcd_list |-> Append(s.vcd_list, [item |-> item, ident |-> i]),
             vcd_tab |-> s.vcd_tab, vcd_var |-> s.vcd_var,
             vcd_ids |-> s.vcd_ids \cup (Nexus(item) \X {i})]
    <3>1. Declare(s, item, i) = [s EXCEPT !.declared = Append(@, [name |-> item, ident |-> i])]
      BY <1>2, <1>6 DEF Declare
    <3>2. 1 + m = i
      OBVIOUS
    <3>3. ~ \E d \in Range(s.declared) : d.name = item
      BY <1>2, <1>6
    <3>. HIDE DEF i
    <3>4. r = [Declare(s, item, i) EXCEPT
                 !.vcd_list = Append(@, [item |-> item, ident |-> i]),
                 !.vcd_ids = @ \cup (Nexus(item) \X {i})]
      BY <1>4, <3>2, <3>3 DEF AddInfo
    <3>. HIDE DEF r
    <3>. QED  BY <1>1, <3>1, <3>4, FieldsOf
  <2>2. i \in Nat /\ i \notin Given(s) /\ i # NoIdent
    BY <1>3 DEF NoIdent
  <2>. HIDE DEF i
  <2>3. r \in Tables
    <3>1. /\ Append(s.vcd_list, [item |-> item, ident |-> i]) \in Seq(Info)
          /\ Append(s.declared, [name |-> item, ident |-> i]) \in Seq(Declaration)
      BY <1>1, <2>2 DEF Info, Declaration
    <3>2. s.vcd_ids \cup (Nexus(item) \X {i}) \subseteq Nets \X Nat
      BY <1>1, <2>2 DEF Nexus, Nets
    <3>. QED  BY <1>1, <2>1, <3>1, <3>2 DEF Tables
  <2>4. /\ r.declared = Append(s.declared, [name |-> item, ident |-> i])
        /\ r.vcd_list = Append(s.vcd_list, [item |-> item, ident |-> i])
        /\ r.vcd_tab = s.vcd_tab /\ r.vcd_var = s.vcd_var
        /\ r.vcd_ids = s.vcd_ids \cup (Nexus(item) \X {i})
    BY <2>1
  <2>. HIDE DEF r
  <2>5. /\ Counted(r) /\ Names(r) = Names(s) \cup {item} /\ Given(r) = Given(s) \cup {i}
        /\ SharedByNet(Range(r.declared))
    <3>1. \E k \in Nat : Given(s) = 1..k /\ i = k + 1
      BY <1>3 DEF i
    <3>2. IdentFor(s, item, i)
      BY <3>1 DEF IdentFor
    <3>3. r.declared = Append(s.declared, [name |-> item, ident |-> i]) /\ i \in Nat
      BY <2>2, <2>4
    <3>4. Counted(r)
      BY <1>6, <2>3, <3>2, <3>3, DeclareNew
    <3>5. Names(r) = Names(s) \cup {item} /\ Given(r) = Given(s) \cup {i}
      BY <1>6, <2>3, <3>2, <3>3, DeclareNew
    <3>6. SharedByNet(Range(r.declared))
      BY <1>6, <2>3, <3>2, <3>3, DeclareNew
    <3>. QED  BY <3>4, <3>5, <3>6
  <2>6. r.vcd_ids = UNION {Nexus(d.name) \X {d.ident} : d \in Range(r.declared)}
    <3>. DEFINE new == [name |-> item, ident |-> i]
    <3>1. new.name = item /\ new.ident = i
      OBVIOUS
    <3>. HIDE DEF new
    <3>2. UNION {Nexus(d.name) \X {d.ident} : d \in Range(s.declared) \cup {new}}
           = (UNION {Nexus(d.name) \X {d.ident} : d \in Range(s.declared)}) \cup (Nexus(item) \X {i})
      BY <3>1, PairsMore
    <3>3. Range(r.declared) = Range(s.declared) \cup {new}
      <4>1. new \in Declaration
        BY <2>2 DEF new, Declaration
      <4>. QED  BY <1>1, <2>4, <4>1, RangeAppend DEF new
    <3>. QED  BY <2>4, <3>2, <3>3 DEF Sound, Shared
  <2>7. Covered(r)
    BY <2>2, <2>3, <2>4, <2>5, CoverMore
  <2>. QED  BY <2>3, <2>4, <2>5, <2>6, <2>7 DEF Sound, Shared, Adds, r
<1>. QED  BY <1>5, <1>6

\* The names of r are those of s, and the signal if it is not left out.
Includes(s, r, item, skip) ==
    Names(r) = IF skip \/ item \in Automatic \/ (KeepsNames /\ item \in s.vcd_var)
               THEN Names(s) ELSE Names(s) \cup {item}

\* What scan_signal makes of the tables: a signal that is not left out is included.
LEMMA ScanSignalSound ==
    ASSUME NEW s, Sound(s), NEW item \in Signals, NEW skip \in BOOLEAN,
           KeepsNames /\ ~skip /\ item \notin s.vcd_var => item \notin Names(s)
    PROVE  LET r == scan_signal(s, item, skip)
           IN /\ Sound(r) /\ r.vcd_tab = s.vcd_tab /\ r.vcd_var = s.vcd_var
              /\ Includes(s, r, item, skip)
<1>. DEFINE r == scan_signal(s, item, skip)
            out == skip \/ item \in Automatic \/ (KeepsNames /\ item \in s.vcd_var)
<1>1. CASE out
  <2>1. r = s
    BY <1>1 DEF scan_signal
  <2>. QED  BY <1>1, <2>1 DEF Includes
<1>2. CASE ~out /\ Found(s, item) = {}
  <2>1. r = AddInfo(s, item)
    BY <1>2 DEF scan_signal, Found
  <2>2. KeepsNames => item \notin Names(s)
    BY <1>2
  <2>3. Sound(r) /\ r.vcd_tab = s.vcd_tab /\ r.vcd_var = s.vcd_var /\ Adds(s, r, item)
    <3>. HIDE DEF r
    <3>. QED  BY <1>2, <2>1, <2>2, AddInfoSound
  <2>. QED  BY <1>2, <2>3 DEF Adds, Includes
<1>3. CASE ~out /\ Found(s, item) # {}
  <2>. DEFINE i == CHOOSE i \in Found(s, item) : TRUE
  <2>1. r = Declare(s, item, i) /\ i \in Found(s, item)
    BY <1>3 DEF scan_signal, Found
  <2>. HIDE DEF i
  <2>2. PICK d \in Range(s.declared) : d.ident = i /\ Nexus(d.name) \cap Nexus(item) # {}
    BY <2>1, FoundIdents
  <2>3. s \in Tables /\ i \in Given(s) /\ i \in Nat
    BY <2>2, NamesFinite DEF Given, Sound
  <2>4. (\E e \in Range(s.declared) : e.name = item) <=> item \in Names(s)
    BY DEF Names
  <2>5. CASE item \in Names(s)
    <3>1. ~KeepsNames
      BY <1>3, <2>5
    <3>2. r = s
      BY <2>1, <2>4, <2>5, <3>1 DEF Declare
    <3>. QED  BY <1>3, <2>5, <3>2 DEF Includes
  <2>6. CASE item \notin Names(s)
    <3>1. r = [s EXCEPT !.declared = Append(@, [name |-> item, ident |-> i])]
      <4>1. ~ \E e \in Range(s.declared) : e.name = item
        BY <2>4, <2>6
      <4>. QED  BY <2>1, <4>1 DEF Declare
    <3>. HIDE DEF r
    <3>2. r = [declared |-> Append(s.declared, [name |-> item, ident |-> i]),
               vcd_list |-> s.vcd_list, vcd_tab |-> s.vcd_tab,
               vcd_var |-> s.vcd_var, vcd_ids |-> s.vcd_ids]
      BY <2>3, <3>1, FieldsOf
    <3>3. /\ r.declared = Append(s.declared, [name |-> item, ident |-> i])
          /\ r.vcd_list = s.vcd_list /\ r.vcd_tab = s.vcd_tab
          /\ r.vcd_var = s.vcd_var /\ r.vcd_ids = s.vcd_ids
      BY <3>2
    <3>4. r \in Tables
      <4>1. s.declared \in Seq(Declaration) /\ [name |-> item, ident |-> i] \in Declaration
        BY <2>3 DEF Tables, Declaration
      <4>2. Append(s.declared, [name |-> item, ident |-> i]) \in Seq(Declaration)
        BY <4>1, RangeAppend
      <4>. QED  BY <2>3, <3>2, <4>2 DEF Tables
    <3>5. IdentFor(s, item, i)
      BY <2>1 DEF IdentFor
    <3>6. Counted(r)
      BY <2>3, <2>6, <3>3, <3>4, <3>5, DeclareNew
    <3>7. Names(r) = Names(s) \cup {item} /\ Given(r) = Given(s) \cup {i}
      BY <2>3, <2>6, <3>3, <3>4, <3>5, DeclareNew
    <3>8. SharedByNet(Range(r.declared))
      BY <2>3, <2>6, <3>3, <3>4, <3>5, DeclareNew
    <3>9. Given(r) = Given(s)
      BY <2>3, <3>7
    <3>10. Covered(r)
      BY <3>3, <3>9 DEF Covered, Sound
    <3>11. r.vcd_ids = UNION {Nexus(e.name) \X {e.ident} : e \in Range(r.declared)}
      <4>. DEFINE new == [name |-> item, ident |-> i]
      <4>1. new.name = item /\ new.ident = i /\ new \in Declaration
        BY <2>3 DEF Declaration
      <4>. HIDE DEF new
      <4>2. Range(r.declared) = Range(s.declared) \cup {new}
        <5>1. s.declared \in Seq(Declaration)
          BY <2>3 DEF Tables
        <5>. QED  BY <3>3, <4>1, <5>1, RangeAppend DEF new
      <4>3. UNION {Nexus(e.name) \X {e.ident} : e \in Range(s.declared) \cup {new}}
              = (UNION {Nexus(e.name) \X {e.ident} : e \in Range(s.declared)})
                  \cup (Nexus(item) \X {i})
        BY <4>1, PairsMore
      <4>4. Nexus(item) \X {i} \subseteq UNION {Nexus(e.name) \X {e.ident} : e \in Range(s.declared)}
        <5>1. Nexus(d.name) = Nexus(item)
          BY <2>2 DEF Nexus
        <5>2. Nexus(d.name) \X {d.ident} \subseteq
                UNION {Nexus(e.name) \X {e.ident} : e \in Range(s.declared)}
          BY <2>2
        <5>. QED  BY <2>2, <5>1, <5>2
      <4>. HIDE DEF Nexus
      <4>. QED  BY <3>3, <4>2, <4>3, <4>4 DEF Sound, Shared
    <3>12. Sound(r)
      BY <3>4, <3>6, <3>8, <3>10, <3>11 DEF Sound, Shared
    <3>. QED  BY <1>3, <3>3, <3>7, <3>12 DEF r, Includes
  <2>. QED  BY <2>5, <2>6
<1>. QED  BY <1>1, <1>2, <1>3

-----------------------------------------------------------------------------
(* What the recursive functions of the model compute, a step at a time.    *)

\* Every set of numbers that is not empty has a least one.
LEMMA LeastNumber ==
    ASSUME NEW T \in SUBSET Nat, T # {}
    PROVE  \E x \in T : \A y \in T : x <= y
<1>1. PICK x \in T : \A y \in T : ~(<<y, x>> \in OpToRel(<, Nat))
  BY NatLessThanWellFounded, WFMin
<1>2. \A y \in T : ~(y < x)
  BY <1>1 DEF OpToRel
<1>. QED  BY <1>2

\* A set with 0 and with the successor of each of its numbers has them all.
LEMMA SetInduction ==
    ASSUME NEW S \in SUBSET Nat, 0 \in S, \A n \in S : n + 1 \in S
    PROVE  S = Nat
<1>. SUFFICES ASSUME S # Nat PROVE FALSE
  OBVIOUS
<1>1. PICK x \in Nat \ S : \A y \in Nat \ S : x <= y
  BY LeastNumber
<1>2. x # 0 /\ x - 1 \in Nat
  BY <1>1
<1>3. x - 1 \in S
  BY <1>1, <1>2
<1>. QED  BY <1>1, <1>3

\* The tables after each visit.
LEMMA ScannedDefined ==
    ASSUME NEW s, NEW visits, Len(visits) \in Nat
    PROVE  Scanned(s, visits) = [k \in 0..Len(visits) |->
              IF k = 0 THEN s
              ELSE scan_visit(Scanned(s, visits)[k - 1], visits[k])]
<1>. DEFINE After(f, n) == f = [k \in 0..n |-> IF k = 0 THEN s
                                               ELSE scan_visit(f[k - 1], visits[k])]
            S == {n \in Nat : \E f : After(f, n)}
<1>1. 0 \in S
  <2>1. After([k \in 0..0 |-> s], 0)
    OBVIOUS
  <2>. QED  BY <2>1
<1>2. ASSUME NEW n \in S PROVE n + 1 \in S
  <2>1. PICK f : After(f, n)
    BY <1>2
  <2>. DEFINE last == scan_visit(f[n], visits[n + 1])
              g == [k \in 0..(n + 1) |-> IF k <= n THEN f[k] ELSE last]
  <2>. HIDE DEF last
  <2>2. \A k \in 0..(n + 1) : g[k] = IF k = 0 THEN s
                                     ELSE scan_visit(g[k - 1], visits[k])
    <3>1. ASSUME NEW k \in 0..n
          PROVE  f[k] = IF k = 0 THEN s
                        ELSE scan_visit(f[k - 1], visits[k])
      BY <2>1
    <3>2. n \in Nat
      OBVIOUS
    <3>3. ASSUME NEW k \in 0..(n + 1)
          PROVE  g[k] = IF k = 0 THEN s
                        ELSE scan_visit(g[k - 1], visits[k])
      <4>1. CASE k <= n
        <5>1. k \in 0..n
          BY <3>2, <4>1
        <5>2. g[k] = f[k]
          BY <4>1
        <5>3. k # 0 => g[k - 1] = f[k - 1]
          BY <3>2, <4>1
        <5>. HIDE DEF g
        <5>. QED  BY <3>1, <5>1, <5>2, <5>3
      <4>2. CASE k = n + 1
        <5>1. g[k] = last
          BY <3>2, <4>2
        <5>2. g[k - 1] = f[n] /\ k # 0
          BY <3>2, <4>2
        <5>. HIDE DEF g
        <5>. QED  BY <4>2, <5>1, <5>2 DEF last
      <4>. QED  BY <3>2, <4>1, <4>2
    <3>. QED  BY <3>3
  <2>3. After(g, n + 1)
    <3>1. g = [k \in 0..(n + 1) |-> g[k]]
      OBVIOUS
    <3>. HIDE DEF g
    <3>. QED  BY <2>2, <3>1
  <2>. HIDE DEF g, After
  <2>. QED  BY <2>3
<1>3. S = Nat
  <2>. HIDE DEF S
  <2>1. S \in SUBSET Nat
    BY DEF S
  <2>. QED  BY <1>1, <1>2, <2>1, SetInduction
<1>4. \E f : After(f, Len(visits))
  BY <1>3
<1>. QED  BY <1>4 DEF Scanned

\* The tables after each item.
LEMMA DumpedDefined ==
    ASSUME NEW s, NEW depth, NEW items, Len(items) \in Nat
    PROVE  Dumped(s, depth, items) = [k \in 0..Len(items) |->
              IF k = 0 THEN s
              ELSE dump_item(Dumped(s, depth, items)[k - 1], depth, items[k])]
<1>. DEFINE After(f, n) == f = [k \in 0..n |-> IF k = 0 THEN s
                                               ELSE dump_item(f[k - 1], depth, items[k])]
            S == {n \in Nat : \E f : After(f, n)}
<1>1. 0 \in S
  <2>1. After([k \in 0..0 |-> s], 0)
    OBVIOUS
  <2>. QED  BY <2>1
<1>2. ASSUME NEW n \in S PROVE n + 1 \in S
  <2>1. PICK f : After(f, n)
    BY <1>2
  <2>. DEFINE last == dump_item(f[n], depth, items[n + 1])
              g == [k \in 0..(n + 1) |-> IF k <= n THEN f[k] ELSE last]
  <2>. HIDE DEF last
  <2>2. \A k \in 0..(n + 1) : g[k] = IF k = 0 THEN s
                                     ELSE dump_item(g[k - 1], depth, items[k])
    <3>1. ASSUME NEW k \in 0..n
          PROVE  f[k] = IF k = 0 THEN s
                        ELSE dump_item(f[k - 1], depth, items[k])
      BY <2>1
    <3>2. n \in Nat
      OBVIOUS
    <3>3. ASSUME NEW k \in 0..(n + 1)
          PROVE  g[k] = IF k = 0 THEN s
                        ELSE dump_item(g[k - 1], depth, items[k])
      <4>1. CASE k <= n
        <5>1. k \in 0..n
          BY <3>2, <4>1
        <5>2. g[k] = f[k]
          BY <4>1
        <5>3. k # 0 => g[k - 1] = f[k - 1]
          BY <3>2, <4>1
        <5>. HIDE DEF g
        <5>. QED  BY <3>1, <5>1, <5>2, <5>3
      <4>2. CASE k = n + 1
        <5>1. g[k] = last
          BY <3>2, <4>2
        <5>2. g[k - 1] = f[n] /\ k # 0
          BY <3>2, <4>2
        <5>. HIDE DEF g
        <5>. QED  BY <4>2, <5>1, <5>2 DEF last
      <4>. QED  BY <3>2, <4>1, <4>2
    <3>. QED  BY <3>3
  <2>3. After(g, n + 1)
    <3>1. g = [k \in 0..(n + 1) |-> g[k]]
      OBVIOUS
    <3>. HIDE DEF g
    <3>. QED  BY <2>2, <3>1
  <2>. HIDE DEF g, After
  <2>. QED  BY <2>3
<1>3. S = Nat
  <2>. HIDE DEF S
  <2>1. S \in SUBSET Nat
    BY DEF S
  <2>. QED  BY <1>1, <1>2, <2>1, SetInduction
<1>4. \E f : After(f, Len(items))
  BY <1>3
<1>. QED  BY <1>4 DEF Dumped

\* The visits of one level more.
LEMMA VisitsDefined ==
    ASSUME NEW depth \in Nat, NEW included
    PROVE  Visits(depth, included) = [k \in 0..depth |->
              IF k = 0 THEN [scope \in Scopes |-> <<>>]
              ELSE [scope \in Scopes |-> scan_scope(scope, scope \in included, Visits(depth, included)[k - 1])]]
<1>. DEFINE After(f, n) == f = [k \in 0..n |-> IF k = 0 THEN [scope \in Scopes |-> <<>>]
                                               ELSE [scope \in Scopes |-> scan_scope(scope, scope \in included, f[k - 1])]]
            S == {n \in Nat : \E f : After(f, n)}
<1>1. 0 \in S
  <2>1. After([k \in 0..0 |-> [scope \in Scopes |-> <<>>]], 0)
    OBVIOUS
  <2>. QED  BY <2>1
<1>2. ASSUME NEW n \in S PROVE n + 1 \in S
  <2>1. PICK f : After(f, n)
    BY <1>2
  <2>. DEFINE last == [scope \in Scopes |-> scan_scope(scope, scope \in included, f[n])]
              g == [k \in 0..(n + 1) |-> IF k <= n THEN f[k] ELSE last]
  <2>. HIDE DEF last
  <2>2. \A k \in 0..(n + 1) : g[k] = IF k = 0 THEN [scope \in Scopes |-> <<>>]
                                     ELSE [scope \in Scopes |-> scan_scope(scope, scope \in included, g[k - 1])]
    <3>1. ASSUME NEW k \in 0..n
          PROVE  f[k] = IF k = 0 THEN [scope \in Scopes |-> <<>>]
                        ELSE [scope \in Scopes |-> scan_scope(scope, scope \in included, f[k - 1])]
      BY <2>1
    <3>2. n \in Nat
      OBVIOUS
    <3>3. ASSUME NEW k \in 0..(n + 1)
          PROVE  g[k] = IF k = 0 THEN [scope \in Scopes |-> <<>>]
                        ELSE [scope \in Scopes |-> scan_scope(scope, scope \in included, g[k - 1])]
      <4>1. CASE k <= n
        <5>1. k \in 0..n
          BY <3>2, <4>1
        <5>2. g[k] = f[k]
          BY <4>1
        <5>3. k # 0 => g[k - 1] = f[k - 1]
          BY <3>2, <4>1
        <5>. HIDE DEF g
        <5>. QED  BY <3>1, <5>1, <5>2, <5>3
      <4>2. CASE k = n + 1
        <5>1. g[k] = last
          BY <3>2, <4>2
        <5>2. g[k - 1] = f[n] /\ k # 0
          BY <3>2, <4>2
        <5>. HIDE DEF g
        <5>. QED  BY <4>2, <5>1, <5>2 DEF last
      <4>. QED  BY <3>2, <4>1, <4>2
    <3>. QED  BY <3>3
  <2>3. After(g, n + 1)
    <3>1. g = [k \in 0..(n + 1) |-> g[k]]
      OBVIOUS
    <3>. HIDE DEF g
    <3>. QED  BY <2>2, <3>1
  <2>. HIDE DEF g, After
  <2>. QED  BY <2>3
<1>3. S = Nat
  <2>. HIDE DEF S
  <2>1. S \in SUBSET Nat
    BY DEF S
  <2>. QED  BY <1>1, <1>2, <2>1, SetInduction
<1>4. \E f : After(f, depth)
  BY <1>3
<1>. QED  BY <1>4 DEF Visits

\* The scopes of one level more.
LEMMA ScopesWithinDefined ==
    ASSUME NEW depth \in Nat
    PROVE  ScopesWithin(depth) = [k \in 0..depth |->
              IF k = 0 THEN [c \in Scopes |-> {}]
              ELSE [c \in Scopes |-> WithThose(c, ScopesWithin(depth)[k - 1])]]
<1>. DEFINE After(f, n) == f = [k \in 0..n |-> IF k = 0 THEN [c \in Scopes |-> {}]
                                               ELSE [c \in Scopes |-> WithThose(c, f[k - 1])]]
            S == {n \in Nat : \E f : After(f, n)}
<1>1. 0 \in S
  <2>1. After([k \in 0..0 |-> [c \in Scopes |-> {}]], 0)
    OBVIOUS
  <2>. QED  BY <2>1
<1>2. ASSUME NEW n \in S PROVE n + 1 \in S
  <2>1. PICK f : After(f, n)
    BY <1>2
  <2>. DEFINE last == [c \in Scopes |-> WithThose(c, f[n])]
              g == [k \in 0..(n + 1) |-> IF k <= n THEN f[k] ELSE last]
  <2>. HIDE DEF last
  <2>2. \A k \in 0..(n + 1) : g[k] = IF k = 0 THEN [c \in Scopes |-> {}]
                                     ELSE [c \in Scopes |-> WithThose(c, g[k - 1])]
    <3>1. ASSUME NEW k \in 0..n
          PROVE  f[k] = IF k = 0 THEN [c \in Scopes |-> {}]
                        ELSE [c \in Scopes |-> WithThose(c, f[k - 1])]
      BY <2>1
    <3>2. n \in Nat
      OBVIOUS
    <3>3. ASSUME NEW k \in 0..(n + 1)
          PROVE  g[k] = IF k = 0 THEN [c \in Scopes |-> {}]
                        ELSE [c \in Scopes |-> WithThose(c, g[k - 1])]
      <4>1. CASE k <= n
        <5>1. k \in 0..n
          BY <3>2, <4>1
        <5>2. g[k] = f[k]
          BY <4>1
        <5>3. k # 0 => g[k - 1] = f[k - 1]
          BY <3>2, <4>1
        <5>. HIDE DEF g
        <5>. QED  BY <3>1, <5>1, <5>2, <5>3
      <4>2. CASE k = n + 1
        <5>1. g[k] = last
          BY <3>2, <4>2
        <5>2. g[k - 1] = f[n] /\ k # 0
          BY <3>2, <4>2
        <5>. HIDE DEF g
        <5>. QED  BY <4>2, <5>1, <5>2 DEF last
      <4>. QED  BY <3>2, <4>1, <4>2
    <3>. QED  BY <3>3
  <2>3. After(g, n + 1)
    <3>1. g = [k \in 0..(n + 1) |-> g[k]]
      OBVIOUS
    <3>. HIDE DEF g
    <3>. QED  BY <2>2, <3>1
  <2>. HIDE DEF g, After
  <2>. QED  BY <2>3
<1>3. S = Nat
  <2>. HIDE DEF S
  <2>1. S \in SUBSET Nat
    BY DEF S
  <2>. QED  BY <1>1, <1>2, <2>1, SetInduction
<1>4. \E f : After(f, depth)
  BY <1>3
<1>. QED  BY <1>4 DEF ScopesWithin

-----------------------------------------------------------------------------
(* What a scan comes to.                                                   *)

Visit == [item : Scopes \cup Signals, skip : BOOLEAN]
ItemsOf(v) == {x.item : x \in Range(v)}

\* No item comes twice.
Once(v) == \A j, k \in 1..Len(v) : v[j].item = v[k].item => j = k

LEMMA ConcatVisits ==
    ASSUME NEW v \in Seq(Visit), NEW w \in Seq(Visit)
    PROVE  /\ v \o w \in Seq(Visit) /\ Range(v \o w) = Range(v) \cup Range(w)
           /\ Once(v) /\ Once(w) /\ ItemsOf(v) \cap ItemsOf(w) = {} => Once(v \o w)
<1>. DEFINE u == v \o w
<1>1. /\ u \in Seq(Visit) /\ Len(u) = Len(v) + Len(w) /\ Len(v) \in Nat /\ Len(w) \in Nat
      /\ \A k \in 1..Len(v) : u[k] = v[k]
      /\ \A k \in 1..Len(w) : u[Len(v) + k] = w[k]
  OBVIOUS
<1>. HIDE DEF u
<1>2. \A k \in 1..Len(u) : k \in 1..Len(v) \/ \E j \in 1..Len(w) : k = Len(v) + j
  <2>. SUFFICES ASSUME NEW k \in 1..Len(u), k \notin 1..Len(v)
                PROVE  \E j \in 1..Len(w) : k = Len(v) + j
    OBVIOUS
  <2>1. k - Len(v) \in 1..Len(w) /\ k = Len(v) + (k - Len(v))
    BY <1>1
  <2>. QED  BY <2>1
<1>3. /\ \A k \in 1..Len(v) : k \in 1..Len(u)
      /\ \A k \in 1..Len(w) : Len(v) + k \in 1..Len(u)
  BY <1>1
<1>4. Range(u) = Range(v) \cup Range(w)
  <2>1. ASSUME NEW x \in Range(u) PROVE x \in Range(v) \cup Range(w)
    <3>1. PICK k \in 1..Len(u) : u[k] = x
      BY <1>1, RangeOf
    <3>2. CASE k \in 1..Len(v)
      BY <1>1, <3>1, <3>2, RangeOf
    <3>3. CASE \E j \in 1..Len(w) : k = Len(v) + j
      BY <1>1, <3>1, <3>3, RangeOf
    <3>. QED  BY <1>2, <3>2, <3>3
  <2>2. ASSUME NEW x \in Range(v) PROVE x \in Range(u)
    <3>1. PICK k \in 1..Len(v) : v[k] = x
      BY RangeOf
    <3>. QED  BY <1>1, <1>3, <3>1, RangeOf
  <2>3. ASSUME NEW x \in Range(w) PROVE x \in Range(u)
    <3>1. PICK k \in 1..Len(w) : w[k] = x
      BY RangeOf
    <3>. QED  BY <1>1, <1>3, <3>1, RangeOf
  <2>. QED  BY <2>1, <2>2, <2>3
<1>5. ASSUME Once(v), Once(w), ItemsOf(v) \cap ItemsOf(w) = {} PROVE Once(u)
  <2>. SUFFICES ASSUME NEW j \in 1..Len(u), NEW k \in 1..Len(u), u[j].item = u[k].item
                PROVE  j = k
    BY DEF Once
  <2>1. CASE j \in 1..Len(v) /\ k \in 1..Len(v)
    BY <1>1, <1>5, <2>1 DEF Once
  <2>2. ASSUME NEW a \in 1..Len(w), NEW b \in 1..Len(w), j = Len(v) + a, k = Len(v) + b
        PROVE  j = k
    <3>1. w[a].item = w[b].item
      BY <1>1, <2>2
    <3>. QED  BY <1>5, <2>2, <3>1 DEF Once
  <2>3. ASSUME NEW a \in 1..Len(v), NEW b \in 1..Len(w) PROVE v[a].item # w[b].item
    <3>1. v[a].item \in ItemsOf(v) /\ w[b].item \in ItemsOf(w)
      BY RangeOf DEF ItemsOf
    <3>. QED  BY <1>5, <3>1
  <2>4. CASE j \in 1..Len(v) /\ \E b \in 1..Len(w) : k = Len(v) + b
    BY <1>1, <2>3, <2>4
  <2>5. CASE k \in 1..Len(v) /\ \E b \in 1..Len(w) : j = Len(v) + b
    BY <1>1, <2>3, <2>5
  <2>. QED  BY <1>2, <2>1, <2>2, <2>4, <2>5
<1>. QED  BY <1>1, <1>4, <1>5 DEF u

\* One visit.
LEMMA OneVisit ==
    ASSUME NEW x \in Visit
    PROVE  /\ <<x>> \in Seq(Visit) /\ Range(<<x>>) = {x} /\ Once(<<x>>)
           /\ ItemsOf(<<x>>) = {x.item} /\ Len(<<x>>) = 1 /\ <<x>>[1] = x
  BY DEF Range, Once, ItemsOf

\* The recursion that joins a sequence of sequences.
LEMMA FlattenDefined ==
    ASSUME NEW T, NEW q \in Seq(Seq(T)), q # <<>>
    PROVE  \E f : /\ f[1] = q[1]
                  /\ \A k \in 2..Len(q) : f[k] = f[k - 1] \o q[k]
                  /\ FlattenSeq(q) = f[Len(q)]
<1>. DEFINE Joined(f, n) == f = [k \in 1..n |-> IF k = 1 THEN q[k] ELSE f[k - 1] \o q[k]]
            S == {n \in Nat : \E f : Joined(f, n + 1)}
<1>1. 0 \in S
  <2>1. Joined([k \in 1..(0 + 1) |-> q[k]], 0 + 1)
    OBVIOUS
  <2>. QED  BY <2>1
<1>2. ASSUME NEW n \in S PROVE n + 1 \in S
  <2>1. PICK f : Joined(f, n + 1)
    BY <1>2
  <2>. DEFINE last == f[n + 1] \o q[n + 2]
              g == [k \in 1..(n + 2) |-> IF k <= n + 1 THEN f[k] ELSE last]
  <2>. HIDE DEF last
  <2>2. \A k \in 1..(n + 2) : g[k] = IF k = 1 THEN q[k] ELSE g[k - 1] \o q[k]
    <3>1. ASSUME NEW k \in 1..(n + 1)
          PROVE  f[k] = IF k = 1 THEN q[k] ELSE f[k - 1] \o q[k]
      BY <2>1
    <3>2. n \in Nat
      OBVIOUS
    <3>3. ASSUME NEW k \in 1..(n + 2)
          PROVE  g[k] = IF k = 1 THEN q[k] ELSE g[k - 1] \o q[k]
      <4>1. CASE k <= n + 1
        <5>1. k \in 1..(n + 1)
          BY <3>2, <4>1
        <5>2. g[k] = f[k]
          BY <4>1
        <5>3. k # 1 => g[k - 1] = f[k - 1]
          BY <3>2, <4>1
        <5>. HIDE DEF g
        <5>. QED  BY <3>1, <5>1, <5>2, <5>3
      <4>2. CASE k = n + 2
        <5>1. g[k] = last
          BY <3>2, <4>2
        <5>2. g[k - 1] = f[n + 1] /\ k # 1
          BY <3>2, <4>2
        <5>. HIDE DEF g
        <5>. QED  BY <4>2, <5>1, <5>2 DEF last
      <4>. QED  BY <3>2, <4>1, <4>2
    <3>. QED  BY <3>3
  <2>3. Joined(g, n + 2)
    <3>1. g = [k \in 1..(n + 2) |-> g[k]]
      OBVIOUS
    <3>. HIDE DEF g
    <3>. QED  BY <2>2, <3>1
  <2>4. n + 2 = (n + 1) + 1 /\ n + 1 \in Nat
    OBVIOUS
  <2>. HIDE DEF g, Joined
  <2>. QED  BY <2>3, <2>4
<1>3. S = Nat
  <2>. HIDE DEF S
  <2>1. S \in SUBSET Nat
    BY DEF S
  <2>. QED  BY <1>1, <1>2, <2>1, SetInduction
<1>4. Len(q) \in Nat /\ Len(q) # 0
  OBVIOUS
<1>5. Len(q) - 1 \in Nat /\ Len(q) = (Len(q) - 1) + 1
  BY <1>4
<1>6. \E f : Joined(f, Len(q))
  <2>. HIDE DEF Joined
  <2>. QED  BY <1>3, <1>5
<1>. DEFINE flatten == CHOOSE f : Joined(f, Len(q))
<1>7. FlattenSeq(q) = flatten[Len(q)]
  BY <1>4 DEF FlattenSeq
<1>8. Joined(flatten, Len(q))
  <2>. HIDE DEF Joined
  <2>. QED  BY <1>6
<1>. HIDE DEF flatten
<1>9. /\ flatten[1] = q[1]
      /\ \A k \in 2..Len(q) : flatten[k] = flatten[k - 1] \o q[k]
  <2>1. \A k \in 1..Len(q) : flatten[k] = IF k = 1 THEN q[k] ELSE flatten[k - 1] \o q[k]
    BY <1>8
  <2>2. 1 \in 1..Len(q) /\ \A k \in 2..Len(q) : k \in 1..Len(q) /\ k # 1
    BY <1>4
  <2>. QED  BY <2>1, <2>2
<1>. QED  BY <1>7, <1>9

LEMMA FlattenVisits ==
    ASSUME NEW q \in Seq(Seq(Visit))
    PROVE  /\ FlattenSeq(q) \in Seq(Visit)
           /\ \A x : x \in Range(FlattenSeq(q)) <=> \E k \in 1..Len(q) : x \in Range(q[k])
           /\ (\A k \in 1..Len(q) : Once(q[k]))
                /\ (\A j, k \in 1..Len(q) : j # k => ItemsOf(q[j]) \cap ItemsOf(q[k]) = {})
                => Once(FlattenSeq(q))
<1>1. CASE q = <<>>
  <2>1. FlattenSeq(q) = <<>>
    BY <1>1 DEF FlattenSeq
  <2>2. <<>> \in Seq(Visit) /\ Len(<<>>) = 0 /\ \A x : x \notin Range(<<>>)
    BY DEF Range
  <2>3. 1..0 = {}
    OBVIOUS
  <2>4. Len(q) = 0 /\ FlattenSeq(q) = <<>>
    BY <1>1, <2>1
  <2>. QED  BY <2>2, <2>3, <2>4 DEF Once
<1>2. CASE q # <<>>
  <2>1. PICK f : /\ f[1] = q[1]
                 /\ \A k \in 2..Len(q) : f[k] = f[k - 1] \o q[k]
                 /\ FlattenSeq(q) = f[Len(q)]
    BY <1>2, FlattenDefined
  <2>. DEFINE Apart == /\ \A k \in 1..Len(q) : Once(q[k])
                       /\ \A j, k \in 1..Len(q) : j # k => ItemsOf(q[j]) \cap ItemsOf(q[k]) = {}
              Right(n) == /\ f[n] \in Seq(Visit)
                          /\ \A x : x \in Range(f[n]) <=> \E k \in 1..n : x \in Range(q[k])
                          /\ Apart => Once(f[n])
              S == {n \in Nat : n + 1 \in 1..Len(q) => Right(n + 1)}
  <2>2. Len(q) \in Nat /\ Len(q) # 0 /\ \A k \in 1..Len(q) : q[k] \in Seq(Visit)
    BY <1>2
  <2>3. 0 \in S
    <3>1. f[0 + 1] = q[1] /\ q[1] \in Seq(Visit)
      BY <2>1, <2>2
    <3>2. \A x : x \in Range(f[0 + 1]) <=> \E k \in 1..(0 + 1) : x \in Range(q[k])
      BY <3>1
    <3>3. Apart => Once(f[0 + 1])
      BY <2>2, <3>1
    <3>. QED  BY <3>1, <3>2, <3>3
  <2>4. ASSUME NEW n \in S PROVE n + 1 \in S
    <3>. SUFFICES ASSUME n + 2 \in 1..Len(q) PROVE Right(n + 2)
      <4>1. (n + 1) + 1 = n + 2
        OBVIOUS
      <4>. HIDE DEF Right
      <4>. QED  BY <4>1
    <3>1. n + 1 \in 1..Len(q) /\ n + 2 \in 2..Len(q) /\ (n + 2) - 1 = n + 1 /\ n \in Nat
      BY <2>2
    <3>2. Right(n + 1)
      <4>. HIDE DEF Right
      <4>. QED  BY <2>4, <3>1
    <3>3. f[n + 2] = f[n + 1] \o q[n + 2]
      BY <2>1, <3>1
    <3>. DEFINE v == f[n + 1]
                w == q[n + 2]
    <3>4. v \in Seq(Visit) /\ w \in Seq(Visit)
      BY <2>2, <3>1, <3>2
    <3>5. /\ v \o w \in Seq(Visit) /\ Range(v \o w) = Range(v) \cup Range(w)
          /\ Once(v) /\ Once(w) /\ ItemsOf(v) \cap ItemsOf(w) = {} => Once(v \o w)
      <4>. HIDE DEF v, w
      <4>. QED  BY <3>4, ConcatVisits
    <3>6. \A x : x \in Range(v) <=> \E k \in 1..(n + 1) : x \in Range(q[k])
      BY <3>2
    <3>7. \A x : x \in Range(f[n + 2]) <=> \E k \in 1..(n + 2) : x \in Range(q[k])
      <4>1. \A k : k \in 1..(n + 2) <=> k \in 1..(n + 1) \/ k = n + 2
        BY <3>1
      <4>. HIDE DEF v
      <4>. QED  BY <3>3, <3>5, <3>6, <4>1 DEF v, w
    <3>8. ASSUME Apart PROVE Once(f[n + 2])
      <4>1. Once(v) /\ Once(w)
        BY <3>1, <3>2, <3>8
      <4>2. ItemsOf(v) \cap ItemsOf(w) = {}
        <5>1. ASSUME NEW x \in Range(v) PROVE x.item \notin ItemsOf(w)
          <6>1. PICK k \in 1..(n + 1) : x \in Range(q[k])
            BY <3>6, <5>1
          <6>2. k \in 1..Len(q) /\ k # n + 2 /\ n + 2 \in 1..Len(q)
            BY <2>2, <3>1
          <6>3. x.item \in ItemsOf(q[k])
            BY <6>1 DEF ItemsOf
          <6>. QED  BY <3>8, <6>2, <6>3
        <5>. HIDE DEF v, w
        <5>. QED  BY <5>1 DEF ItemsOf
      <4>. QED  BY <3>3, <3>5, <4>1, <4>2
    <3>. QED  BY <3>3, <3>5, <3>7, <3>8
  <2>5. S = Nat
    <3>. HIDE DEF S
    <3>1. S \in SUBSET Nat
      BY DEF S
    <3>. QED  BY <2>3, <2>4, <3>1, SetInduction
  <2>6. Len(q) - 1 \in Nat /\ (Len(q) - 1) + 1 = Len(q) /\ Len(q) \in 1..Len(q)
    BY <2>2
  <2>7. Right(Len(q))
    <3>1. Len(q) - 1 \in S /\ (Len(q) - 1) + 1 \in 1..Len(q)
      BY <2>5, <2>6
    <3>2. Right((Len(q) - 1) + 1)
      <4>. HIDE DEF Right
      <4>. QED  BY <3>1
    <3>. HIDE DEF Right
    <3>. QED  BY <2>6, <3>2
  <2>. QED  BY <2>1, <2>7
<1>. QED  BY <1>1, <1>2

\* Each item has its place in the tree.
LEMMA TreeLevels ==
    \E level \in [Scopes \cup Signals -> Nat] :
        \A c \in Scopes : \A k \in 1..Len(Contents[c]) : level[Contents[c][k]] = level[c] + 1
<1>1. PICK level \in [Scopes \cup Signals -> 0..Cardinality(Scopes)] :
          \A c \in Scopes : \A k \in DOMAIN Contents[c] : level[Contents[c][k]] = level[c] + 1
  BY DesignAssumption
<1>2. level \in [Scopes \cup Signals -> Nat]
  <2>1. Cardinality(Scopes) \in Nat
    BY DesignAssumption, FS_CardinalityType
  <2>2. 0..Cardinality(Scopes) \subseteq Nat
    BY <2>1
  <2>. QED  BY <2>2
<1>3. \A c \in Scopes : DOMAIN Contents[c] = 1..Len(Contents[c])
  BY DesignAssumption
<1>. QED  BY <1>1, <1>2, <1>3

LEMMA TreeTyped ==
    ASSUME NEW c \in Scopes
    PROVE  /\ Contents[c] \in Seq(Scopes \cup Signals) /\ Len(Contents[c]) \in Nat
           /\ DOMAIN Contents[c] = 1..Len(Contents[c])
           /\ \A k \in 1..Len(Contents[c]) : Contents[c][k] \in Scopes \cup Signals
           /\ \A x : x \in Range(Contents[c]) <=> \E k \in 1..Len(Contents[c]) : x = Contents[c][k]
           /\ \A d \in Scopes : \A x \in Range(Contents[c]) : x \in Range(Contents[d]) => c = d
           /\ \A j, k \in 1..Len(Contents[c]) : Contents[c][j] = Contents[c][k] => j = k
<1>1. \A d \in Scopes : Contents[d] \in Seq(Scopes \cup Signals)
  BY DesignAssumption
<1>2. \A d \in Scopes : DOMAIN Contents[d] = 1..Len(Contents[d]) /\ Len(Contents[d]) \in Nat
  BY <1>1
<1>3. \A d \in Scopes : \A x : x \in Range(Contents[d]) <=> \E k \in 1..Len(Contents[d]) : x = Contents[d][k]
  BY <1>2 DEF Range
<1>4. \A d \in Scopes : \A j \in 1..Len(Contents[c]), k \in 1..Len(Contents[d]) :
          Contents[c][j] = Contents[d][k] => c = d /\ j = k
  BY <1>2, DesignAssumption
<1>5. \A k \in 1..Len(Contents[c]) : Contents[c][k] \in Scopes \cup Signals
  BY <1>1
<1>6. \A d \in Scopes : \A x \in Range(Contents[c]) : x \in Range(Contents[d]) => c = d
  <2>. SUFFICES ASSUME NEW d \in Scopes, NEW x, x \in Range(Contents[c]), x \in Range(Contents[d])
                PROVE  c = d
    OBVIOUS
  <2>1. PICK j \in 1..Len(Contents[c]) : x = Contents[c][j]
    BY <1>3
  <2>2. PICK k \in 1..Len(Contents[d]) : x = Contents[d][k]
    BY <1>3
  <2>. QED  BY <1>4, <2>1, <2>2
<1>. QED  BY <1>1, <1>2, <1>3, <1>4, <1>5, <1>6

\* The scopes within so many levels: one more level adds those of the scopes inside.
LEMMA WithinStep ==
    ASSUME NEW depth \in Nat
    PROVE  /\ \A c \in Scopes : ScopesWithin(depth)[0][c] = {}
           /\ \A d \in 0..depth : d + 1 \in 0..depth => \A c \in Scopes : \A x :
                 x \in ScopesWithin(depth)[d + 1][c] <=>
                    \/ x = c
                    \/ \E k \in 1..Len(Contents[c]) :
                          Contents[c][k] \in Scopes /\ x \in ScopesWithin(depth)[d][Contents[c][k]]
<1>. DEFINE w == ScopesWithin(depth)
<1>1. w = [d \in 0..depth |-> IF d = 0 THEN [c \in Scopes |-> {}]
                              ELSE [c \in Scopes |-> WithThose(c, w[d - 1])]]
  BY ScopesWithinDefined
<1>. HIDE DEF w
<1>2. 0 \in 0..depth /\ w[0] = [c \in Scopes |-> {}]
  BY <1>1
<1>3. ASSUME NEW d \in 0..depth, d + 1 \in 0..depth, NEW c \in Scopes, NEW x
      PROVE  x \in w[d + 1][c] <=>
                \/ x = c
                \/ \E k \in 1..Len(Contents[c]) :
                      Contents[c][k] \in Scopes /\ x \in w[d][Contents[c][k]]
  <2>1. d + 1 # 0 /\ (d + 1) - 1 = d
    BY <1>3
  <2>2. w[d + 1] = [b \in Scopes |-> WithThose(b, w[d])]
    BY <1>1, <1>3, <2>1
  <2>3. w[d + 1][c] = WithThose(c, w[d])
    BY <2>2
  <2>4. x \in WithThose(c, w[d]) <=> x = c \/ \E y \in Range(Contents[c]) \cap Scopes : x \in w[d][y]
    BY DEF WithThose
  <2>5. \A y : y \in Range(Contents[c]) <=> \E k \in 1..Len(Contents[c]) : y = Contents[c][k]
    BY TreeTyped
  <2>6. (\E y \in Range(Contents[c]) \cap Scopes : x \in w[d][y])
          <=> \E k \in 1..Len(Contents[c]) : Contents[c][k] \in Scopes /\ x \in w[d][Contents[c][k]]
    BY <2>5
  <2>. QED  BY <2>3, <2>4, <2>6
<1>. QED  BY <1>2, <1>3 DEF w

\* What lies within a scope lies below it.
LEMMA WithinBelow ==
    ASSUME NEW depth \in Nat, NEW level \in [Scopes \cup Signals -> Nat],
           \A c \in Scopes : \A k \in 1..Len(Contents[c]) : level[Contents[c][k]] = level[c] + 1
    PROVE  \A d \in 0..depth : \A c \in Scopes : \A x \in ScopesWithin(depth)[d][c] :
              x \in Scopes /\ level[x] >= level[c]
<1>. DEFINE w == ScopesWithin(depth)
            Below(d) == \A c \in Scopes : \A x \in w[d][c] : x \in Scopes /\ level[x] >= level[c]
            S == {n \in Nat : n \in 0..depth => Below(n)}
<1>1. 0 \in S
  BY WithinStep
<1>2. ASSUME NEW n \in S PROVE n + 1 \in S
  <2>. SUFFICES ASSUME n + 1 \in 0..depth, NEW c \in Scopes, NEW x \in w[n + 1][c]
                PROVE  x \in Scopes /\ level[x] >= level[c]
    OBVIOUS
  <2>1. n \in 0..depth /\ n \in Nat
    OBVIOUS
  <2>2. Below(n)
    BY <2>1
  <2>3. \/ x = c
        \/ \E k \in 1..Len(Contents[c]) : Contents[c][k] \in Scopes /\ x \in w[n][Contents[c][k]]
    BY <2>1, WithinStep
  <2>4. \A y \in Scopes : level[y] \in Nat
    OBVIOUS
  <2>5. CASE x = c
    BY <2>4, <2>5
  <2>6. ASSUME NEW k \in 1..Len(Contents[c]), Contents[c][k] \in Scopes, x \in w[n][Contents[c][k]]
        PROVE  x \in Scopes /\ level[x] >= level[c]
    <3>1. x \in Scopes /\ level[x] >= level[Contents[c][k]]
      BY <2>2, <2>6
    <3>2. level[Contents[c][k]] = level[c] + 1
      BY <2>6
    <3>. QED  BY <2>4, <3>1, <3>2
  <2>. QED  BY <2>3, <2>5, <2>6
<1>3. S = Nat
  <2>. HIDE DEF S
  <2>1. S \in SUBSET Nat
    BY DEF S
  <2>. QED  BY <1>1, <1>2, <2>1, SetInduction
<1>4. ASSUME NEW d \in 0..depth PROVE Below(d)
  <2>1. d \in S
    BY <1>3
  <2>. QED  BY <2>1
<1>. QED  BY <1>4

\* Scopes of one level have nothing in common.
LEMMA WithinApart ==
    ASSUME NEW depth \in Nat, NEW level \in [Scopes \cup Signals -> Nat],
           \A c \in Scopes : \A k \in 1..Len(Contents[c]) : level[Contents[c][k]] = level[c] + 1
    PROVE  \A d \in 0..depth : \A a, b \in Scopes : a # b /\ level[a] = level[b] =>
              ScopesWithin(depth)[d][a] \cap ScopesWithin(depth)[d][b] = {}
<1>. DEFINE w == ScopesWithin(depth)
            Apart(d) == \A a, b \in Scopes : a # b /\ level[a] = level[b] =>
                           \A x : ~(x \in w[d][a] /\ x \in w[d][b])
            S == {n \in Nat : n \in 0..depth => Apart(n)}
<1>1. 0 \in S
  BY WithinStep
<1>2. ASSUME NEW n \in S PROVE n + 1 \in S
  <2>. SUFFICES ASSUME n + 1 \in 0..depth, NEW a \in Scopes, NEW b \in Scopes, a # b,
                       level[a] = level[b], NEW x, x \in w[n + 1][a], x \in w[n + 1][b]
                PROVE  FALSE
    OBVIOUS
  <2>1. n \in 0..depth /\ n \in Nat
    OBVIOUS
  <2>2. Apart(n)
    BY <2>1
  <2>3. \A c \in Scopes : x \in w[n + 1][c] =>
          \/ x = c
          \/ \E k \in 1..Len(Contents[c]) : Contents[c][k] \in Scopes /\ x \in w[n][Contents[c][k]]
    BY <2>1, WithinStep
  <2>4. \A y \in Scopes : level[y] \in Nat
    OBVIOUS
  <2>5. \A c \in Scopes : \A k \in 1..Len(Contents[c]) :
           Contents[c][k] \in Scopes /\ x \in w[n][Contents[c][k]] => level[x] > level[c] /\ x \in Scopes
    <3>. SUFFICES ASSUME NEW c \in Scopes, NEW k \in 1..Len(Contents[c]), Contents[c][k] \in Scopes,
                         x \in w[n][Contents[c][k]]
                  PROVE  level[x] > level[c] /\ x \in Scopes
      OBVIOUS
    <3>1. x \in Scopes /\ level[x] >= level[Contents[c][k]]
      BY <2>1, WithinBelow
    <3>. QED  BY <2>4, <3>1
  <2>. HIDE DEF w, Apart
  <2>6. CASE x = a \/ x = b
    BY <2>3, <2>4, <2>5, <2>6
  <2>7. CASE x # a /\ x # b
    <3>1. PICK j \in 1..Len(Contents[a]) : Contents[a][j] \in Scopes /\ x \in w[n][Contents[a][j]]
      BY <2>3, <2>7
    <3>2. PICK k \in 1..Len(Contents[b]) : Contents[b][k] \in Scopes /\ x \in w[n][Contents[b][k]]
      BY <2>3, <2>7
    <3>3. level[Contents[a][j]] = level[Contents[b][k]]
      OBVIOUS
    <3>4. Contents[a][j] # Contents[b][k]
      <4>1. Contents[a][j] \in Range(Contents[a]) /\ Contents[b][k] \in Range(Contents[b])
        BY TreeTyped
      <4>. QED  BY <4>1, TreeTyped
    <3>. QED  BY <2>2, <3>1, <3>2, <3>3, <3>4 DEF Apart
  <2>. QED  BY <2>6, <2>7
<1>3. S = Nat
  <2>. HIDE DEF S
  <2>1. S \in SUBSET Nat
    BY DEF S
  <2>. QED  BY <1>1, <1>2, <2>1, SetInduction
<1>4. ASSUME NEW d \in 0..depth PROVE Apart(d)
  <2>1. d \in S
    BY <1>3
  <2>. QED  BY <2>1
<1>. QED  BY <1>4

\* The visits of one level more.
LEMMA VisitsStep ==
    ASSUME NEW depth \in Nat, NEW included
    PROVE  /\ \A c \in Scopes : Visits(depth, included)[0][c] = <<>>
           /\ \A d \in 0..depth : d + 1 \in 0..depth => \A c \in Scopes :
                 Visits(depth, included)[d + 1][c]
                   = scan_scope(c, c \in included, Visits(depth, included)[d])
<1>. DEFINE v == Visits(depth, included)
<1>1. v = [d \in 0..depth |-> IF d = 0 THEN [scope \in Scopes |-> <<>>]
                ELSE [scope \in Scopes |-> scan_scope(scope, scope \in included, v[d - 1])]]
  BY VisitsDefined
<1>. HIDE DEF v
<1>2. 0 \in 0..depth /\ v[0] = [scope \in Scopes |-> <<>>]
  BY <1>1
<1>3. ASSUME NEW d \in 0..depth, d + 1 \in 0..depth, NEW c \in Scopes
      PROVE  v[d + 1][c] = scan_scope(c, c \in included, v[d])
  <2>1. d + 1 # 0 /\ (d + 1) - 1 = d
    BY <1>3
  <2>2. v[d + 1] = [scope \in Scopes |-> scan_scope(scope, scope \in included, v[d])]
    BY <1>1, <1>3, <2>1
  <2>. QED  BY <2>2
<1>. QED  BY <1>2, <1>3 DEF v

\* What is visited of the scopes W: themselves and the signals in them.
Comes(x, W, included) ==
    \E c \in W : /\ x.skip = (c \in included)
                 /\ x.item = c \/ x.item \in Range(Contents[c]) \cap Signals

\* What is right of the visits of a level is right of those of the next.
RightVisits(v, W, included) ==
    /\ v \in Seq(Visit) /\ Once(v)
    /\ \A x \in Visit : x \in Range(v) <=> Comes(x, W, included)

LEMMA ScopeVisits ==
    ASSUME NEW included, NEW c \in Scopes, NEW below, NEW w,
           NEW level \in [Scopes \cup Signals -> Nat],
           \A a \in Scopes : \A k \in 1..Len(Contents[a]) : level[Contents[a][k]] = level[a] + 1,
           \A a \in Scopes : RightVisits(below[a], w[a], included),
           \A a \in Scopes : \A x \in w[a] : x \in Scopes /\ level[x] >= level[a],
           \A a, b \in Scopes : a # b /\ level[a] = level[b] => w[a] \cap w[b] = {},
           NEW W, \A x : x \in W <=>
                    \/ x = c
                    \/ \E k \in 1..Len(Contents[c]) : Contents[c][k] \in Scopes /\ x \in w[Contents[c][k]]
    PROVE  RightVisits(scan_scope(c, c \in included, below), W, included)
<1>. DEFINE nskip == c \in included
            n == Len(Contents[c])
            q == [k \in DOMAIN Contents[c] |->
                    LET item == Contents[c][k]
                    IN IF item \in Signals THEN <<[item |-> item, skip |-> nskip]>> ELSE below[item]]
            head == [item |-> c, skip |-> nskip]
<1>1. scan_scope(c, c \in included, below) = <<head>> \o FlattenSeq(q)
  BY DEF scan_scope
<1>2. /\ DOMAIN Contents[c] = 1..n /\ n \in Nat
      /\ \A k \in 1..n : Contents[c][k] \in Scopes \cup Signals
      /\ \A x : x \in Range(Contents[c]) <=> \E k \in 1..n : x = Contents[c][k]
      /\ \A j, k \in 1..n : Contents[c][j] = Contents[c][k] => j = k
      /\ Scopes \cap Signals = {}
  BY TreeTyped, DesignAssumption
<1>3. \A k \in 1..n : level[Contents[c][k]] = level[c] + 1
  OBVIOUS
<1>4. /\ \A k \in 1..n : Contents[c][k] \in Signals => q[k] = <<[item |-> Contents[c][k], skip |-> nskip]>>
      /\ \A k \in 1..n : Contents[c][k] \in Scopes => q[k] = below[Contents[c][k]]
      /\ q = [k \in 1..n |-> q[k]]
  BY <1>2
<1>5. head \in Visit /\ head.item = c /\ head.skip = nskip
  BY DEF Visit
<1>. HIDE DEF q, head, nskip, n
<1>6. \A k \in 1..n : Contents[c][k] \in Signals =>
          /\ q[k] \in Seq(Visit) /\ Once(q[k]) /\ ItemsOf(q[k]) = {Contents[c][k]}
          /\ Range(q[k]) = {[item |-> Contents[c][k], skip |-> nskip]}
  <2>. SUFFICES ASSUME NEW k \in 1..n, Contents[c][k] \in Signals
                PROVE  /\ q[k] \in Seq(Visit) /\ Once(q[k]) /\ ItemsOf(q[k]) = {Contents[c][k]}
                       /\ Range(q[k]) = {[item |-> Contents[c][k], skip |-> nskip]}
    OBVIOUS
  <2>. DEFINE x == [item |-> Contents[c][k], skip |-> nskip]
  <2>1. x \in Visit /\ x.item = Contents[c][k]
    BY DEF Visit, nskip
  <2>. HIDE DEF x
  <2>2. q[k] = <<x>>
    BY <1>4 DEF x
  <2>. QED  BY <2>1, <2>2, OneVisit DEF x
<1>7. \A k \in 1..n : Contents[c][k] \in Scopes =>
          /\ q[k] \in Seq(Visit) /\ Once(q[k])
          /\ \A x \in Visit : x \in Range(q[k]) <=> Comes(x, w[Contents[c][k]], included)
          /\ \A y \in ItemsOf(q[k]) : \E a \in w[Contents[c][k]] :
                a \in Scopes /\ (y = a \/ (y \in Range(Contents[a]) /\ y \in Signals))
  <2>. SUFFICES ASSUME NEW k \in 1..n, Contents[c][k] \in Scopes
                PROVE  /\ q[k] \in Seq(Visit) /\ Once(q[k])
                       /\ \A x \in Visit : x \in Range(q[k]) <=> Comes(x, w[Contents[c][k]], included)
                       /\ \A y \in ItemsOf(q[k]) : \E a \in w[Contents[c][k]] :
                             a \in Scopes /\ (y = a \/ (y \in Range(Contents[a]) /\ y \in Signals))
    OBVIOUS
  <2>1. RightVisits(q[k], w[Contents[c][k]], included)
    BY <1>4
  <2>2. ASSUME NEW y \in ItemsOf(q[k])
        PROVE  \E a \in w[Contents[c][k]] :
                  a \in Scopes /\ (y = a \/ (y \in Range(Contents[a]) /\ y \in Signals))
    <3>1. PICK x \in Range(q[k]) : y = x.item
      BY DEF ItemsOf
    <3>2. x \in Visit
      BY <2>1, <3>1, RangeOf DEF RightVisits
    <3>3. Comes(x, w[Contents[c][k]], included)
      BY <2>1, <3>1, <3>2 DEF RightVisits
    <3>. QED  BY <3>1, <3>3 DEF Comes
  <2>. QED  BY <2>1, <2>2 DEF RightVisits
<1>8. q \in Seq(Seq(Visit)) /\ Len(q) = n
  <2>1. \A k \in 1..n : q[k] \in Seq(Visit)
    BY <1>2, <1>6, <1>7
  <2>. DEFINE T == Seq(Visit)
  <2>. HIDE DEF T
  <2>2. q \in [1..n -> T]
    BY <1>4, <2>1 DEF T
  <2>. QED  BY <1>2, <2>2 DEF T
<1>9. \A j, k \in 1..n : j # k => ItemsOf(q[j]) \cap ItemsOf(q[k]) = {}
  <2>1. ASSUME NEW j \in 1..n, NEW k \in 1..n, Contents[c][j] \in Signals, Contents[c][k] \in Scopes,
               NEW y \in ItemsOf(q[j]), y \in ItemsOf(q[k])
        PROVE  FALSE
    <3>1. y = Contents[c][j] /\ y \in Signals /\ y \notin Scopes
      <4>1. ItemsOf(q[j]) = {Contents[c][j]}
        BY <1>6, <2>1
      <4>. QED  BY <1>2, <2>1, <4>1
    <3>2. PICK a \in w[Contents[c][k]] : a \in Scopes /\ y \in Range(Contents[a])
      BY <1>7, <2>1, <3>1
    <3>3. y \in Range(Contents[c])
      BY <1>2, <3>1
    <3>4. a = c
      BY <3>2, <3>3, TreeTyped
    <3>5. level[c] >= level[c] + 1 /\ level[c] \in Nat
      BY <1>3, <2>1, <3>2, <3>4
    <3>. QED  BY <3>5
  <2>2. ASSUME NEW j \in 1..n, NEW k \in 1..n, Contents[c][j] \in Scopes, Contents[c][k] \in Scopes, j # k,
               NEW y \in ItemsOf(q[j]), y \in ItemsOf(q[k])
        PROVE  FALSE
    <3>1. PICK a \in w[Contents[c][j]] :
              a \in Scopes /\ (y = a \/ (y \in Range(Contents[a]) /\ y \in Signals))
      BY <1>7, <2>2
    <3>2. PICK b \in w[Contents[c][k]] :
              b \in Scopes /\ (y = b \/ (y \in Range(Contents[b]) /\ y \in Signals))
      BY <1>7, <2>2
    <3>3. a = b
      <4>1. CASE y \in Scopes
        BY <1>2, <3>1, <3>2, <4>1
      <4>2. CASE y \notin Scopes
        BY <3>1, <3>2, <4>2, TreeTyped
      <4>. QED  BY <4>1, <4>2
    <3>4. Contents[c][j] # Contents[c][k] /\ level[Contents[c][j]] = level[Contents[c][k]]
      BY <1>2, <1>3, <2>2
    <3>. QED  BY <2>2, <3>1, <3>2, <3>3, <3>4
  <2>3. ASSUME NEW j \in 1..n, NEW k \in 1..n, j # k, NEW y \in ItemsOf(q[j]), y \in ItemsOf(q[k])
        PROVE  FALSE
    <3>1. CASE Contents[c][j] \in Signals /\ Contents[c][k] \in Signals
      <4>1. ItemsOf(q[j]) = {Contents[c][j]} /\ ItemsOf(q[k]) = {Contents[c][k]}
        BY <1>6, <3>1
      <4>. QED  BY <1>2, <2>3, <4>1
    <3>. QED  BY <1>2, <2>1, <2>2, <2>3, <3>1
  <2>. QED  BY <2>3
<1>. DEFINE f == FlattenSeq(q)
<1>10. /\ f \in Seq(Visit) /\ Once(f)
       /\ \A x : x \in Range(f) <=> \E k \in 1..n : x \in Range(q[k])
  <2>1. \A k \in 1..n : Once(q[k])
    BY <1>2, <1>6, <1>7
  <2>. QED  BY <1>8, <1>9, <2>1, FlattenVisits
<1>. HIDE DEF f
<1>11. c \notin ItemsOf(f)
  <2>. SUFFICES ASSUME NEW x \in Range(f), x.item = c PROVE FALSE
    BY DEF ItemsOf
  <2>1. PICK k \in 1..n : x \in Range(q[k])
    BY <1>10
  <2>2. c \in ItemsOf(q[k])
    BY <2>1 DEF ItemsOf
  <2>3. Contents[c][k] \in Scopes
    <3>1. CASE Contents[c][k] \in Signals
      <4>1. ItemsOf(q[k]) = {Contents[c][k]}
        BY <1>6, <3>1
      <4>. QED  BY <1>2, <2>2, <3>1, <4>1
    <3>. QED  BY <1>2, <3>1
  <2>4. c \in w[Contents[c][k]]
    BY <1>2, <1>7, <2>2, <2>3
  <2>5. level[c] >= level[c] + 1 /\ level[c] \in Nat
    BY <1>3, <2>3, <2>4
  <2>. QED  BY <2>5
<1>. DEFINE v == <<head>> \o f
<1>12. v \in Seq(Visit) /\ Once(v) /\ Range(v) = {head} \cup Range(f)
  <2>1. <<head>> \in Seq(Visit) /\ Range(<<head>>) = {head} /\ Once(<<head>>) /\ ItemsOf(<<head>>) = {c}
    BY <1>5, OneVisit
  <2>. DEFINE h == <<head>>
  <2>2. h \in Seq(Visit) /\ Range(h) = {head} /\ Once(h) /\ ItemsOf(h) \cap ItemsOf(f) = {}
    BY <1>11, <2>1
  <2>3. v = h \o f
    OBVIOUS
  <2>. HIDE DEF h, v
  <2>. QED  BY <1>10, <2>2, <2>3, ConcatVisits
<1>. HIDE DEF v
<1>13. ASSUME NEW x \in Visit, x \in Range(v) PROVE Comes(x, W, included)
  <2>1. CASE x = head
    BY <1>5, <2>1 DEF Comes, nskip
  <2>2. ASSUME NEW k \in 1..n, x \in Range(q[k]) PROVE Comes(x, W, included)
    <3>1. CASE Contents[c][k] \in Signals
      <4>1. x.item = Contents[c][k] /\ x.skip = nskip
        BY <1>6, <2>2, <3>1
      <4>2. x.item \in Range(Contents[c]) \cap Signals
        BY <1>2, <3>1, <4>1
      <4>. QED  BY <4>1, <4>2 DEF Comes, nskip
    <3>2. CASE Contents[c][k] \in Scopes
      <4>1. Comes(x, w[Contents[c][k]], included)
        BY <1>7, <2>2, <3>2
      <4>2. w[Contents[c][k]] \subseteq W
        BY <3>2 DEF n
      <4>. QED  BY <4>1, <4>2 DEF Comes
    <3>. QED  BY <1>2, <3>1, <3>2
  <2>. QED  BY <1>10, <1>12, <1>13, <2>1, <2>2
<1>14. ASSUME NEW x \in Visit, Comes(x, W, included) PROVE x \in Range(v)
  <2>1. PICK a \in W : x.skip = (a \in included) /\ (x.item = a \/ x.item \in Range(Contents[a]) \cap Signals)
    BY <1>14 DEF Comes
  <2>2. x = [item |-> x.item, skip |-> x.skip]
    BY DEF Visit
  <2>3. CASE a = c
    <3>1. CASE x.item = c
      <4>1. x = head
        BY <2>1, <2>2, <2>3, <3>1 DEF head, nskip
      <4>. QED  BY <1>12, <4>1
    <3>2. CASE x.item \in Range(Contents[c]) \cap Signals
      <4>1. PICK k \in 1..n : x.item = Contents[c][k]
        BY <1>2, <3>2
      <4>2. x = [item |-> Contents[c][k], skip |-> nskip]
        BY <2>1, <2>2, <2>3, <4>1 DEF nskip
      <4>3. x \in Range(q[k])
        BY <1>6, <3>2, <4>1, <4>2
      <4>. QED  BY <1>10, <1>12, <4>3
    <3>. QED  BY <2>1, <2>3, <3>1, <3>2
  <2>4. CASE a # c
    <3>1. PICK k \in 1..n : Contents[c][k] \in Scopes /\ a \in w[Contents[c][k]]
      BY <2>4 DEF n
    <3>2. Comes(x, w[Contents[c][k]], included)
      BY <2>1, <3>1 DEF Comes
    <3>3. x \in Range(q[k])
      BY <1>7, <3>1, <3>2
    <3>. QED  BY <1>10, <1>12, <3>3
  <2>. QED  BY <2>3, <2>4
<1>15. scan_scope(c, c \in included, below) = v
  BY <1>1 DEF v, f, q, head, nskip
<1>. QED  BY <1>12, <1>13, <1>14, <1>15 DEF RightVisits

\* A scan visits each scope within its depth and each signal in these once, and knows
\* which scopes were included.
LEMMA VisitsRight ==
    ASSUME NEW depth \in Nat, NEW included
    PROVE  \A d \in 0..depth : \A c \in Scopes :
              RightVisits(Visits(depth, included)[d][c], ScopesWithin(depth)[d][c], included)
<1>. DEFINE v == Visits(depth, included)
            w == ScopesWithin(depth)
            S == {n \in Nat : n \in 0..depth => \A c \in Scopes : RightVisits(v[n][c], w[n][c], included)}
<1>1. PICK level \in [Scopes \cup Signals -> Nat] :
          \A c \in Scopes : \A k \in 1..Len(Contents[c]) : level[Contents[c][k]] = level[c] + 1
  BY TreeLevels
<1>2. 0 \in S
  <2>1. ASSUME NEW c \in Scopes PROVE RightVisits(<<>>, {}, included)
    <3>1. <<>> \in Seq(Visit) /\ Len(<<>>) = 0 /\ \A x : x \notin Range(<<>>)
      BY DEF Range
    <3>2. 1..0 = {}
      OBVIOUS
    <3>. QED  BY <3>1, <3>2 DEF RightVisits, Once, Comes
  <2>2. ASSUME NEW c \in Scopes PROVE v[0][c] = <<>> /\ w[0][c] = {}
    <3>1. v[0][c] = <<>>
      BY VisitsStep
    <3>2. w[0][c] = {}
      BY WithinStep
    <3>. QED  BY <3>1, <3>2
  <2>. QED  BY <2>1, <2>2
<1>3. ASSUME NEW n \in S PROVE n + 1 \in S
  <2>. SUFFICES ASSUME n + 1 \in 0..depth, NEW c \in Scopes
                PROVE  RightVisits(v[n + 1][c], w[n + 1][c], included)
    OBVIOUS
  <2>1. n \in 0..depth /\ n \in Nat
    OBVIOUS
  <2>2. \A a \in Scopes : RightVisits(v[n][a], w[n][a], included)
    BY <2>1
  <2>3. \A a \in Scopes : \A x \in w[n][a] : x \in Scopes /\ level[x] >= level[a]
    BY <1>1, <2>1, WithinBelow
  <2>4. \A a, b \in Scopes : a # b /\ level[a] = level[b] => w[n][a] \cap w[n][b] = {}
    BY <1>1, <2>1, WithinApart
  <2>5. \A x : x \in w[n + 1][c] <=>
            \/ x = c
            \/ \E k \in 1..Len(Contents[c]) : Contents[c][k] \in Scopes /\ x \in w[n][Contents[c][k]]
    BY <2>1, WithinStep
  <2>6. v[n + 1][c] = scan_scope(c, c \in included, v[n])
    BY <2>1, VisitsStep
  <2>. DEFINE vn == v[n]
              wn == w[n]
              W == w[n + 1][c]
  <2>7. RightVisits(scan_scope(c, c \in included, vn), W, included)
    <3>. HIDE DEF vn, wn, W
    <3>1. /\ \A a \in Scopes : RightVisits(vn[a], wn[a], included)
          /\ \A a \in Scopes : \A x \in wn[a] : x \in Scopes /\ level[x] >= level[a]
          /\ \A a, b \in Scopes : a # b /\ level[a] = level[b] => wn[a] \cap wn[b] = {}
      BY <2>2, <2>3, <2>4 DEF vn, wn
    <3>2. \A x : x \in W <=>
            \/ x = c
            \/ \E k \in 1..Len(Contents[c]) : Contents[c][k] \in Scopes /\ x \in wn[Contents[c][k]]
      BY <2>5 DEF W, wn
    <3>. QED  BY <1>1, <3>1, <3>2, ScopeVisits
  <2>. QED  BY <2>6, <2>7
<1>4. S = Nat
  <2>. HIDE DEF S
  <2>1. S \in SUBSET Nat
    BY DEF S
  <2>. QED  BY <1>2, <1>3, <2>1, SetInduction
<1>5. ASSUME NEW d \in 0..depth, NEW c \in Scopes PROVE RightVisits(v[d][c], w[d][c], included)
  <2>1. d \in S
    BY <1>4
  <2>. QED  BY <2>1
<1>. QED  BY <1>5

-----------------------------------------------------------------------------
(* A scan: what it lists and what it declares.                             *)

\* The items of the first visits that are not skipped.
Taken(v, k) == {v[j].item : j \in {i \in 1..k : ~v[i].skip}}

\* The signals a scan leaves out.
LeftOut(s) == Automatic \cup IF KeepsNames THEN s.vcd_var ELSE {}

\* The tables r, after some of the visits: T is what they took.
AfterVisits(s, r, T) ==
    /\ Sound(r) /\ r.vcd_var = s.vcd_var
    /\ r.vcd_tab.sorted = s.vcd_tab.sorted
    /\ r.vcd_tab.listed = s.vcd_tab.listed \cup (T \cap Scopes)
    /\ Names(r) = Names(s) \cup ((T \cap Signals) \ LeftOut(s))

LEMMA TakenMore ==
    ASSUME NEW v \in Seq(Visit), NEW k \in Nat, k + 1 \in 1..Len(v)
    PROVE  /\ Taken(v, k + 1) = IF v[k + 1].skip THEN Taken(v, k) ELSE Taken(v, k) \cup {v[k + 1].item}
           /\ Once(v) => v[k + 1].item \notin Taken(v, k)
           /\ Taken(v, k) \subseteq Taken(v, k + 1)
<1>1. 1..(k + 1) = (1..k) \cup {k + 1}
  OBVIOUS
<1>2. Taken(v, k + 1) = IF v[k + 1].skip THEN Taken(v, k) ELSE Taken(v, k) \cup {v[k + 1].item}
  BY <1>1 DEF Taken
<1>3. ASSUME Once(v), v[k + 1].item \in Taken(v, k) PROVE FALSE
  <2>1. PICK j \in 1..k : v[j].item = v[k + 1].item
    BY <1>3 DEF Taken
  <2>2. j \in 1..Len(v) /\ j # k + 1
    OBVIOUS
  <2>. QED  BY <1>3, <2>1, <2>2 DEF Once
<1>. QED  BY <1>2, <1>3

\* One visit.
LEMMA VisitSound ==
    ASSUME NEW s, Sound(s), NEW x \in Visit,
           KeepsNames /\ ~x.skip /\ x.item \in Signals /\ x.item \notin s.vcd_var => x.item \notin Names(s)
    PROVE  AfterVisits(s, scan_visit(s, x), IF x.skip THEN {} ELSE {x.item})
<1>. DEFINE r == scan_visit(s, x)
            T == IF x.skip THEN {} ELSE {x.item}
<1>1. /\ x.item \in Scopes \cup Signals /\ x.skip \in BOOLEAN /\ Scopes \cap Signals = {}
      /\ s \in Tables /\ s.vcd_tab \in NameTable
  BY DesignAssumption DEF Visit, Sound, Tables
<1>2. CASE x.item \in Signals
  <2>1. r = scan_signal(s, x.item, x.skip)
    BY <1>2 DEF scan_visit
  <2>. HIDE DEF r
  <2>2. Sound(r) /\ r.vcd_tab = s.vcd_tab /\ r.vcd_var = s.vcd_var
    <3>1. Sound(r)
      BY <1>1, <1>2, <2>1, ScanSignalSound
    <3>2. r.vcd_tab = s.vcd_tab
      BY <1>1, <1>2, <2>1, ScanSignalSound
    <3>3. r.vcd_var = s.vcd_var
      BY <1>1, <1>2, <2>1, ScanSignalSound
    <3>. QED  BY <3>1, <3>2, <3>3
  <2>3. Names(r) = IF x.skip \/ x.item \in Automatic \/ (KeepsNames /\ x.item \in s.vcd_var)
                   THEN Names(s) ELSE Names(s) \cup {x.item}
    <3>1. Includes(s, r, x.item, x.skip)
      BY <1>1, <1>2, <2>1, ScanSignalSound
    <3>. QED  BY <3>1 DEF Includes
  <2>4. T \cap Scopes = {} /\ T \cap Signals = T
    BY <1>1, <1>2
  <2>5. Names(r) = Names(s) \cup (T \ LeftOut(s))
    BY <1>1, <2>3 DEF LeftOut
  <2>. HIDE DEF T
  <2>. QED  BY <2>2, <2>4, <2>5 DEF AfterVisits, r, T
<1>3. CASE x.item \notin Signals /\ x.skip
  <2>1. r = s /\ T = {}
    BY <1>3 DEF scan_visit
  <2>. HIDE DEF r, T
  <2>. QED  BY <2>1 DEF AfterVisits, r, T
<1>4. CASE x.item \notin Signals /\ ~x.skip
  <2>. DEFINE tab == vcd_names_add(s.vcd_tab, x.item)
  <2>1. /\ tab \in NameTable /\ tab.sorted = s.vcd_tab.sorted
        /\ tab.listed = s.vcd_tab.listed \cup {x.item}
    BY <1>1, <1>4 DEF NameTable, vcd_names_add
  <2>2. r = [s EXCEPT !.vcd_tab = tab]
    BY <1>4 DEF scan_visit
  <2>. HIDE DEF tab, r
  <2>3. /\ r \in Tables /\ r.vcd_tab = tab /\ r.declared = s.declared /\ r.vcd_list = s.vcd_list
        /\ r.vcd_var = s.vcd_var /\ r.vcd_ids = s.vcd_ids
    BY <1>1, <2>1, <2>2 DEF Tables
  <2>4. Sound(r) /\ Names(r) = Names(s)
    <3>1. Names(r) = Names(s) /\ Given(r) = Given(s)
      BY <2>3 DEF Names, Given
    <3>2. Counted(r)
      BY <2>3, <3>1 DEF Sound, Counted
    <3>3. Shared(r)
      BY <2>3 DEF Sound, Shared
    <3>4. Covered(r)
      BY <2>3, <3>1 DEF Sound, Covered
    <3>. QED  BY <2>3, <3>1, <3>2, <3>3, <3>4 DEF Sound
  <2>5. T = {x.item} /\ T \cap Signals = {} /\ T \cap Scopes = T
    BY <1>1, <1>4
  <2>. HIDE DEF T
  <2>. QED  BY <2>1, <2>3, <2>4, <2>5 DEF AfterVisits, r, T
<1>. QED  BY <1>1, <1>2, <1>3, <1>4

LEMMA ScanSound ==
    ASSUME NEW s, Sound(s), NEW v \in Seq(Visit), Once(v),
           KeepsNames => \A y \in Taken(v, Len(v)) \cap Signals : y \in s.vcd_var \/ y \notin Names(s)
    PROVE  AfterVisits(s, Scanned(s, v)[Len(v)], Taken(v, Len(v)))
<1>. DEFINE n == Len(v)
            f == Scanned(s, v)
            S == {k \in Nat : k \in 0..n => AfterVisits(s, f[k], Taken(v, k))}
<1>1. n \in Nat
  OBVIOUS
<1>2. f = [k \in 0..n |-> IF k = 0 THEN s ELSE scan_visit(f[k - 1], v[k])]
  BY <1>1, ScannedDefined
<1>. HIDE DEF f
<1>3. 0 \in S
  <2>1. f[0] = s
    BY <1>1, <1>2
  <2>2. Taken(v, 0) = {}
    BY DEF Taken
  <2>3. s.vcd_tab.listed \cup ({} \cap Scopes) = s.vcd_tab.listed
    OBVIOUS
  <2>. QED  BY <2>1, <2>2, <2>3 DEF AfterVisits
<1>4. \A k, m \in Nat : k <= m => Taken(v, k) \subseteq Taken(v, m)
  <2>. SUFFICES ASSUME NEW k \in Nat, NEW m \in Nat, k <= m PROVE Taken(v, k) \subseteq Taken(v, m)
    OBVIOUS
  <2>1. 1..k \subseteq 1..m
    OBVIOUS
  <2>. QED  BY <2>1 DEF Taken
<1>5. ASSUME NEW k \in S PROVE k + 1 \in S
  <2>. SUFFICES ASSUME k + 1 \in 0..n PROVE AfterVisits(s, f[k + 1], Taken(v, k + 1))
    OBVIOUS
  <2>. DEFINE r == f[k]
              q == f[k + 1]
              x == v[k + 1]
              T == Taken(v, k)
  <2>1. k \in Nat /\ k \in 0..n /\ k + 1 \in 1..n /\ AfterVisits(s, r, T)
    OBVIOUS
  <2>2. x \in Visit
    BY <2>1
  <2>3. q = scan_visit(r, x)
    <3>1. k + 1 # 0 /\ (k + 1) - 1 = k
      BY <2>1
    <3>. QED  BY <1>2, <2>1, <3>1
  <2>4. x.item \notin T /\ Taken(v, k + 1) = T \cup (IF x.skip THEN {} ELSE {x.item})
    BY <2>1, TakenMore
  <2>5. ~x.skip => x.item \in Taken(v, n)
    <3>1. ~x.skip => x.item \in Taken(v, k + 1)
      BY <2>4
    <3>. QED  BY <1>1, <1>4, <2>1, <3>1
  <2>. DEFINE new == IF x.skip THEN {} ELSE {x.item}
              T1 == Taken(v, k + 1)
  <2>6. T1 = T \cup new /\ x.item \notin T
    BY <2>4
  <2>7. KeepsNames /\ ~x.skip /\ x.item \in Signals /\ x.item \notin r.vcd_var => x.item \notin Names(r)
    <3>. HIDE DEF r, q, x, T, n, S
    <3>1. KeepsNames /\ ~x.skip /\ x.item \in Signals /\ x.item \notin s.vcd_var => x.item \notin Names(s)
      BY <2>5 DEF n
    <3>. QED  BY <2>1, <2>6, <3>1 DEF AfterVisits
  <2>8. AfterVisits(r, q, new)
    <3>1. Sound(r)
      BY <2>1 DEF AfterVisits
    <3>. HIDE DEF r, q, x, T, n, S
    <3>. QED  BY <2>2, <2>3, <2>7, <3>1, VisitSound DEF new
  <2>. HIDE DEF r, q, x, T, n, S, new, T1
  <2>9. Sound(q) /\ q.vcd_var = s.vcd_var /\ q.vcd_tab.sorted = s.vcd_tab.sorted
    BY <2>1, <2>8 DEF AfterVisits
  <2>10. q.vcd_tab.listed = s.vcd_tab.listed \cup (T1 \cap Scopes)
    BY <2>1, <2>6, <2>8 DEF AfterVisits
  <2>11. LeftOut(r) = LeftOut(s)
    BY <2>1 DEF AfterVisits, LeftOut
  <2>12. Names(q) = Names(s) \cup ((T1 \cap Signals) \ LeftOut(s))
    BY <2>1, <2>6, <2>8, <2>11 DEF AfterVisits
  <2>. QED  BY <2>9, <2>10, <2>12 DEF AfterVisits, q, T1
<1>6. S = Nat
  <2>. HIDE DEF S
  <2>1. S \in SUBSET Nat
    BY DEF S
  <2>. QED  BY <1>3, <1>5, <2>1, SetInduction
<1>7. n \in S /\ n \in 0..n
  BY <1>1, <1>6
<1>. QED  BY <1>7 DEF f

-----------------------------------------------------------------------------
(* An item of a call, and a call.                                          *)

\* The signals in some scopes.
SignalsIn(C) == {x \in Signals : \E c \in C : x \in Range(Contents[c])}

\* Between calls the signals of the scopes that are sorted are declared and, where the
\* names are kept, no other but those that were given by themselves.
Good(s) ==
    /\ Sound(s) /\ s.vcd_tab.listed = {}
    /\ SignalsIn(s.vcd_tab.sorted) \ Automatic \subseteq Names(s)
    /\ KeepsNames => Names(s) = (SignalsIn(s.vcd_tab.sorted) \cup s.vcd_var) \ Automatic

RequestedOf(depth, item) ==
    IF item \in Signals THEN {item} ELSE SignalsIn(ScopesWithin(depth)[depth][item])

\* A signal is in one scope.
LEMMA OneScope ==
    ASSUME NEW x, NEW c \in Scopes, NEW d \in Scopes, x \in Range(Contents[c]), x \in Range(Contents[d])
    PROVE  c = d
  BY TreeTyped

\* T has some scopes and the signals in them.
WithSignals(T, C) == T \cap Scopes = C /\ T \cap Signals = SignalsIn(C)

\* What the visits of a scope take.
LEMMA ScopeTaken ==
    ASSUME NEW v, NEW W \in SUBSET Scopes, NEW included \in SUBSET Scopes, RightVisits(v, W, included)
    PROVE  WithSignals(Taken(v, Len(v)), W \ included)
<1>. DEFINE T == Taken(v, Len(v))
<1>1. /\ v \in Seq(Visit) /\ Scopes \cap Signals = {}
      /\ \A x \in Visit : x \in Range(v) <=> Comes(x, W, included)
  BY DesignAssumption DEF RightVisits
<1>2. /\ Range(v) \subseteq Visit
      /\ \A k \in 1..Len(v) : v[k] \in Visit /\ v[k] \in Range(v)
      /\ \A x \in Range(v) : \E k \in 1..Len(v) : v[k] = x
  BY <1>1, RangeOf
<1>3. \A y : y \in T <=> \E k \in 1..Len(v) : ~v[k].skip /\ v[k].item = y
  BY DEF Taken
<1>. HIDE DEF T
<1>4. ASSUME NEW y \in T
      PROVE  \E c \in W \ included : y = c \/ (y \in Range(Contents[c]) /\ y \in Signals)
  <2>1. PICK k \in 1..Len(v) : ~v[k].skip /\ v[k].item = y
    BY <1>3
  <2>2. Comes(v[k], W, included)
    BY <1>1, <1>2
  <2>. QED  BY <2>1, <2>2 DEF Comes
<1>5. ASSUME NEW c \in W \ included, NEW y \in {c} \cup (Range(Contents[c]) \cap Signals)
      PROVE  y \in T
  <2>. DEFINE x == [item |-> y, skip |-> FALSE]
  <2>1. x \in Visit /\ x.item = y /\ x.skip = FALSE
    BY DEF Visit
  <2>. HIDE DEF x
  <2>2. Comes(x, W, included)
    <3>1. c \in W /\ (c \in included) = FALSE
      BY <1>5
    <3>2. x.item = c \/ x.item \in Range(Contents[c]) \cap Signals
      BY <1>5, <2>1
    <3>3. x.skip = (c \in included)
      BY <2>1, <3>1
    <3>. QED  BY <3>1, <3>2, <3>3 DEF Comes
  <2>3. x \in Range(v)
    BY <1>1, <2>1, <2>2
  <2>4. PICK k \in 1..Len(v) : v[k] = x
    BY <1>2, <2>3
  <2>. QED  BY <1>3, <2>1, <2>4
<1>6. T \cap Scopes = W \ included
  BY <1>1, <1>4, <1>5
<1>7. T \cap Signals = SignalsIn(W \ included)
  <2>1. ASSUME NEW y \in T, y \in Signals PROVE y \in SignalsIn(W \ included)
    BY <1>1, <1>4, <2>1 DEF SignalsIn
  <2>2. ASSUME NEW y \in SignalsIn(W \ included) PROVE y \in T /\ y \in Signals
    BY <1>5 DEF SignalsIn
  <2>. QED  BY <2>1, <2>2
<1>. QED  BY <1>6, <1>7 DEF T, WithSignals

\* The names of the scopes are put in order, and a signal may be kept.
SortedFrom(s, r, kept) ==
    /\ Sound(r) /\ Names(r) = Names(s) /\ r.vcd_var = s.vcd_var \cup kept
    /\ r.vcd_tab.listed = {}
    /\ r.vcd_tab.sorted = s.vcd_tab.sorted \cup s.vcd_tab.listed

LEMMA SortedSound ==
    ASSUME NEW s, Sound(s), NEW kept \in SUBSET Signals
    PROVE  LET q == [s EXCEPT !.vcd_tab = vcd_names_sort(@)]
           IN SortedFrom(s, q, {}) /\ SortedFrom(s, [q EXCEPT !.vcd_var = @ \cup kept], kept)
<1>. DEFINE tab == vcd_names_sort(s.vcd_tab)
            q == [s EXCEPT !.vcd_tab = vcd_names_sort(@)]
            r == [q EXCEPT !.vcd_var = @ \cup kept]
<1>1. s \in Tables /\ s.vcd_tab \in NameTable
  BY DEF Sound, Tables
<1>2. tab \in NameTable /\ tab.listed = {} /\ tab.sorted = s.vcd_tab.sorted \cup s.vcd_tab.listed
  BY <1>1 DEF NameTable, vcd_names_sort
<1>. HIDE DEF tab
<1>3. q = [s EXCEPT !.vcd_tab = tab]
  BY DEF tab
<1>. HIDE DEF q
<1>4. /\ q \in Tables /\ q.vcd_tab = tab /\ q.declared = s.declared /\ q.vcd_list = s.vcd_list
      /\ q.vcd_var = s.vcd_var /\ q.vcd_ids = s.vcd_ids
  BY <1>1, <1>2, <1>3 DEF Tables
<1>5. /\ r \in Tables /\ r.vcd_tab = tab /\ r.declared = s.declared /\ r.vcd_list = s.vcd_list
      /\ r.vcd_var = s.vcd_var \cup kept /\ r.vcd_ids = s.vcd_ids
  BY <1>4 DEF Tables
<1>. HIDE DEF r
<1>6. ASSUME NEW p \in Tables, p.declared = s.declared, p.vcd_list = s.vcd_list, p.vcd_ids = s.vcd_ids
      PROVE  Sound(p) /\ Names(p) = Names(s)
  <2>1. Names(p) = Names(s) /\ Given(p) = Given(s)
    BY <1>6 DEF Names, Given
  <2>2. Counted(p)
    BY <1>6, <2>1 DEF Sound, Counted
  <2>3. Shared(p)
    BY <1>6 DEF Sound, Shared
  <2>4. Covered(p)
    BY <1>6, <2>1 DEF Sound, Covered
  <2>. QED  BY <2>1, <2>2, <2>3, <2>4 DEF Sound
<1>7. SortedFrom(s, q, {})
  BY <1>2, <1>4, <1>6 DEF SortedFrom
<1>8. SortedFrom(s, r, kept)
  BY <1>2, <1>5, <1>6 DEF SortedFrom
<1>. QED  BY <1>7, <1>8 DEF q, r

\* What an item of a call adds.
AddsItem(s, r, depth, item) == Names(r) = Names(s) \cup (RequestedOf(depth, item) \ Automatic)

\* A signal that was not included.
LEMMA DumpSignal ==
    ASSUME NEW s, Good(s), NEW depth \in Nat, NEW item \in Signals,
           KeepsNames => item \notin SignalsIn(s.vcd_tab.sorted) /\ item \notin s.vcd_var
    PROVE  AfterVisits(s, scan_item(s, depth, item), {item})
<1>. DEFINE x == [item |-> item, skip |-> FALSE]
            v == <<x>>
<1>1. x \in Visit /\ x.item = item /\ x.skip = FALSE
  BY DEF Visit
<1>. HIDE DEF x
<1>2. v \in Seq(Visit) /\ Len(v) = 1 /\ v[1] = x /\ Once(v)
  BY <1>1, OneVisit
<1>3. scan_item(s, depth, item) = Scanned(s, v)[Len(v)]
  BY DEF scan_item, x
<1>. HIDE DEF v
<1>4. Taken(v, Len(v)) = {item}
  <2>1. 1..1 = {1}
    OBVIOUS
  <2>. QED  BY <1>1, <1>2, <2>1 DEF Taken
<1>5. KeepsNames => \A y \in Taken(v, Len(v)) \cap Signals : y \in s.vcd_var \/ y \notin Names(s)
  BY <1>4 DEF Good
<1>6. Sound(s)
  BY DEF Good
<1>7. AfterVisits(s, Scanned(s, v)[Len(v)], Taken(v, Len(v)))
  BY <1>2, <1>5, <1>6, ScanSound
<1>. QED  BY <1>3, <1>4, <1>7

\* A scope.
LEMMA DumpScope ==
    ASSUME NEW s, Good(s), NEW depth \in Nat, NEW item \in Scopes,
           NEW W, W = ScopesWithin(depth)[depth][item]
    PROVE  /\ W \in SUBSET Scopes
           /\ \E T : /\ AfterVisits(s, scan_item(s, depth, item), T)
                     /\ WithSignals(T, W \ s.vcd_tab.sorted)
<1>. DEFINE C == s.vcd_tab.sorted
            v == Visits(depth, C)[depth][item]
            T == Taken(v, Len(v))
<1>1. /\ Sound(s) /\ C \in SUBSET Scopes /\ depth \in 0..depth
      /\ item \notin Signals
  BY DesignAssumption DEF Good, Sound, Tables, NameTable
<1>2. W \in SUBSET Scopes
  <2>1. PICK level \in [Scopes \cup Signals -> Nat] :
          \A c \in Scopes : \A k \in 1..Len(Contents[c]) : level[Contents[c][k]] = level[c] + 1
    BY TreeLevels
  <2>2. \A y \in W : y \in Scopes
    BY <1>1, <2>1, WithinBelow
  <2>. QED  BY <2>2
<1>3. RightVisits(v, W, C)
  BY <1>1, VisitsRight
<1>4. scan_item(s, depth, item) = Scanned(s, v)[Len(v)]
  BY <1>1 DEF scan_item
<1>. HIDE DEF v, C
<1>5. T \cap Scopes = W \ C /\ T \cap Signals = SignalsIn(W \ C)
  <2>1. C \in SUBSET Scopes
    BY <1>1
  <2>2. WithSignals(T, W \ C)
    BY <1>2, <1>3, <2>1, ScopeTaken
  <2>. QED  BY <2>2 DEF WithSignals
<1>6. KeepsNames => \A y \in T \cap Signals : y \in s.vcd_var \/ y \notin Names(s)
  <2>. SUFFICES ASSUME KeepsNames, NEW y \in SignalsIn(W \ C), y \in Names(s) PROVE y \in s.vcd_var
    BY <1>5
  <2>1. y \in SignalsIn(C) \cup s.vcd_var
    BY DEF Good, C
  <2>2. y \notin SignalsIn(C)
    BY <1>1, <1>2, OneScope DEF SignalsIn
  <2>. QED  BY <2>1, <2>2
<1>7. v \in Seq(Visit) /\ Once(v)
  BY <1>3 DEF RightVisits
<1>8. AfterVisits(s, Scanned(s, v)[Len(v)], T)
  BY <1>1, <1>6, <1>7, ScanSound
<1>. QED  BY <1>2, <1>4, <1>5, <1>8 DEF C, WithSignals

LEMMA ItemGood ==
    ASSUME NEW s, Good(s), NEW depth \in Nat, NEW item \in Scopes \cup Signals
    PROVE  Good(dump_item(s, depth, item)) /\ AddsItem(s, dump_item(s, depth, item), depth, item)
<1>. DEFINE named == KeepsNames /\ item \in Signals
            included == ScopeOf(item) \cap s.vcd_tab.sorted # {} \/ item \in s.vcd_var
            C == s.vcd_tab.sorted
            r == dump_item(s, depth, item)
            q == scan_item(s, depth, item)
            kept == IF named THEN {item} ELSE {}
            sorted == [q EXCEPT !.vcd_tab = vcd_names_sort(@)]
            last == [sorted EXCEPT !.vcd_var = @ \cup kept]
<1>1. /\ Sound(s) /\ C \in SUBSET Scopes /\ s.vcd_var \in SUBSET Signals
      /\ Scopes \cap Signals = {} /\ s.vcd_tab.listed = {}
  BY DesignAssumption DEF Good, Sound, Tables, NameTable
<1>2. ScopeOf(item) \cap C # {} <=> \E c \in C : item \in Range(Contents[c])
  BY <1>1 DEF ScopeOf
<1>3. CASE named /\ included
  <2>1. r = s
    BY <1>3 DEF dump_item
  <2>2. item \in SignalsIn(C) \cup s.vcd_var
    BY <1>2, <1>3 DEF SignalsIn
  <2>3. {item} \ Automatic \subseteq Names(s)
    BY <1>3, <2>2 DEF Good
  <2>. HIDE DEF r
  <2>4. AddsItem(s, r, depth, item)
    BY <1>3, <2>1, <2>3 DEF AddsItem, RequestedOf
  <2>. QED  BY <2>1, <2>4 DEF r
<1>4. ASSUME ~(named /\ included)
      PROVE  /\ r = IF named THEN last ELSE sorted
             /\ Sound(q) => /\ Sound(r) /\ Names(r) = Names(q) /\ r.vcd_tab.listed = {}
                            /\ r.vcd_var = q.vcd_var \cup kept
                            /\ r.vcd_tab.sorted = q.vcd_tab.sorted \cup q.vcd_tab.listed
  <2>1. r = IF named THEN last ELSE sorted
    BY <1>4 DEF dump_item
  <2>2. ASSUME Sound(q)
        PROVE  /\ Sound(r) /\ Names(r) = Names(q) /\ r.vcd_tab.listed = {}
               /\ r.vcd_var = q.vcd_var \cup kept
               /\ r.vcd_tab.sorted = q.vcd_tab.sorted \cup q.vcd_tab.listed
    <3>1. kept \in SUBSET Signals
      OBVIOUS
    <3>2. SortedFrom(q, sorted, {}) /\ SortedFrom(q, last, kept)
      <4>. HIDE DEF q, kept
      <4>. QED  BY <2>2, <3>1, SortedSound
    <3>3. ~named => kept = {}
      OBVIOUS
    <3>. HIDE DEF r, q, kept, named, sorted, last
    <3>. QED  BY <2>1, <3>2, <3>3 DEF SortedFrom
  <2>. QED  BY <2>1, <2>2
<1>. HIDE DEF r, q, sorted, last
<1>5. CASE item \in Signals /\ ~(named /\ included)
  <2>1. KeepsNames => item \notin SignalsIn(C) /\ item \notin s.vcd_var
    BY <1>2, <1>5 DEF SignalsIn
  <2>2. AfterVisits(s, q, {item})
    BY <1>5, <2>1, DumpSignal DEF q
  <2>3. /\ Sound(q) /\ q.vcd_var = s.vcd_var /\ q.vcd_tab.sorted = C /\ q.vcd_tab.listed = {}
        /\ Names(q) = Names(s) \cup ({item} \ LeftOut(s))
    BY <1>1, <1>5, <2>2 DEF AfterVisits
  <2>4. /\ Sound(r) /\ Names(r) = Names(q) /\ r.vcd_tab.listed = {}
        /\ r.vcd_var = s.vcd_var \cup kept /\ r.vcd_tab.sorted = C
    BY <1>4, <1>5, <2>3
  <2>5. Names(r) = Names(s) \cup ({item} \ Automatic)
    BY <2>1, <2>3, <2>4 DEF LeftOut
  <2>6. AddsItem(s, r, depth, item)
    BY <1>5, <2>5 DEF AddsItem, RequestedOf
  <2>7. KeepsNames => kept = {item}
    BY <1>5
  <2>. HIDE DEF kept
  <2>. QED  BY <2>4, <2>5, <2>6, <2>7 DEF Good, r
<1>6. CASE item \notin Signals
  <2>1. item \in Scopes /\ ~named /\ kept = {}
    BY <1>6
  <2>. DEFINE W == ScopesWithin(depth)[depth][item]
  <2>2. W \in SUBSET Scopes
    BY <2>1, DumpScope
  <2>3. PICK T : AfterVisits(s, q, T) /\ WithSignals(T, W \ C)
    BY <2>1, DumpScope DEF q
  <2>. HIDE DEF W
  <2>4. /\ Sound(q) /\ q.vcd_var = s.vcd_var /\ q.vcd_tab.sorted = C
        /\ q.vcd_tab.listed = W \ C
        /\ Names(q) = Names(s) \cup (SignalsIn(W \ C) \ LeftOut(s))
    BY <1>1, <2>3 DEF AfterVisits, WithSignals
  <2>5. /\ Sound(r) /\ Names(r) = Names(q) /\ r.vcd_tab.listed = {}
        /\ r.vcd_var = s.vcd_var /\ r.vcd_tab.sorted = C \cup W
    BY <1>4, <2>1, <2>4
  <2>6. SignalsIn(C \cup W) = SignalsIn(C) \cup SignalsIn(W \ C)
    BY DEF SignalsIn
  <2>7. SignalsIn(C) \ Automatic \subseteq Names(s)
    BY DEF Good
  <2>8. KeepsNames => Names(s) = (SignalsIn(C) \cup s.vcd_var) \ Automatic
    BY DEF Good
  <2>9. Names(q) = Names(s) \cup (SignalsIn(W \ C) \ Automatic)
    BY <2>4, <2>8 DEF LeftOut
  <2>10. SignalsIn(W) \subseteq SignalsIn(C \cup W)
    BY DEF SignalsIn
  <2>11. SignalsIn(W \ C) \subseteq SignalsIn(W)
    BY DEF SignalsIn
  <2>12. Names(r) = Names(s) \cup (SignalsIn(W) \ Automatic)
    BY <2>5, <2>6, <2>7, <2>9, <2>10, <2>11
  <2>13. AddsItem(s, r, depth, item)
    BY <1>6, <2>12 DEF AddsItem, RequestedOf, W
  <2>14. SignalsIn(C \cup W) \ Automatic \subseteq Names(r)
    BY <2>5, <2>6, <2>7, <2>9
  <2>15. KeepsNames => Names(r) = (SignalsIn(C \cup W) \cup s.vcd_var) \ Automatic
    BY <2>5, <2>6, <2>8, <2>9
  <2>. QED  BY <2>5, <2>13, <2>14, <2>15 DEF Good, r
<1>. QED  BY <1>3, <1>5, <1>6 DEF r

\* The items of a call, one after another.
RequestedOfAll(depth, items, n) == UNION {RequestedOf(depth, items[j]) : j \in 1..n}

LEMMA CallGood ==
    ASSUME NEW s, Good(s), NEW depth \in Nat, NEW items \in Seq(Scopes \cup Signals),
           NEW r, r = Dumped(s, depth, items)[Len(items)]
    PROVE  Good(r) /\ Names(r) = Names(s) \cup (RequestedOfAll(depth, items, Len(items)) \ Automatic)
<1>. DEFINE n == Len(items)
            f == Dumped(s, depth, items)
            Right(k) == Good(f[k]) /\ Names(f[k]) = Names(s) \cup (RequestedOfAll(depth, items, k) \ Automatic)
            S == {k \in Nat : k \in 0..n => Right(k)}
<1>1. n \in Nat /\ \A k \in 1..n : items[k] \in Scopes \cup Signals
  OBVIOUS
<1>2. f = [k \in 0..n |-> IF k = 0 THEN s ELSE dump_item(f[k - 1], depth, items[k])]
  BY <1>1, DumpedDefined
<1>. HIDE DEF f, n
<1>3. 0 \in S
  <2>1. f[0] = s
    BY <1>1, <1>2
  <2>2. RequestedOfAll(depth, items, 0) = {}
    BY DEF RequestedOfAll
  <2>. QED  BY <2>1, <2>2
<1>4. ASSUME NEW k \in S PROVE k + 1 \in S
  <2>. SUFFICES ASSUME k + 1 \in 0..n PROVE Right(k + 1)
    OBVIOUS
  <2>1. k \in Nat /\ k \in 0..n /\ k + 1 \in 1..n /\ Right(k)
    BY <1>1
  <2>. DEFINE q == f[k]
              q1 == f[k + 1]
              x == items[k + 1]
  <2>2. q1 = dump_item(q, depth, x)
    <3>1. k + 1 # 0 /\ (k + 1) - 1 = k
      BY <2>1
    <3>. QED  BY <1>2, <2>1, <3>1
  <2>3. Good(q) /\ Names(q) = Names(s) \cup (RequestedOfAll(depth, items, k) \ Automatic)
    BY <2>1
  <2>4. x \in Scopes \cup Signals
    BY <1>1, <2>1
  <2>5. RequestedOfAll(depth, items, k + 1) = RequestedOfAll(depth, items, k) \cup RequestedOf(depth, x)
    <3>1. 1..(k + 1) = (1..k) \cup {k + 1}
      BY <2>1
    <3>2. \A m : \A y : y \in RequestedOfAll(depth, items, m)
                          <=> \E j \in 1..m : y \in RequestedOf(depth, items[j])
      BY DEF RequestedOfAll
    <3>3. \A y : y \in RequestedOfAll(depth, items, k + 1) <=>
                    y \in RequestedOfAll(depth, items, k) \/ y \in RequestedOf(depth, x)
      BY <3>1, <3>2
    <3>. QED  BY <3>3
  <2>. HIDE DEF q, q1, x
  <2>6. Good(q1) /\ AddsItem(q, q1, depth, x)
    BY <2>2, <2>3, <2>4, ItemGood
  <2>7. Names(q1) = Names(q) \cup (RequestedOf(depth, x) \ Automatic)
    BY <2>6 DEF AddsItem
  <2>8. Names(q1) = Names(s) \cup (RequestedOfAll(depth, items, k + 1) \ Automatic)
    BY <2>3, <2>5, <2>7
  <2>. QED  BY <2>6, <2>8 DEF q1
<1>5. S = Nat
  <2>. HIDE DEF S
  <2>1. S \in SUBSET Nat
    BY DEF S
  <2>. QED  BY <1>3, <1>4, <2>1, SetInduction
<1>6. n \in S /\ n \in 0..n
  BY <1>1, <1>5
<1>. QED  BY <1>6 DEF f, n

\* A call of $dumpvars declares what it asks for.
LEMMA DumpvarsGood ==
    ASSUME NEW s, Good(s), NEW arg \in Arguments,
           NEW r, r = Dumped(s, Levels(arg), Items(arg))[Len(Items(arg))]
    PROVE  Good(r) /\ Names(r) = Names(s) \cup Requested(arg)
<1>. DEFINE depth == Levels(arg)
            items == Items(arg)
<1>1. depth \in Nat
  <2>1. Cardinality(Scopes) \in Nat
    BY DesignAssumption, FS_CardinalityType
  <2>. QED  BY <2>1, CallsAssumption DEF Levels, AllLevels
<1>2. items \in Seq(Scopes \cup Signals)
  <2>1. Roots \in Seq(Scopes \cup Signals)
    <3>1. Roots \in Seq(Scopes)
      BY CallsAssumption
    <3>. QED  BY <3>1
  <2>. QED  BY <2>1, CallsAssumption DEF Items
<1>3. Requested(arg) = RequestedOfAll(depth, items, Len(items)) \ Automatic
  <2>. DEFINE of(i) == IF i \in Signals THEN {i}
                       ELSE UNION {Range(Contents[c]) \cap Signals : c \in ScopesWithin(depth)[depth][i]}
  <2>1. ASSUME NEW i PROVE of(i) = RequestedOf(depth, i)
    <3>. DEFINE W == ScopesWithin(depth)[depth][i]
    <3>. HIDE DEF W
    <3>1. UNION {Range(Contents[c]) \cap Signals : c \in W} = SignalsIn(W)
      BY DEF SignalsIn
    <3>. QED  BY <3>1 DEF RequestedOf, W
  <2>2. Requested(arg) = (UNION {of(i) : i \in Range(items)}) \ Automatic
    BY DEF Requested
  <2>. HIDE DEF of, items, depth
  <2>3. {of(i) : i \in Range(items)} = {RequestedOf(depth, items[j]) : j \in 1..Len(items)}
    <3>1. \A i : of(i) = RequestedOf(depth, i)
      BY <2>1
    <3>2. \A i : i \in Range(items) <=> \E j \in 1..Len(items) : items[j] = i
      BY <1>2, RangeOf
    <3>. QED  BY <3>1, <3>2
  <2>. QED  BY <2>2, <2>3 DEF RequestedOfAll
<1>4. r = Dumped(s, depth, items)[Len(items)]
  OBVIOUS
<1>. HIDE DEF depth, items
<1>5. Good(r)
  BY <1>1, <1>2, <1>4, CallGood
<1>6. Names(r) = Names(s) \cup (RequestedOfAll(depth, items, Len(items)) \ Automatic)
  BY <1>1, <1>2, <1>4, CallGood
<1>. QED  BY <1>3, <1>5, <1>6

-----------------------------------------------------------------------------
(* The invariant.                                                          *)

Marks == Values \cup {"x", None}

File == [declared : Seq(Declaration), first : Times \cup {NoTime}, time : Times \cup {NoTime},
         blackout : BOOLEAN, wave : [Times -> [Idents -> Marks]],
         given : [Idents -> Values \cup {"x"}], mixed : SUBSET Idents]

\* The tables that $dumpvars keeps.
TablesNow == [declared |-> file.declared, vcd_list |-> vcd_list, vcd_tab |-> vcd_tab,
              vcd_var |-> vcd_var, vcd_ids |-> vcd_ids]

Typed ==
    /\ now \in Times /\ phase \in {"step", "rosync", "post"}
    /\ value \in [Nets -> Values] /\ file \in File
    /\ dumpvars_status \in 0..2 /\ vcd_cur_time \in Times /\ finish_status \in 0..1
    /\ dump_is_off \in BOOLEAN /\ dump_is_full \in BOOLEAN
    /\ hist \in [Times -> [Idents -> Marks \cup {"any"}]]

\* What was asked for is declared, until the file is closed with all its tables.
Declared ==
    /\ asked = {d.name : d \in Range(file.declared)}
    /\ Len(file.declared) = Cardinality({d.name : d \in Range(file.declared)})
    /\ SharedByNet(Range(file.declared))
    /\ finish_status = 0 => Good(TablesNow)

HasFile == dumpvars_status # 0 => dump_file # None

\* The callbacks of a step that is not over.
Scheduled ==
    phase # "post" =>
       rosync = IF dumpvars_status = 1 THEN <<"dumpvars_cb">>
                ELSE IF vcd_dmp_list # {} THEN <<"variable_cb_2">> ELSE <<>>

\* The infos that are scheduled are in the list, and there are none before the header,
\* nor after the step of $dumpoff.
Listed ==
    /\ vcd_dmp_list \subseteq DOMAIN vcd_list
    /\ Pending => vcd_dmp_list = {} /\ late = {}
    /\ dump_is_off /\ vcd_dmp_list # {} => vcd_cur_time = now

\* What an ident that is not mixed was given last is what the file tells of it.
TellsGiven(f) ==
    /\ \A i \in Idents : i \notin f.mixed => Told(f, i, now) = f.given[i]
    /\ format # "lxt2" => f.mixed = {}

\* The last time mark is that of vcd_cur_time; there is none before the header, nor
\* after it while dumping was off from the start.
Marked ==
    /\ vcd_cur_time <= now
    /\ file.time = NoTime <=> file.first = NoTime
    /\ file.time # NoTime => ~Pending /\ file.first <= file.time /\ file.time = vcd_cur_time
    /\ ~Pending /\ file.time = NoTime =>
          dump_is_off /\ vcd_dmp_list = {} /\ (phase = "step" => now > vcd_cur_time)
    /\ file.blackout => dump_is_off /\ ~Pending
    /\ file.time = NoTime => \A t \in Times, i \in Idents : file.wave[t][i] = None
    /\ \A t \in Times, i \in Idents : t > vcd_cur_time => file.wave[t][i] = None
    /\ TellsGiven(file)

\* While dumping is on, the file tells the value of each signal now but those that are
\* scheduled; while it is off, x but for those that were scheduled then, of which it
\* tells the value at the end of that step.
Drawn ==
    ~Pending => \A i \in Idents : i \in {d.ident : d \in Range(file.declared)} /\ i \notin file.mixed =>
       /\ ~dump_is_full /\ ~dump_is_off =>
             Told(file, i, now) = value[Net[ItemOf(i)]] \/ i \in IdentsOf(vcd_dmp_list)
       /\ dump_is_off /\ i \notin late => Told(file, i, now) = "x"
       /\ dump_is_off /\ i \in late /\ vcd_cur_time = now =>
             \/ i \in IdentsOf(vcd_dmp_list)
             \/ phase # "step" /\ Told(file, i, now) = value[Net[ItemOf(i)]]

Late ==
    /\ dump_is_off /\ ~file.blackout => IdentsOf(vcd_dmp_list) \subseteq late
    /\ file.blackout => late = {}

\* The history is of the times that are over.
Recorded ==
    /\ phase # "post" => \A t \in Times, i \in Idents : t >= now => hist[t][i] = "any"
    /\ \A t \in Times, i \in Idents : hist[t][i] # "any" => Told(file, i, t) = hist[t][i]

\* Until the file is closed; there is no step after that.
IInv ==
    /\ Typed /\ Declared /\ HasFile /\ Recorded
    /\ finish_status = 0 => Scheduled /\ Listed /\ Marked /\ Drawn /\ Late
    /\ finish_status = 1 => phase = "post"
    /\ finish_status = 1 /\ ~Pending /\ ~dump_is_off /\ ~dump_is_full => file.time = now

-----------------------------------------------------------------------------
(* What is done to the file.                                               *)

\* The values the file tells: the last that was written, or x.
Tells(f, i, t, v) ==
    \/ v = "x" /\ \A u \in 0..t : f.wave[u][i] = None
    \/ \E T \in 0..t : f.wave[T][i] = v /\ v # None /\ \A u \in 0..t : u > T => f.wave[u][i] = None

LEMMA TellsTold ==
    ASSUME NEW f, NEW i, NEW t \in Nat
    PROVE  /\ \A v : Tells(f, i, t, v) => Told(f, i, t) = v
           /\ Tells(f, i, t, Told(f, i, t))
<1>. DEFINE written == {u \in 0..t : f.wave[u][i] # None}
            last == CHOOSE u \in written : \A w \in written : w <= u
<1>1. Told(f, i, t) = IF written = {} THEN "x" ELSE f.wave[last][i]
  BY DEF Told
<1>. HIDE DEF last
<1>2. CASE written = {}
  <2>1. \A u \in 0..t : f.wave[u][i] = None
    BY <1>2
  <2>2. \A v : Tells(f, i, t, v) => v = "x"
    BY <2>1 DEF Tells
  <2>3. Tells(f, i, t, "x")
    BY <2>1 DEF Tells
  <2>. QED  BY <1>1, <1>2, <2>2, <2>3
<1>3. CASE written # {}
  <2>. DEFINE T == {t - u : u \in written}
  <2>1. T \in SUBSET Nat /\ T # {}
    BY <1>3
  <2>2. PICK d \in T : \A e \in T : d <= e
    <3>. HIDE DEF T
    <3>. QED  BY <2>1, LeastNumber
  <2>3. PICK m \in written : d = t - m
    BY <2>2
  <2>4. \A w \in written : w <= m
    <3>1. ASSUME NEW w \in written PROVE w <= m
      <4>1. t - w \in T
        OBVIOUS
      <4>2. d <= t - w
        BY <2>2, <4>1
      <4>. QED  BY <2>3, <4>2
    <3>. QED  BY <3>1
  <2>5. last \in written /\ \A w \in written : w <= last
    <3>. HIDE DEF written
    <3>. QED  BY <2>3, <2>4 DEF last
  <2>6. last \in 0..t /\ f.wave[last][i] # None /\ \A u \in 0..t : u > last => f.wave[u][i] = None
    BY <2>5
  <2>7. Tells(f, i, t, f.wave[last][i])
    BY <2>6 DEF Tells
  <2>8. ASSUME NEW v, Tells(f, i, t, v) PROVE v = f.wave[last][i]
    <3>1. PICK U \in 0..t : f.wave[U][i] = v /\ v # None /\ \A u \in 0..t : u > U => f.wave[u][i] = None
      BY <2>6, <2>8 DEF Tells
    <3>2. U = last
      BY <2>6, <3>1
    <3>. QED  BY <3>1, <3>2
  <2>. HIDE DEF written
  <2>. QED  BY <1>1, <1>3, <2>7, <2>8
<1>. QED  BY <1>2, <1>3

\* Files with one history for an ident tell the same of it.
LEMMA ToldSame ==
    ASSUME NEW f, NEW g, NEW i, NEW t \in Nat, \A u \in 0..t : g.wave[u][i] = f.wave[u][i]
    PROVE  Told(g, i, t) = Told(f, i, t)
<1>1. Tells(f, i, t, Told(f, i, t))
  BY TellsTold
<1>. DEFINE v == Told(f, i, t)
<1>. HIDE DEF v
<1>2. Tells(f, i, t, v)
  BY <1>1 DEF v
<1>3. Tells(g, i, t, v)
  BY <1>2 DEF Tells
<1>4. Told(g, i, t) = v
  BY <1>3, TellsTold
<1>. QED  BY <1>4 DEF v

\* What is told holds until the next value.
LEMMA ToldLater ==
    ASSUME NEW f, NEW i, NEW t \in Nat, NEW u \in Nat, t <= u,
           \A w \in 0..u : w > t => f.wave[w][i] = None
    PROVE  Told(f, i, u) = Told(f, i, t)
<1>. DEFINE v == Told(f, i, t)
<1>1. Tells(f, i, t, v)
  BY TellsTold
<1>. HIDE DEF v
<1>2. Tells(f, i, u, v)
  <2>1. CASE v = "x" /\ \A w \in 0..t : f.wave[w][i] = None
    BY <2>1 DEF Tells
  <2>2. ASSUME NEW T \in 0..t, f.wave[T][i] = v, v # None, \A w \in 0..t : w > T => f.wave[w][i] = None
        PROVE  Tells(f, i, u, v)
    <3>1. T \in 0..u
      OBVIOUS
    <3>2. \A w \in 0..u : w > T => f.wave[w][i] = None
      BY <2>2
    <3>. QED  BY <2>2, <3>1, <3>2 DEF Tells
  <2>. QED  BY <1>1, <2>1, <2>2 DEF Tells
<1>3. Told(f, i, u) = v
  BY <1>2, TellsTold
<1>. QED  BY <1>3 DEF v

\* A mark leaves the values alone, and is written if its time is new.
LEMMA MarkRight ==
    ASSUME NEW f \in File, NEW t \in Times
    PROVE  /\ MarkTime(f, t) \in File
           /\ MarkTime(f, t).declared = f.declared /\ MarkTime(f, t).blackout = f.blackout
           /\ MarkTime(f, t).wave = f.wave
           /\ MarkTime(f, t).given = f.given /\ MarkTime(f, t).mixed = f.mixed
           /\ (f.first = NoTime \/ (f.time # NoTime /\ f.first <= f.time /\ f.time < t))
                => /\ MarkTime(f, t).time = t
                   /\ MarkTime(f, t).first # NoTime /\ MarkTime(f, t).first <= t
<1>. DEFINE g == MarkTime(f, t)
<1>1. f.first \in Times \cup {NoTime} /\ f.time \in Times \cup {NoTime} /\ Times \subseteq Nat
  BY DEF File, Times
<1>2. /\ t \in Nat
      /\ f.first # NoTime => f.first \in Nat
      /\ f.time # NoTime => f.time \in Nat
      /\ NoTime \notin Nat
  <2>1. NoTime \notin Nat
    BY DEF NoTime
  <2>2. t \in Nat
    BY <1>1
  <2>3. \A x \in Times \cup {NoTime} : x # NoTime => x \in Nat
    BY <1>1
  <2>. QED  BY <1>1, <2>1, <2>2, <2>3
<1>3. CASE f.first = NoTime
  <2>1. g = [f EXCEPT !.first = t, !.time = t]
    BY <1>3 DEF MarkTime
  <2>. HIDE DEF g
  <2>2. /\ g \in File /\ g.declared = f.declared /\ g.blackout = f.blackout /\ g.wave = f.wave
        /\ g.given = f.given /\ g.mixed = f.mixed
        /\ g.time = t /\ g.first = t
    BY <2>1 DEF File
  <2>3. t # NoTime /\ t <= t
    BY <1>2
  <2>. QED  BY <2>2, <2>3 DEF g
<1>4. CASE f.first # NoTime /\ (DroppedByLxt(f, t) \/ DroppedByLxt2(f, t))
  <2>1. g = f
    BY <1>4 DEF MarkTime
  <2>2. ~(f.time # NoTime /\ f.first <= f.time /\ f.time < t)
    BY <1>2, <1>4 DEF DroppedByLxt, DroppedByLxt2
  <2>. HIDE DEF g
  <2>. QED  BY <1>4, <2>1, <2>2 DEF g
<1>5. CASE f.first # NoTime /\ ~(DroppedByLxt(f, t) \/ DroppedByLxt2(f, t))
  <2>1. g = [f EXCEPT !.time = t]
    BY <1>5 DEF MarkTime
  <2>. HIDE DEF g
  <2>2. /\ g \in File /\ g.declared = f.declared /\ g.blackout = f.blackout /\ g.wave = f.wave
        /\ g.given = f.given /\ g.mixed = f.mixed
        /\ g.time = t /\ g.first = f.first
    BY <2>1 DEF File
  <2>3. f.time # NoTime /\ f.first <= f.time /\ f.time < t => f.first <= t
    BY <1>2, <1>5
  <2>. QED  BY <1>5, <2>2, <2>3 DEF g
<1>. QED  BY <1>3, <1>4, <1>5

\* A reader finds a value or x.
LEMMA ToldValue ==
    ASSUME NEW f \in File, NEW i \in Idents, NEW t \in Times
    PROVE  Told(f, i, t) \in Values \cup {"x"}
<1>1. t \in Nat /\ \A u \in 0..t : u \in Times
  BY BoundsAssumption DEF Times
<1>2. f.wave \in [Times -> [Idents -> Marks]]
  BY DEF File
<1>. DEFINE v == Told(f, i, t)
<1>3. Tells(f, i, t, v)
  BY <1>1, TellsTold
<1>. HIDE DEF v
<1>4. ASSUME NEW T \in 0..t, f.wave[T][i] = v, v # None PROVE v \in Values \cup {"x"}
  BY <1>1, <1>2, <1>4 DEF Marks
<1>5. v \in Values \cup {"x"}
  BY <1>3, <1>4 DEF Tells
<1>. QED  BY <1>5 DEF v

\* A code that turns stands for a time that has one before it.
LEMMA TurnedTime ==
    ASSUME NEW f \in File, f.time # NoTime, f.first # NoTime, f.first <= f.time,
           NEW given, NEW i \in Turned(f, given)
    PROVE  /\ f.time - 1 \in Times /\ i \in Coded(f, given) /\ i \in Idents /\ i \in DOMAIN given
           /\ Opposite(f.given[i]) = given[i]
           /\ Opposite(Told(f, i, f.time - 1)) \in Values \cup {"x"}
<1>1. /\ i \in Coded(f, given) /\ i \in Idents /\ i \in DOMAIN given
      /\ f.time # f.first /\ {given[i], f.given[i]} = Values
  BY DEF Turned, Coded
<1>2. f.first \in 0..MaxTime /\ f.time \in 0..MaxTime /\ MaxTime \in Nat
  BY BoundsAssumption DEF File, Times
<1>3. f.time - 1 \in Times
  BY <1>1, <1>2 DEF Times
<1>4. Opposite(f.given[i]) = given[i]
  <2>1. \/ given[i] = "0" /\ f.given[i] = "1"
        \/ given[i] = "1" /\ f.given[i] = "0"
    BY <1>1 DEF Values
  <2>. QED  BY <2>1 DEF Opposite
<1>5. \A v \in Values \cup {"x"} : Opposite(v) \in Values \cup {"x"}
  <2>1. Opposite("0") = "1" /\ Opposite("1") = "0" /\ Opposite("x") = "x"
    BY DEF Opposite
  <2>. QED  BY <2>1 DEF Values
<1>. QED  BY <1>1, <1>3, <1>4, <1>5, ToldValue

\* What is written is told of the time of the file, but for an ident that is mixed; the
\* times before keep theirs.
Written(f, g, given) ==
    /\ \A i \in Idents : \A t \in Times : t < f.time => Told(g, i, t) = Told(f, i, t)
    /\ \A i \in Idents : i \notin DOMAIN given =>
          /\ i \in g.mixed <=> i \in f.mixed
          /\ \A t \in Times : Told(g, i, t) = Told(f, i, t)
    /\ ~f.blackout => \A i \in Idents :
          i \in DOMAIN given /\ i \notin g.mixed => Told(g, i, f.time) = given[i]
    /\ f.blackout => g = f

LEMMA WriteRight ==
    ASSUME NEW f \in File, NEW given, \A i \in DOMAIN given : given[i] \in Values \cup {"x"},
           NEW g, g = Write(f, given),
           f.time # NoTime, f.first # NoTime, f.first <= f.time
    PROVE  /\ g \in File
           /\ g.declared = f.declared /\ g.blackout = f.blackout /\ g.first = f.first /\ g.time = f.time
           /\ \A t \in Times, i \in Idents : t # f.time => g.wave[t][i] = f.wave[t][i]
           /\ (format # "lxt2" => f.mixed = {}) => (format # "lxt2" => g.mixed = {})
           /\ /\ \A t \in Times, i \in Idents : t > f.time => f.wave[t][i] = None
              /\ \A i \in Idents : i \notin f.mixed => Told(f, i, f.time) = f.given[i]
              => /\ Written(f, g, given)
                 /\ \A i \in Idents : i \notin g.mixed => Told(g, i, f.time) = g.given[i]
<1>. DEFINE T == f.time
<1>1. T \in Times /\ Times \subseteq Nat /\ \A t \in Times : 0..t \subseteq Times
  <2>1. T \in Times
    BY DEF File
  <2>2. \A t \in Times : t \in Nat /\ 0..t \subseteq Times
    BY BoundsAssumption DEF Times
  <2>. QED  BY <2>1, <2>2
<1>2. /\ f.wave \in [Times -> [Idents -> Marks]] /\ f.given \in [Idents -> Values \cup {"x"}]
      /\ f.mixed \in SUBSET Idents
  BY DEF File
<1>. HIDE DEF T
<1>3. CASE f.blackout
  <2>1. g = f
    BY <1>3 DEF Write
  <2>2. Written(f, g, given)
    BY <1>3, <2>1 DEF Written
  <2>. QED  BY <2>1, <2>2
<1>4. CASE ~f.blackout
  <2>. DEFINE C == Coded(f, given)
              R == Turned(f, given)
              new == [i \in Idents |-> IF i \in C THEN Read(f, given, i) ELSE f.wave[T][i]]
              last == [i \in Idents |-> IF i \in DOMAIN given THEN given[i] ELSE f.given[i]]
              mixed == (f.mixed \ (C \ R)) \cup {i \in R : f.wave[T][i] # None}
              wave == [f.wave EXCEPT ![T] = new]
  <2>1. g = [f EXCEPT !.wave = wave, !.given = last, !.mixed = mixed]
    BY <1>1, <1>4 DEF Write, T
  <2>2. /\ R \subseteq C /\ C \subseteq Idents /\ C \subseteq DOMAIN given
        /\ format # "lxt2" => R = {}
        /\ \A i \in Idents : i \in DOMAIN given /\ i \notin C => given[i] = f.given[i]
    BY DEF Coded, Turned
  <2>3. \A i \in R : /\ T - 1 \in Times /\ Opposite(f.given[i]) = given[i]
                     /\ Opposite(Told(f, i, T - 1)) \in Values \cup {"x"}
                     /\ Read(f, given, i) = Opposite(Told(f, i, T - 1))
    BY TurnedTime DEF T, Read
  <2>4. \A i \in C \ R : Read(f, given, i) = given[i] /\ given[i] \in Values \cup {"x"}
    BY <2>2 DEF Read
  <2>. HIDE DEF C, R
  <2>5. new \in [Idents -> Marks]
    <3>1. \A i \in Idents : i \in C => Read(f, given, i) \in Marks
      BY <2>3, <2>4 DEF Marks
    <3>2. \A i \in Idents : f.wave[T][i] \in Marks
      BY <1>1, <1>2
    <3>. QED  BY <3>1, <3>2
  <2>6. last \in [Idents -> Values \cup {"x"}]
    BY <1>2
  <2>7. mixed \in SUBSET Idents
    BY <1>2, <2>2
  <2>8. \A i \in Idents : new[i] = IF i \in C THEN Read(f, given, i) ELSE f.wave[T][i]
    OBVIOUS
  <2>9. \A i \in Idents : last[i] = IF i \in DOMAIN given THEN given[i] ELSE f.given[i]
    OBVIOUS
  <2>10. /\ \A i \in Idents : i \notin C => (i \in mixed <=> i \in f.mixed)
         /\ \A i \in R : i \notin mixed => i \notin f.mixed /\ f.wave[T][i] = None
         /\ format # "lxt2" /\ f.mixed = {} => mixed = {}
    BY <2>2
  <2>. HIDE DEF new, last, mixed
  <2>11. wave \in [Times -> [Idents -> Marks]] /\ wave[T] = new /\ \A t \in Times : t # T => wave[t] = f.wave[t]
    BY <1>1, <1>2, <2>5
  <2>. HIDE DEF wave
  <2>12. /\ g \in File /\ g.declared = f.declared /\ g.blackout = f.blackout /\ g.first = f.first
         /\ g.time = f.time /\ g.wave = wave /\ g.given = last /\ g.mixed = mixed
    <3>. DEFINE u == [f EXCEPT !.wave = wave]
                w == [u EXCEPT !.given = last]
    <3>1. u \in File /\ u.declared = f.declared /\ u.blackout = f.blackout /\ u.first = f.first
          /\ u.time = f.time /\ u.wave = wave
      BY <2>11 DEF File
    <3>2. g = [w EXCEPT !.mixed = mixed]
      BY <2>1
    <3>. HIDE DEF u
    <3>3. w \in File /\ w.declared = u.declared /\ w.blackout = u.blackout /\ w.first = u.first
          /\ w.time = u.time /\ w.wave = u.wave /\ w.given = last
      BY <2>6, <3>1 DEF File
    <3>. HIDE DEF w
    <3>4. g \in File /\ g.declared = w.declared /\ g.blackout = w.blackout /\ g.first = w.first
          /\ g.time = w.time /\ g.wave = w.wave /\ g.given = w.given /\ g.mixed = mixed
      BY <2>7, <3>2, <3>3 DEF File
    <3>. QED  BY <3>1, <3>3, <3>4
  <2>13. \A t \in Times, i \in Idents : t # f.time => g.wave[t][i] = f.wave[t][i]
    BY <2>11, <2>12 DEF T
  <2>14. (format # "lxt2" => f.mixed = {}) => (format # "lxt2" => g.mixed = {})
    BY <2>10, <2>12
  <2>15. ASSUME \A t \in Times, i \in Idents : t > T => f.wave[t][i] = None,
                \A i \in Idents : i \notin f.mixed => Told(f, i, T) = f.given[i]
         PROVE  /\ Written(f, g, given)
                /\ \A i \in Idents : i \notin g.mixed => Told(g, i, T) = g.given[i]
    <3>1. ASSUME NEW i \in Idents, NEW t \in Times, t < T PROVE Told(g, i, t) = Told(f, i, t)
      <4>1. \A u \in 0..t : g.wave[u][i] = f.wave[u][i]
        <5>1. \A u \in 0..t : u \in Times /\ u # T
          BY <1>1, <3>1
        <5>. QED  BY <2>11, <2>12, <5>1
      <4>. QED  BY <1>1, <4>1, ToldSame
    <3>2. ASSUME NEW i \in Idents, i \notin C, NEW t \in Times PROVE Told(g, i, t) = Told(f, i, t)
      <4>1. \A u \in Times : g.wave[u][i] = f.wave[u][i]
        BY <2>8, <2>11, <2>12, <3>2
      <4>2. \A u \in 0..t : g.wave[u][i] = f.wave[u][i]
        BY <1>1, <4>1
      <4>. QED  BY <1>1, <4>2, ToldSame
    <3>3. ASSUME NEW i \in C, i \notin g.mixed PROVE Told(g, i, T) = given[i]
      <4>1. Read(f, given, i) = given[i]
        <5>1. CASE i \in R
          <6>1. i \in Idents /\ i \notin f.mixed /\ f.wave[T][i] = None /\ T - 1 \in Times
            BY <2>2, <2>3, <2>10, <2>12, <3>3, <5>1
          <6>2. \A w \in 0..T : w > T - 1 => f.wave[w][i] = None
            <7>1. \A w \in 0..T : w > T - 1 => w = T
              BY <1>1
            <7>. QED  BY <6>1, <7>1
          <6>3. T \in Nat /\ T - 1 \in Nat /\ T - 1 <= T
            BY <1>1, <6>1
          <6>4. Told(f, i, T) = Told(f, i, T - 1)
            BY <6>2, <6>3, ToldLater
          <6>. QED  BY <2>3, <2>15, <5>1, <6>1, <6>4
        <5>2. CASE i \notin R
          BY <2>4, <3>3, <5>2
        <5>. QED  BY <5>1, <5>2
      <4>2. given[i] # None
        <5>1. given[i] \in Values \cup {"x"}
          BY <2>2, <3>3
        <5>. QED  BY <5>1 DEF Values, None
      <4>3. g.wave[T][i] = given[i]
        BY <2>2, <2>8, <2>11, <2>12, <3>3, <4>1
      <4>4. T \in 0..T /\ \A u \in 0..T : u > T => g.wave[u][i] = None
        BY <1>1
      <4>5. Tells(g, i, T, given[i])
        BY <4>2, <4>3, <4>4 DEF Tells
      <4>. QED  BY <1>1, <4>5, TellsTold
    <3>4. ASSUME NEW i \in Idents, i \in DOMAIN given, i \notin g.mixed PROVE Told(g, i, T) = given[i]
      <4>1. CASE i \in C
        BY <3>3, <3>4, <4>1
      <4>2. CASE i \notin C
        <5>1. i \notin f.mixed /\ given[i] = f.given[i]
          BY <2>2, <2>10, <2>12, <3>4, <4>2
        <5>. QED  BY <1>1, <2>15, <3>2, <4>2, <5>1
      <4>. QED  BY <4>1, <4>2
    <3>5. ASSUME NEW i \in Idents, i \notin DOMAIN given
          PROVE  /\ i \notin C
                 /\ i \in g.mixed <=> i \in f.mixed
                 /\ \A t \in Times : Told(g, i, t) = Told(f, i, t)
      <4>1. i \notin C
        BY <2>2, <3>5
      <4>2. i \in g.mixed <=> i \in f.mixed
        BY <2>10, <2>12, <4>1
      <4>. QED  BY <3>2, <4>1, <4>2
    <3>6. ASSUME NEW i \in Idents, i \notin g.mixed PROVE Told(g, i, T) = g.given[i]
      <4>1. CASE i \in DOMAIN given
        BY <2>9, <2>12, <3>4, <3>6, <4>1
      <4>2. CASE i \notin DOMAIN given
        BY <1>1, <2>9, <2>12, <2>15, <3>5, <3>6, <4>2
      <4>. QED  BY <4>1, <4>2
    <3>7. Written(f, g, given)
      BY <1>4, <3>1, <3>4, <3>5 DEF Written, T
    <3>. QED  BY <3>6, <3>7
  <2>. QED  BY <2>12, <2>13, <2>14, <2>15 DEF T
<1>. QED  BY <1>3, <1>4

-----------------------------------------------------------------------------
(* The steps.                                                              *)

GivenNow == {d.ident : d \in Range(file.declared)}

\* Each ident that was given has an info, and an info has a signal.
LEMMA InfosRight ==
    ASSUME Sound(TablesNow)
    PROVE  /\ \A i \in IdentsOf(DOMAIN vcd_list) : ItemOf(i) \in Signals
           /\ \A k \in DOMAIN vcd_list : vcd_list[k].ident # NoIdent =>
                 ItemOf(vcd_list[k].ident) = vcd_list[k].item
           /\ GivenNow \subseteq IdentsOf(DOMAIN vcd_list)
           /\ file.declared \in Seq(Declaration)
<1>. DEFINE s == TablesNow
<1>1. /\ s.declared = file.declared /\ s.vcd_list = vcd_list
      /\ s \in Tables /\ Counted(s) /\ Covered(s)
  BY DEF TablesNow, Sound
<1>2. vcd_list \in Seq(Info) /\ file.declared \in Seq(Declaration)
  BY <1>1 DEF Tables
<1>3. Given(s) = GivenNow
  BY <1>1 DEF Given, GivenNow
<1>. HIDE DEF s
<1>4. /\ \A k \in DOMAIN vcd_list : vcd_list[k] \in Info /\ vcd_list[k] \in Range(vcd_list)
      /\ \A y \in Range(vcd_list) : \E k \in DOMAIN vcd_list : vcd_list[k] = y
  BY <1>2, RangeOf
<1>5. ASSUME NEW k \in DOMAIN vcd_list, vcd_list[k].ident # NoIdent
      PROVE  ItemOf(vcd_list[k].ident) = vcd_list[k].item
  <2>. DEFINE i == vcd_list[k].ident
              info == CHOOSE info \in Range(vcd_list) : info.ident = i
  <2>1. vcd_list[k] \in Range(vcd_list) /\ vcd_list[k].ident = i
    BY <1>4
  <2>2. info \in Range(vcd_list) /\ info.ident = i
    <3>. HIDE DEF i
    <3>. QED  BY <2>1
  <2>3. ItemOf(i) = info.item
    BY DEF ItemOf
  <2>. HIDE DEF info
  <2>4. PICK j \in DOMAIN vcd_list : vcd_list[j] = info
    BY <1>4, <2>2
  <2>5. j = k
    BY <1>1, <1>5, <2>2, <2>4 DEF Covered
  <2>. QED  BY <2>3, <2>4, <2>5
<1>6. \A k \in DOMAIN vcd_list : vcd_list[k].item \in Signals
  BY <1>4 DEF Info
<1>7. \A i \in IdentsOf(DOMAIN vcd_list) : ItemOf(i) \in Signals
  BY <1>5, <1>6 DEF IdentsOf
<1>8. ASSUME NEW i \in GivenNow PROVE i \in IdentsOf(DOMAIN vcd_list)
  <2>1. PICK k \in DOMAIN vcd_list : vcd_list[k].ident = i
    BY <1>1, <1>3, <1>8 DEF Covered
  <2>2. i # NoIdent
    <3>1. PICK m \in Nat : Given(s) = 1..m
      BY <1>1 DEF Counted
    <3>. QED  BY <1>3, <1>8, <3>1 DEF NoIdent
  <2>. QED  BY <2>1, <2>2 DEF IdentsOf
<1>. QED  BY <1>2, <1>5, <1>7, <1>8

\* The state before the end of the simulation, and what a step does to its parts.
LEMMA Opened ==
    ASSUME IInv, phase # "post"
    PROVE  /\ finish_status = 0 /\ Typed /\ Declared /\ HasFile /\ Recorded
           /\ Scheduled /\ Listed /\ Marked /\ Drawn /\ Late
           /\ Good(TablesNow) /\ Sound(TablesNow)
           /\ now \in Nat /\ vcd_cur_time \in Nat /\ file \in File /\ Times \subseteq Nat
           /\ NoTime \notin Nat
           /\ \A t \in Times, i \in Idents : t > now => file.wave[t][i] = None
<1>1. finish_status = 0
  BY DEF IInv, Typed
<1>2. Typed /\ Declared /\ HasFile /\ Recorded /\ Scheduled /\ Listed /\ Marked /\ Drawn /\ Late
  BY <1>1 DEF IInv
<1>3. Good(TablesNow)
  BY <1>1, <1>2 DEF Declared
<1>4. Times \subseteq Nat /\ NoTime \notin Nat
  BY DEF Times, NoTime
<1>5. now \in Nat /\ vcd_cur_time \in Nat /\ file \in File
  BY <1>2, <1>4 DEF Typed
<1>6. ASSUME NEW t \in Times, NEW i \in Idents, t > now PROVE file.wave[t][i] = None
  <2>1. vcd_cur_time <= now
    BY <1>2 DEF Marked
  <2>2. t > vcd_cur_time
    BY <1>4, <1>5, <1>6, <2>1
  <2>. QED  BY <1>2, <2>2 DEF Marked
<1>. QED  BY <1>1, <1>2, <1>3, <1>4, <1>5, <1>6 DEF Good

\* The file after a mark, if the time is new.
LEMMA StampRight ==
    ASSUME IInv, phase # "post", ~Pending, file.time # NoTime \/ now > vcd_cur_time
    PROVE  /\ Stamped(now) \in File
           /\ Stamped(now).declared = file.declared /\ Stamped(now).wave = file.wave
           /\ Stamped(now).blackout = file.blackout
           /\ Stamped(now).given = file.given /\ Stamped(now).mixed = file.mixed
           /\ Stamped(now).time = now
           /\ Stamped(now).first # NoTime /\ Stamped(now).first <= now
<1>1. /\ now \in Nat /\ vcd_cur_time \in Nat /\ file \in File /\ Marked /\ now \in Times
  BY Opened DEF Typed
<1>2. /\ file.time # NoTime => file.time = vcd_cur_time /\ file.first <= file.time /\ file.first # NoTime
      /\ file.time = NoTime => file.first = NoTime
      /\ vcd_cur_time <= now
  BY <1>1 DEF Marked
<1>3. CASE now > vcd_cur_time
  <2>1. Stamped(now) = MarkTime(file, now)
    BY <1>3 DEF Stamped
  <2>2. file.first = NoTime \/ (file.time # NoTime /\ file.first <= file.time /\ file.time < now)
    BY <1>1, <1>2, <1>3
  <2>. QED  BY <1>1, <2>1, <2>2, MarkRight
<1>4. CASE ~(now > vcd_cur_time)
  <2>1. Stamped(now) = file
    BY <1>4 DEF Stamped
  <2>2. file.time = now /\ file.first # NoTime /\ file.first <= now
    BY <1>1, <1>2, <1>4
  <2>. QED  BY <1>1, <2>1, <2>2
<1>. QED  BY <1>3, <1>4

\* The file h has values of now, and the history stands.
FileNow(h) ==
    /\ h \in File /\ h.declared = file.declared
    /\ h.time = now /\ h.first # NoTime /\ h.first <= now
    /\ \A t \in Times, i \in Idents : t > now => h.wave[t][i] = None
    /\ \A t \in Times, i \in Idents : hist[t][i] # "any" => Told(h, i, t) = hist[t][i]
    /\ TellsGiven(h)

\* The file g has the values of the file.
SameValues(g) == g.wave = file.wave /\ g.given = file.given /\ g.mixed = file.mixed

\* What was written is told, but for an ident that is mixed.
WrittenNow(h, g, given) ==
    /\ FileNow(h) /\ h.blackout = g.blackout
    /\ \A i \in Idents : i \notin DOMAIN given \/ g.blackout =>
          /\ i \in h.mixed <=> i \in file.mixed
          /\ Told(h, i, now) = Told(file, i, now)
    /\ ~g.blackout => \A i \in Idents : i \in DOMAIN given /\ i \notin h.mixed => Told(h, i, now) = given[i]

LEMMA WriteNow ==
    ASSUME IInv, phase # "post",
           NEW g \in File, SameValues(g), g.declared = file.declared,
           g.time = now, g.first # NoTime, g.first <= now,
           NEW given, \A i \in DOMAIN given : given[i] \in Values \cup {"x"}
    PROVE  WrittenNow(Write(g, given), g, given)
<1>. DEFINE h == Write(g, given)
<1>1. /\ Marked /\ Recorded /\ now \in Nat /\ now \in Times /\ Times \subseteq Nat
      /\ now # NoTime /\ TellsGiven(file)
  BY Opened DEF Typed, Marked
<1>2. \A t \in Times, i \in Idents : t > now => g.wave[t][i] = None
  BY Opened DEF SameValues
<1>. HIDE DEF h
<1>3. /\ h \in File
      /\ h.declared = g.declared /\ h.blackout = g.blackout /\ h.first = g.first /\ h.time = g.time
      /\ \A t \in Times, i \in Idents : t # now => h.wave[t][i] = g.wave[t][i]
  BY <1>1, WriteRight DEF h
<1>4. \A i \in Idents : \A t \in Times : Told(g, i, t) = Told(file, i, t)
  BY <1>1, ToldSame DEF SameValues
<1>5. \A i \in Idents : i \notin g.mixed => Told(g, i, now) = g.given[i]
  BY <1>1, <1>4 DEF SameValues, TellsGiven
<1>6. Written(g, h, given) /\ \A i \in Idents : i \notin h.mixed => Told(h, i, now) = h.given[i]
  BY <1>1, <1>2, <1>5, WriteRight DEF h
<1>7. format # "lxt2" => h.mixed = {}
  <2>1. format # "lxt2" => g.mixed = {}
    BY <1>1 DEF SameValues, TellsGiven
  <2>. QED  BY <1>1, <2>1, WriteRight DEF h
<1>8. \A t \in Times, i \in Idents : t > now => h.wave[t][i] = None
  BY <1>1, <1>2, <1>3
<1>9. \A t \in Times, i \in Idents : hist[t][i] # "any" => Told(h, i, t) = hist[t][i]
  <2>. SUFFICES ASSUME NEW t \in Times, NEW i \in Idents, hist[t][i] # "any"
                PROVE  Told(h, i, t) = hist[t][i]
    OBVIOUS
  <2>1. t < now /\ Told(file, i, t) = hist[t][i]
    BY <1>1 DEF Recorded
  <2>. QED  BY <1>4, <1>6, <2>1 DEF Written
<1>10. FileNow(h)
  BY <1>3, <1>6, <1>7, <1>8, <1>9 DEF FileNow, TellsGiven
<1>11. ASSUME NEW i \in Idents, i \notin DOMAIN given \/ g.blackout
       PROVE  (i \in h.mixed <=> i \in file.mixed) /\ Told(h, i, now) = Told(file, i, now)
  <2>1. (i \in h.mixed <=> i \in g.mixed) /\ Told(h, i, now) = Told(g, i, now)
    BY <1>1, <1>6, <1>11 DEF Written
  <2>. QED  BY <1>1, <1>4, <2>1 DEF SameValues
<1>12. ~g.blackout => \A i \in Idents : i \in DOMAIN given /\ i \notin h.mixed => Told(h, i, now) = given[i]
  BY <1>6 DEF Written
<1>. QED  BY <1>3, <1>10, <1>11, <1>12 DEF h, WrittenNow

\* The declarations and the tables are left alone.
LEMMA DeclaredSame ==
    ASSUME Declared, file'.declared = file.declared, UNCHANGED <<format, tables, asked, finish_status>>
    PROVE  Declared'
<1>. DEFINE s == TablesNow
<1>1. TablesNow' = TablesNow
  BY DEF TablesNow, tables
<1>2. finish_status' = 0 => Good(TablesNow)'
  <2>. SUFFICES ASSUME finish_status' = 0 PROVE Good(TablesNow)'
    OBVIOUS
  <2>1. Good(s)
    BY DEF Declared
  <2>2. s' = s /\ KeepsNames' = KeepsNames
    BY <1>1 DEF KeepsNames
  <2>. HIDE DEF s
  <2>3. Good(s)'
    BY <2>1, <2>2 DEF Good
  <2>. QED  BY <2>3 DEF s
<1>. QED  BY <1>2 DEF Declared

\* Told of the same values.
LEMMA DrawnSame ==
    ASSUME Drawn, Late, UNCHANGED <<file, now, value, dumpvars_status, vcd_cur_time, dump_is_off,
                                    dump_is_full, vcd_list, vcd_dmp_list, late>>,
           phase' = "step" => phase = "step"
    PROVE  Drawn' /\ Late'
<1>1. \A i : ItemOf(i)' = ItemOf(i)
  BY DEF ItemOf
<1>2. IdentsOf(vcd_dmp_list)' = IdentsOf(vcd_dmp_list)
  BY DEF IdentsOf
<1>. QED  BY <1>1, <1>2 DEF Drawn, Late, Pending

\* Nothing is changed but what the file does not depend on, or the step is left.
LEMMA SameStep ==
    ASSUME IInv,
           UNCHANGED <<format, now, value, rosync, dump_file, file, dumpvars_status, vcd_cur_time, dump_is_off,
                       dump_is_full, finish_status, tables, vcd_dmp_list, history>>,
           phase' = phase \/ (phase = "step" /\ phase' \in {"rosync", "post"})
    PROVE  IInv'
<1>. USE DEF tables, history, Pending
<1>1. Typed /\ Declared /\ HasFile /\ Recorded
  BY DEF IInv
<1>2. Typed' /\ HasFile'
  BY <1>1 DEF Typed, HasFile
<1>3. Declared'
  BY <1>1, DeclaredSame
<1>4. Recorded'
  BY <1>1 DEF Recorded
<1>5. ASSUME finish_status' = 0
      PROVE  Scheduled' /\ Listed' /\ Marked' /\ Drawn' /\ Late'
  <2>1. Scheduled /\ Listed /\ Marked /\ Drawn /\ Late
    BY <1>5 DEF IInv
  <2>2. Scheduled' /\ Listed'
    BY <2>1 DEF Scheduled, Listed
  <2>3. Marked'
    <3>1. TellsGiven(file)'
      BY <2>1 DEF Marked, TellsGiven
    <3>. QED  BY <2>1, <3>1 DEF Marked
  <2>4. Drawn' /\ Late'
    BY <2>1, DrawnSame
  <2>. QED  BY <2>2, <2>3, <2>4
<1>6. finish_status' = 1 => phase' = "post"
  BY DEF IInv
<1>7. finish_status' = 1 /\ ~Pending' /\ ~dump_is_off' /\ ~dump_is_full' => file'.time = now'
  BY DEF IInv
<1>. QED  BY <1>2, <1>3, <1>4, <1>5, <1>6, <1>7 DEF IInv

\* What is left of the invariant when a task or a callback has written the file.
LEMMA OpenStep ==
    ASSUME IInv, phase # "post", finish_status' = finish_status,
           Typed', Declared', HasFile', Recorded', Scheduled', Listed', Marked', Drawn', Late'
    PROVE  IInv'
<1>1. finish_status = 0
  BY Opened
<1>. QED  BY <1>1 DEF IInv

\* A file, whatever is in it; marks and values leave its declarations alone.
IsFile(f) == f = [declared |-> f.declared, first |-> f.first, time |-> f.time,
                  blackout |-> f.blackout, wave |-> f.wave, given |-> f.given, mixed |-> f.mixed]

Kept(f, g) == IsFile(g) /\ g.declared = f.declared

LEMMA FileSet ==
    ASSUME NEW f, IsFile(f), NEW x
    PROVE  /\ Kept(f, [f EXCEPT !.first = x]) /\ Kept(f, [f EXCEPT !.time = x])
           /\ Kept(f, [f EXCEPT !.wave = x]) /\ Kept(f, [f EXCEPT !.given = x])
           /\ Kept(f, [f EXCEPT !.mixed = x])
  BY DEF IsFile, Kept

LEMMA MarkKept ==
    ASSUME NEW f, IsFile(f), NEW t
    PROVE  Kept(f, MarkTime(f, t))
<1>. DEFINE u == [f EXCEPT !.first = t]
            g == [f EXCEPT !.first = t, !.time = t]
            h == [f EXCEPT !.time = t]
<1>1. Kept(f, u) /\ Kept(f, h) /\ Kept(f, f)
  BY FileSet DEF Kept
<1>2. g = [u EXCEPT !.time = t]
  OBVIOUS
<1>3. MarkTime(f, t) \in {f, g, h}
  BY DEF MarkTime
<1>. HIDE DEF u, g, h
<1>4. Kept(u, g)
  BY <1>1, <1>2, FileSet DEF Kept
<1>. QED  BY <1>1, <1>3, <1>4 DEF Kept

LEMMA WriteKept ==
    ASSUME NEW f, IsFile(f), NEW given
    PROVE  Kept(f, Write(f, given))
<1>1. CASE f.blackout \/ f.time = NoTime
  BY <1>1 DEF Write, Kept
<1>2. CASE ~(f.blackout \/ f.time = NoTime)
  <2>. DEFINE wave == [f.wave EXCEPT ![f.time] =
                        [i \in Idents |-> IF i \in Coded(f, given) THEN Read(f, given, i)
                                          ELSE f.wave[f.time][i]]]
              last == [i \in Idents |-> IF i \in DOMAIN given THEN given[i] ELSE f.given[i]]
              mixed == (f.mixed \ (Coded(f, given) \ Turned(f, given)))
                          \cup {i \in Turned(f, given) : f.wave[f.time][i] # None}
              u == [f EXCEPT !.wave = wave]
              w == [u EXCEPT !.given = last]
  <2>1. Write(f, given) = [f EXCEPT !.wave = wave, !.given = last, !.mixed = mixed]
    BY <1>2 DEF Write
  <2>. HIDE DEF wave, last, mixed
  <2>2. Write(f, given) = [w EXCEPT !.mixed = mixed]
    BY <2>1
  <2>3. Kept(f, u)
    BY FileSet
  <2>. HIDE DEF u
  <2>4. Kept(u, w)
    BY <2>3, FileSet DEF Kept
  <2>. HIDE DEF w
  <2>5. Kept(w, [w EXCEPT !.mixed = mixed])
    BY <2>4, FileSet DEF Kept
  <2>. QED  BY <2>2, <2>3, <2>4, <2>5 DEF Kept
<1>. QED  BY <1>1, <1>2

LEMMA BlackoutKept ==
    ASSUME NEW f, IsFile(f), NEW b
    PROVE  Kept(f, [f EXCEPT !.blackout = b])
  BY DEF IsFile, Kept

\* A call of $dumpvars.
LEMMA DumpvarsDeclares ==
    ASSUME IsFile(file), Declared, finish_status = 0, NEW arg \in Arguments, dumpvars(arg)
    PROVE  /\ Declared' /\ IsFile(file') /\ file'.declared \in Seq(Declaration)
           /\ file'.first = file.first /\ file'.time = file.time
           /\ file'.blackout = file.blackout /\ SameValues(file')
<1>. DEFINE s == TablesNow
            r == Dumped(s, Levels(arg), Items(arg))[Len(Items(arg))]
<1>1. UNCHANGED <<format, finish_status>> /\ Good(s)
  BY DEF dumpvars, Declared
<1>2. CASE dumpvars_status = 2
  <2>1. UNCHANGED <<file, tables, asked>>
    BY <1>2 DEF dumpvars
  <2>2. Declared'
    BY <1>1, <2>1, DeclaredSame
  <2>3. file.declared \in Seq(Declaration)
    BY <1>1, InfosRight DEF Good
  <2>. QED  BY <2>1, <2>2, <2>3 DEF SameValues
<1>3. CASE dumpvars_status # 2
  <2>. HIDE DEF s
  <2>1. /\ file' = [file EXCEPT !.declared = r.declared]
        /\ vcd_list' = r.vcd_list /\ vcd_tab' = r.vcd_tab
        /\ vcd_var' = r.vcd_var /\ vcd_ids' = r.vcd_ids
        /\ asked' = asked \cup Requested(arg)
    BY <1>3 DEF dumpvars, s, TablesNow
  <2>2. Good(r)
    BY <1>1, DumpvarsGood
  <2>3. Names(r) = Names(s) \cup Requested(arg)
    BY <1>1, DumpvarsGood
  <2>. HIDE DEF r
  <2>4. r \in Tables /\ Sound(r) /\ r.declared \in Seq(Declaration)
    BY <2>2 DEF Good, Sound, Tables
  <2>5. /\ IsFile(file') /\ file'.declared = r.declared /\ file'.first = file.first
        /\ file'.time = file.time /\ file'.blackout = file.blackout /\ SameValues(file')
    BY <2>1 DEF IsFile, SameValues
  <2>6. TablesNow' = r
    <3>1. r = [declared |-> r.declared, vcd_list |-> r.vcd_list, vcd_tab |-> r.vcd_tab,
               vcd_var |-> r.vcd_var, vcd_ids |-> r.vcd_ids]
      BY <2>4 DEF Tables
    <3>. QED  BY <2>1, <2>5, <3>1 DEF TablesNow
  <2>7. Good(TablesNow)'
    <3>. DEFINE t == TablesNow
    <3>1. t' = r /\ KeepsNames' = KeepsNames
      BY <1>1, <2>6 DEF KeepsNames
    <3>. HIDE DEF t
    <3>2. Good(t)'
      BY <2>2, <3>1 DEF Good
    <3>. QED  BY <3>2 DEF t
  <2>8. Declared'
    <3>1. asked = Names(s)
      BY DEF Declared, Names, s, TablesNow
    <3>2. asked' = Names(r)
      BY <2>1, <2>3, <3>1
    <3>3. Len(r.declared) = Cardinality(Names(r)) /\ SharedByNet(Range(r.declared))
      BY <2>4 DEF Sound, Counted, Shared
    <3>. QED  BY <2>5, <2>7, <3>2, <3>3 DEF Declared, Names
  <2>. QED  BY <2>4, <2>5, <2>8
<1>. QED  BY <1>2, <1>3

LEMMA DumpvarsStep ==
    ASSUME IInv, NEW arg \in Arguments, dumpvars(arg)
    PROVE  IInv'
<1>1. /\ phase = "step"
      /\ UNCHANGED <<format, now, phase, value, vcd_cur_time, dump_is_off, dump_is_full,
                     finish_status, vcd_dmp_list, hist, late>>
  BY DEF dumpvars, Called, sim
<1>2. /\ Typed /\ Declared /\ HasFile /\ Recorded /\ Scheduled /\ Listed /\ Marked /\ Drawn /\ Late
      /\ finish_status = 0
  BY <1>1, Opened
<1>3. dump_file' # None
  <2>1. Default # None
    BY CallsAssumption
  <2>. QED  BY <2>1 DEF dumpvars
<1>4. CASE dumpvars_status = 2
  <2>1. UNCHANGED <<file, tables, dumpvars_status, rosync, asked>>
    BY <1>4 DEF dumpvars
  <2>2. Declared'
    BY <1>1, <1>2, <2>1, DeclaredSame
  <2>3. Drawn' /\ Late'
    BY <1>1, <1>2, <2>1, DrawnSame DEF tables
  <2>4. Typed' /\ HasFile' /\ Recorded'
    BY <1>1, <1>2, <1>3, <2>1 DEF Typed, HasFile, Recorded
  <2>5. Scheduled' /\ Listed'
    BY <1>1, <1>2, <2>1 DEF Scheduled, Listed, tables, Pending
  <2>6. Marked'
    <3>1. TellsGiven(file)'
      BY <1>1, <1>2, <2>1 DEF Marked, TellsGiven
    <3>. QED  BY <1>1, <1>2, <2>1, <3>1 DEF Marked, Pending
  <2>. QED  BY <1>1, <2>2, <2>3, <2>4, <2>5, <2>6, OpenStep
<1>5. CASE dumpvars_status # 2
  <2>1. /\ rosync' = IF dumpvars_status = 0 THEN Append(rosync, "dumpvars_cb") ELSE rosync
        /\ dumpvars_status' = 1
    BY <1>5 DEF dumpvars
  <2>2. IsFile(file) /\ file \in File
    BY <1>2 DEF IsFile, Typed, File
  <2>3. /\ Declared' /\ IsFile(file') /\ file'.declared \in Seq(Declaration)
        /\ file'.first = file.first
        /\ file'.time = file.time /\ file'.blackout = file.blackout /\ SameValues(file')
    BY <1>2, <2>2, DumpvarsDeclares
  <2>5. file' \in File
    BY <2>2, <2>3 DEF File, IsFile, SameValues
  <2>9. dumpvars_status' = 1 /\ dumpvars_status # 2
    BY <1>5, <2>1
  <2>10. Typed' /\ HasFile'
    BY <1>1, <1>2, <1>3, <2>5, <2>9 DEF Typed, HasFile
  <2>11. vcd_dmp_list = {} /\ late = {}
    BY <1>2, <1>5 DEF Listed, Pending
  <2>12. Scheduled' /\ Listed'
    <3>1. rosync = IF dumpvars_status = 1 THEN <<"dumpvars_cb">> ELSE <<>>
      BY <1>1, <1>2, <2>11 DEF Scheduled
    <3>2. rosync' = <<"dumpvars_cb">>
      <4>1. dumpvars_status = 0 \/ dumpvars_status = 1
        BY <1>2, <2>9 DEF Typed
      <4>2. CASE dumpvars_status = 0
        <5>1. rosync' = Append(<<>>, "dumpvars_cb")
          BY <2>1, <3>1, <4>2
        <5>. QED  BY <5>1
      <4>3. CASE dumpvars_status = 1
        BY <2>1, <3>1, <4>3
      <4>. QED  BY <4>1, <4>2, <4>3
    <3>. QED  BY <1>1, <2>9, <2>11, <3>2 DEF Scheduled, Listed
  <2>16. \A t \in Times, i \in Idents : Told(file', i, t) = Told(file, i, t)
    BY <2>3, ToldSame DEF Times, SameValues
  <2>13. Marked'
    <3>1. TellsGiven(file)'
      BY <1>1, <1>2, <2>3, <2>16 DEF Marked, TellsGiven, SameValues, Typed
    <3>. QED  BY <1>1, <1>2, <2>3, <2>9, <3>1 DEF Marked, Pending, SameValues
  <2>14. Drawn' /\ Late'
    <3>1. IdentsOf(vcd_dmp_list)' = {}
      BY <1>1, <2>11 DEF IdentsOf
    <3>. QED  BY <1>1, <2>9, <2>11, <3>1 DEF Drawn, Late, Pending
  <2>15. Recorded'
    BY <1>1, <1>2, <2>16 DEF Recorded
  <2>. QED  BY <1>1, <2>3, <2>10, <2>12, <2>13, <2>14, <2>15, OpenStep
<1>. QED  BY <1>4, <1>5

\* The values of some of the infos.
LEMMA ShownRight ==
    ASSUME IInv, phase # "post", NEW infos \in SUBSET DOMAIN vcd_list,
           NEW given, given = [i \in IdentsOf(infos) |-> value[Net[ItemOf(i)]]]
    PROVE  \A i \in DOMAIN given : given[i] \in Values \cup {"x"}
<1>1. Sound(TablesNow) /\ Typed
  BY Opened
<1>2. IdentsOf(infos) \subseteq IdentsOf(DOMAIN vcd_list)
  BY DEF IdentsOf
<1>3. \A i \in IdentsOf(infos) : ItemOf(i) \in Signals
  BY <1>1, <1>2, InfosRight
<1>4. \A s \in Signals : Net[s] \in Nets
  BY DEF Nets
<1>5. value \in [Nets -> Values]
  BY <1>1 DEF Typed
<1>. QED  BY <1>3, <1>4, <1>5

\* $dumpoff, $dumpon and $dumpall before there is a header or a file.
LEMMA OffOnPending ==
    ASSUME IInv, phase = "step", Pending,
           UNCHANGED <<format, sim, rosync, dump_path, dump_file, file, dumpvars_status, vcd_cur_time,
                       dump_is_full, dump_limit, finish_status, tables, vcd_dmp_list, asked, hist, changes>>,
           dump_is_off' \in BOOLEAN, late' = late \/ late' = {}
    PROVE  IInv'
<1>. USE DEF sim, tables, Pending
<1>1. Typed /\ Declared /\ HasFile /\ Recorded /\ Scheduled /\ Listed /\ Marked /\ Drawn /\ Late
  BY Opened
<1>2. Typed' /\ HasFile' /\ Recorded'
  BY <1>1 DEF Typed, HasFile, Recorded
<1>3. Declared'
  BY <1>1, DeclaredSame
<1>4. Scheduled' /\ Listed'
  BY <1>1 DEF Scheduled, Listed
<1>5. Marked'
  BY <1>1 DEF Marked, TellsGiven
<1>6. Drawn' /\ Late'
  <2>1. IdentsOf(vcd_dmp_list)' = {} /\ late' = {}
    BY <1>1 DEF IdentsOf, Listed
  <2>. QED  BY <2>1 DEF Drawn, Late
<1>. QED  BY <1>2, <1>3, <1>4, <1>5, <1>6, OpenStep

\* The file has values of now: what that leaves of the invariant.
LEMMA WroteStep ==
    ASSUME IInv, phase # "post", FileNow(file'), vcd_cur_time' = now,
           UNCHANGED <<format, now, phase, value, dump_file, dump_is_full, hist, tables, asked, finish_status>>,
           dumpvars_status # 0, dumpvars_status' = 2, dump_is_off' \in BOOLEAN,
           file'.blackout => dump_is_off'
    PROVE  Typed' /\ Declared' /\ HasFile' /\ Recorded' /\ Marked'
<1>1. /\ Typed /\ Declared /\ HasFile /\ Recorded /\ Marked
      /\ now \in Nat /\ now # NoTime
  BY Opened
<1>2. /\ file' \in File /\ file'.declared = file.declared
      /\ file'.time = now /\ file'.first # NoTime /\ file'.first <= now
      /\ \A t \in Times, i \in Idents : t > now => file'.wave[t][i] = None
      /\ \A t \in Times, i \in Idents : hist[t][i] # "any" => Told(file', i, t) = hist[t][i]
  BY DEF FileNow
<1>3. Declared'
  BY <1>1, <1>2, DeclaredSame
<1>4. Typed' /\ HasFile'
  BY <1>1, <1>2 DEF Typed, HasFile
<1>5. Recorded'
  BY <1>1, <1>2 DEF Recorded
<1>6. Marked'
  <2>1. TellsGiven(file')
    BY DEF FileNow
  <2>2. TellsGiven(file)'
    BY <2>1 DEF TellsGiven
  <2>. QED  BY <1>1, <1>2, <2>2 DEF Marked, Pending
<1>. QED  BY <1>3, <1>4, <1>5, <1>6

\* The rest, when the callbacks and what is scheduled are left alone.
LEMMA DrawnStep ==
    ASSUME IInv, phase # "post", UNCHANGED <<phase, now, value, rosync, vcd_list, vcd_dmp_list, dumpvars_status>>,
           dumpvars_status = 2, vcd_cur_time' = now,
           ~dump_is_off' => \A i \in Idents : i \in GivenNow /\ i \notin file'.mixed =>
                               Told(file', i, now) = value[Net[ItemOf(i)]],
           dump_is_off' => \A i \in Idents : i \in GivenNow /\ i \notin file'.mixed =>
                              Told(file', i, now) = "x",
           dump_is_off' => IF file'.blackout THEN late' = {} ELSE late' = IdentsOf(vcd_dmp_list),
           file'.blackout => dump_is_off',
           file'.declared = file.declared
    PROVE  Scheduled' /\ Listed' /\ Drawn' /\ Late'
<1>1. Scheduled /\ Listed
  BY Opened
<1>2. Scheduled' /\ Listed'
  BY <1>1 DEF Scheduled, Listed, Pending
<1>3. IdentsOf(vcd_dmp_list)' = IdentsOf(vcd_dmp_list)
  BY DEF IdentsOf
<1>4. Late'
  BY <1>3 DEF Late
<1>5. \A i : ItemOf(i)' = ItemOf(i)
  BY DEF ItemOf
<1>6. Drawn'
  <2>1. {d.ident : d \in Range(file'.declared)} = GivenNow
    BY DEF GivenNow
  <2>2. dump_is_off' => late' \subseteq IdentsOf(vcd_dmp_list)'
    BY <1>3
  <2>3. ASSUME NEW i \in Idents, i \in GivenNow, i \notin file'.mixed
        PROVE  /\ ~dump_is_off' => Told(file', i, now') = value'[Net[ItemOf(i)']]
               /\ dump_is_off' => Told(file', i, now') = "x"
    BY <1>5, <2>3
  <2>. QED  BY <2>1, <2>2, <2>3 DEF Drawn
<1>. QED  BY <1>2, <1>4, <1>6

\* All infos are shown, with their values or as x.
LEMMA CheckpointRight ==
    ASSUME IInv, phase # "post",
           NEW g \in File, SameValues(g), g.declared = file.declared,
           g.time = now, g.first # NoTime, g.first <= now
    PROVE  /\ FileNow(vcd_checkpoint(g)) /\ vcd_checkpoint(g).blackout = g.blackout
           /\ FileNow(vcd_checkpoint_x(g)) /\ vcd_checkpoint_x(g).blackout = g.blackout
           /\ ~g.blackout => \A i \in Idents : i \in GivenNow =>
                 /\ i \notin vcd_checkpoint(g).mixed => Told(vcd_checkpoint(g), i, now) = value[Net[ItemOf(i)]]
                 /\ i \notin vcd_checkpoint_x(g).mixed => Told(vcd_checkpoint_x(g), i, now) = "x"
<1>. DEFINE a == [i \in IdentsOf(DOMAIN vcd_list) |-> value[Net[ItemOf(i)]]]
            b == [i \in IdentsOf(DOMAIN vcd_list) |-> "x"]
<1>1. GivenNow \subseteq IdentsOf(DOMAIN vcd_list)
  BY Opened, InfosRight
<1>2. \A i \in DOMAIN a : a[i] \in Values \cup {"x"}
  <2>. DEFINE D == DOMAIN vcd_list
  <2>1. D \in SUBSET DOMAIN vcd_list
    OBVIOUS
  <2>. QED  BY <2>1, ShownRight
<1>3. vcd_checkpoint(g) = Write(g, a) /\ vcd_checkpoint_x(g) = Write(g, b)
  BY DEF vcd_checkpoint, vcd_checkpoint_x, show_items, show_items_x
<1>4. /\ \A i \in GivenNow : i \in DOMAIN a /\ a[i] = value[Net[ItemOf(i)]]
      /\ \A i \in GivenNow : i \in DOMAIN b /\ b[i] = "x"
      /\ \A i \in DOMAIN b : b[i] \in Values \cup {"x"}
  BY <1>1
<1>. HIDE DEF a, b
<1>5. WrittenNow(Write(g, a), g, a)
  BY <1>2, WriteNow
<1>6. WrittenNow(Write(g, b), g, b)
  BY <1>4, WriteNow
<1>. QED  BY <1>3, <1>4, <1>5, <1>6 DEF WrittenNow

LEMMA DumpallStep ==
    ASSUME IInv, dumpall
    PROVE  IInv'
<1>. DEFINE g == Stamped(now)
<1>1. /\ phase = "step" /\ ~dump_is_off /\ ~Pending /\ dumpvars_status = 2
      /\ vcd_cur_time' = IF now > vcd_cur_time THEN now ELSE vcd_cur_time
      /\ file' = vcd_checkpoint(g)
      /\ UNCHANGED <<format, now, phase, value, rosync, dump_file, dumpvars_status, dump_is_off, dump_is_full,
                     finish_status, tables, vcd_dmp_list, asked, hist, late>>
  BY DEF dumpall, Called, Stamp, sim, history, Pending
<1>2. Marked /\ now \in Nat /\ vcd_cur_time \in Nat /\ Typed
  BY <1>1, Opened
<1>3. vcd_cur_time' = now /\ file.time # NoTime /\ ~file.blackout
  BY <1>1, <1>2 DEF Marked
<1>4. /\ g \in File /\ g.declared = file.declared /\ SameValues(g) /\ g.blackout = file.blackout
      /\ g.time = now /\ g.first # NoTime /\ g.first <= now
  BY <1>1, <1>3, StampRight DEF SameValues
<1>. HIDE DEF g
<1>5. FileNow(file') /\ file'.blackout = g.blackout
  BY <1>1, <1>4, CheckpointRight
<1>6. \A i \in Idents : i \in GivenNow /\ i \notin file'.mixed => Told(file', i, now) = value[Net[ItemOf(i)]]
  BY <1>1, <1>3, <1>4, CheckpointRight
<1>7. Typed' /\ Declared' /\ HasFile' /\ Recorded' /\ Marked'
  <2>1. dump_is_off' \in BOOLEAN
    BY <1>1, <1>2 DEF Typed
  <2>2. dumpvars_status # 0 /\ dumpvars_status' = 2 /\ (file'.blackout => dump_is_off')
    BY <1>1, <1>3, <1>4, <1>5
  <2>. QED  BY <1>1, <1>3, <1>5, <2>1, <2>2, WroteStep
<1>8. Scheduled' /\ Listed' /\ Drawn' /\ Late'
  <2>1. file'.declared = file.declared
    BY <1>5 DEF FileNow
  <2>2. UNCHANGED <<phase, now, value, rosync, vcd_list, vcd_dmp_list, dumpvars_status>>
    BY <1>1 DEF tables
  <2>3. ~dump_is_off' /\ ~file'.blackout
    BY <1>1, <1>3, <1>4, <1>5
  <2>. QED  BY <1>1, <1>3, <1>6, <2>1, <2>2, <2>3, DrawnStep
<1>. QED  BY <1>1, <1>7, <1>8, OpenStep

\* The time of the call to lxt2 is that of the simulation while it has 32 bits.
LEMMA DumpoffStep ==
    ASSUME TimeWrap > MaxTime, IInv, dumpoff
    PROVE  IInv'
<1>. DEFINE g == Stamped(now)
            h == vcd_checkpoint_x(g)
<1>1. /\ phase = "step" /\ ~dump_is_off /\ dump_is_off' = TRUE
      /\ UNCHANGED <<format, sim, rosync, dump_path, dump_file, dumpvars_status, dump_is_full,
                     dump_limit, finish_status, tables, vcd_dmp_list, asked, hist, changes>>
  BY DEF dumpoff, Called
<1>2. /\ Typed /\ HasFile /\ Marked
      /\ now \in Nat /\ vcd_cur_time \in Nat /\ now \in Times
  BY <1>1, Opened DEF Typed
<1>3. CASE Pending
  <2>1. UNCHANGED <<file, vcd_cur_time>>
    BY <1>3 DEF dumpoff
  <2>2. dump_is_off' \in BOOLEAN /\ late' = late
    BY <1>1, <1>3 DEF dumpoff
  <2>. QED  BY <1>1, <1>3, <2>1, <2>2, OffOnPending
<1>4. CASE ~Pending
  <2>1. dump_file # None /\ dumpvars_status = 2
    BY <1>2, <1>4 DEF HasFile, Pending
  <2>2. now % TimeWrap = now
    <3>1. TimeWrap \in Nat /\ TimeWrap > now
      BY <1>2, BoundsAssumption DEF Times
    <3>. QED  BY <1>2, <3>1
  <2>3. /\ vcd_cur_time' = IF now > vcd_cur_time THEN now ELSE vcd_cur_time
        /\ file' = IF format = "lxt2" THEN [h EXCEPT !.blackout = TRUE] ELSE h
        /\ late' = IF format = "lxt2" THEN {} ELSE IdentsOf(vcd_dmp_list)
    BY <1>4, <2>1, <2>2 DEF dumpoff, Stamp
  <2>4. vcd_cur_time' = now /\ file.time # NoTime /\ ~file.blackout
    BY <1>1, <1>2, <1>4, <2>3 DEF Marked
  <2>5. /\ g \in File /\ g.declared = file.declared /\ SameValues(g) /\ g.blackout = file.blackout
        /\ g.time = now /\ g.first # NoTime /\ g.first <= now
    BY <1>1, <1>4, <2>4, StampRight DEF SameValues
  <2>. HIDE DEF g
  <2>6. FileNow(h) /\ ~h.blackout
    BY <1>1, <2>4, <2>5, CheckpointRight
  <2>7. \A i \in Idents : i \in GivenNow /\ i \notin h.mixed => Told(h, i, now) = "x"
    BY <1>1, <2>4, <2>5, CheckpointRight
  <2>. HIDE DEF h
  <2>8. /\ FileNow(file')
        /\ IF file'.blackout THEN late' = {} ELSE late' = IdentsOf(vcd_dmp_list)
        /\ file'.wave = h.wave /\ file'.mixed = h.mixed /\ file'.declared = file.declared
    <3>1. CASE format = "lxt2"
      <4>1. file' = [h EXCEPT !.blackout = TRUE] /\ h \in File
        BY <2>3, <2>6, <3>1 DEF FileNow
      <4>2. /\ file' \in File /\ file'.declared = h.declared /\ file'.first = h.first
            /\ file'.time = h.time /\ file'.wave = h.wave /\ file'.blackout = TRUE
            /\ file'.given = h.given /\ file'.mixed = h.mixed
        BY <4>1 DEF File
      <4>3. \A t \in Times, i \in Idents : Told(file', i, t) = Told(h, i, t)
        BY <4>2, ToldSame DEF Times
      <4>4. TellsGiven(file')
        BY <1>2, <2>6, <4>2, <4>3 DEF FileNow, TellsGiven
      <4>5. late' = {}
        BY <2>3, <3>1
      <4>. QED  BY <2>6, <4>2, <4>3, <4>4, <4>5 DEF FileNow
    <3>2. CASE format # "lxt2"
      <4>1. file' = h /\ late' = IdentsOf(vcd_dmp_list)
        BY <2>3, <3>2
      <4>. QED  BY <2>6, <4>1 DEF FileNow
    <3>. QED  BY <3>1, <3>2
  <2>9. \A i \in Idents : i \in GivenNow /\ i \notin file'.mixed => Told(file', i, now) = "x"
    <3>1. \A i : Told(file', i, now) = Told(h, i, now)
      BY <1>2, <2>8, ToldSame
    <3>. QED  BY <2>7, <2>8, <3>1
  <2>10. UNCHANGED <<now, phase, value, vcd_list>>
    BY <1>1 DEF sim, tables
  <2>11. Typed' /\ Declared' /\ HasFile' /\ Recorded' /\ Marked'
    <3>1. dump_is_off' \in BOOLEAN /\ (file'.blackout => dump_is_off')
      BY <1>1
    <3>2. dumpvars_status # 0 /\ dumpvars_status' = 2
      BY <1>1, <2>1
    <3>. QED  BY <1>1, <2>4, <2>8, <2>10, <3>1, <3>2, WroteStep
  <2>12. Scheduled' /\ Listed' /\ Drawn' /\ Late'
    BY <1>1, <2>1, <2>4, <2>8, <2>9, <2>10, DrawnStep
  <2>. QED  BY <1>1, <2>11, <2>12, OpenStep
<1>. QED  BY <1>3, <1>4

LEMMA DumponStep ==
    ASSUME IInv, dumpon
    PROVE  IInv'
<1>. DEFINE f == Stamped(now)
            g == [f EXCEPT !.blackout = FALSE]
<1>1. /\ phase = "step" /\ dump_is_off' = FALSE
      /\ UNCHANGED <<format, sim, rosync, dump_path, dump_file, dumpvars_status, dump_is_full,
                     dump_limit, finish_status, tables, vcd_dmp_list, asked, hist, changes>>
  BY DEF dumpon, Called
<1>2. /\ Typed /\ HasFile /\ Marked
      /\ now \in Nat /\ vcd_cur_time \in Nat /\ now \in Times
  BY <1>1, Opened DEF Typed
<1>3. CASE Pending
  <2>1. UNCHANGED <<file, vcd_cur_time>>
    BY <1>3 DEF dumpon
  <2>2. dump_is_off' \in BOOLEAN /\ late' = {}
    BY <1>1 DEF dumpon
  <2>. QED  BY <1>1, <1>3, <2>1, <2>2, OffOnPending
<1>4. CASE ~Pending
  <2>1. dump_file # None /\ dumpvars_status = 2
    BY <1>2, <1>4 DEF HasFile, Pending
  <2>2. /\ vcd_cur_time' = IF now > vcd_cur_time THEN now ELSE vcd_cur_time
        /\ file' = vcd_checkpoint(g)
    BY <1>4, <2>1 DEF dumpon, Stamp
  <2>3. vcd_cur_time' = now /\ (file.time # NoTime \/ now > vcd_cur_time)
    BY <1>1, <1>2, <1>4, <2>2 DEF Marked
  <2>4. /\ f \in File /\ f.declared = file.declared /\ SameValues(f)
        /\ f.time = now /\ f.first # NoTime /\ f.first <= now
    BY <1>1, <1>4, <2>3, StampRight DEF SameValues
  <2>. HIDE DEF f
  <2>5. /\ g \in File /\ g.declared = file.declared /\ SameValues(g) /\ g.blackout = FALSE
        /\ g.time = now /\ g.first # NoTime /\ g.first <= now
    BY <2>4 DEF File, SameValues
  <2>. HIDE DEF g
  <2>6. FileNow(file') /\ file'.blackout = g.blackout
    BY <1>1, <2>2, <2>5, CheckpointRight
  <2>7. \A i \in Idents : i \in GivenNow /\ i \notin file'.mixed => Told(file', i, now) = value[Net[ItemOf(i)]]
    BY <1>1, <2>2, <2>5, CheckpointRight
  <2>8. UNCHANGED <<now, phase, value, vcd_list>>
    BY <1>1 DEF sim, tables
  <2>9. Typed' /\ Declared' /\ HasFile' /\ Recorded' /\ Marked'
    <3>1. dump_is_off' \in BOOLEAN /\ (file'.blackout => dump_is_off')
      BY <1>1, <2>5, <2>6
    <3>2. dumpvars_status # 0 /\ dumpvars_status' = 2
      BY <1>1, <2>1
    <3>. QED  BY <1>1, <2>3, <2>6, <2>8, <3>1, <3>2, WroteStep
  <2>10. Scheduled' /\ Listed' /\ Drawn' /\ Late'
    <3>1. file'.declared = file.declared
      BY <2>6 DEF FileNow
    <3>2. ~dump_is_off' /\ ~file'.blackout
      BY <1>1, <2>5, <2>6
    <3>. QED  BY <1>1, <2>1, <2>3, <2>7, <2>8, <3>1, <3>2, DrawnStep
  <2>. QED  BY <1>1, <2>9, <2>10, OpenStep
<1>. QED  BY <1>3, <1>4

LEMMA DumpvarsCbStep ==
    ASSUME IInv, dumpvars_cb
    PROVE  IInv'
<1>1. /\ phase = "rosync" /\ rosync # <<>> /\ Head(rosync) = "dumpvars_cb" /\ rosync' = Tail(rosync)
      /\ dumpvars_status' = 2 /\ vcd_cur_time' = now
      /\ file' = IF dump_is_off THEN file ELSE vcd_checkpoint(MarkTime(file, now))
      /\ UNCHANGED <<format, now, phase, value, dump_file, dump_is_off, dump_is_full,
                     finish_status, tables, vcd_dmp_list, asked, hist, late>>
  BY DEF dumpvars_cb, NextCallback, sim, history
<1>2. /\ Typed /\ Declared /\ HasFile /\ Recorded /\ Scheduled /\ Listed /\ Marked
      /\ now \in Nat /\ now \in Times /\ file \in File /\ now # NoTime
  BY <1>1, Opened DEF Typed
<1>3. dumpvars_status = 1 /\ rosync = <<"dumpvars_cb">>
  <2>1. rosync = IF dumpvars_status = 1 THEN <<"dumpvars_cb">>
                 ELSE IF vcd_dmp_list # {} THEN <<"variable_cb_2">> ELSE <<>>
    BY <1>1, <1>2 DEF Scheduled
  <2>2. Head(<<"variable_cb_2">>) # "dumpvars_cb"
    OBVIOUS
  <2>. QED  BY <1>1, <2>1, <2>2
<1>4. /\ vcd_dmp_list = {} /\ late = {} /\ file.time = NoTime /\ file.first = NoTime /\ ~file.blackout
      /\ \A t \in Times, i \in Idents : file.wave[t][i] = None
  BY <1>2, <1>3 DEF Listed, Marked, Pending
<1>5. rosync' = <<>>
  BY <1>1, <1>3
<1>6. Scheduled' /\ Listed'
  BY <1>1, <1>4, <1>5 DEF Scheduled, Listed
<1>7. IdentsOf(vcd_dmp_list)' = {}
  BY <1>1, <1>4 DEF IdentsOf
<1>8. Late'
  BY <1>1, <1>4, <1>7 DEF Late
<1>9. CASE dump_is_off
  <2>1. file' = file
    BY <1>1, <1>9
  <2>2. Typed' /\ HasFile' /\ Recorded'
    BY <1>1, <1>2, <1>3, <2>1 DEF Typed, HasFile, Recorded
  <2>3. Declared'
    BY <1>1, <1>2, <2>1, DeclaredSame
  <2>4. Marked'
    <3>1. TellsGiven(file)'
      BY <1>1, <1>2, <2>1 DEF Marked, TellsGiven
    <3>. QED  BY <1>1, <1>2, <1>4, <1>9, <2>1, <3>1 DEF Marked, Pending
  <2>5. \A i \in Idents : Told(file, i, now) = "x"
    <3>1. \A i \in Idents : \A u \in 0..now : file.wave[u][i] = None
      <4>1. \A u \in 0..now : u \in Times
        BY <1>2, BoundsAssumption DEF Times
      <4>. QED  BY <1>4, <4>1
    <3>2. \A i \in Idents : Tells(file, i, now, "x")
      BY <3>1 DEF Tells
    <3>. QED  BY <1>2, <3>2, TellsTold
  <2>6. Drawn'
    BY <1>1, <1>4, <1>9, <2>1, <2>5 DEF Drawn
  <2>. QED  BY <1>1, <1>6, <1>8, <2>2, <2>3, <2>4, <2>6, OpenStep
<1>10. CASE ~dump_is_off
  <2>. DEFINE g == MarkTime(file, now)
  <2>1. /\ g \in File /\ g.declared = file.declared /\ SameValues(g) /\ g.blackout = file.blackout
        /\ g.time = now /\ g.first # NoTime /\ g.first <= now
    BY <1>2, <1>4, MarkRight DEF SameValues
  <2>. HIDE DEF g
  <2>2. file' = vcd_checkpoint(g)
    BY <1>1, <1>10 DEF g
  <2>3. FileNow(file') /\ file'.blackout = g.blackout
    BY <1>1, <2>1, <2>2, CheckpointRight
  <2>4. \A i \in Idents : i \in GivenNow /\ i \notin file'.mixed => Told(file', i, now) = value[Net[ItemOf(i)]]
    BY <1>1, <1>4, <2>1, <2>2, CheckpointRight
  <2>5. Typed' /\ Declared' /\ HasFile' /\ Recorded' /\ Marked'
    <3>1. dump_is_off' \in BOOLEAN /\ (file'.blackout => dump_is_off')
      BY <1>1, <1>2, <1>4, <2>1, <2>3 DEF Typed
    <3>. QED  BY <1>1, <1>3, <2>3, <3>1, WroteStep
  <2>6. Drawn'
    <3>1. {d.ident : d \in Range(file'.declared)} = GivenNow
      BY <2>3 DEF GivenNow, FileNow
    <3>2. \A i : ItemOf(i)' = ItemOf(i)
      BY <1>1 DEF ItemOf, tables
    <3>. QED  BY <1>1, <1>10, <2>4, <3>1, <3>2 DEF Drawn
  <2>. QED  BY <1>1, <1>6, <1>8, <2>5, <2>6, OpenStep
<1>. QED  BY <1>9, <1>10

LEMMA ChangeStep ==
    ASSUME IInv, NEW n \in Nets, Change(n)
    PROVE  IInv'
<1>. DEFINE live == {k \in DOMAIN vcd_list : Net[vcd_list[k].item] = n} \ vcd_dmp_list
            idle == dump_is_full \/ dump_is_off \/ Pending \/ live = {}
<1>1. PICK over \in BOOLEAN : variable_cb_1(n, over)
  BY DEF Change
<1>2. /\ phase = "step" /\ value' = [value EXCEPT ![n] = IF @ = "0" THEN "1" ELSE "0"]
      /\ UNCHANGED <<format, now, phase, dump_file, file, dumpvars_status, vcd_cur_time, dump_is_off,
                     finish_status, tables, asked, hist, late>>
  BY DEF Change, history
<1>3. /\ idle => UNCHANGED <<dump_is_full, rosync, vcd_dmp_list>>
      /\ ~idle => /\ dump_is_full' = over
                  /\ rosync' = IF over \/ vcd_dmp_list # {} THEN rosync
                               ELSE Append(rosync, "variable_cb_2")
                  /\ vcd_dmp_list' = IF over THEN vcd_dmp_list ELSE vcd_dmp_list \cup live
  BY <1>1 DEF variable_cb_1
<1>4. /\ Typed /\ Declared /\ HasFile /\ Recorded /\ Scheduled /\ Listed /\ Marked /\ Drawn /\ Late
      /\ Sound(TablesNow)
  BY <1>2, Opened
<1>5. /\ value' \in [Nets -> Values] /\ \A m \in Nets : m # n => value'[m] = value[m]
  BY <1>2, <1>4 DEF Typed, Values
<1>. HIDE DEF live
<1>6. dump_is_full' \in BOOLEAN
  BY <1>3, <1>4 DEF Typed
<1>7. Typed' /\ HasFile' /\ Recorded'
  BY <1>2, <1>4, <1>5, <1>6 DEF Typed, HasFile, Recorded
<1>8. Declared'
  BY <1>2, <1>4, DeclaredSame
<1>9. Listed'
  <2>1. live \subseteq DOMAIN vcd_list
    BY DEF live
  <2>2. vcd_dmp_list' = vcd_dmp_list \/ (~Pending /\ vcd_dmp_list' \subseteq vcd_dmp_list \cup live)
    BY <1>3
  <2>3. /\ vcd_list' = vcd_list /\ (Pending <=> Pending')
        /\ UNCHANGED <<late, dump_is_off, vcd_cur_time, now>>
    BY <1>2 DEF tables, Pending
  <2>4. dump_is_off => vcd_dmp_list' = vcd_dmp_list
    BY <1>3
  <2>. QED  BY <1>4, <2>1, <2>2, <2>3, <2>4 DEF Listed
<1>10. Scheduled'
  <2>1. CASE idle \/ over
    BY <1>2, <1>3, <1>4, <2>1 DEF Scheduled
  <2>2. CASE ~idle /\ ~over /\ vcd_dmp_list # {}
    <3>1. vcd_dmp_list' # {} /\ rosync' = rosync
      BY <1>3, <2>2
    <3>. QED  BY <1>2, <1>4, <2>2, <3>1 DEF Scheduled
  <2>3. CASE ~idle /\ ~over /\ vcd_dmp_list = {}
    <3>1. dumpvars_status # 1 /\ vcd_dmp_list' # {}
      BY <1>3, <2>3 DEF Pending
    <3>2. rosync = <<>>
      BY <1>2, <1>4, <2>3, <3>1 DEF Scheduled
    <3>3. rosync' = Append(<<>>, "variable_cb_2")
      BY <1>3, <2>3, <3>2
    <3>4. rosync' = <<"variable_cb_2">>
      BY <3>3
    <3>. QED  BY <1>2, <3>1, <3>4 DEF Scheduled
  <2>. QED  BY <2>1, <2>2, <2>3
<1>11. Marked'
  <2>1. idle \/ dump_is_off = FALSE
    BY <1>4 DEF Typed
  <2>2. TellsGiven(file)'
    BY <1>2, <1>4 DEF Marked, TellsGiven
  <2>. QED  BY <1>2, <1>3, <1>4, <2>1, <2>2 DEF Marked, Pending
<1>12. /\ \A i : ItemOf(i)' = ItemOf(i)
       /\ IdentsOf(vcd_dmp_list)' = {vcd_list[k].ident : k \in vcd_dmp_list'} \ {NoIdent}
  BY <1>2 DEF ItemOf, IdentsOf, tables
<1>13. Late'
  <2>1. dump_is_off' /\ ~file'.blackout => dump_is_off /\ ~file.blackout /\ vcd_dmp_list' = vcd_dmp_list
    BY <1>2, <1>3
  <2>. QED  BY <1>2, <1>4, <1>12, <2>1 DEF Late, IdentsOf
<1>14. Drawn'
  <2>. SUFFICES ASSUME ~Pending', NEW i \in Idents, i \in GivenNow', i \notin file'.mixed
                PROVE  /\ ~dump_is_full' /\ ~dump_is_off' =>
                             \/ Told(file', i, now') = value'[Net[ItemOf(i)']]
                             \/ i \in IdentsOf(vcd_dmp_list)'
                       /\ dump_is_off' /\ i \notin late' => Told(file', i, now') = "x"
                       /\ dump_is_off' /\ i \in late' /\ vcd_cur_time' = now' => i \in IdentsOf(vcd_dmp_list)'
    BY DEF Drawn, GivenNow
  <2>1. i \in GivenNow /\ ~Pending /\ i \notin file.mixed
    BY <1>2 DEF GivenNow, Pending
  <2>2. /\ ~dump_is_full /\ ~dump_is_off =>
             Told(file, i, now) = value[Net[ItemOf(i)]] \/ i \in IdentsOf(vcd_dmp_list)
        /\ dump_is_off /\ i \notin late => Told(file, i, now) = "x"
        /\ dump_is_off /\ i \in late /\ vcd_cur_time = now => i \in IdentsOf(vcd_dmp_list)
    BY <1>2, <1>4, <2>1 DEF Drawn, GivenNow
  <2>7. dump_is_off => IdentsOf(vcd_dmp_list)' = IdentsOf(vcd_dmp_list)
    BY <1>3, <1>12 DEF IdentsOf
  <2>3. i \in IdentsOf(DOMAIN vcd_list)
    BY <1>4, <2>1, InfosRight
  <2>4. ItemOf(i) \in Signals /\ Net[ItemOf(i)] \in Nets
    <3>1. ItemOf(i) \in Signals
      BY <1>4, <2>3, InfosRight
    <3>. QED  BY <3>1 DEF Nets
  <2>5. ASSUME ~dump_is_full', ~dump_is_off', Net[ItemOf(i)] = n PROVE i \in IdentsOf(vcd_dmp_list)'
    <3>1. PICK k \in DOMAIN vcd_list : vcd_list[k].ident = i /\ i # NoIdent
      BY <2>3 DEF IdentsOf
    <3>2. vcd_list[k].item = ItemOf(i)
      BY <1>4, <3>1, InfosRight
    <3>3. k \in vcd_dmp_list \/ k \in live
      BY <2>5, <3>1, <3>2 DEF live
    <3>4. vcd_dmp_list' = vcd_dmp_list \cup live
      BY <1>2, <1>3, <2>1, <2>5
    <3>. QED  BY <1>12, <3>1, <3>3, <3>4
  <2>6. ASSUME ~dump_is_full', ~dump_is_off', Net[ItemOf(i)] # n
        PROVE  Told(file', i, now') = value'[Net[ItemOf(i)]] \/ i \in IdentsOf(vcd_dmp_list)'
    <3>1. value'[Net[ItemOf(i)]] = value[Net[ItemOf(i)]]
      BY <1>5, <2>4, <2>6
    <3>2. ~dump_is_full /\ ~dump_is_off
      BY <1>2, <1>3, <2>6
    <3>3. i \in IdentsOf(vcd_dmp_list) => i \in IdentsOf(vcd_dmp_list)'
      <4>1. vcd_dmp_list \subseteq vcd_dmp_list'
        BY <1>3
      <4>. QED  BY <1>12, <4>1 DEF IdentsOf
    <3>. QED  BY <1>2, <2>2, <3>1, <3>2, <3>3
  <2>. QED  BY <1>2, <1>12, <2>2, <2>5, <2>6, <2>7
<1>. QED  BY <1>2, <1>7, <1>8, <1>9, <1>10, <1>11, <1>13, <1>14, OpenStep

LEMMA VariableCbStep ==
    ASSUME IInv, variable_cb_2
    PROVE  IInv'
<1>. DEFINE g == Stamped(now)
            given == [i \in IdentsOf(vcd_dmp_list) |-> value[Net[ItemOf(i)]]]
<1>1. /\ phase = "rosync" /\ rosync # <<>> /\ Head(rosync) = "variable_cb_2" /\ rosync' = Tail(rosync)
      /\ vcd_cur_time' = now /\ vcd_dmp_list' = {}
      /\ file' = show_items(IF now # vcd_cur_time THEN MarkTime(file, now) ELSE file, vcd_dmp_list)
      /\ UNCHANGED <<format, now, phase, value, dump_file, dumpvars_status, dump_is_off, dump_is_full,
                     finish_status, tables, asked, hist, late>>
  BY DEF variable_cb_2, NextCallback, sim, history
<1>2. /\ Typed /\ Declared /\ HasFile /\ Recorded /\ Scheduled /\ Listed /\ Marked /\ Drawn /\ Late
      /\ now \in Nat /\ vcd_cur_time \in Nat /\ Sound(TablesNow)
  BY <1>1, Opened
<1>3. dumpvars_status # 1 /\ vcd_dmp_list # {} /\ rosync = <<"variable_cb_2">>
  <2>1. rosync = IF dumpvars_status = 1 THEN <<"dumpvars_cb">>
                 ELSE IF vcd_dmp_list # {} THEN <<"variable_cb_2">> ELSE <<>>
    BY <1>1, <1>2 DEF Scheduled
  <2>2. Head(<<"dumpvars_cb">>) # "variable_cb_2"
    OBVIOUS
  <2>. QED  BY <1>1, <2>1, <2>2
<1>4. ~Pending /\ dumpvars_status = 2 /\ file.time # NoTime /\ (file.blackout => dump_is_off)
  BY <1>2, <1>3 DEF Listed, Marked, Pending
<1>5. (now # vcd_cur_time) <=> now > vcd_cur_time
  BY <1>2 DEF Marked
<1>6. file' = Write(g, given)
  BY <1>1, <1>5 DEF show_items, Stamped
<1>7. /\ g \in File /\ g.declared = file.declared /\ SameValues(g) /\ g.blackout = file.blackout
      /\ g.time = now /\ g.first # NoTime /\ g.first <= now
  BY <1>1, <1>4, StampRight DEF SameValues
<1>8. \A i \in DOMAIN given : given[i] \in Values \cup {"x"}
  <2>1. vcd_dmp_list \in SUBSET DOMAIN vcd_list
    BY <1>2 DEF Listed
  <2>. QED  BY <1>1, <2>1, ShownRight
<1>9. DOMAIN given = IdentsOf(vcd_dmp_list) /\ \A i \in DOMAIN given : given[i] = value[Net[ItemOf(i)]]
  OBVIOUS
<1>. HIDE DEF g, given
<1>10. WrittenNow(file', g, given)
  BY <1>1, <1>6, <1>7, <1>8, WriteNow
<1>11. FileNow(file') /\ file'.blackout = file.blackout /\ file'.declared = file.declared
  BY <1>7, <1>10 DEF WrittenNow, FileNow
<1>12. Typed' /\ Declared' /\ HasFile' /\ Recorded' /\ Marked'
  <2>1. dump_is_off' \in BOOLEAN /\ (file'.blackout => dump_is_off')
    BY <1>1, <1>2, <1>4, <1>11 DEF Typed
  <2>. QED  BY <1>1, <1>4, <1>11, <2>1, WroteStep
<1>13. rosync' = <<>>
  BY <1>1, <1>3
<1>14. Scheduled' /\ Listed'
  BY <1>1, <1>3, <1>4, <1>13 DEF Scheduled, Listed, Pending
<1>15. IdentsOf(vcd_dmp_list)' = {}
  BY <1>1 DEF IdentsOf
<1>16. Late'
  BY <1>1, <1>2, <1>11, <1>15 DEF Late
<1>17. Drawn'
  <2>. SUFFICES ASSUME NEW i \in Idents, i \in GivenNow', i \notin file'.mixed
                PROVE  /\ ~dump_is_full' /\ ~dump_is_off' => Told(file', i, now') = value'[Net[ItemOf(i)']]
                       /\ dump_is_off' /\ i \notin late' => Told(file', i, now') = "x"
                       /\ dump_is_off' /\ i \in late' =>
                             phase' # "step" /\ Told(file', i, now') = value'[Net[ItemOf(i)']]
    BY DEF Drawn, GivenNow
  <2>1. i \in GivenNow /\ ItemOf(i)' = ItemOf(i)
    BY <1>1, <1>11 DEF GivenNow, ItemOf, tables
  <2>2. i \notin DOMAIN given \/ file.blackout => i \notin file.mixed /\ Told(file', i, now) = Told(file, i, now)
    BY <1>7, <1>10 DEF WrittenNow
  <2>3. ~file.blackout /\ i \in DOMAIN given => Told(file', i, now) = value[Net[ItemOf(i)]]
    BY <1>7, <1>9, <1>10 DEF WrittenNow
  <2>4. i \notin file.mixed =>
        /\ ~dump_is_full /\ ~dump_is_off =>
             Told(file, i, now) = value[Net[ItemOf(i)]] \/ i \in DOMAIN given
        /\ dump_is_off /\ i \notin late => Told(file, i, now) = "x"
        /\ dump_is_off /\ i \in late /\ vcd_cur_time = now =>
             i \in DOMAIN given \/ Told(file, i, now) = value[Net[ItemOf(i)]]
    BY <1>2, <1>4, <1>9, <2>1 DEF Drawn, GivenNow
  <2>5. /\ dump_is_off /\ ~file.blackout /\ i \notin late => i \notin DOMAIN given
        /\ file.blackout => i \notin late
        /\ dump_is_off => vcd_cur_time = now
    BY <1>2, <1>3, <1>9 DEF Late, Listed
  <2>6. phase' # "step" /\ now' = now /\ value' = value /\ late' = late
        /\ dump_is_off' = dump_is_off /\ dump_is_full' = dump_is_full
    BY <1>1
  <2>7. CASE i \notin DOMAIN given \/ file.blackout
    BY <1>4, <2>1, <2>2, <2>4, <2>5, <2>6, <2>7
  <2>8. CASE i \in DOMAIN given /\ ~file.blackout
    BY <2>1, <2>3, <2>5, <2>6, <2>8
  <2>. QED  BY <2>7, <2>8
<1>. QED  BY <1>1, <1>12, <1>14, <1>16, <1>17, OpenStep

\* At the end of a step the file tells what is expected of it, and will until it is
\* written again.
LEMMA ExpectedTold ==
    ASSUME IInv, phase = "rosync", rosync = <<>>
    PROVE  /\ Expected \in [Idents -> Marks \cup {"any"}]
           /\ \A i \in Idents : Expected[i] # "any" =>
                 \A t \in Times : t >= now => Told(file, i, t) = Expected[i]
<1>1. /\ Typed /\ Scheduled /\ Marked /\ Drawn /\ Recorded /\ Sound(TablesNow)
      /\ now \in Nat /\ vcd_cur_time \in Nat /\ now \in Times /\ vcd_cur_time <= now
  BY Opened DEF Typed, Marked
<1>2. vcd_dmp_list = {}
  <2>1. <<>> # <<"variable_cb_2">> /\ <<>> # <<"dumpvars_cb">>
    OBVIOUS
  <2>. QED  BY <1>1, <2>1 DEF Scheduled
<1>3. IdentsOf(vcd_dmp_list) = {}
  BY <1>2 DEF IdentsOf
<1>4. Expected = [i \in Idents |->
          IF i \notin GivenNow \/ i \in file.mixed \/ Pending \/ dump_is_full THEN "any"
          ELSE IF ~dump_is_off \/ (i \in late /\ vcd_cur_time = now) THEN value[Net[ItemOf(i)]]
          ELSE IF i \in late THEN hist[now - 1][i]
          ELSE "x"]
  BY DEF Expected, GivenNow
<1>5. \A i \in GivenNow : value[Net[ItemOf(i)]] \in Values
  <2>1. \A i \in GivenNow : ItemOf(i) \in Signals
    <3>1. GivenNow \subseteq IdentsOf(DOMAIN vcd_list)
      BY <1>1, InfosRight
    <3>. QED  BY <1>1, <3>1, InfosRight
  <2>2. \A s \in Signals : Net[s] \in Nets
    BY DEF Nets
  <2>. QED  BY <1>1, <2>1, <2>2 DEF Typed
<1>8. ASSUME vcd_cur_time # now PROVE now - 1 \in Times /\ now - 1 \in Nat /\ now - 1 >= vcd_cur_time
  BY <1>1, <1>8, BoundsAssumption DEF Times
<1>9. \A i \in Idents : dump_is_off /\ i \in late /\ vcd_cur_time # now =>
         hist[now - 1][i] \in Marks \cup {"any"}
  BY <1>1, <1>8 DEF Typed
<1>6. Expected \in [Idents -> Marks \cup {"any"}]
  <2>1. ASSUME NEW i \in Idents PROVE Expected[i] \in Marks \cup {"any"}
    <3>1. CASE i \notin GivenNow \/ i \in file.mixed \/ Pending \/ dump_is_full
      BY <1>4, <3>1
    <3>2. CASE /\ ~(i \notin GivenNow \/ i \in file.mixed \/ Pending \/ dump_is_full)
               /\ ~dump_is_off \/ (i \in late /\ vcd_cur_time = now)
      BY <1>4, <1>5, <3>2 DEF Marks
    <3>3. CASE /\ ~(i \notin GivenNow \/ i \in file.mixed \/ Pending \/ dump_is_full)
               /\ ~(~dump_is_off \/ (i \in late /\ vcd_cur_time = now))
      BY <1>4, <1>9, <3>3 DEF Marks
    <3>. QED  BY <3>1, <3>2, <3>3
  <2>2. Expected = [i \in Idents |-> Expected[i]]
    BY <1>4
  <2>. QED  BY <2>1, <2>2
<1>7. ASSUME NEW i \in Idents, Expected[i] # "any", NEW t \in Times, t >= now
      PROVE  Told(file, i, t) = Expected[i]
  <2>1. i \in GivenNow /\ i \notin file.mixed /\ ~Pending /\ ~dump_is_full
    BY <1>4, <1>7
  <2>6. Expected[i] = IF ~dump_is_off \/ (i \in late /\ vcd_cur_time = now) THEN value[Net[ItemOf(i)]]
                      ELSE IF i \in late THEN hist[now - 1][i] ELSE "x"
    BY <1>4, <2>1
  <2>7. /\ ~dump_is_off => Told(file, i, now) = value[Net[ItemOf(i)]]
        /\ dump_is_off /\ i \notin late => Told(file, i, now) = "x"
        /\ dump_is_off /\ i \in late /\ vcd_cur_time = now => Told(file, i, now) = value[Net[ItemOf(i)]]
    BY <1>1, <1>3, <2>1 DEF Drawn, GivenNow
  <2>8. ASSUME dump_is_off, i \in late, vcd_cur_time # now PROVE Told(file, i, now) = Expected[i]
    <3>1. Expected[i] = hist[now - 1][i]
      BY <2>6, <2>8
    <3>2. Told(file, i, now - 1) = hist[now - 1][i]
      BY <1>1, <1>7, <1>8, <2>8, <3>1 DEF Recorded
    <3>3. \A w \in 0..now : w > now - 1 => file.wave[w][i] = None
      <4>1. \A w \in 0..now : w > now - 1 => w = now
        BY <1>1
      <4>2. now > vcd_cur_time
        BY <1>1, <2>8
      <4>. QED  BY <1>1, <4>1, <4>2 DEF Marked
    <3>4. Told(file, i, now) = Told(file, i, now - 1)
      BY <1>1, <1>8, <2>8, <3>3, ToldLater
    <3>. QED  BY <3>1, <3>2, <3>4
  <2>2. Told(file, i, now) = Expected[i]
    BY <2>6, <2>7, <2>8
  <2>3. \A w \in 0..t : w > now => file.wave[w][i] = None
    <3>1. \A w \in 0..t : w \in Times
      BY BoundsAssumption DEF Times
    <3>. QED  BY <1>7, <3>1, Opened
  <2>4. t \in Nat
    BY DEF Times
  <2>5. Told(file, i, t) = Told(file, i, now)
    BY <1>1, <1>7, <2>3, <2>4, ToldLater
  <2>. QED  BY <2>2, <2>5
<1>. QED  BY <1>6, <1>7

LEMMA TimePassesStep ==
    ASSUME IInv, NEW t \in Times, TimePasses(t)
    PROVE  IInv'
<1>1. /\ phase = "rosync" /\ rosync = <<>> /\ t > now /\ now' = t /\ phase' = "step"
      /\ hist' = [u \in Times |-> IF now <= u /\ u < t THEN Expected ELSE hist[u]]
      /\ UNCHANGED <<format, value, rosync, dump_file, file, flags, finish_status, tables,
                     vcd_dmp_list, asked, late>>
  BY DEF TimePasses
<1>2. /\ Typed /\ Declared /\ HasFile /\ Recorded /\ Scheduled /\ Listed /\ Marked /\ Drawn /\ Late
      /\ now \in Nat /\ vcd_cur_time \in Nat /\ now \in Times
  BY <1>1, Opened DEF Typed
<1>3. t \in Nat /\ Times \subseteq Nat
  BY DEF Times
<1>4. Expected \in [Idents -> Marks \cup {"any"}]
  BY <1>1, ExpectedTold
<1>5. Declared'
  BY <1>1, <1>2, DeclaredSame
<1>6. Typed' /\ HasFile'
  <2>1. hist' \in [Times -> [Idents -> Marks \cup {"any"}]]
    BY <1>1, <1>2, <1>4 DEF Typed
  <2>. QED  BY <1>1, <1>2, <2>1 DEF Typed, HasFile, flags
<1>7. Recorded'
  <2>1. \A u \in Times, i \in Idents : u >= t => hist'[u][i] = "any"
    <3>. SUFFICES ASSUME NEW u \in Times, NEW i \in Idents, u >= t PROVE hist'[u][i] = "any"
      OBVIOUS
    <3>1. u \in Nat /\ ~(u < t) /\ u >= now
      BY <1>1, <1>2, <1>3
    <3>2. hist'[u] = hist[u]
      BY <1>1, <3>1
    <3>. QED  BY <1>1, <1>2, <3>1, <3>2 DEF Recorded
  <2>2. \A u \in Times, i \in Idents : hist'[u][i] # "any" => Told(file, i, u) = hist'[u][i]
    <3>. SUFFICES ASSUME NEW u \in Times, NEW i \in Idents, hist'[u][i] # "any"
                  PROVE  Told(file, i, u) = hist'[u][i]
      OBVIOUS
    <3>1. CASE now <= u /\ u < t
      <4>1. hist'[u] = Expected
        BY <1>1, <3>1
      <4>2. u >= now
        BY <1>2, <1>3, <3>1
      <4>. QED  BY <1>1, <4>1, <4>2, ExpectedTold
    <3>2. CASE ~(now <= u /\ u < t)
      <4>1. hist'[u] = hist[u]
        BY <1>1, <3>2
      <4>. QED  BY <1>2, <4>1 DEF Recorded
    <3>. QED  BY <3>1, <3>2
  <2>. QED  BY <1>1, <2>1, <2>2 DEF Recorded
<1>8. Scheduled' /\ Listed'
  <2>1. vcd_dmp_list = {}
    <3>1. <<>> # <<"variable_cb_2">> /\ <<>> # <<"dumpvars_cb">>
      OBVIOUS
    <3>. QED  BY <1>1, <1>2, <3>1 DEF Scheduled
  <2>. QED  BY <1>1, <1>2, <2>1 DEF Scheduled, Listed, flags, tables, Pending
<1>11. \A i \in Idents : Told(file, i, t) = Told(file, i, now)
  <2>. SUFFICES ASSUME NEW i \in Idents PROVE Told(file, i, t) = Told(file, i, now)
    OBVIOUS
  <2>1. \A w \in 0..t : w > now => file.wave[w][i] = None
    <3>1. \A w \in 0..t : w \in Times
      BY BoundsAssumption DEF Times
    <3>. QED  BY <1>1, <3>1, Opened
  <2>. QED  BY <1>1, <1>2, <1>3, <2>1, ToldLater
<1>9. Marked'
  <2>1. vcd_cur_time < t
    BY <1>1, <1>2, <1>3 DEF Marked
  <2>2. TellsGiven(file)'
    BY <1>1, <1>2, <1>11 DEF Marked, TellsGiven
  <2>3. vcd_cur_time <= t /\ t > vcd_cur_time
    BY <1>2, <1>3, <2>1
  <2>. QED  BY <1>1, <1>2, <2>2, <2>3 DEF Marked, flags, Pending
<1>10. Drawn' /\ Late'
  <2>1. \A i : ItemOf(i)' = ItemOf(i)
    BY <1>1 DEF ItemOf, tables
  <2>2. IdentsOf(vcd_dmp_list)' = IdentsOf(vcd_dmp_list)
    BY <1>1 DEF IdentsOf, tables
  <2>3. vcd_cur_time' # now'
    BY <1>1, <1>2, <1>3 DEF Marked, flags
  <2>4. Late'
    BY <1>1, <1>2, <2>2 DEF Late, flags
  <2>5. Drawn'
    BY <1>1, <1>2, <1>11, <2>1, <2>2, <2>3 DEF Drawn, flags, Pending
  <2>. QED  BY <2>4, <2>5
<1>. QED  BY <1>1, <1>5, <1>6, <1>7, <1>8, <1>9, <1>10, OpenStep

LEMMA EndOfSimulationStep ==
    ASSUME IInv, EndOfSimulation
    PROVE  IInv'
<1>1. /\ phase = "rosync" /\ rosync = <<>> /\ phase' = "post"
      /\ hist' = [hist EXCEPT ![now] = Expected]
      /\ UNCHANGED <<format, now, value, rosync, dump_file, file, flags, finish_status, tables,
                     vcd_dmp_list, asked, late>>
  BY DEF EndOfSimulation
<1>2. /\ Typed /\ Declared /\ HasFile /\ Recorded /\ Scheduled /\ Listed /\ Marked /\ Drawn /\ Late
      /\ now \in Nat /\ now \in Times
  BY <1>1, Opened DEF Typed
<1>3. Expected \in [Idents -> Marks \cup {"any"}]
  BY <1>1, ExpectedTold
<1>4. Declared'
  BY <1>1, <1>2, DeclaredSame
<1>5. Typed' /\ HasFile'
  <2>1. hist' \in [Times -> [Idents -> Marks \cup {"any"}]]
    BY <1>1, <1>2, <1>3 DEF Typed
  <2>. QED  BY <1>1, <1>2, <2>1 DEF Typed, HasFile, flags
<1>6. Recorded'
  <2>1. \A u \in Times, i \in Idents : hist'[u][i] # "any" => Told(file, i, u) = hist'[u][i]
    <3>. SUFFICES ASSUME NEW u \in Times, NEW i \in Idents, hist'[u][i] # "any"
                  PROVE  Told(file, i, u) = hist'[u][i]
      OBVIOUS
    <3>1. CASE u = now
      <4>1. hist'[u] = Expected
        BY <1>1, <1>2, <3>1 DEF Typed
      <4>2. u >= now
        BY <1>2, <3>1
      <4>. QED  BY <1>1, <4>1, <4>2, ExpectedTold
    <3>2. CASE u # now
      <4>1. hist'[u] = hist[u]
        BY <1>1, <1>2, <3>2 DEF Typed
      <4>. QED  BY <1>2, <4>1 DEF Recorded
    <3>. QED  BY <3>1, <3>2
  <2>. QED  BY <1>1, <2>1 DEF Recorded
<1>7. Scheduled' /\ Listed'
  BY <1>1, <1>2 DEF Scheduled, Listed, flags, tables, Pending
<1>8. Marked'
  <2>1. TellsGiven(file)'
    BY <1>1, <1>2 DEF Marked, TellsGiven
  <2>. QED  BY <1>1, <1>2, <2>1 DEF Marked, flags, Pending
<1>9. Drawn' /\ Late'
  BY <1>1, <1>2, DrawnSame DEF flags, tables
<1>. QED  BY <1>1, <1>4, <1>5, <1>6, <1>7, <1>8, <1>9, OpenStep

LEMMA FinishCbStep ==
    ASSUME IInv, finish_cb
    PROVE  IInv'
<1>. DEFINE marks == ~dump_is_off /\ ~dump_is_full /\ now # vcd_cur_time
<1>1. /\ phase = "post" /\ finish_status = 0 /\ finish_status' = 1
      /\ file' = IF marks THEN MarkTime(file, now) ELSE file
      /\ UNCHANGED <<format, now, phase, value, dump_file, dumpvars_status, vcd_cur_time, dump_is_off,
                     dump_is_full, asked, hist>>
  BY DEF finish_cb, sim, flags, history
<1>2. /\ Typed /\ Declared /\ HasFile /\ Recorded /\ Marked
      /\ now \in Nat /\ now \in Times /\ vcd_cur_time \in Nat /\ file \in File
  BY <1>1 DEF IInv, Typed, Times
<1>3. /\ file' \in File /\ file'.declared = file.declared /\ file'.wave = file.wave
  BY <1>1, <1>2, MarkRight
<1>4. Typed' /\ HasFile'
  BY <1>1, <1>2, <1>3 DEF Typed, HasFile
<1>5. Declared'
  <2>1. finish_status' # 0
    BY <1>1
  <2>2. asked' = {d.name : d \in Range(file'.declared)}
    BY <1>1, <1>2, <1>3 DEF Declared
  <2>3. Len(file'.declared) = Cardinality({d.name : d \in Range(file'.declared)})
    BY <1>2, <1>3 DEF Declared
  <2>4. SharedByNet(Range(file'.declared))
    BY <1>2, <1>3 DEF Declared
  <2>. QED  BY <2>1, <2>2, <2>3, <2>4 DEF Declared
<1>6. Recorded'
  <2>1. \A t \in Times, i \in Idents : Told(file', i, t) = Told(file, i, t)
    BY <1>3, ToldSame DEF Times
  <2>. QED  BY <1>1, <1>2, <2>1 DEF Recorded
<1>7. ASSUME ~Pending, ~dump_is_off, ~dump_is_full PROVE file'.time = now
  <2>1. /\ file.time # NoTime /\ file.first <= file.time /\ file.time = vcd_cur_time /\ vcd_cur_time <= now
    BY <1>2, <1>7 DEF Marked
  <2>2. CASE now = vcd_cur_time
    BY <1>1, <2>1, <2>2
  <2>3. CASE now # vcd_cur_time
    <3>1. file.time < now
      BY <1>2, <2>1, <2>3
    <3>2. file' = MarkTime(file, now)
      BY <1>1, <1>7, <2>3
    <3>. QED  BY <1>2, <2>1, <3>1, <3>2, MarkRight
  <2>. QED  BY <2>2, <2>3
<1>. QED  BY <1>1, <1>4, <1>5, <1>6, <1>7 DEF IInv, Pending

LEMMA IInvInit ==
    ASSUME Init
    PROVE  IInv
<1>. USE DEF Init, Pending
<1>. DEFINE s == TablesNow
<1>1. /\ file.declared = <<>> /\ file.first = NoTime /\ file.time = NoTime /\ file.blackout = FALSE
      /\ file.wave = [t \in Times |-> [i \in Idents |-> None]]
      /\ file.given = [i \in Idents |-> "x"] /\ file.mixed = {} /\ file \in File
  BY DEF NewFile, File, Marks
<1>2. 0 \in Times
  BY BoundsAssumption DEF Times
<1>3. Typed
  <2>1. value \in [Nets -> Values] /\ hist \in [Times -> [Idents -> Marks \cup {"any"}]]
    BY DEF Values
  <2>2. /\ now \in Times /\ phase \in {"step", "rosync", "post"} /\ vcd_cur_time \in Times
        /\ dump_is_off \in BOOLEAN /\ dump_is_full \in BOOLEAN
    BY <1>2
  <2>3. dumpvars_status \in 0..2 /\ finish_status \in 0..1
    OBVIOUS
  <2>4. file \in File
    BY <1>1
  <2>. QED  BY <2>1, <2>2, <2>3, <2>4 DEF Typed
<1>4. Range(<<>>) = {} /\ Len(<<>>) = 0 /\ DOMAIN <<>> = {}
  BY DEF Range
<1>5. Good(s)
  <2>1. /\ s.declared = <<>> /\ s.vcd_list = <<>> /\ s.vcd_tab = [listed |-> {}, sorted |-> {}]
        /\ s.vcd_var = {} /\ s.vcd_ids = {}
        /\ s \in Tables
    BY <1>1 DEF TablesNow, Tables, NameTable
  <2>. HIDE DEF s
  <2>2. Names(s) = {} /\ Given(s) = {}
    BY <1>4, <2>1 DEF Names, Given
  <2>3. Counted(s)
    <3>1. Cardinality({}) = 0 /\ 1..0 = {} /\ 0 \in Nat
      BY FS_EmptySet
    <3>. QED  BY <1>4, <2>1, <2>2, <3>1 DEF Counted
  <2>4. Shared(s)
    BY <1>4, <2>1 DEF Shared, SharedByNet
  <2>5. Covered(s)
    BY <1>4, <2>1, <2>2 DEF Covered
  <2>6. SignalsIn({}) = {}
    BY DEF SignalsIn
  <2>. QED  BY <2>1, <2>2, <2>3, <2>4, <2>5, <2>6 DEF Good, Sound
<1>6. Declared
  <2>1. {d.name : d \in Range(file.declared)} = {}
    BY <1>1, <1>4
  <2>2. Cardinality({}) = 0
    BY FS_EmptySet
  <2>3. SharedByNet(Range(file.declared))
    BY <1>1, <1>4 DEF SharedByNet
  <2>. QED  BY <1>1, <1>4, <1>5, <2>1, <2>2, <2>3 DEF Declared
<1>7. HasFile /\ Scheduled /\ Listed /\ Drawn /\ Late
  BY <1>1 DEF HasFile, Scheduled, Listed, Drawn, Late
<1>8. Recorded
  BY DEF Recorded
<1>9. Marked
  <2>1. \A u \in 0..now : u \in Times
    BY BoundsAssumption DEF Times
  <2>2. \A i \in Idents : Tells(file, i, now, "x")
    BY <1>1, <2>1 DEF Tells
  <2>3. now \in Nat
    OBVIOUS
  <2>4. \A i \in Idents : Told(file, i, now) = "x"
    BY <2>2, <2>3, TellsTold
  <2>5. TellsGiven(file)
    BY <1>1, <2>4 DEF TellsGiven
  <2>. QED  BY <1>1, <2>5 DEF Marked
<1>. QED  BY <1>3, <1>6, <1>7, <1>8, <1>9 DEF IInv

LEMMA IInvStep ==
    ASSUME TimeWrap > MaxTime, IInv, [Next]_vars
    PROVE  IInv'
<1>1. ASSUME NEW arg \in Arguments, dumpvars(arg) PROVE IInv'
  BY <1>1, DumpvarsStep
<1>2. ASSUME NEW path \in Files, dumpfile(path) PROVE IInv'
  BY <1>2, SameStep DEF dumpfile, sim, flags
<1>3. CASE OpenFails
  BY <1>3, SameStep DEF OpenFails, flags
<1>4. CASE dumplimit
  BY <1>4, SameStep DEF dumplimit, sim
<1>5. CASE dumpoff
  BY <1>5, DumpoffStep
<1>6. CASE dumpon
  BY <1>6, DumponStep
<1>7. CASE dumpall
  BY <1>7, DumpallStep
<1>8. ASSUME NEW n \in Nets, Change(n) PROVE IInv'
  BY <1>8, ChangeStep
<1>9. CASE dumpvars_cb
  BY <1>9, DumpvarsCbStep
<1>10. CASE variable_cb_2
  BY <1>10, VariableCbStep
<1>11. CASE finish_cb
  BY <1>11, FinishCbStep
<1>12. CASE finish
  BY <1>12, SameStep DEF finish, flags
<1>13. CASE EndOfStep
  BY <1>13, SameStep DEF EndOfStep, flags
<1>14. CASE EndOfSimulation
  BY <1>14, EndOfSimulationStep
<1>15. CASE FinishAtPrompt
  BY <1>15, SameStep DEF FinishAtPrompt, flags
<1>16. ASSUME NEW t \in Times, TimePasses(t) PROVE IInv'
  BY <1>16, TimePassesStep
<1>17. CASE UNCHANGED vars
  BY <1>17, SameStep DEF vars, sim, flags
<1>. QED  BY <1>1, <1>2, <1>3, <1>4, <1>5, <1>6, <1>7, <1>8, <1>9, <1>10, <1>11, <1>12, <1>13,
             <1>14, <1>15, <1>16, <1>17 DEF Next

\* The invariant of the waveform files (IInv), for times within the 32 bits that
\* lxt2_wr_set_time takes.  Of an ident of lxt2 whose code was overwritten by an inverse
\* (mixed) it says nothing.
THEOREM WaveInvariant ==
    ASSUME TimeWrap > MaxTime
    PROVE  Spec => []IInv
<1>1. Init => IInv
  BY IInvInit
<1>2. IInv /\ [Next]_vars => IInv'
  BY IInvStep
<1>. QED  BY <1>1, <1>2, PTL DEF Spec

\* A waveform file tells, of every time that is over and every ident, the value the
\* signal had when the step ended, and its last time is the end of the simulation (the
\* marks, the callbacks and the checkpoints of sys_vcd.c and its copies).  While dumping
\* is off it tells x, but of a signal whose change was waiting when $dumpoff was called
\* the value it had at the end of that step; for times within the 32 bits that
\* lxt2_wr_set_time takes, and not of the idents of lxt2 that are mixed (DumpTells).
THEOREM WavesTell ==
    ASSUME TimeWrap > MaxTime
    PROVE  Spec => []DumpTells
<1>1. IInv => DumpTells
  BY DEF IInv, Recorded, DumpTells
<1>2. Spec => []IInv
  BY WaveInvariant
<1>. QED  BY <1>1, <1>2, PTL

-----------------------------------------------------------------------------
(* What is declared, of any time.                                          *)

DeclInv ==
    /\ IsFile(file) /\ Declared
    /\ finish_status \in 0..1 /\ (finish_status = 1 => phase = "post")

LEMMA DeclSame ==
    ASSUME DeclInv, phase # "post", IsFile(file'), file'.declared = file.declared,
           UNCHANGED <<format, tables, asked, finish_status>>
    PROVE  DeclInv'
  BY DeclaredSame DEF DeclInv

LEMMA StampedKept ==
    ASSUME IsFile(file), NEW t
    PROVE  IsFile(Stamped(t)) /\ Stamped(t).declared = file.declared
  BY MarkKept DEF Stamped, Kept

LEMMA DeclStep ==
    ASSUME DeclInv, [Next]_vars
    PROVE  DeclInv'
<1>0. IsFile(file) /\ Declared
  BY DEF DeclInv
<1>1. ASSUME NEW arg \in Arguments, dumpvars(arg) PROVE DeclInv'
  <2>1. phase = "step" /\ finish_status' = finish_status
    BY <1>1 DEF dumpvars, Called
  <2>2. finish_status = 0
    BY <2>1 DEF DeclInv
  <2>. QED  BY <1>0, <1>1, <2>1, <2>2, DumpvarsDeclares DEF DeclInv
<1>2. ASSUME NEW path \in Files, dumpfile(path) PROVE DeclInv'
  BY <1>0, <1>2, DeclSame DEF dumpfile, Called, history
<1>3. CASE OpenFails
  BY <1>0, <1>3, DeclSame DEF OpenFails, Called, history
<1>4. CASE dumplimit
  BY <1>0, <1>4, DeclSame DEF dumplimit, Called, history
<1>5. CASE dumpoff
  <2>1. phase = "step" /\ UNCHANGED <<format, tables, asked, finish_status>>
    BY <1>5 DEF dumpoff, Called
  <2>2. ASSUME NEW t, NEW h, h = vcd_checkpoint_x(Stamped(t))
        PROVE  IsFile(h) /\ h.declared = file.declared
    BY <1>0, <2>2, StampedKept, WriteKept DEF vcd_checkpoint_x, show_items_x, Kept
  <2>3. IsFile(file') /\ file'.declared = file.declared
    <3>. DEFINE a == vcd_checkpoint_x(Stamped(now % TimeWrap))
                b == vcd_checkpoint_x(Stamped(now))
    <3>1. IsFile(a) /\ a.declared = file.declared /\ IsFile(b) /\ b.declared = file.declared
      BY <2>2
    <3>2. file' = file \/ file' = [a EXCEPT !.blackout = TRUE] \/ file' = b
      BY <1>5 DEF dumpoff
    <3>. HIDE DEF a, b
    <3>. QED  BY <1>0, <3>1, <3>2, BlackoutKept DEF Kept
  <2>. QED  BY <2>1, <2>3, DeclSame
<1>6. CASE dumpon
  <2>1. phase = "step" /\ UNCHANGED <<format, tables, asked, finish_status>>
    BY <1>6 DEF dumpon, Called
  <2>2. IsFile(file') /\ file'.declared = file.declared
    <3>. DEFINE a == Stamped(now)
                b == [a EXCEPT !.blackout = FALSE]
    <3>1. IsFile(a) /\ a.declared = file.declared
      BY <1>0, StampedKept
    <3>2. file' = file \/ file' = vcd_checkpoint(b)
      BY <1>6 DEF dumpon
    <3>. HIDE DEF a
    <3>3. IsFile(b) /\ b.declared = file.declared
      BY <3>1, BlackoutKept DEF Kept
    <3>. HIDE DEF b
    <3>. QED  BY <1>0, <3>2, <3>3, WriteKept DEF vcd_checkpoint, show_items, Kept
  <2>. QED  BY <2>1, <2>2, DeclSame
<1>7. CASE dumpall
  <2>1. /\ phase = "step" /\ UNCHANGED <<format, tables, asked, finish_status>>
        /\ file' = vcd_checkpoint(Stamped(now))
    BY <1>7 DEF dumpall, Called, history
  <2>2. IsFile(file') /\ file'.declared = file.declared
    <3>. DEFINE a == Stamped(now)
    <3>1. IsFile(a) /\ a.declared = file.declared
      BY <1>0, StampedKept
    <3>. HIDE DEF a
    <3>2. file' = vcd_checkpoint(a)
      BY <2>1 DEF a
    <3>. QED  BY <3>1, <3>2, WriteKept DEF vcd_checkpoint, show_items, Kept
  <2>. QED  BY <2>1, <2>2, DeclSame
<1>8. ASSUME NEW n \in Nets, Change(n) PROVE DeclInv'
  BY <1>0, <1>8, DeclSame DEF Change, history
<1>9. CASE dumpvars_cb
  <2>1. /\ phase = "rosync" /\ UNCHANGED <<format, tables, asked, finish_status>>
        /\ file' = IF dump_is_off THEN file ELSE vcd_checkpoint(MarkTime(file, now))
    BY <1>9 DEF dumpvars_cb, NextCallback, history
  <2>2. IsFile(file') /\ file'.declared = file.declared
    <3>. DEFINE a == MarkTime(file, now)
    <3>1. IsFile(a) /\ a.declared = file.declared
      BY <1>0, MarkKept DEF Kept
    <3>. HIDE DEF a
    <3>2. file' = file \/ file' = vcd_checkpoint(a)
      BY <2>1 DEF a
    <3>. QED  BY <1>0, <3>1, <3>2, WriteKept DEF vcd_checkpoint, show_items, Kept
  <2>. QED  BY <2>1, <2>2, DeclSame
<1>10. CASE variable_cb_2
  <2>1. /\ phase = "rosync" /\ UNCHANGED <<format, tables, asked, finish_status>>
        /\ file' = show_items(IF now # vcd_cur_time THEN MarkTime(file, now) ELSE file, vcd_dmp_list)
    BY <1>10 DEF variable_cb_2, NextCallback, history
  <2>2. IsFile(file') /\ file'.declared = file.declared
    <3>. DEFINE a == IF now # vcd_cur_time THEN MarkTime(file, now) ELSE file
    <3>1. IsFile(a) /\ a.declared = file.declared
      BY <1>0, MarkKept DEF Kept
    <3>. HIDE DEF a
    <3>2. file' = show_items(a, vcd_dmp_list)
      BY <2>1 DEF a
    <3>. QED  BY <3>1, <3>2, WriteKept DEF show_items, Kept
  <2>. QED  BY <2>1, <2>2, DeclSame
<1>11. CASE finish_cb
  <2>1. /\ phase = "post" /\ phase' = "post" /\ finish_status' = 1 /\ asked' = asked
        /\ file' = file \/ file' = MarkTime(file, now)
    BY <1>11 DEF finish_cb, sim, history
  <2>2. IsFile(file') /\ file'.declared = file.declared
    BY <1>0, <2>1, MarkKept DEF Kept
  <2>3. Declared'
    <3>1. finish_status' # 0
      BY <2>1
    <3>2. asked' = {d.name : d \in Range(file'.declared)}
      BY <1>0, <2>1, <2>2 DEF Declared
    <3>3. Len(file'.declared) = Cardinality({d.name : d \in Range(file'.declared)})
      BY <1>0, <2>2 DEF Declared
    <3>4. SharedByNet(Range(file'.declared))
      BY <1>0, <2>2 DEF Declared
    <3>. QED  BY <3>1, <3>2, <3>3, <3>4 DEF Declared
  <2>. QED  BY <2>1, <2>2, <2>3 DEF DeclInv
<1>12. CASE finish
  BY <1>0, <1>12, DeclSame DEF finish, history
<1>13. CASE EndOfStep
  BY <1>0, <1>13, DeclSame DEF EndOfStep, history
<1>14. CASE EndOfSimulation
  BY <1>0, <1>14, DeclSame DEF EndOfSimulation, history
<1>15. CASE FinishAtPrompt
  BY <1>0, <1>15, DeclSame DEF FinishAtPrompt, history
<1>16. ASSUME NEW t \in Times, TimePasses(t) PROVE DeclInv'
  BY <1>0, <1>16, DeclSame DEF TimePasses
<1>17. CASE UNCHANGED vars
  <2>1. UNCHANGED <<format, file, tables, asked, finish_status, phase>>
    BY <1>17 DEF vars, sim, history
  <2>2. Declared'
    BY <1>0, <2>1, DeclaredSame
  <2>. QED  BY <2>1, <2>2 DEF DeclInv
<1>. QED  BY <1>1, <1>2, <1>3, <1>4, <1>5, <1>6, <1>7, <1>8, <1>9, <1>10, <1>11, <1>12, <1>13,
             <1>14, <1>15, <1>16, <1>17 DEF Next

\* Every signal that was asked for is declared once and no other, two names have one
\* ident when and only when they name one net of one bit, and one callback writes each
\* ident, whatever calls of $dumpvars are made (scan_item, scan_scope and the tables of
\* names and idents).
THEOREM DumpDeclares == Spec => []VarsDeclared
<1>1. Init => DeclInv
  <2>. SUFFICES ASSUME Init PROVE DeclInv
    OBVIOUS
  <2>1. Declared
    BY IInvInit DEF IInv
  <2>2. IsFile(file)
    BY DEF Init, NewFile, IsFile
  <2>3. finish_status = 0
    BY DEF Init
  <2>. QED  BY <2>1, <2>2, <2>3 DEF DeclInv
<1>2. DeclInv /\ [Next]_vars => DeclInv'
  BY DeclStep
<1>3. DeclInv => VarsDeclared
  <2>. SUFFICES ASSUME Declared PROVE VarsDeclared
    BY DEF DeclInv
  <2>1. ASSUME finish_status = 0, NEW i \in {d.ident : d \in Range(file.declared)}
        PROVE  Cardinality({k \in DOMAIN vcd_list : vcd_list[k].ident = i}) = 1
    <3>. DEFINE s == TablesNow
                K == {k \in DOMAIN vcd_list : vcd_list[k].ident = i}
    <3>1. Good(s) /\ s.declared = file.declared /\ s.vcd_list = vcd_list
      BY <2>1 DEF Declared, TablesNow
    <3>2. Counted(s) /\ Covered(s) /\ i \in Given(s)
      BY <3>1 DEF Good, Sound, Given
    <3>. HIDE DEF s
    <3>3. i # NoIdent
      <4>1. PICK m \in Nat : Given(s) = 1..m
        BY <3>2 DEF Counted
      <4>. QED  BY <3>2, <4>1 DEF NoIdent
    <3>4. PICK k \in DOMAIN vcd_list : vcd_list[k].ident = i
      BY <3>1, <3>2 DEF Covered
    <3>5. \A j \in DOMAIN vcd_list : vcd_list[j].ident = i => j = k
      BY <3>1, <3>2, <3>3, <3>4 DEF Covered
    <3>6. K = {k}
      BY <3>4, <3>5
    <3>7. Cardinality({k}) = 1
      BY FS_Singleton
    <3>. QED  BY <3>6, <3>7
  <2>. QED  BY <2>1 DEF VarsDeclared, Declared, SharedByNet
<1>. QED  BY <1>1, <1>2, <1>3, PTL DEF Spec

-----------------------------------------------------------------------------
(* The two conversions.                                                    *)

\* The text of a count, of the 94 characters the code has, is its lowest digit and that
\* of the rest.
DigitsUpTo(n) ==
    LET digits[v \in 0..n] ==
          IF v < 94 THEN <<v>> ELSE <<v % 94>> \o digits[v \div 94]
    IN digits

LEMMA DigitsDefined ==
    ASSUME NEW n \in Nat
    PROVE  DigitsUpTo(n) = [v \in 0..n |-> IF v < 94 THEN <<v>>
                                           ELSE <<v % 94>> \o DigitsUpTo(n)[v \div 94]]
<1>. DEFINE Digits(f, m) == f = [v \in 0..m |-> IF v < 94 THEN <<v>>
                                                ELSE <<v % 94>> \o f[v \div 94]]
            S == {m \in Nat : \E f : Digits(f, m)}
<1>1. 0 \in S
  <2>1. Digits([v \in 0..0 |-> <<v>>], 0)
    OBVIOUS
  <2>. QED  BY <2>1
<1>2. ASSUME NEW m \in S PROVE m + 1 \in S
  <2>1. PICK f : Digits(f, m)
    BY <1>2
  <2>. DEFINE g == [v \in 0..(m + 1) |-> IF v < 94 THEN <<v>>
                                         ELSE <<v % 94>> \o f[v \div 94]]
  <2>2. ASSUME NEW w \in 0..m
        PROVE  g[w] = f[w]
    <3>1. w \in 0..(m + 1)
      BY <1>2
    <3>2. g[w] = IF w < 94 THEN <<w>> ELSE <<w % 94>> \o f[w \div 94]
      BY <3>1
    <3>3. f[w] = IF w < 94 THEN <<w>> ELSE <<w % 94>> \o f[w \div 94]
      BY <2>1
    <3>. QED  BY <3>2, <3>3
  <2>3. ASSUME NEW v \in 0..(m + 1)
        PROVE  g[v] = IF v < 94 THEN <<v>> ELSE <<v % 94>> \o g[v \div 94]
    <3>1. g[v] = IF v < 94 THEN <<v>> ELSE <<v % 94>> \o f[v \div 94]
      OBVIOUS
    <3>2. ~(v < 94) => v \div 94 \in 0..m
      BY <1>2
    <3>. HIDE DEF g
    <3>. QED  BY <2>2, <3>1, <3>2
  <2>4. g = [v \in 0..(m + 1) |-> g[v]]
    OBVIOUS
  <2>5. Digits(g, m + 1)
    <3>. HIDE DEF g
    <3>. QED  BY <2>3, <2>4
  <2>6. \E h : Digits(h, m + 1)
    <3>. HIDE DEF g
    <3>. QED  BY <2>5
  <2>. HIDE DEF Digits
  <2>. QED  BY <1>2, <2>6
<1>3. S = Nat
  <2>. HIDE DEF S
  <2>1. S \in SUBSET Nat
    BY DEF S
  <2>. QED  BY <1>1, <1>2, <2>1, SetInduction
<1>4. \E f : Digits(f, n)
  BY <1>3
<1>5. Digits(CHOOSE f : Digits(f, n), n)
  BY <1>4
<1>. QED  BY <1>5 DEF DigitsUpTo

\* The digits do not depend on how far the function goes.
LEMMA DigitsAgree ==
    ASSUME NEW m \in Nat, NEW n \in Nat, NEW v \in Nat, v <= m, v <= n
    PROVE  DigitsUpTo(m)[v] = DigitsUpTo(n)[v]
<1>. DEFINE T == {u \in Nat : u <= m /\ u <= n /\ DigitsUpTo(m)[u] # DigitsUpTo(n)[u]}
<1>. SUFFICES ASSUME T # {} PROVE FALSE
  OBVIOUS
<1>1. PICK u \in T : \A w \in T : u <= w
  <2>1. T \in SUBSET Nat
    OBVIOUS
  <2>. HIDE DEF T
  <2>. QED  BY <2>1, LeastNumber
<1>2. /\ DigitsUpTo(m)[u] = IF u < 94 THEN <<u>> ELSE <<u % 94>> \o DigitsUpTo(m)[u \div 94]
      /\ DigitsUpTo(n)[u] = IF u < 94 THEN <<u>> ELSE <<u % 94>> \o DigitsUpTo(n)[u \div 94]
  <2>1. u \in 0..m /\ u \in 0..n
    BY <1>1
  <2>2. DigitsUpTo(m)[u] = IF u < 94 THEN <<u>> ELSE <<u % 94>> \o DigitsUpTo(m)[u \div 94]
    BY <2>1, DigitsDefined
  <2>3. DigitsUpTo(n)[u] = IF u < 94 THEN <<u>> ELSE <<u % 94>> \o DigitsUpTo(n)[u \div 94]
    BY <2>1, DigitsDefined
  <2>. QED  BY <2>2, <2>3
<1>3. u >= 94
  BY <1>1, <1>2
<1>4. u \div 94 \in Nat /\ u \div 94 < u
  BY <1>1, <1>3
<1>5. DigitsUpTo(m)[u \div 94] = DigitsUpTo(n)[u \div 94]
  BY <1>1, <1>4
<1>. QED  BY <1>1, <1>2, <1>3, <1>5

Text(c) == gen_new_vcd_id(c, 94)

LEMMA TextDigits ==
    ASSUME NEW c \in Nat
    PROVE  Text(c) = IF c < 94 THEN <<c>> ELSE <<c % 94>> \o Text(c \div 94)
<1>1. \A n \in Nat : Text(n) = DigitsUpTo(n)[n]
  BY DEF Text, gen_new_vcd_id, DigitsUpTo
<1>2. DigitsUpTo(c)[c] = IF c < 94 THEN <<c>> ELSE <<c % 94>> \o DigitsUpTo(c)[c \div 94]
  <2>1. c \in 0..c
    OBVIOUS
  <2>. QED  BY <2>1, DigitsDefined
<1>3. ASSUME c >= 94
      PROVE  DigitsUpTo(c)[c \div 94] = Text(c \div 94)
  <2>1. c \div 94 \in Nat /\ c \div 94 <= c
    BY <1>3
  <2>2. DigitsUpTo(c)[c \div 94] = DigitsUpTo(c \div 94)[c \div 94]
    BY <2>1, DigitsAgree
  <2>. QED  BY <1>1, <2>1, <2>2
<1>4. Text(c) = DigitsUpTo(c)[c]
  BY <1>1
<1>5. CASE c < 94
  BY <1>2, <1>4, <1>5
<1>6. CASE c >= 94
  <2>1. ~(c < 94)
    BY <1>6
  <2>. QED  BY <1>2, <1>3, <1>4, <1>6, <2>1
<1>. QED  BY <1>5, <1>6

LEMMA DigitBefore ==
    ASSUME NEW a \in Nat, NEW t \in Seq(Nat)
    PROVE  /\ <<a>> \o t \in Seq(Nat) /\ Len(<<a>> \o t) = 1 + Len(t) /\ Len(t) \in Nat
           /\ (<<a>> \o t)[1] = a
           /\ \A k \in 1..Len(t) : (<<a>> \o t)[k + 1] = t[k]
<1>1. <<a>> \in Seq(Nat) /\ Len(<<a>>) = 1 /\ <<a>>[1] = a
  OBVIOUS
<1>. QED  BY <1>1

LEMMA TextSequence ==
    ASSUME NEW c \in Nat
    PROVE  Text(c) \in Seq(Nat) /\ Len(Text(c)) \in Nat \ {0}
<1>. DEFINE Fine(u) == Text(u) \in Seq(Nat) /\ Len(Text(u)) \in Nat \ {0}
            T == {u \in Nat : ~Fine(u)}
<1>. SUFFICES ASSUME T # {} PROVE FALSE
  OBVIOUS
<1>1. PICK u \in T : \A w \in T : u <= w
  <2>1. T \in SUBSET Nat
    OBVIOUS
  <2>. HIDE DEF T
  <2>. QED  BY <2>1, LeastNumber
<1>0. u \in Nat /\ ~Fine(u) /\ \A w \in Nat : w < u => Fine(w)
  BY <1>1
<1>. HIDE DEF T
<1>2. CASE u < 94
  <2>1. Text(u) = <<u>>
    BY <1>0, <1>2, TextDigits
  <2>2. <<u>> \in Seq(Nat) /\ Len(<<u>>) = 1
    BY <1>0
  <2>. QED  BY <1>0, <2>1, <2>2
<1>3. CASE u >= 94
  <2>. DEFINE t == Text(u \div 94)
  <2>1. u \div 94 \in Nat /\ u \div 94 < u /\ u % 94 \in Nat
    BY <1>0, <1>3
  <2>2. t \in Seq(Nat) /\ Len(t) \in Nat
    BY <1>0, <2>1
  <2>3. Text(u) = <<u % 94>> \o t
    <3>1. u \in Nat /\ ~(u < 94)
      BY <1>0, <1>3
    <3>. QED  BY <3>1, TextDigits
  <2>. HIDE DEF t
  <2>4. <<u % 94>> \o t \in Seq(Nat) /\ Len(<<u % 94>> \o t) = 1 + Len(t)
    BY <2>1, <2>2, DigitBefore
  <2>. QED  BY <1>0, <2>2, <2>3, <2>4
<1>. QED  BY <1>0, <1>2, <1>3

\* Two counts have two idents: what is a number in the tables is one text in the file, and
\* no text stands for two numbers (gen_new_vcd_id, as long as an unsigned counts them).
THEOREM IdentsNeverRepeat ==
    ASSUME NEW i \in Nat, NEW j \in Nat, gen_new_vcd_id(i, 94) = gen_new_vcd_id(j, 94)
    PROVE  i = j
<1>. DEFINE T == {u \in Nat : \E w \in Nat : w # u /\ Text(w) = Text(u)}
<1>. SUFFICES ASSUME T # {} PROVE FALSE
  BY DEF Text
<1>1. PICK u \in T : \A v \in T : u <= v
  <2>1. T \in SUBSET Nat
    OBVIOUS
  <2>. HIDE DEF T
  <2>. QED  BY <2>1, LeastNumber
<1>2. PICK w \in Nat : w # u /\ Text(w) = Text(u)
  BY <1>1
<1>3. w \in T
  BY <1>1, <1>2
<1>4. u < w
  BY <1>1, <1>2, <1>3
<1>. HIDE DEF T
<1>5. u \in Nat
  BY <1>1 DEF T
<1>6. CASE w < 94
  <2>0. u < 94
    BY <1>4, <1>5, <1>6
  <2>1. Text(u) = <<u>> /\ Text(w) = <<w>>
    BY <2>0, <1>5, <1>6, TextDigits
  <2>2. <<u>>[1] = u /\ <<w>>[1] = w
    OBVIOUS
  <2>. QED  BY <1>2, <2>1, <2>2
<1>7. CASE w >= 94
  <2>. DEFINE t == Text(w \div 94)
              r == Text(u \div 94)
  <2>1. Text(w) = <<w % 94>> \o t
    BY <1>7, TextDigits
  <2>2. w \div 94 \in Nat /\ u \div 94 \in Nat /\ w % 94 \in Nat /\ u % 94 \in Nat
    BY <1>5
  <2>3. t \in Seq(Nat) /\ Len(t) \in Nat \ {0} /\ r \in Seq(Nat) /\ Len(r) \in Nat \ {0}
    BY <2>2, TextSequence
  <2>4. u >= 94
    <3>. SUFFICES ASSUME u < 94 PROVE FALSE
      BY <1>5
    <3>1. Text(u) = <<u>>
      BY <1>5, TextDigits
    <3>. HIDE DEF t
    <3>2. Len(<<w % 94>> \o t) = 1 + Len(t)
      BY <2>2, <2>3, DigitBefore
    <3>3. Len(<<u>>) = 1
      OBVIOUS
    <3>4. <<u>> = <<w % 94>> \o t
      BY <1>2, <2>1, <3>1
    <3>. QED  BY <2>3, <3>2, <3>3, <3>4
  <2>5. Text(u) = <<u % 94>> \o r
    BY <1>5, <2>4, TextDigits
  <2>6. w % 94 = u % 94 /\ t = r
    <3>. HIDE DEF t, r
    <3>1. <<w % 94>> \o t = <<u % 94>> \o r
      BY <1>2, <2>1, <2>5
    <3>2. /\ (<<w % 94>> \o t)[1] = w % 94 /\ Len(<<w % 94>> \o t) = 1 + Len(t)
          /\ \A k \in 1..Len(t) : (<<w % 94>> \o t)[k + 1] = t[k]
      BY <2>2, <2>3, DigitBefore
    <3>3. /\ (<<u % 94>> \o r)[1] = u % 94 /\ Len(<<u % 94>> \o r) = 1 + Len(r)
          /\ \A k \in 1..Len(r) : (<<u % 94>> \o r)[k + 1] = r[k]
      BY <2>2, <2>3, DigitBefore
    <3>4. w % 94 = u % 94 /\ Len(t) = Len(r)
      BY <2>3, <3>1, <3>2, <3>3
    <3>5. \A k \in 1..Len(t) : t[k] = r[k]
      BY <3>1, <3>2, <3>3, <3>4
    <3>6. t = [k \in 1..Len(t) |-> t[k]] /\ r = [k \in 1..Len(r) |-> r[k]]
      BY <2>3
    <3>. QED  BY <3>4, <3>5, <3>6
  <2>7. w \div 94 # u \div 94
    BY <1>2, <1>5, <2>6
  <2>8. u \div 94 \in T
    BY <2>2, <2>6, <2>7 DEF T
  <2>9. u \div 94 < u
    BY <1>5, <2>4
  <2>. QED  BY <1>1, <1>5, <2>2, <2>8, <2>9
<1>. QED  BY <1>2, <1>6, <1>7

Bits == {"0", "1", "x", "z"}

\* The bit a reader puts before a vector that is too short: 0 before 0 and 1, else the
\* first bit again.
PutBefore(b) == IF b = "1" THEN "0" ELSE b

ReadBack(s, n) == [i \in 1..n |-> IF i > n - Len(s) THEN s[i - (n - Len(s))] ELSE PutBefore(s[1])]

\* Where the first run of equal bits ends.
EndsRun(s, k) == /\ k \in DOMAIN s
                 /\ \A i \in 1..k : s[i] = s[1]
                 /\ k = Len(s) \/ s[k + 1] # s[1]

LEMMA RunEnds ==
    ASSUME NEW s \in Seq(Bits), Len(s) > 0
    PROVE  \E k \in DOMAIN s : EndsRun(s, k)
<1>. DEFINE T == {k \in Nat : k \in DOMAIN s /\ (k = Len(s) \/ s[k + 1] # s[1])}
<1>0. Len(s) \in Nat
  OBVIOUS
<1>1. DOMAIN s = 1..Len(s) /\ Len(s) \in Nat
  OBVIOUS
<1>2. T # {} /\ T \in SUBSET Nat
  <2>1. Len(s) \in T
    BY <1>1
  <2>. QED  BY <2>1
<1>3. PICK k \in T : \A j \in T : k <= j
  <2>. HIDE DEF T
  <2>. QED  BY <1>2, LeastNumber
<1>4. k \in Nat /\ k \in 1..Len(s) /\ (k = Len(s) \/ s[k + 1] # s[1])
  BY <1>1, <1>3
<1>. HIDE DEF T
<1>5. ASSUME NEW j \in 1..Len(s), j < k
      PROVE  s[j + 1] = s[1]
  <2>1. j \notin T /\ j \in Nat
    BY <1>0, <1>3, <1>4, <1>5
  <2>. QED  BY <1>1, <2>1 DEF T
<1>6. ASSUME NEW i \in 1..k
      PROVE  s[i] = s[1]
  <2>1. CASE i = 1
    BY <2>1
  <2>2. CASE i # 1
    <3>1. i \in Nat /\ k \in Nat /\ i > 1 /\ i <= k /\ k <= Len(s)
      BY <1>0, <1>4, <2>2
    <3>2. i - 1 \in 1..Len(s) /\ i - 1 < k /\ (i - 1) + 1 = i
      BY <1>0, <3>1
    <3>. QED  BY <1>5, <3>2
  <2>. QED  BY <2>1, <2>2
<1>. QED  BY <1>1, <1>4, <1>6 DEF EndsRun

\* truncate_bitvec leaves out the bits before one place, all of which a reader puts back.
LEMMA TruncatedAt ==
    ASSUME NEW s \in Seq(Bits), Len(s) > 0
    PROVE  \E keep \in 1..Len(s) :
              /\ truncate_bitvec(s) = SubSeq(s, keep, Len(s))
              /\ \A i \in 1..(keep - 1) : s[i] = PutBefore(s[keep])
              /\ \A p \in keep..(Len(s) - 1) : \E i \in 1..p : s[i] # PutBefore(s[p + 1])
<1>0. Len(s) \in Nat
  OBVIOUS
<1>1. DOMAIN s = 1..Len(s) /\ Len(s) \in Nat /\ \A i \in 1..Len(s) : s[i] \in Bits
  OBVIOUS
<1>2. CASE s[1] = "1"
  <2>1. truncate_bitvec(s) = SubSeq(s, 1, Len(s))
    BY <1>1, <1>2 DEF truncate_bitvec
  <2>2. \A p \in 1..(Len(s) - 1) : 1 \in 1..p /\ s[1] # PutBefore(s[p + 1])
    BY <1>1, <1>2 DEF PutBefore, Bits
  <2>3. 1 \in 1..Len(s) /\ \A i \in 1..(1 - 1) : s[i] = PutBefore(s[1])
    BY <1>1
  <2>. QED  BY <2>1, <2>2, <2>3
<1>3. CASE s[1] # "1"
  <2>. DEFINE run == FirstRun(s)
              keep == IF run < Len(s) /\ s[1] = "0" /\ s[run + 1] = "1" THEN run + 1 ELSE run
  <2>1. run \in DOMAIN s /\ EndsRun(s, run)
    BY RunEnds DEF FirstRun, EndsRun
  <2>2. truncate_bitvec(s) = SubSeq(s, keep, Len(s))
    BY <1>3 DEF truncate_bitvec
  <2>. HIDE DEF run
  <2>3. run \in 1..Len(s) /\ (\A i \in 1..run : s[i] = s[1]) /\ (run = Len(s) \/ s[run + 1] # s[1])
    BY <1>1, <2>1 DEF EndsRun
  <2>4. CASE run < Len(s) /\ s[1] = "0" /\ s[run + 1] = "1"
    <3>1. keep = run + 1 /\ keep \in 1..Len(s)
      BY <1>1, <2>3, <2>4
    <3>. HIDE DEF keep
    <3>2. \A i \in 1..(keep - 1) : s[i] = PutBefore(s[keep])
      BY <2>3, <2>4, <3>1 DEF PutBefore
    <3>3. ASSUME NEW p \in keep..(Len(s) - 1)
          PROVE  \E i \in 1..p : s[i] # PutBefore(s[p + 1])
      <4>1. 1 \in 1..p /\ keep \in 1..p /\ s[1] # s[keep]
        BY <1>1, <2>3, <2>4, <3>1
      <4>. QED  BY <4>1
    <3>. QED  BY <2>2, <3>1, <3>2, <3>3
  <2>5. CASE ~(run < Len(s) /\ s[1] = "0" /\ s[run + 1] = "1")
    <3>1. keep = run
      BY <2>5
    <3>. HIDE DEF keep
    <3>2. \A i \in 1..(keep - 1) : s[i] = PutBefore(s[keep])
      BY <1>3, <2>3, <3>1 DEF PutBefore
    <3>3. ASSUME NEW p \in keep..(Len(s) - 1)
          PROVE  \E i \in 1..p : s[i] # PutBefore(s[p + 1])
      <4>1. run \in Nat /\ p \in Nat /\ run <= p /\ p < Len(s) /\ s[run + 1] # s[1] /\ 1 \in 1..p
        <5>0. p \in run..(Len(s) - 1)
          BY <3>1
        <5>1. run \in Nat /\ p \in Nat /\ run >= 1 /\ run <= p /\ p < Len(s) /\ 1 \in 1..p
          BY <1>0, <2>3, <5>0
        <5>. QED  BY <2>3, <5>1
      <4>2. CASE p = run
        <5>1. s[1] # PutBefore(s[run + 1])
          BY <2>5, <4>1 DEF PutBefore
        <5>. QED  BY <4>1, <4>2, <5>1
      <4>3. CASE p > run
        <5>1. run + 1 \in 1..p
          BY <4>1, <4>3
        <5>. QED  BY <4>1, <5>1
      <4>. QED  BY <4>1, <4>2, <4>3
    <3>. QED  BY <2>2, <2>3, <3>1, <3>2, <3>3
  <2>. QED  BY <2>4, <2>5
<1>. QED  BY <1>2, <1>3

\* A reader of the file gets every vector back as it was, of any length, and no shorter
\* end of it would do (truncate_bitvec).
THEOREM VectorsReadBack ==
    ASSUME NEW s \in Seq(Bits), Len(s) > 0
    PROVE  /\ ReadBack(truncate_bitvec(s), Len(s)) = s
           /\ \A k \in 2..Len(truncate_bitvec(s)) :
                 ReadBack(SubSeq(truncate_bitvec(s), k, Len(truncate_bitvec(s))), Len(s)) # s
<1>1. PICK keep \in 1..Len(s) :
              /\ truncate_bitvec(s) = SubSeq(s, keep, Len(s))
              /\ \A i \in 1..(keep - 1) : s[i] = PutBefore(s[keep])
              /\ \A p \in keep..(Len(s) - 1) : \E i \in 1..p : s[i] # PutBefore(s[p + 1])
  BY TruncatedAt
<1>. DEFINE n == Len(s)
            short == truncate_bitvec(s)
<1>2. n \in Nat /\ s = [i \in 1..n |-> s[i]] /\ keep \in 1..n
  BY <1>1
<1>3. /\ short \in Seq(Bits) /\ Len(short) = n - keep + 1
      /\ \A i \in 1..(n - keep + 1) : short[i] = s[keep + i - 1]
  BY <1>1, <1>2
<1>4. ReadBack(short, n) = s
  <2>. HIDE DEF short, n
  <2>1. ASSUME NEW i \in 1..n
        PROVE  ReadBack(short, n)[i] = s[i]
    <3>1. n - Len(short) = keep - 1
      BY <1>2, <1>3
    <3>2. CASE i > keep - 1
      <4>1. i - (keep - 1) \in 1..(n - keep + 1) /\ keep + (i - (keep - 1)) - 1 = i
        BY <1>2, <3>2
      <4>. QED  BY <1>2, <1>3, <3>1, <3>2, <4>1 DEF ReadBack
    <3>3. CASE ~(i > keep - 1)
      <4>1. i \in 1..(keep - 1)
        BY <1>2, <3>3
      <4>2. 1 \in 1..(n - keep + 1) /\ keep + 1 - 1 = keep
        BY <1>2
      <4>3. short[1] = s[keep]
        BY <1>3, <4>2
      <4>. QED  BY <1>1, <3>1, <3>3, <4>1, <4>3 DEF ReadBack
    <3>. QED  BY <3>2, <3>3
  <2>2. ReadBack(short, n) = [i \in 1..n |-> ReadBack(short, n)[i]]
    BY DEF ReadBack
  <2>. QED  BY <1>2, <2>1, <2>2
<1>5. ASSUME NEW k \in 2..Len(short), ReadBack(SubSeq(short, k, Len(short)), n) = s
      PROVE  FALSE
  <2>. DEFINE t == SubSeq(short, k, Len(short))
              p == keep + k - 2
  <2>1. k \in 2..(n - keep + 1)
    BY <1>3, <1>5
  <2>2. Len(t) = n - p /\ t[1] = short[k]
    BY <1>2, <1>3, <2>1
  <2>3. p \in keep..(n - 1) /\ short[k] = s[p + 1]
    BY <1>2, <1>3, <2>1
  <2>4. PICK i \in 1..p : s[i] # PutBefore(s[p + 1])
    BY <1>1, <2>3
  <2>. HIDE DEF t, p, short
  <2>5. i \in 1..n /\ ~(i > n - Len(t))
    BY <1>2, <2>2, <2>3
  <2>6. ReadBack(t, n)[i] = PutBefore(t[1])
    BY <2>5 DEF ReadBack
  <2>. QED  BY <1>5, <2>2, <2>3, <2>4, <2>6 DEF t
<1>. QED  BY <1>4, <1>5
=============================================================================
