--------------------------- MODULE VvpThread_proofs ---------------------------
(***************************************************************************)
(* The assertions of vthread.cc hold and no thread is lost, leaked or used *)
(* after it was deleted, for any number of threads, scopes and events,     *)
(* until the program enters a disabled block again (reentered) and while   *)
(* no thread has more children than fork_count can count.                  *)
(***************************************************************************)
EXTENDS VvpThread, FiniteSetTheorems, SequenceTheorems, WellFoundedInduction, TLAPS

\* No thread has forked more than fork_count can count and not joined them.
Countable == \A t \in Threads : Live(t) => Cardinality(Children(t)) < FORK_COUNTS

-----------------------------------------------------------------------------
(* The inductive invariant.                                                *)

Cells == Threads \cup Scopes
Ids == Threads \cup {None}

Typed ==
    /\ program \in DOMAIN Programs
    /\ thread \in [Threads -> Vthread]
    /\ scope_next \in [Cells -> Cells] /\ scope_prev \in [Cells -> Cells]
    /\ active \in Seq(Seq(Threads)) /\ rest \in Seq(Threads)
    /\ delayed \subseteq Threads /\ del_thr \subseteq Threads
    /\ waiting_list \in [P.events -> Seq(Threads)]
    /\ running \in Ids
    /\ target \in P.disabled \cup {NoScope} /\ disabling \in Seq(Threads)
    /\ myself \in BOOLEAN

\* t is in sequence s.
In(t, s) == \E i \in 1..Len(s) : s[i] = t

InChains(t) == \E i \in 1..Len(active) : In(t, active[i])
Scheduled(t) == InChains(t) \/ In(t, rest) \/ t \in delayed
Waiting(t) == \E e \in P.events : In(t, waiting_list[e])
Entered(t) == In(t, disabling)

\* Threads are created in their order.
InOrder == \A a, b \in Threads :
              thread[a].life = "unborn" /\ thread[b].life # "unborn" => b < a

\* What is left of a thread that was reaped.
Remains(t) ==
    /\ thread[t].child = None /\ thread[t].parent = None
    /\ thread[t].i_have_ended /\ thread[t].fork_count = 0
    /\ thread[t].is_scheduled \/ thread[t].waiting_for_event \/ t \in del_thr \/ t = running

\* off says that a thread has ended; a reaped one is held, deleted or running.
Reaps ==
    /\ \A t \in Threads : Live(t) => thread[t].off = thread[t].i_have_ended
    /\ \A t \in Threads : Live(t) /\ ~Unreaped(t) => Remains(t)
    /\ \A t \in del_thr : /\ Live(t) /\ ~Unreaped(t)
                          /\ ~thread[t].is_scheduled /\ ~thread[t].waiting_for_event

\* The thread u, those it descends from, and its scope.
Kin(u, f) ==
    /\ u \in thread[u].line
    /\ \A v \in thread[u].line : v <= u /\ Unreaped(v) /\ thread[v].line \subseteq thread[u].line
    /\ f = None => thread[u].parent = None /\ thread[u].scope = Module /\ thread[u].line = {u}
    /\ f # None => /\ thread[u].parent # None /\ Unreaped(f) /\ f < u
                   /\ thread[u].line = {u} \cup thread[f].line
                   /\ thread[f].i_have_ended => Entered(f)
                   /\ thread[u].scope \notin Enclosing(f)

Family == \A u \in Threads : Unreaped(u) => Kin(u, thread[u].forker)

\* The threads below x and what it has forked: the siblings that it, or a thread
\* it descends from, has found forked before.
Later(x) == {y \in Threads :
                /\ Unreaped(y) /\ thread[y].forker # None
                /\ \E z \in thread[x].line : thread[z].forker = thread[y].forker /\ y < z}

\* The first of them is on top.
NextIs(x, c) ==
    \/ c = None /\ Later(x) = {}
    \/ /\ c \in Later(x)
       /\ \A y \in Later(x) : \/ thread[y].forker < thread[c].forker
                              \/ thread[y].forker = thread[c].forker /\ y <= c

\* Where a thread is in the stack.
Placed(t, c, p) ==
    /\ c # None => Unreaped(c) /\ thread[c].parent = t
    /\ p # None => Unreaped(p) /\ thread[p].child = t
    /\ Children(t) # {} => c \in Children(t) /\ \A u \in Children(t) : u <= c
    /\ Children(t) = {} => NextIs(t, c)
    /\ thread[t].fork_count = Cardinality(Children(t))

Stack == \A t \in Threads : Unreaped(t) => Placed(t, thread[t].child, thread[t].parent)

\* A thread has one place at most in the queues.
Queued ==
    /\ \A i \in 1..Len(active) : active[i] # <<>>
    /\ \A i, j \in 1..Len(active) : \A k \in 1..Len(active[i]), l \in 1..Len(active[j]) :
          active[i][k] = active[j][l] => i = j /\ k = l
    /\ \A i, j \in 1..Len(rest) : rest[i] = rest[j] => i = j
    /\ \A d, e \in P.events :
          \A k \in 1..Len(waiting_list[d]), l \in 1..Len(waiting_list[e]) :
             waiting_list[d][k] = waiting_list[e][l] => d = e /\ k = l
    /\ \A t \in Threads : In(t, rest) => t \notin delayed /\ ~InChains(t)
    /\ \A t \in delayed : ~InChains(t)

\* The flags of a thread tell where it is.
Flagged ==
    \A t \in Threads : /\ Scheduled(t) <=> Live(t) /\ thread[t].is_scheduled
                       /\ Waiting(t) <=> Live(t) /\ thread[t].waiting_for_event
                       /\ Live(t) => ~(thread[t].is_scheduled /\ thread[t].waiting_for_event)

Held(t) == thread[t].is_scheduled \/ thread[t].waiting_for_event

\* The thread that waits for c in its %join.
Joins(c, p) ==
    /\ p # None /\ thread[c].forker = p
    /\ Entered(p) \/ (~thread[p].i_have_ended /\ ~Held(p) /\ running # p)
    /\ thread[c].i_have_ended => disabling # <<>> /\ disabling[Len(disabling)] = c

Joined ==
    /\ \A c \in Threads : Unreaped(c) /\ thread[c].schedule_parent_on_end =>
          Joins(c, thread[c].parent)
    /\ \A t \in Threads : Unreaped(t) /\ ~thread[t].i_have_ended /\ running # t /\ ~Held(t) =>
          thread[t].child # None /\ thread[thread[t].child].schedule_parent_on_end

\* The running thread is in no queue; while it empties a scope it may be deleted.
Runs ==
    /\ running # None /\ (Live(running) \/ target = NoScope) => Live(running) /\ ~Held(running)
    /\ target = NoScope => disabling = <<>> /\ ~myself /\ running \notin del_thr
    /\ target # NoScope =>
          running # None /\ (myself \/ (Unreaped(running) /\ ~thread[running].i_have_ended))
    /\ myself /\ Live(running) =>
          thread[running].i_have_ended /\ (Unreaped(running) \/ running \in del_thr)

\* do_disable goes from a thread of the scope to what it has forked.
Disables ==
    /\ \A i \in 1..Len(disabling) : Unreaped(disabling[i]) /\ thread[disabling[i]].i_have_ended
    /\ \A i \in 1..(Len(disabling) - 1) :
          /\ thread[disabling[i]].forker = disabling[i + 1]
          /\ thread[disabling[i]].parent = disabling[i + 1]
          /\ ~thread[disabling[i]].schedule_parent_on_end
    /\ disabling # <<>> => thread[disabling[Len(disabling)]].scope = target

InScope(s) == {u \in Threads : Unreaped(u) /\ thread[u].scope = s}
Listed(s) == {u \in InScope(s) : ~Entered(u)} \cup {s}

\* The list of a scope that no %disable names: circular, the newest first, without
\* the thread in it that do_disable is at, whose cell still points to its neighbours.
Ring(s) ==
    /\ \A n \in Listed(s) :
          /\ scope_next[n] \in Listed(s) /\ scope_prev[n] \in Listed(s)
          /\ scope_prev[scope_next[n]] = n /\ scope_next[scope_prev[n]] = n
          /\ n # s => scope_next[n] = s \/ scope_next[n] < n
    /\ \A n \in InScope(s) : Entered(n) =>
          /\ scope_next[n] \in Listed(s) /\ scope_prev[n] \in Listed(s)
          /\ scope_prev[scope_next[n]] = scope_prev[n]
          /\ scope_next[scope_prev[n]] = scope_next[n]

\* n is the cell that was in the list of s before t.
Older(t, n, s) ==
    \/ n = s /\ \A u \in InScope(s) : t <= u
    \/ n \in InScope(s) /\ n < t /\ \A u \in InScope(s) : u < t => u <= n

\* The list of a scope that is disabled: its threads were forked by one thread,
\* which reaps the newest first; %disable takes them out one by one.
Loose(s) ==
    /\ \A t \in InScope(s) :
          /\ Older(t, scope_next[t], s)
          /\ scope_prev[t] = s \/ (scope_prev[t] \in InScope(s) /\ scope_next[scope_prev[t]] = t)
    /\ scope_next[s] \in InScope(s) \cup {s}
    /\ scope_next[s] # s => scope_prev[scope_next[s]] = s
    /\ \A t \in InScope(s) : ~thread[t].off => scope_next[s] \in InScope(s) /\ t <= scope_next[s]
    /\ scope_prev[s] = s \/ (scope_prev[s] \in InScope(s) /\ scope_next[scope_prev[s]] = s)
    /\ \A t, u \in InScope(s) : thread[t].forker = thread[u].forker /\ thread[t].forker # None

Rings == \A s \in Scopes : /\ s \in P.disabled => Loose(s)
                           /\ s \notin P.disabled => Ring(s)

ThreadInv ==
    /\ Typed /\ InOrder /\ Reaps /\ Family /\ Stack /\ Rings
    /\ Queued /\ Flagged /\ Joined /\ Runs /\ Disables /\ fault = "none"


-----------------------------------------------------------------------------
(* The invariant says what the properties say.                             *)

\* What is in a sequence.
LEMMA InRange ==
    ASSUME NEW S, NEW s \in Seq(S), NEW t
    PROVE  t \in Range(s) <=> In(t, s)
  BY DEF Range, In

\* Children are unreaped.
LEMMA ChildUnreaped ==
    ASSUME NEW t, NEW u \in Threads
    PROVE  u \in Children(t) <=> Unreaped(u) /\ thread[u].forker = t /\ thread[u].parent # None
  BY DEF Children, Unreaped

\* A set that has no two elements counts for one if it has any.
LEMMA OneOrNone ==
    ASSUME NEW S, \A x, y \in S : x = y
    PROVE  /\ S = {} => Cardinality(S) = 0
           /\ S # {} => Cardinality(S) = 1
<1>1. S = {} => Cardinality(S) = 0
  BY FS_EmptySet
<1>2. ASSUME S # {} PROVE Cardinality(S) = 1
  <2>1. PICK x \in S : TRUE
    BY <1>2
  <2>2. S = {x}
    BY <2>1
  <2>. QED  BY <2>2, FS_Singleton
<1>. QED  BY <1>1, <1>2

\* The places of a thread are counted by its flags.
LEMMA OnePlace ==
    ASSUME Typed, Queued, Flagged, NEW t \in Threads, Live(t)
    PROVE  Places(t) = IF Held(t) THEN 1 ELSE 0
<1>. DEFINE A == {i \in DOMAIN active : t \in Range(active[i])}
            W == {e \in P.events : t \in Range(waiting_list[e])}
<1>1. DOMAIN active = 1..Len(active) /\ \A i \in 1..Len(active) : active[i] \in Seq(Threads)
  BY DEF Typed
<1>2. \A i \in 1..Len(active) : t \in Range(active[i]) <=> In(t, active[i])
  BY <1>1, InRange
<1>3. \A e \in P.events : t \in Range(waiting_list[e]) <=> In(t, waiting_list[e])
  BY InRange DEF Typed
<1>4. t \in Range(rest) <=> In(t, rest)
  BY InRange DEF Typed
<1>5. \A i, j \in A : i = j
  BY <1>1, <1>2 DEF Queued, In
<1>6. \A d, e \in W : d = e
  BY <1>3 DEF Queued, In
<1>7. A # {} <=> InChains(t)
  BY <1>1, <1>2 DEF InChains
<1>8. W # {} <=> Waiting(t)
  BY <1>3 DEF Waiting
<1>9. Cardinality(A) = IF InChains(t) THEN 1 ELSE 0
  <2>. HIDE DEF A
  <2>. QED  BY <1>5, <1>7, OneOrNone
<1>10. Cardinality(W) = IF Waiting(t) THEN 1 ELSE 0
  <2>. HIDE DEF W
  <2>. QED  BY <1>6, <1>8, OneOrNone
<1>11. Places(t) = (IF InChains(t) THEN 1 ELSE 0) + (IF Waiting(t) THEN 1 ELSE 0)
                   + (IF t \in delayed THEN 1 ELSE 0) + (IF In(t, rest) THEN 1 ELSE 0)
  <2>1. Places(t) = Cardinality(A) + Cardinality(W) + (IF t \in delayed THEN 1 ELSE 0)
                    + (IF In(t, rest) THEN 1 ELSE 0)
    BY <1>4 DEF Places
  <2>. HIDE DEF A, W
  <2>. QED  BY <1>9, <1>10, <2>1
<1>12. /\ In(t, rest) => t \notin delayed /\ ~InChains(t)
       /\ t \in delayed => ~InChains(t)
       /\ Waiting(t) => ~Scheduled(t)
       /\ Held(t) <=> Scheduled(t) \/ Waiting(t)
  BY DEF Queued, Flagged, Held
<1>. QED  BY <1>11, <1>12 DEF Scheduled

\* A thread that is not alive has no place.
LEMMA NoPlace ==
    ASSUME Typed, Queued, Flagged, NEW t \in Threads, ~Live(t)
    PROVE  Places(t) = 0
<1>. DEFINE A == {i \in DOMAIN active : t \in Range(active[i])}
            W == {e \in P.events : t \in Range(waiting_list[e])}
<1>1. DOMAIN active = 1..Len(active) /\ \A i \in 1..Len(active) : active[i] \in Seq(Threads)
  BY DEF Typed
<1>2. ~Scheduled(t) /\ ~Waiting(t)
  BY DEF Flagged
<1>3. \A i \in 1..Len(active) : t \notin Range(active[i])
  BY <1>1, <1>2, InRange DEF Scheduled, InChains
<1>4. \A e \in P.events : t \notin Range(waiting_list[e])
  BY <1>2, InRange DEF Typed, Waiting
<1>5. t \notin Range(rest) /\ t \notin delayed
  BY <1>2, InRange DEF Typed, Scheduled
<1>6. A = {} /\ W = {}
  BY <1>1, <1>3, <1>4
<1>7. Cardinality(A) = 0 /\ Cardinality(W) = 0
  BY <1>6, FS_EmptySet
<1>. QED  BY <1>5, <1>7 DEF Places

\* A deleted thread is in no place: it has no flag of a queue, and no pointer leads to it.
LEMMA AllUnused ==
    ASSUME ThreadInv
    PROVE  DeletedIsUnused
<1>. SUFFICES ASSUME NEW t \in Threads, Freed(t)
              PROVE  /\ Places(t) = 0 /\ t \notin del_thr
                     /\ target = NoScope => running # t
                     /\ \A u \in Threads : Live(u) => thread[u].child # t /\ thread[u].parent # t
  BY DEF DeletedIsUnused
<1>1. ~Live(t) /\ t # None
  BY DEF Freed, Live, Threads, None
<1>2. Places(t) = 0
  BY <1>1, NoPlace DEF ThreadInv
<1>3. t \notin del_thr
  BY <1>1 DEF ThreadInv, Reaps
<1>4. target = NoScope => running # t
  BY <1>1 DEF ThreadInv, Runs
<1>5. ASSUME NEW u \in Threads, Live(u) PROVE thread[u].child # t /\ thread[u].parent # t
  <2>1. CASE Unreaped(u)
    BY <1>1, <2>1 DEF ThreadInv, Stack, Placed, Unreaped
  <2>2. CASE ~Unreaped(u)
    BY <1>1, <1>5, <2>2 DEF ThreadInv, Reaps, Remains
  <2>. QED  BY <2>1, <2>2
<1>. QED  BY <1>2, <1>3, <1>4, <1>5

\* The stack is linked both ways and counts its children.
LEMMA AllInOrder ==
    ASSUME ThreadInv
    PROVE  StackInOrder
<1>. SUFFICES ASSUME NEW t \in Threads, Live(t)
              PROVE  /\ thread[t].child # None => thread[thread[t].child].parent = t
                     /\ thread[t].parent # None => thread[thread[t].parent].child = t
                     /\ thread[t].fork_count = Cardinality(Children(t))
                     /\ Children(t) # {} => /\ thread[t].child \in Children(t)
                                            /\ \A u \in Children(t) : u <= thread[t].child
  BY DEF StackInOrder
<1>1. CASE Unreaped(t)
  BY <1>1 DEF ThreadInv, Stack, Placed
<1>2. CASE ~Unreaped(t)
  <2>1. Remains(t)
    BY <1>2 DEF ThreadInv, Reaps
  <2>2. ASSUME NEW u \in Children(t) PROVE FALSE
    <3>1. u \in Threads /\ Unreaped(u) /\ thread[u].forker = t
      BY DEF Children, Unreaped
    <3>2. t # None
      BY DEF Threads, None
    <3>. QED  BY <1>2, <3>1, <3>2 DEF ThreadInv, Family, Kin
  <2>3. Children(t) = {}
    BY <2>2
  <2>. QED  BY <2>1, <2>3, FS_EmptySet DEF Remains
<1>. QED  BY <1>1, <1>2

\* A thread that has not ended has one place.
LEMMA NoneLost ==
    ASSUME ThreadInv
    PROVE  NoThreadLost
<1>. SUFFICES ASSUME NEW t \in Threads, Live(t)
              PROVE  /\ Places(t) <= 1
                     /\ Places(t) = 1 <=> thread[t].is_scheduled \/ thread[t].waiting_for_event
                     /\ ~(thread[t].is_scheduled /\ thread[t].waiting_for_event)
                     /\ target = NoScope /\ ~thread[t].i_have_ended /\ running # t =>
                           (Places(t) = 0 <=> WaitsInJoin(t))
  BY DEF NoThreadLost
<1>1. Places(t) = IF Held(t) THEN 1 ELSE 0
  BY OnePlace DEF ThreadInv
<1>2. ~(thread[t].is_scheduled /\ thread[t].waiting_for_event)
  BY DEF ThreadInv, Flagged
<1>3. ASSUME target = NoScope, ~thread[t].i_have_ended, running # t
      PROVE  ~Held(t) <=> WaitsInJoin(t)
  <2>1. Unreaped(t) /\ disabling = <<>> /\ ~Entered(t)
    BY <1>3 DEF Unreaped, ThreadInv, Runs, Entered, In
  <2>2. thread[t].child # None => Unreaped(thread[t].child) /\ thread[thread[t].child].parent = t
    BY <2>1 DEF ThreadInv, Stack, Placed
  <2>3. thread[t].child # None => thread[t].child \in Threads
    BY DEF ThreadInv, Typed, Vthread
  <2>4. ASSUME ~Held(t) PROVE WaitsInJoin(t)
    <3>1. thread[t].child # None /\ thread[thread[t].child].schedule_parent_on_end
      BY <1>3, <2>1, <2>4 DEF ThreadInv, Joined
    <3>2. ~thread[thread[t].child].i_have_ended
      BY <2>1, <2>2, <2>3, <3>1 DEF ThreadInv, Joined, Joins
    <3>. QED  BY <3>1, <3>2 DEF WaitsInJoin
  <2>5. ASSUME WaitsInJoin(t) PROVE ~Held(t)
    BY <2>1, <2>2, <2>3, <2>5 DEF WaitsInJoin, ThreadInv, Joined, Joins
  <2>. QED  BY <2>4, <2>5
<1>. QED  BY <1>1, <1>2, <1>3 DEF Held

\* A thread that nobody joins is held, to be deleted or running.
LEMMA NoLeak ==
    ASSUME ThreadInv
    PROVE  NothingLeaks
<1>. SUFFICES ASSUME NEW t \in Threads, Live(t), thread[t].i_have_ended, thread[t].parent = None
              PROVE  Places(t) = 1 \/ t \in del_thr \/ t = running
  BY DEF NothingLeaks
<1>1. ~Unreaped(t)
  BY DEF Unreaped
<1>2. Remains(t)
  BY <1>1 DEF ThreadInv, Reaps
<1>3. Places(t) = IF Held(t) THEN 1 ELSE 0
  BY OnePlace DEF ThreadInv
<1>. QED  BY <1>2, <1>3 DEF Remains, Held

-----------------------------------------------------------------------------
(* Steps that leave the family, the stack or a list as it is.              *)

\* Cells and names are told apart.
LEMMA DisabledNames ==
    ASSUME program \in DOMAIN Programs
    PROVE  /\ P.disabled \subseteq Scopes /\ Module \notin P.disabled /\ Module \in Scopes
           /\ \A s \in Scopes : s # NoScope /\ s \notin Threads
<1>1. P \in Range(Programs)
  BY DEF P, Range
<1>. QED  BY <1>1, ProgramsAssumption, ScopesAssumption DEF Scopes

\* Every set of numbers that is not empty has a least one.
LEMMA LeastNumber ==
    ASSUME NEW T \in SUBSET Nat, T # {}
    PROVE  \E x \in T : \A y \in T : x <= y
<1>1. PICK x \in T : \A y \in T : ~(<<y, x>> \in OpToRel(<, Nat))
  BY NatLessThanWellFounded, WFMin
<1>2. \A y \in T : ~(y < x)
  BY <1>1 DEF OpToRel
<1>. QED  BY <1>2

\* Types of the fields that point to threads.
LEMMA FieldTypes ==
    ASSUME Typed, NEW t \in Threads
    PROVE  /\ thread[t].child \in Ids /\ thread[t].parent \in Ids /\ thread[t].forker \in Ids
           /\ thread[t].scope \in Scopes /\ thread[t].line \subseteq Threads
           /\ thread[t].fork_count \in 0..(FORK_COUNTS - 1)
           /\ \A x \in Ids : x # None => x \in Threads
  BY DEF Typed, Vthread, Ids

\* A thread without children is in the line of no other.
LEMMA NoDescendants ==
    ASSUME Typed, Family, NEW c \in Threads, Children(c) = {},
           NEW u \in Threads, Unreaped(u), c \in thread[u].line
    PROVE  u = c
<1>. SUFFICES ASSUME u # c PROVE FALSE
  OBVIOUS
<1>. DEFINE T == {x \in Threads : Unreaped(x) /\ c \in thread[x].line /\ x # c}
<1>1. T # {} /\ T \in SUBSET Nat
  BY DEF Threads
<1>2. PICK x \in T : \A y \in T : x <= y
  <2>. HIDE DEF T
  <2>. QED  BY <1>1, LeastNumber
<1>3. PICK f \in Ids : f = thread[x].forker
  BY FieldTypes
<1>4. f # None /\ f \in Threads
  BY <1>2, <1>3, FieldTypes DEF Family, Kin
<1>5. Unreaped(f) /\ f < x /\ thread[x].line = {x} \cup thread[f].line /\ thread[x].parent # None
  BY <1>2, <1>3, <1>4 DEF Family, Kin
<1>6. c \in thread[f].line
  BY <1>2, <1>5
<1>7. f # c
  BY <1>2, <1>3, <1>5, ChildUnreaped
<1>8. f \in T
  BY <1>4, <1>5, <1>6, <1>7
<1>9. x <= f /\ x \in Nat /\ f \in Nat
  BY <1>2, <1>4, <1>8 DEF Threads
<1>. QED  BY <1>5, <1>9

\* What a thread was created with.
Keeps(u) == /\ thread'[u].forker = thread[u].forker
            /\ thread'[u].scope = thread[u].scope
            /\ thread'[u].line = thread[u].line

\* The scopes a thread is in stay the same.
LEMMA EnclosingKept ==
    ASSUME Typed, Family, NEW f \in Threads, Unreaped(f), program' = program,
           \A v \in thread[f].line : Keeps(v)
    PROVE  Enclosing(f)' = Enclosing(f)
<1>1. P' = P
  BY DEF P
<1>2. f \in thread[f].line /\ \A v \in thread[f].line : thread[v].line \subseteq thread[f].line
  BY DEF Family, Kin
<1>3. thread'[f].line = thread[f].line
  BY <1>2 DEF Keeps
<1>4. ASSUME NEW v \in thread[f].line PROVE WithinDisabled(v)' <=> WithinDisabled(v)
  <2>1. thread'[v].line = thread[v].line /\ thread[v].line \subseteq thread[f].line
    BY <1>2 DEF Keeps
  <2>2. \A u \in thread[v].line : thread'[u].scope = thread[u].scope
    BY <2>1 DEF Keeps
  <2>. QED  BY <1>1, <2>1, <2>2 DEF WithinDisabled
<1>5. ASSUME NEW x PROVE x \in Enclosing(f)' <=> x \in Enclosing(f)
  <2>1. x \in Enclosing(f) <=> \E u \in thread[f].line : WithinDisabled(u) /\ x = thread[u].scope
    BY DEF Enclosing
  <2>2. x \in Enclosing(f)' <=> \E u \in thread'[f].line : WithinDisabled(u)' /\ x = thread'[u].scope
    BY DEF Enclosing
  <2>. QED  BY <1>3, <1>4, <2>1, <2>2 DEF Keeps
<1>. QED  BY <1>5

\* A thread whose ancestors stay where they are.
KinStays(u) ==
    /\ Unreaped(u) /\ Keeps(u)
    /\ thread'[u].parent = None <=> thread[u].parent = None
    /\ \A v \in thread[u].line : Unreaped(v)' /\ Keeps(v)
    /\ \A f \in Threads : f = thread[u].forker /\ thread'[f].i_have_ended => Entered(f)'

\* A thread keeps its line and what it says of its forker.
LEMMA KinKept ==
    ASSUME Typed, Family, program' = program, NEW u \in Threads, KinStays(u),
           NEW f, f = thread[u].forker
    PROVE  Kin(u, f)'
<1>1. Unreaped(u) /\ Keeps(u) /\ Kin(u, f)
  BY DEF Family, KinStays
<1>2. \A v \in thread[u].line : v \in Threads /\ Unreaped(v)' /\ Keeps(v)
  BY FieldTypes DEF KinStays
<1>3. /\ u \in thread'[u].line
      /\ \A v \in thread'[u].line : v <= u /\ Unreaped(v)' /\ thread'[v].line \subseteq thread'[u].line
  BY <1>1, <1>2 DEF Kin, Keeps
<1>4. f = None => thread'[u].parent = None /\ thread'[u].scope = Module /\ thread'[u].line = {u}
  BY <1>1 DEF Kin, Keeps, KinStays
<1>5. ASSUME f # None
      PROVE  /\ thread'[u].parent # None /\ Unreaped(f)' /\ f < u
             /\ thread'[u].line = {u} \cup thread'[f].line
             /\ thread'[f].i_have_ended => Entered(f)'
             /\ thread'[u].scope \notin Enclosing(f)'
  <2>1. /\ thread[u].parent # None /\ Unreaped(f) /\ f < u
        /\ thread[u].line = {u} \cup thread[f].line /\ thread[u].scope \notin Enclosing(f)
    BY <1>1, <1>5 DEF Kin
  <2>2. f \in Threads /\ f \in thread[f].line
    BY <1>5, <2>1, FieldTypes DEF Family, Kin
  <2>3. f \in thread[u].line /\ Keeps(f)
    BY <1>2, <2>1, <2>2
  <2>4. Unreaped(f)'
    BY <1>2, <2>3
  <2>5. Enclosing(f)' = Enclosing(f)
    BY <1>2, <2>1, <2>2, EnclosingKept
  <2>6. thread'[f].i_have_ended => Entered(f)'
    BY <2>2 DEF KinStays
  <2>7. thread'[u].parent # None
    BY <2>1 DEF KinStays
  <2>. QED  BY <1>1, <2>1, <2>3, <2>4, <2>5, <2>6, <2>7 DEF Keeps
<1>. QED  BY <1>3, <1>4, <1>5 DEF Kin

\* The family stays when every thread that is left stays in it.
LEMMA FamilyKept ==
    ASSUME Typed, Family, program' = program, \A u \in Threads : Unreaped(u)' => KinStays(u)
    PROVE  Family'
<1>. SUFFICES ASSUME NEW u \in Threads, Unreaped(u)', NEW f, f = thread[u].forker
              PROVE  Kin(u, f)'
  BY DEF Family, KinStays, Keeps
<1>. QED  BY KinKept

\* The same threads stand in the same places.
SameStack ==
    /\ program' = program
    /\ \A u \in Threads :
          /\ Unreaped(u)' <=> Unreaped(u)
          /\ Unreaped(u) => /\ Keeps(u)
                            /\ thread'[u].parent = thread[u].parent
                            /\ thread'[u].child = thread[u].child
                            /\ thread'[u].fork_count = thread[u].fork_count

\* The stack stays when no pointer or count of it changes.
LEMMA StackKept ==
    ASSUME Typed, Family, Stack, SameStack
    PROVE  Stack'
<1>1. ASSUME NEW t PROVE Children(t)' = Children(t)
  <2>1. ASSUME NEW u \in Threads PROVE u \in Children(t)' <=> u \in Children(t)
    <3>1. u \in Children(t)' <=> Unreaped(u)' /\ thread'[u].forker = t /\ thread'[u].parent # None
      BY DEF Children, Unreaped
    <3>. QED  BY <3>1, ChildUnreaped DEF SameStack, Keeps
  <2>. QED  BY <2>1 DEF Children
<1>2. ASSUME NEW t \in Threads, Unreaped(t) PROVE Later(t)' = Later(t)
  <2>1. \A z \in thread[t].line : z \in Threads /\ Unreaped(z)
    BY <1>2, FieldTypes DEF Family, Kin
  <2>2. thread'[t].line = thread[t].line
    BY <1>2 DEF SameStack, Keeps
  <2>3. ASSUME NEW y \in Threads PROVE y \in Later(t)' <=> y \in Later(t)
    <3>1. y \in Later(t) <=>
            /\ Unreaped(y) /\ thread[y].forker # None
            /\ \E z \in thread[t].line : thread[z].forker = thread[y].forker /\ y < z
      BY DEF Later
    <3>2. y \in Later(t)' <=>
            /\ Unreaped(y)' /\ thread'[y].forker # None
            /\ \E z \in thread'[t].line : thread'[z].forker = thread'[y].forker /\ y < z
      BY DEF Later
    <3>. QED  BY <2>1, <2>2, <3>1, <3>2 DEF SameStack, Keeps
  <2>. QED  BY <2>3 DEF Later
<1>. SUFFICES ASSUME NEW t \in Threads, Unreaped(t), NEW c, c = thread[t].child,
                     NEW p, p = thread[t].parent
              PROVE  Placed(t, c, p)'
  BY DEF Stack, SameStack
<1>3. Placed(t, c, p) /\ c \in Ids /\ p \in Ids
  BY FieldTypes DEF Stack
<1>4. c # None => Unreaped(c)' /\ thread'[c].parent = t
  BY <1>3, FieldTypes DEF Placed, SameStack
<1>5. p # None => Unreaped(p)' /\ thread'[p].child = t
  BY <1>3, FieldTypes DEF Placed, SameStack
<1>6. Children(t) = {} => NextIs(t, c)'
  <2>1. ASSUME NEW y \in Later(t) PROVE thread'[y].forker = thread[y].forker
    BY DEF Later, SameStack, Keeps
  <2>2. Later(t)' = Later(t)
    BY <1>2
  <2>. QED  BY <1>3, <2>1, <2>2 DEF Placed, NextIs
<1>7. thread'[t].fork_count = thread[t].fork_count
  BY DEF SameStack
<1>. QED  BY <1>1, <1>3, <1>4, <1>5, <1>6, <1>7 DEF Placed

\* A scope whose threads and cells stay; some of its threads may end.
SameList(s) ==
    /\ \A u \in Threads : u \in InScope(s)' <=> u \in InScope(s)
    /\ \A u \in InScope(s) : /\ thread'[u].forker = thread[u].forker
                             /\ thread[u].off => thread'[u].off
    /\ \A n \in InScope(s) \cup {s} : /\ scope_next'[n] = scope_next[n]
                                      /\ scope_prev'[n] = scope_prev[n]

\* A ring stays when none of its cells changes.
LEMMA RingKept ==
    ASSUME NEW s, Ring(s), SameList(s), \A u \in InScope(s) : Entered(u)' <=> Entered(u)
    PROVE  Ring(s)'
<1>1. InScope(s)' = InScope(s)
  BY DEF InScope, SameList
<1>2. Listed(s)' = Listed(s)
  BY <1>1 DEF Listed, SameList
<1>3. Listed(s) \subseteq InScope(s) \cup {s}
  BY DEF Listed
<1>. QED  BY <1>1, <1>2, <1>3 DEF Ring, SameList

\* The list of a disabled scope stays when none of its cells changes.
LEMMA LooseKept ==
    ASSUME NEW s, Loose(s), SameList(s)
    PROVE  Loose(s)'
<1>1. InScope(s)' = InScope(s)
  BY DEF InScope, SameList
<1>2. \A t, n : Older(t, n, s)' <=> Older(t, n, s)
  BY <1>1 DEF Older
<1>. QED  BY <1>1, <1>2 DEF Loose, SameList

\* All lists stay when no cell changes.
LEMMA RingsKept ==
    ASSUME Rings, program' = program, \A s \in Scopes : SameList(s),
           \A s \in Scopes \ P.disabled : \A u \in InScope(s) : Entered(u)' <=> Entered(u)
    PROVE  Rings'
<1>1. P' = P /\ Scopes' = Scopes
  BY DEF P, Scopes
<1>. QED  BY <1>1, RingKept, LooseKept DEF Rings

-----------------------------------------------------------------------------
(* A thread is reaped.                                                     *)

\* The forkers of what comes later are older than the thread itself.
LEMMA LaterForkers ==
    ASSUME Typed, Family, NEW t \in Threads, Unreaped(t), NEW y \in Later(t)
    PROVE  y \in Threads /\ thread[y].forker \in Threads /\ thread[y].forker < t
<1>1. PICK z \in thread[t].line : thread[z].forker = thread[y].forker /\ y < z
  BY DEF Later
<1>2. z \in Threads /\ Unreaped(z) /\ z <= t
  BY FieldTypes DEF Family, Kin
<1>3. y \in Threads /\ thread[y].forker # None
  BY DEF Later
<1>4. PICK f \in Ids : f = thread[z].forker
  BY <1>2, FieldTypes
<1>5. f \in Threads /\ f < z
  BY <1>1, <1>2, <1>3, <1>4, FieldTypes DEF Family, Kin
<1>6. f \in Nat /\ z \in Nat /\ t \in Nat
  BY <1>2, <1>5 DEF Threads
<1>. QED  BY <1>1, <1>2, <1>3, <1>4, <1>5, <1>6

\* c, which has no children, is taken out of the stack; p, if any, is its parent
\* and has forked it.
Reaping(c, p) ==
    /\ program' = program
    /\ Unreaped(c) /\ ~Unreaped(c)' /\ Children(c) = {}
    /\ p = thread[c].parent /\ p = thread[c].forker
    /\ \A u \in Threads : u # c =>
          /\ Unreaped(u)' <=> Unreaped(u)
          /\ Unreaped(u) =>
               /\ Keeps(u)
               /\ thread'[u].parent = IF u = thread[c].child THEN p ELSE thread[u].parent
               /\ thread'[u].child = IF u = p THEN thread[c].child ELSE thread[u].child
               /\ thread'[u].fork_count = IF u = p THEN thread[u].fork_count - 1
                                          ELSE thread[u].fork_count
               /\ thread'[u].i_have_ended => thread[u].i_have_ended
               /\ Entered(u) => Entered(u)'

\* Nobody else gets or loses its last parent.
LEMMA ReapingParents ==
    ASSUME Typed, Family, Stack, NEW c \in Threads, NEW p \in Ids, Reaping(c, p),
           NEW u \in Threads, u # c, Unreaped(u)
    PROVE  thread'[u].parent = None <=> thread[u].parent = None
<1>1. PICK x \in Ids : x = thread[c].child
  BY FieldTypes
<1>2. CASE u # x
  BY <1>1, <1>2 DEF Reaping
<1>3. CASE u = x
  <2>1. thread[u].parent = c /\ c # None
    BY <1>1, <1>3 DEF Stack, Placed, Reaping, Threads, None
  <2>2. thread'[u].parent = p
    BY <1>1, <1>3 DEF Reaping
  <2>3. CASE p = None
    <3>1. thread[c].line = {c} /\ thread[c].forker = None
      BY <2>3 DEF Family, Kin, Reaping
    <3>2. Later(c) = {}
      BY <3>1 DEF Later
    <3>3. x = None
      BY <1>1, <3>2 DEF Stack, Placed, NextIs, Reaping
    <3>. QED  BY <1>3, <3>3 DEF Threads, None
  <2>. QED  BY <2>1, <2>2, <2>3
<1>. QED  BY <1>2, <1>3

\* The family of the others stays.
LEMMA ReapingFamily ==
    ASSUME Typed, Family, Stack, NEW c \in Threads, NEW p \in Ids, Reaping(c, p)
    PROVE  Family'
<1>. SUFFICES ASSUME NEW u \in Threads, Unreaped(u)' PROVE KinStays(u)
  BY FamilyKept DEF Reaping
<1>1. u # c /\ Unreaped(u) /\ Keeps(u)
  BY DEF Reaping
<1>3. thread'[u].parent = None <=> thread[u].parent = None
  BY <1>1, ReapingParents
<1>4. \A v \in thread[u].line : v \in Threads /\ Unreaped(v) /\ v # c
  BY <1>1, FieldTypes, NoDescendants DEF Reaping, Family, Kin
<1>5. \A v \in thread[u].line : Unreaped(v)' /\ Keeps(v)
  BY <1>4 DEF Reaping
<1>6. ASSUME NEW f \in Threads, f = thread[u].forker, thread'[f].i_have_ended
      PROVE  Entered(f)'
  <2>1. f # None
    BY DEF Threads, None
  <2>2. Unreaped(f) /\ (thread[f].i_have_ended => Entered(f)) /\ f \in thread[f].line
    BY <1>1, <1>6, <2>1 DEF Family, Kin
  <2>3. f \in thread[u].line
    BY <1>1, <1>6, <2>1, <2>2 DEF Family, Kin
  <2>. QED  BY <1>4, <1>6, <2>2, <2>3 DEF Reaping
<1>. QED  BY <1>1, <1>3, <1>5, <1>6 DEF KinStays

\* x is the first of what comes after p when c is gone.
Follows(p, c, x) ==
    \/ x = None /\ Later(p) \ {c} = {}
    \/ /\ x \in Later(p)
       /\ \A y \in Later(p) \ {c} : \/ thread[y].forker < thread[x].forker
                                    \/ thread[y].forker = thread[x].forker /\ y <= x

\* What c leaves on top of p is the next thread that p has forked, or what
\* comes after p.
LEMMA NextAfter ==
    ASSUME Typed, Family, Stack, NEW c \in Threads, NEW p \in Threads, NEW x \in Ids,
           Unreaped(c), Children(c) = {}, p = thread[c].parent, p = thread[c].forker,
           x = thread[c].child
    PROVE  /\ thread[p].child = c /\ Unreaped(p) /\ p < c
           /\ c \in Children(p) /\ \A y \in Children(p) : y <= c
           /\ x # p /\ x # c
           /\ Children(p) # {c} => x \in Children(p) /\ \A y \in Children(p) : y # c => y <= x
           /\ Children(p) = {c} => Follows(p, c, x)
<1>0. p # None /\ p \in Nat /\ c \in Nat
  BY DEF Threads, None
<1>1. Unreaped(p) /\ thread[p].child = c /\ p < c /\ thread[c].line = {c} \cup thread[p].line
  <2>1. Unreaped(p) /\ thread[p].child = c
    BY <1>0 DEF Stack, Placed
  <2>2. p < c /\ thread[c].line = {c} \cup thread[p].line
    BY <1>0 DEF Family, Kin
  <2>. QED  BY <2>1, <2>2
<1>2. c \in Children(p)
  BY <1>0, ChildUnreaped
<1>3. \A y \in Children(p) : y <= c
  BY <1>1, <1>2 DEF Stack, Placed
<1>4. NextIs(c, x)
  BY DEF Stack, Placed
<1>5. ASSUME NEW y \in Later(c), NEW z \in thread[c].line, thread[z].forker = thread[y].forker, y < z
      PROVE  /\ z = c => y \in Children(p) /\ y # c
             /\ z # c => y \in Later(p) /\ thread[y].forker < p
  <2>1. y \in Threads /\ Unreaped(y) /\ thread[y].forker # None
    BY DEF Later
  <2>2. ASSUME z = c PROVE y \in Children(p) /\ y # c
    <3>1. thread[y].parent # None
      BY <2>1 DEF Family, Kin
    <3>. QED  BY <1>0, <1>5, <2>1, <2>2, <3>1, ChildUnreaped DEF Threads
  <2>3. ASSUME z # c PROVE y \in Later(p) /\ thread[y].forker < p
    <3>1. z \in thread[p].line
      BY <1>1, <2>3
    <3>2. y \in Later(p)
      BY <1>5, <2>1, <3>1 DEF Later
    <3>. QED  BY <1>1, <3>2, LaterForkers
  <2>. QED  BY <2>2, <2>3
<1>6. c \notin Later(c) /\ p \notin Later(c)
  <2>1. \A z \in thread[c].line : z \in Threads /\ z <= c /\ (z # c => z <= p)
    BY <1>1, FieldTypes DEF Family, Kin
  <2>2. thread[c].forker = p
    OBVIOUS
  <2>3. ASSUME p \in Later(c) PROVE FALSE
    <3>1. PICK z \in thread[c].line : thread[z].forker = thread[p].forker /\ p < z
      BY <2>3 DEF Later
    <3>2. z = c
      BY <1>0, <2>1, <3>1 DEF Threads
    <3>3. thread[p].forker = p
      BY <3>1, <3>2
    <3>4. p < p
      BY <1>0, <1>1, <3>3 DEF Family, Kin
    <3>. QED  BY <1>0, <3>4
  <2>4. c \notin Later(c)
    BY <1>0, <2>1 DEF Later, Threads
  <2>. QED  BY <2>3, <2>4
<1>7. x # p /\ x # c
  <2>1. x # None => x \in Later(c)
    BY <1>4 DEF NextIs
  <2>. QED  BY <1>0, <1>6, <2>1 DEF Threads, None
<1>8. ASSUME Children(p) # {c}
      PROVE  x \in Children(p) /\ \A y \in Children(p) : y # c => y <= x
  <2>0. c \in thread[c].line
    BY DEF Family, Kin
  <2>1. ASSUME NEW y \in Children(p), y # c PROVE y \in Later(c) /\ thread[y].forker = p
    <3>1. y \in Threads /\ Unreaped(y) /\ thread[y].forker = p
      BY ChildUnreaped DEF Children
    <3>2. y < c
      BY <1>0, <1>3, <2>1, <3>1 DEF Threads
    <3>. QED  BY <1>0, <2>0, <3>1, <3>2 DEF Later
  <2>2. PICK y \in Children(p) : y # c
    BY <1>2, <1>8
  <2>3. x \in Later(c) /\ \A w \in Later(c) : \/ thread[w].forker < thread[x].forker
                                              \/ thread[w].forker = thread[x].forker /\ w <= x
    BY <1>4, <2>1, <2>2 DEF NextIs
  <2>4. PICK z \in thread[c].line : thread[z].forker = thread[x].forker /\ x < z
    BY <2>3 DEF Later
  <2>5. PICK g \in Threads : g = thread[x].forker
    BY <2>3, LaterForkers
  <2>6. p < g \/ p = g
    BY <2>1, <2>2, <2>3, <2>5
  <2>7. z = c
    <3>1. CASE z # c
      <4>1. g < p
        BY <1>5, <2>3, <2>4, <2>5, <3>1
      <4>. QED  BY <1>0, <2>5, <2>6, <4>1 DEF Threads
    <3>. QED  BY <3>1
  <2>8. x \in Children(p)
    BY <1>5, <2>3, <2>4, <2>7
  <2>9. thread[x].forker = p
    BY <2>8 DEF Children
  <2>. QED  BY <1>0, <2>1, <2>3, <2>8, <2>9
<1>9. ASSUME Children(p) = {c} PROVE Follows(p, c, x)
  <2>1. ASSUME NEW y \in Later(c) PROVE y \in Later(p)
    <3>1. PICK z \in thread[c].line : thread[z].forker = thread[y].forker /\ y < z
      BY DEF Later
    <3>2. z # c
      BY <1>5, <1>9, <3>1
    <3>. QED  BY <1>5, <3>1, <3>2
  <2>2. ASSUME NEW y \in Later(p) PROVE y \in Later(c)
    BY <1>1 DEF Later
  <2>3. Later(c) = Later(p)
    BY <2>1, <2>2
  <2>4. CASE x = None /\ Later(c) = {}
    BY <2>3, <2>4 DEF Follows
  <2>5. CASE x \in Later(c)
    BY <1>4, <2>3, <2>5 DEF NextIs, Follows
  <2>. QED  BY <1>4, <2>4, <2>5 DEF NextIs
<1>. QED  BY <1>1, <1>2, <1>3, <1>7, <1>8, <1>9

\* c is no longer among the children, or among what comes later.
LEMMA ReapingSets ==
    ASSUME Typed, Family, Stack, NEW c \in Threads, NEW p \in Ids, Reaping(c, p),
           NEW t \in Threads, Unreaped(t), t # c
    PROVE  Children(t)' = Children(t) \ {c} /\ Later(t)' = Later(t) \ {c}
<1>1. ASSUME NEW u \in Threads PROVE u \in Children(t)' <=> u \in Children(t) \ {c}
  <2>1. u \in Children(t)' <=> Unreaped(u)' /\ thread'[u].forker = t /\ thread'[u].parent # None
    BY DEF Children, Unreaped
  <2>2. CASE u = c
    BY <2>1, <2>2 DEF Reaping
  <2>3. CASE u # c
    <3>1. Unreaped(u)' <=> Unreaped(u)
      BY <2>3 DEF Reaping
    <3>2. Unreaped(u) => thread'[u].forker = thread[u].forker
      BY <2>3 DEF Reaping, Keeps
    <3>. QED  BY <2>1, <2>3, <3>1, <3>2, ReapingParents, ChildUnreaped
  <2>. QED  BY <2>2, <2>3
<1>2. thread'[t].line = thread[t].line /\ \A z \in thread[t].line : z \in Threads /\ z # c /\ Unreaped(z)
  BY FieldTypes, NoDescendants DEF Reaping, Family, Kin, Keeps
<1>3. ASSUME NEW z \in thread[t].line PROVE thread'[z].forker = thread[z].forker
  BY <1>2 DEF Reaping, Keeps
<1>4. ASSUME NEW y \in Threads PROVE y \in Later(t)' <=> y \in Later(t) \ {c}
  <2>1. y \in Later(t) <=>
          /\ Unreaped(y) /\ thread[y].forker # None
          /\ \E z \in thread[t].line : thread[z].forker = thread[y].forker /\ y < z
    BY DEF Later
  <2>2. y \in Later(t)' <=>
          /\ Unreaped(y)' /\ thread'[y].forker # None
          /\ \E z \in thread'[t].line : thread'[z].forker = thread'[y].forker /\ y < z
    BY DEF Later
  <2>3. CASE y = c
    BY <2>2, <2>3 DEF Reaping
  <2>4. CASE y # c
    <3>1. Unreaped(y)' <=> Unreaped(y)
      BY <2>4 DEF Reaping
    <3>2. Unreaped(y) => thread'[y].forker = thread[y].forker
      BY <2>4 DEF Reaping, Keeps
    <3>. QED  BY <1>2, <1>3, <2>1, <2>2, <2>4, <3>1, <3>2
  <2>. QED  BY <2>3, <2>4
<1>5. Children(t)' \subseteq Threads /\ Children(t) \subseteq Threads
  BY DEF Children
<1>6. Later(t)' \subseteq Threads /\ Later(t) \subseteq Threads
  BY DEF Later
<1>. QED  BY <1>1, <1>4, <1>5, <1>6

\* Threads forked by one that has not been reaped are finitely many.
LEMMA ChildrenFinite ==
    ASSUME NEW t
    PROVE  IsFiniteSet(Children(t)) /\ Cardinality(Children(t)) \in Nat
           /\ Children(t) \subseteq Threads
<1>1. Children(t) \subseteq 1..MaxThreads
  BY DEF Children, Threads
<1>2. MaxThreads \in Int
  BY ProgramsAssumption
<1>3. IsFiniteSet(1..MaxThreads)
  BY <1>2, FS_Interval
<1>4. IsFiniteSet(Children(t))
  BY <1>1, <1>3, FS_Subset
<1>. QED  BY <1>1, <1>4, FS_CardinalityType DEF Threads

\* The rest of the stack is still in order.
LEMMA ReapingStack ==
    ASSUME Typed, Family, Stack, NEW c \in Threads, NEW p \in Ids, Reaping(c, p)
    PROVE  Stack'
<1>1. PICK x \in Ids : x = thread[c].child
  BY FieldTypes
<1>2. Unreaped(c) /\ Children(c) = {} /\ p = thread[c].parent /\ p = thread[c].forker
  BY DEF Reaping
<1>3. x # None => x \in Threads /\ Unreaped(x) /\ thread[x].parent = c
  BY <1>1, <1>2, FieldTypes DEF Stack, Placed
<1>4. p # None => p \in Threads /\ Unreaped(p) /\ thread[p].child = c
  BY <1>2, FieldTypes DEF Stack, Placed
<1>. SUFFICES ASSUME NEW t \in Threads, Unreaped(t)', NEW d, d = thread'[t].child,
                     NEW q, q = thread'[t].parent
              PROVE  Placed(t, d, q)'
  BY DEF Stack
<1>5. Unreaped(t) /\ t # c /\ Keeps(t) /\ t # None
  BY DEF Reaping, Threads, None
<1>6. PICK e \in Ids, r \in Ids : e = thread[t].child /\ r = thread[t].parent
  BY FieldTypes
<1>7. Placed(t, e, r) /\ (e # None => e \in Threads) /\ (r # None => r \in Threads)
  BY <1>5, <1>6, FieldTypes DEF Stack
<1>8. Children(t)' = Children(t) \ {c} /\ Later(t)' = Later(t) \ {c}
  BY <1>5, ReapingSets
<1>9. d = (IF t = p THEN x ELSE e) /\ q = (IF t = x THEN p ELSE r)
  BY <1>1, <1>5, <1>6 DEF Reaping
<1>10. t # p => e # c
  <2>1. c # None
    BY DEF Threads, None
  <2>. QED  BY <1>2, <1>7, <2>1 DEF Placed
<1>11. x # c /\ (x # None => x # p)
  <2>1. CASE p # None
    BY <1>1, <1>2, <1>4, <2>1, NextAfter
  <2>2. CASE p = None
    <3>1. thread[c].line = {c} /\ thread[c].forker = None
      BY <1>2, <2>2 DEF Family, Kin
    <3>2. Later(c) = {}
      BY <3>1 DEF Later
    <3>3. x = None
      BY <1>1, <1>2, <3>2 DEF Stack, Placed, NextIs
    <3>. QED  BY <3>3 DEF Threads, None
  <2>. QED  BY <2>1, <2>2
<1>12. d # None => Unreaped(d)' /\ thread'[d].parent = t
  <2>1. CASE t = p
    BY <1>3, <1>5, <1>9, <1>11, <2>1, <1>1 DEF Reaping
  <2>2. CASE t # p
    <3>1. d = e /\ (d # None => d # c /\ Unreaped(d) /\ thread[d].parent = t)
      BY <1>7, <1>9, <1>10, <2>2 DEF Placed
    <3>2. d # None => d # x
      BY <1>3, <1>5, <3>1
    <3>. QED  BY <1>1, <1>7, <3>1, <3>2 DEF Reaping
  <2>. QED  BY <2>1, <2>2
<1>13. q # None => Unreaped(q)' /\ thread'[q].child = t
  <2>1. CASE t = x
    BY <1>1, <1>4, <1>9, <2>1, <1>2, <1>5, <1>11 DEF Reaping, Placed
  <2>2. CASE t # x
    <3>1. q = r /\ (q # None => Unreaped(q) /\ thread[q].child = t)
      BY <1>7, <1>9, <2>2 DEF Placed
    <3>2. q # None => q # c /\ q # p
      BY <1>1, <1>4, <1>5, <2>2, <3>1
    <3>. QED  BY <1>7, <3>1, <3>2 DEF Reaping
  <2>. QED  BY <2>1, <2>2
<1>14. CASE t # p
  <2>1. c \notin Children(t)
    BY <1>2, <1>14 DEF Children
  <2>2. Children(t)' = Children(t) /\ d = e
    BY <1>8, <1>9, <1>14, <2>1
  <2>3. Children(t)' = {} => NextIs(t, d)'
    <3>1. ASSUME NEW y \in Later(t), y # c PROVE thread'[y].forker = thread[y].forker
      BY <3>1 DEF Later, Reaping, Keeps
    <3>. QED  BY <1>7, <1>8, <1>10, <1>14, <2>2, <3>1 DEF Placed, NextIs
  <2>4. thread'[t].fork_count = thread[t].fork_count
    BY <1>5, <1>14 DEF Reaping
  <2>. QED  BY <1>7, <1>12, <1>13, <2>2, <2>3, <2>4 DEF Placed
<1>15. CASE t = p
  <2>0. t = thread[c].parent /\ t = thread[c].forker
    BY <1>2, <1>15
  <2>1. /\ c \in Children(t)
        /\ Children(t) # {c} => x \in Children(t) /\ \A y \in Children(t) : y # c => y <= x
        /\ Children(t) = {c} => Follows(t, c, x)
    BY <1>1, <1>2, <2>0, NextAfter
  <2>2. Children(t)' # {} => d \in Children(t)' /\ \A u \in Children(t)' : u <= d
    BY <1>8, <1>9, <1>11, <1>15, <2>1
  <2>3. Children(t)' = {} => NextIs(t, d)'
    <3>1. ASSUME NEW y \in Later(t), y # c PROVE thread'[y].forker = thread[y].forker
      BY <3>1 DEF Later, Reaping, Keeps
    <3>2. Children(t)' = {} => Children(t) = {c}
      BY <1>8, <2>1
    <3>. QED  BY <1>8, <1>9, <1>11, <1>15, <2>1, <3>1, <3>2 DEF NextIs, Follows
  <2>4. thread'[t].fork_count = Cardinality(Children(t)')
    <3>1. Cardinality(Children(t) \ {c}) = Cardinality(Children(t)) - 1
      BY <2>1, ChildrenFinite, FS_RemoveElement
    <3>2. thread'[t].fork_count = thread[t].fork_count - 1
      BY <1>5, <1>15 DEF Reaping
    <3>. QED  BY <1>7, <1>8, <3>1, <3>2 DEF Placed
  <2>. QED  BY <1>12, <1>13, <2>2, <2>3, <2>4 DEF Placed
<1>. QED  BY <1>14, <1>15

-----------------------------------------------------------------------------
(* What a step leaves alone.                                               *)

\* No thread moves; one that ends has no children; a list keeps its cells.
Standing ==
    /\ SameStack /\ UNCHANGED links
    /\ \A u \in Threads : Unreaped(u) =>
          /\ thread[u].off => thread'[u].off
          /\ thread'[u].i_have_ended => thread[u].i_have_ended \/ Children(u) = {}
    /\ \A u \in Threads : /\ Entered(u)' => Entered(u)
                          /\ Entered(u) /\ ~Entered(u)' =>
                               Children(u) = {} /\ thread[u].scope \in P.disabled

\* Family, stack and lists stay when no thread moves in them.
LEMMA StandingKeeps ==
    ASSUME Typed, Family, Stack, Rings, Standing
    PROVE  Family' /\ Stack' /\ Rings'
<1>0. SameStack
  BY DEF Standing
<1>1. Stack'
  BY <1>0, StackKept
<1>2. Family'
  <2>. SUFFICES ASSUME NEW u \in Threads, Unreaped(u)' PROVE KinStays(u)
    BY <1>0, FamilyKept DEF SameStack
  <2>1. Unreaped(u) /\ Keeps(u) /\ thread'[u].parent = thread[u].parent
    BY <1>0 DEF SameStack
  <2>2. \A v \in thread[u].line : v \in Threads /\ Unreaped(v)
    BY <2>1, FieldTypes DEF Family, Kin
  <2>3. ASSUME NEW f \in Threads, f = thread[u].forker, thread'[f].i_have_ended
        PROVE  Entered(f)'
    <3>1. f # None
      BY DEF Threads, None
    <3>2. Unreaped(f) /\ (thread[f].i_have_ended => Entered(f)) /\ thread[u].parent # None
      BY <2>1, <2>3, <3>1 DEF Family, Kin
    <3>3. u \in Children(f)
      BY <2>1, <2>3, <3>2, ChildUnreaped
    <3>. QED  BY <2>3, <3>2, <3>3 DEF Standing
  <2>. QED  BY <1>0, <2>1, <2>2, <2>3 DEF KinStays, SameStack
<1>3. Rings'
  <2>1. ASSUME NEW s \in Scopes PROVE SameList(s)
    <3>1. \A u \in Threads : u \in InScope(s)' <=> u \in InScope(s)
      BY <1>0 DEF InScope, SameStack, Keeps
    <3>2. \A u \in InScope(s) : u \in Threads /\ Unreaped(u)
      BY DEF InScope
    <3>3. \A u \in InScope(s) : thread'[u].forker = thread[u].forker
      BY <1>0, <3>2 DEF SameStack, Keeps
    <3>. QED  BY <3>1, <3>2, <3>3 DEF SameList, Standing, links
  <2>2. ASSUME NEW s \in Scopes \ P.disabled, NEW u \in InScope(s)
        PROVE  Entered(u)' <=> Entered(u)
    BY DEF Standing, InScope
  <2>. QED  BY <1>0, <2>1, <2>2, RingsKept DEF SameStack
<1>. QED  BY <1>1, <1>2, <1>3

\* No thread is created.
LEMMA OrderKept ==
    ASSUME InOrder, \A u \in Threads : thread'[u].life = "unborn" <=> thread[u].life = "unborn"
    PROVE  InOrder'
  BY DEF InOrder

\* The queues and what the flags say of them.
SameQueues ==
    /\ program' = program
    /\ UNCHANGED <<active, delayed, waiting_list, rest>>
    /\ \A u \in Threads :
          /\ Live(u)' /\ thread'[u].is_scheduled <=> Live(u) /\ thread[u].is_scheduled
          /\ Live(u)' /\ thread'[u].waiting_for_event <=> Live(u) /\ thread[u].waiting_for_event

\* The flags still tell where the threads are when neither changes.
LEMMA QueuesKept ==
    ASSUME Queued, Flagged, SameQueues
    PROVE  Queued' /\ Flagged'
<1>1. P' = P
  BY DEF P, SameQueues
<1>2. Queued'
  BY <1>1 DEF Queued, SameQueues, InChains
<1>3. \A t \in Threads : Scheduled(t)' <=> Scheduled(t)
  BY DEF Scheduled, InChains, SameQueues
<1>4. \A t \in Threads : Waiting(t)' <=> Waiting(t)
  BY <1>1 DEF Waiting, SameQueues
<1>5. Flagged'
  BY <1>3, <1>4 DEF Flagged, SameQueues
<1>. QED  BY <1>2, <1>5

-----------------------------------------------------------------------------
(* A thread of a chain starts.                                             *)

\* The first of a sequence and the others.
LEMMA TailOf ==
    ASSUME NEW S, NEW s \in Seq(S), s # <<>>
    PROVE  /\ Head(s) \in S /\ Tail(s) \in Seq(S) /\ s[1] = Head(s)
           /\ Len(s) \in Nat /\ Len(s) > 0 /\ Len(Tail(s)) = Len(s) - 1
           /\ \A i \in 1..Len(Tail(s)) : Tail(s)[i] = s[i + 1] /\ i + 1 \in 1..Len(s)
           /\ \A t : In(t, s) <=> t = Head(s) \/ In(t, Tail(s))
<1>1. /\ Head(s) \in S /\ Tail(s) \in Seq(S) /\ s[1] = Head(s)
      /\ Len(s) \in Nat /\ Len(s) > 0 /\ Len(Tail(s)) = Len(s) - 1
      /\ \A i \in 1..Len(Tail(s)) : Tail(s)[i] = s[i + 1] /\ i + 1 \in 1..Len(s)
  OBVIOUS
<1>2. ASSUME NEW t, In(t, s) PROVE t = Head(s) \/ In(t, Tail(s))
  <2>1. PICK i \in 1..Len(s) : s[i] = t
    BY <1>2 DEF In
  <2>2. CASE i # 1
    <3>1. i - 1 \in 1..Len(Tail(s)) /\ (i - 1) + 1 = i
      BY <1>1, <2>2
    <3>2. Tail(s)[i - 1] = s[i]
      BY <1>1, <3>1
    <3>. QED  BY <2>1, <3>1, <3>2 DEF In
  <2>. QED  BY <1>1, <2>1, <2>2
<1>3. ASSUME NEW t, t = Head(s) \/ In(t, Tail(s)) PROVE In(t, s)
  BY <1>1, <1>3 DEF In
<1>. QED  BY <1>1, <1>2, <1>3

\* What starting t, which was scheduled, does to the invariant.
LEMMA StartKeeps ==
    ASSUME ThreadInv, Executes(None), NEW t \in Threads, Scheduled(t), Start(t),
           UNCHANGED <<program, links, delayed, del_thr, waiting_list, disable>>,
           active' \in Seq(Seq(Threads)), rest' \in Seq(Threads), Queued',
           \A u \in Threads : Scheduled(u)' <=> Scheduled(u) /\ u # t
    PROVE  ThreadInv'
<1>1. Live(t) /\ thread[t].is_scheduled /\ ~thread[t].waiting_for_event /\ fault = "none"
  BY DEF ThreadInv, Flagged
<1>2. running = None /\ target = NoScope /\ disabling = <<>> /\ t # None
  BY DEF Executes, Quiet, ThreadInv, Runs, Threads, None
<1>3. P' = P /\ Scopes' = Scopes /\ Vthread' = Vthread /\ Cells' = Cells
  BY DEF P, Scopes, Vthread, Cells
<1>4. thread' = [thread EXCEPT ![t].is_scheduled = FALSE] /\ running' = t
  BY DEF Start
<1>5. Typed'
  <2>1. thread' \in [Threads -> Vthread]
    <3>1. thread[t] \in Vthread /\ thread \in [Threads -> Vthread]
      BY DEF ThreadInv, Typed
    <3>2. [thread[t] EXCEPT !.is_scheduled = FALSE] \in Vthread
      BY <3>1 DEF Vthread
    <3>. QED  BY <1>4, <3>1, <3>2
  <2>. QED  BY <1>3, <1>4, <2>1 DEF ThreadInv, Typed, links, disable, Ids
<1>6. \A u \in Threads : u # t => thread'[u] = thread[u]
  BY <1>4 DEF ThreadInv, Typed
<1>7. /\ thread'[t].life = thread[t].life /\ thread'[t].off = thread[t].off
      /\ thread'[t].i_have_ended = thread[t].i_have_ended
      /\ thread'[t].schedule_parent_on_end = thread[t].schedule_parent_on_end
      /\ thread'[t].waiting_for_event = thread[t].waiting_for_event
      /\ ~thread'[t].is_scheduled
      /\ thread'[t].delay_delete = thread[t].delay_delete
      /\ thread'[t].fork_count = thread[t].fork_count
      /\ thread'[t].child = thread[t].child /\ thread'[t].parent = thread[t].parent
      /\ thread'[t].scope = thread[t].scope /\ thread'[t].forker = thread[t].forker
      /\ thread'[t].line = thread[t].line
  BY <1>4 DEF ThreadInv, Typed, Vthread
<1>8. \A u \in Threads : (Live(u)' <=> Live(u)) /\ (Unreaped(u)' <=> Unreaped(u))
  BY <1>6, <1>7 DEF Live, Unreaped
<1>9. Standing
  <2>1. SameStack
    BY <1>6, <1>7, <1>8 DEF SameStack, Keeps
  <2>. QED  BY <1>6, <1>7, <2>1 DEF Standing, Entered, disable, links
<1>10. Family' /\ Stack' /\ Rings'
  BY <1>9, StandingKeeps DEF ThreadInv
<1>11. InOrder'
  BY <1>6, <1>7, OrderKept DEF ThreadInv
<1>12. Reaps'
  <2>1. ASSUME NEW u \in Threads, Live(u)', ~Unreaped(u)' PROVE Remains(u)'
    <3>1. Remains(u)
      BY <1>8, <2>1 DEF ThreadInv, Reaps
    <3>2. u # running
      BY <1>2 DEF Threads, None
    <3>3. CASE u = t
      BY <1>4, <1>7, <3>1, <3>3 DEF Remains
    <3>4. CASE u # t
      BY <1>6, <3>1, <3>2, <3>4 DEF Remains
    <3>. QED  BY <3>3, <3>4
  <2>2. \A u \in Threads : Live(u)' => thread'[u].off = thread'[u].i_have_ended
    BY <1>6, <1>7, <1>8 DEF ThreadInv, Reaps
  <2>3. ASSUME NEW u \in del_thr'
        PROVE  Live(u)' /\ ~Unreaped(u)' /\ ~thread'[u].is_scheduled /\ ~thread'[u].waiting_for_event
    <3>1. u \in Threads /\ Live(u) /\ ~Unreaped(u)
          /\ ~thread[u].is_scheduled /\ ~thread[u].waiting_for_event
      BY DEF ThreadInv, Reaps, Typed
    <3>. QED  BY <1>1, <1>6, <1>8, <3>1
  <2>. QED  BY <2>1, <2>2, <2>3 DEF Reaps
<1>13. Flagged'
  <2>1. \A u \in Threads : Waiting(u)' <=> Waiting(u)
    BY <1>3 DEF Waiting
  <2>2. \A u \in Threads : u # t => (Scheduled(u)' <=> Live(u)' /\ thread'[u].is_scheduled)
    BY <1>6, <1>8 DEF ThreadInv, Flagged
  <2>3. \A u \in Threads : Waiting(u)' <=> Live(u)' /\ thread'[u].waiting_for_event
    BY <1>6, <1>7, <1>8, <2>1 DEF ThreadInv, Flagged
  <2>4. \A u \in Threads : Live(u)' => ~(thread'[u].is_scheduled /\ thread'[u].waiting_for_event)
    BY <1>6, <1>7, <1>8 DEF ThreadInv, Flagged
  <2>. QED  BY <1>7, <2>2, <2>3, <2>4 DEF Flagged
<1>14. Joined'
  <2>1. ASSUME NEW c \in Threads, Unreaped(c)', thread'[c].schedule_parent_on_end,
               NEW p, p = thread'[c].parent
        PROVE  Joins(c, p)'
    <3>1. Unreaped(c) /\ thread[c].schedule_parent_on_end /\ p = thread[c].parent /\ p \in Ids
      BY <1>6, <1>7, <1>8, <2>1, FieldTypes DEF ThreadInv
    <3>2. Joins(c, p)
      BY <3>1 DEF ThreadInv, Joined
    <3>3. p \in Threads /\ p # t /\ ~Entered(p)
      BY <1>1, <1>2, <3>1, <3>2, FieldTypes DEF Joins, Held, Entered, In, ThreadInv
    <3>. QED  BY <1>2, <1>4, <1>6, <1>7, <3>2, <3>3 DEF Joins, Held, disable
  <2>2. ASSUME NEW u \in Threads, Unreaped(u)', ~thread'[u].i_have_ended, running' # u, ~Held(u)'
        PROVE  thread'[u].child # None /\ thread'[thread'[u].child].schedule_parent_on_end
    <3>1. u # t /\ u # None
      BY <1>4, <2>2 DEF Threads, None
    <3>2. Unreaped(u) /\ ~thread[u].i_have_ended /\ running # u /\ ~Held(u)
      BY <1>2, <1>6, <1>8, <2>2, <3>1 DEF Held
    <3>3. PICK c \in Ids : c = thread[u].child
      BY FieldTypes DEF ThreadInv
    <3>4. c # None /\ thread[c].schedule_parent_on_end /\ c \in Threads
      BY <3>2, <3>3, FieldTypes DEF ThreadInv, Joined
    <3>. QED  BY <1>6, <1>7, <3>1, <3>3, <3>4
  <2>. QED  BY <2>1, <2>2 DEF Joined
<1>15. Runs'
  <2>1. t \notin del_thr'
    BY <1>1 DEF ThreadInv, Reaps
  <2>. QED  BY <1>1, <1>2, <1>4, <1>7, <1>8, <2>1 DEF ThreadInv, Runs, disable, Held
<1>16. Disables'
  BY <1>2 DEF Disables, disable
<1>17. fault' = "none"
  BY <1>1 DEF Start, Checked, Freed, Live
<1>. QED  BY <1>5, <1>10, <1>11, <1>12, <1>13, <1>14, <1>15, <1>16, <1>17 DEF ThreadInv

\* vthread_run goes on to the next thread of its chain.
LEMMA RunNextKeeps ==
    ASSUME ThreadInv, RunNext
    PROVE  ThreadInv'
<1>. DEFINE t == Head(rest)
<1>1. rest \in Seq(Threads) /\ rest # <<>> /\ rest' = Tail(rest) /\ Start(t) /\ Executes(None)
  BY DEF ThreadInv, Typed, RunNext
<1>2. UNCHANGED <<program, links, active, delayed, del_thr, waiting_list, disable>>
  BY DEF RunNext, queues
<1>3. /\ t \in Threads /\ rest' \in Seq(Threads) /\ rest[1] = t
      /\ Len(rest) \in Nat /\ Len(rest) > 0 /\ Len(rest') = Len(rest) - 1
      /\ \A i \in 1..Len(rest') : rest'[i] = rest[i + 1] /\ i + 1 \in 1..Len(rest)
      /\ \A u : In(u, rest) <=> u = t \/ In(u, rest')
  BY <1>1, TailOf
<1>. HIDE DEF t
<1>4. \A i, j \in 1..Len(rest') : rest'[i] = rest'[j] => i = j
  BY <1>3 DEF ThreadInv, Queued
<1>5. ~In(t, rest')
  BY <1>3 DEF ThreadInv, Queued, In
<1>6. P' = P
  BY <1>2 DEF P
<1>7. \A u : InChains(u)' <=> InChains(u)
  BY <1>2 DEF InChains
<1>8. Queued'
  <2>1. \A u \in Threads : In(u, rest') => u \notin delayed' /\ ~InChains(u)'
    BY <1>2, <1>3, <1>7 DEF ThreadInv, Queued
  <2>2. \A u \in delayed' : ~InChains(u)'
    BY <1>2, <1>7 DEF ThreadInv, Queued, Typed
  <2>. QED  BY <1>2, <1>4, <1>6, <2>1, <2>2 DEF ThreadInv, Queued
<1>9. \A u \in Threads : Scheduled(u)' <=> Scheduled(u) /\ u # t
  <2>1. ~InChains(t) /\ t \notin delayed
    BY <1>3 DEF ThreadInv, Queued
  <2>. QED  BY <1>2, <1>3, <1>5, <1>7, <2>1 DEF Scheduled
<1>10. Scheduled(t) /\ active' \in Seq(Seq(Threads))
  BY <1>2, <1>3 DEF Scheduled, ThreadInv, Typed
<1>. QED  BY <1>1, <1>2, <1>3, <1>8, <1>9, <1>10, StartKeeps

\* The scheduler takes the first chain and runs its first thread.
LEMMA RunChainKeeps ==
    ASSUME ThreadInv, RunChain
    PROVE  ThreadInv'
<1>. DEFINE chain == Head(active)
            t == chain[1]
<1>1. /\ active \in Seq(Seq(Threads)) /\ active # <<>> /\ active' = Tail(active)
      /\ Start(t) /\ Executes(None) /\ rest = <<>> /\ rest' = Tail(chain)
  BY DEF ThreadInv, Typed, RunChain
<1>2. UNCHANGED <<program, links, delayed, del_thr, waiting_list, disable>>
  BY DEF RunChain
<1>3. /\ chain \in Seq(Threads) /\ active' \in Seq(Seq(Threads)) /\ active[1] = chain
      /\ Len(active) \in Nat /\ Len(active) > 0 /\ Len(active') = Len(active) - 1
      /\ \A i \in 1..Len(active') : active'[i] = active[i + 1] /\ i + 1 \in 1..Len(active)
  BY <1>1, TailOf
<1>4. 1 \in 1..Len(active) /\ chain # <<>>
  BY <1>3 DEF ThreadInv, Queued
<1>5. /\ t \in Threads /\ rest' \in Seq(Threads)
      /\ Len(chain) \in Nat /\ Len(chain) > 0 /\ Len(rest') = Len(chain) - 1
      /\ \A i \in 1..Len(rest') : rest'[i] = chain[i + 1] /\ i + 1 \in 1..Len(chain)
      /\ \A u : In(u, chain) <=> u = t \/ In(u, rest')
  BY <1>1, <1>3, <1>4, TailOf
<1>6. \A i, j \in 1..Len(active') : \A k \in 1..Len(active'[i]), l \in 1..Len(active'[j]) :
          active'[i][k] = active'[j][l] => i = j /\ k = l
  <2>. SUFFICES ASSUME NEW i \in 1..Len(active'), NEW j \in 1..Len(active'),
                       NEW k \in 1..Len(active'[i]), NEW l \in 1..Len(active'[j]),
                       active'[i][k] = active'[j][l]
                PROVE  i = j /\ k = l
    OBVIOUS
  <2>1. active'[i] = active[i + 1] /\ active'[j] = active[j + 1]
        /\ i + 1 \in 1..Len(active) /\ j + 1 \in 1..Len(active)
    BY <1>3
  <2>2. i + 1 = j + 1 /\ k = l
    BY <2>1 DEF ThreadInv, Queued
  <2>. QED  BY <1>3, <2>2
<1>7. \A k, l \in 1..Len(chain) : chain[k] = chain[l] => k = l
  BY <1>3, <1>4 DEF ThreadInv, Queued
<1>8. \A u : In(u, chain) => ~InChains(u)'
  <2>1. ASSUME NEW u, In(u, chain), NEW i \in 1..Len(active'), In(u, active'[i]) PROVE FALSE
    <3>1. PICK k \in 1..Len(chain) : active[1][k] = u
      BY <1>3, <2>1 DEF In
    <3>2. PICK l \in 1..Len(active[i + 1]) : active[i + 1][l] = u
      BY <1>3, <2>1 DEF In
    <3>3. i + 1 \in 1..Len(active) /\ 1 # i + 1
      BY <1>3
    <3>. QED  BY <1>3, <1>4, <3>1, <3>2, <3>3 DEF ThreadInv, Queued
  <2>. QED  BY <2>1 DEF InChains
<1>9. \A u : InChains(u) <=> In(u, chain) \/ InChains(u)'
  <2>1. ASSUME NEW u, InChains(u) PROVE In(u, chain) \/ InChains(u)'
    <3>1. PICK i \in 1..Len(active) : In(u, active[i])
      BY <2>1 DEF InChains
    <3>2. CASE i = 1
      BY <1>3, <3>1, <3>2
    <3>3. CASE i # 1
      <4>1. i - 1 \in 1..Len(active') /\ (i - 1) + 1 = i
        BY <1>3, <3>3
      <4>2. active'[i - 1] = active[i]
        BY <1>3, <4>1
      <4>. QED  BY <3>1, <4>1, <4>2 DEF InChains
    <3>. QED  BY <3>2, <3>3
  <2>2. ASSUME NEW u, In(u, chain) PROVE InChains(u)
    BY <1>3, <1>4, <2>2 DEF InChains
  <2>3. ASSUME NEW u, InChains(u)' PROVE InChains(u)
    <3>1. PICK i \in 1..Len(active') : In(u, active'[i])
      BY <2>3 DEF InChains
    <3>. QED  BY <1>3, <3>1 DEF InChains
  <2>. QED  BY <2>1, <2>2, <2>3
<1>10. \A u : ~In(u, rest)
  BY <1>1 DEF In
<1>11. ~In(t, rest') /\ \A i, j \in 1..Len(rest') : rest'[i] = rest'[j] => i = j
  <2>1. \A i, j \in 1..Len(rest') : rest'[i] = rest'[j] => i = j
    BY <1>5, <1>7
  <2>2. ASSUME NEW i \in 1..Len(rest'), rest'[i] = t PROVE FALSE
    BY <1>5, <1>7, <2>2
  <2>. QED  BY <2>1, <2>2 DEF In
<1>12. t \in Threads /\ In(t, chain)
  BY <1>5
<1>13. P' = P
  BY <1>2 DEF P
<1>. HIDE DEF t, chain
<1>14. \A u \in Threads : In(u, chain) => u \notin delayed
  BY <1>9 DEF ThreadInv, Queued
<1>15. Queued'
  <2>1. \A u \in Threads : In(u, rest') => u \notin delayed' /\ ~InChains(u)'
    BY <1>2, <1>5, <1>8, <1>14
  <2>2. \A u \in delayed' : ~InChains(u)'
    BY <1>2, <1>9 DEF ThreadInv, Queued, Typed
  <2>3. \A i \in 1..Len(active') : active'[i] # <<>>
    BY <1>3 DEF ThreadInv, Queued
  <2>. QED  BY <1>2, <1>6, <1>11, <1>13, <2>1, <2>2, <2>3 DEF ThreadInv, Queued
<1>16. \A u \in Threads : Scheduled(u)' <=> Scheduled(u) /\ u # t
  BY <1>2, <1>5, <1>8, <1>9, <1>10, <1>11, <1>12, <1>14 DEF Scheduled
<1>17. Scheduled(t)
  BY <1>9, <1>12 DEF Scheduled
<1>. QED  BY <1>1, <1>2, <1>3, <1>5, <1>12, <1>15, <1>16, <1>17, StartKeeps

-----------------------------------------------------------------------------
(* Threads are deleted.                                                    *)

\* The threads of D are deleted; the running thread may be paused.
Deletes(D) ==
    /\ UNCHANGED <<program, links, active, delayed, waiting_list, rest, disable, fault>>
    /\ target = NoScope
    /\ \A u \in D : Live(u) /\ ~Unreaped(u) /\ ~Held(u)
    /\ \A u \in Threads : u \in D => thread'[u].life = "freed"
    /\ \A u \in Threads : u \notin D => thread'[u] = thread[u]
    /\ \/ running' = running
       \/ running' = None /\ running # None /\ thread[running].off
    /\ running' \notin D \cup del_thr'
    /\ \A u \in Threads : Live(u) /\ ~Unreaped(u) /\ u \notin D =>
          Held(u) \/ u \in del_thr' \/ u = running'
    /\ \A u \in del_thr' : Live(u) /\ ~Unreaped(u) /\ ~Held(u) /\ u \notin D

\* Threads that nothing holds are deleted.
LEMMA DeletesKeeps ==
    ASSUME ThreadInv, NEW D \in SUBSET Threads, Deletes(D),
           thread' \in [Threads -> Vthread], del_thr' \subseteq Threads
    PROVE  ThreadInv'
<1>1. target = NoScope /\ disabling = <<>> /\ ~myself
  BY DEF ThreadInv, Runs, Deletes
<1>2. P' = P /\ Scopes' = Scopes /\ Vthread' = Vthread /\ Cells' = Cells
  BY DEF P, Scopes, Vthread, Cells, Deletes
<1>3. running' \in Ids
  BY DEF ThreadInv, Typed, Deletes, Ids
<1>4. Typed'
  BY <1>2, <1>3 DEF ThreadInv, Typed, Deletes, links, disable
<1>5. \A u \in Threads : /\ Live(u)' <=> Live(u) /\ u \notin D
                         /\ Unreaped(u)' <=> Unreaped(u)
                         /\ Unreaped(u) => u \notin D
  BY DEF Live, Unreaped, Deletes
<1>6. SameStack
  BY <1>5 DEF SameStack, Deletes, Keeps
<1>7. Standing
  BY <1>5, <1>6 DEF Standing, Deletes, Entered, disable, links
<1>8. Family' /\ Stack' /\ Rings'
  BY <1>7, StandingKeeps DEF ThreadInv
<1>9. InOrder'
  <2>1. \A u \in Threads : thread'[u].life = "unborn" <=> thread[u].life = "unborn"
    BY DEF Deletes, Live
  <2>. QED  BY <2>1, OrderKept DEF ThreadInv
<1>10. Reaps'
  <2>1. ASSUME NEW u \in Threads, Live(u)', ~Unreaped(u)' PROVE Remains(u)'
    <3>1. Live(u) /\ ~Unreaped(u) /\ u \notin D /\ thread'[u] = thread[u]
      BY <1>5, <2>1 DEF Deletes
    <3>2. Remains(u)
      BY <3>1 DEF ThreadInv, Reaps
    <3>3. Held(u) \/ u \in del_thr' \/ u = running'
      BY <3>1 DEF Deletes
    <3>. QED  BY <3>1, <3>2, <3>3 DEF Remains, Held
  <2>2. \A u \in Threads : Live(u)' => thread'[u].off = thread'[u].i_have_ended
    BY <1>5 DEF ThreadInv, Reaps, Deletes
  <2>3. ASSUME NEW u \in del_thr'
        PROVE  Live(u)' /\ ~Unreaped(u)' /\ ~thread'[u].is_scheduled /\ ~thread'[u].waiting_for_event
    <3>1. Live(u) /\ ~Unreaped(u) /\ ~Held(u) /\ u \notin D /\ u \in Threads
      BY DEF Deletes
    <3>2. thread'[u] = thread[u]
      BY <3>1 DEF Deletes
    <3>. QED  BY <1>5, <3>1, <3>2 DEF Held
  <2>. QED  BY <2>1, <2>2, <2>3 DEF Reaps
<1>11. Queued' /\ Flagged'
  <2>1. SameQueues
    BY <1>5 DEF SameQueues, Deletes, Held
  <2>. QED  BY <2>1, QueuesKept DEF ThreadInv
<1>12. Joined'
  <2>1. ASSUME NEW c \in Threads, Unreaped(c)', thread'[c].schedule_parent_on_end,
               NEW p, p = thread'[c].parent
        PROVE  Joins(c, p)'
    <3>1. Unreaped(c) /\ thread'[c] = thread[c]
      BY <1>5, <2>1 DEF Deletes
    <3>2. Joins(c, p) /\ p \in Ids
      BY <2>1, <3>1, FieldTypes DEF ThreadInv, Joined
    <3>3. p \in Threads /\ p # None /\ ~Entered(p) /\ Unreaped(p)
      BY <1>1, <2>1, <3>1, <3>2, FieldTypes DEF Joins, Entered, In, ThreadInv, Stack, Placed
    <3>4. thread'[p] = thread[p]
      BY <1>5, <3>3 DEF Deletes
    <3>. QED  BY <1>1, <3>1, <3>2, <3>3, <3>4 DEF Joins, Held, Deletes, disable, Entered
  <2>2. ASSUME NEW u \in Threads, Unreaped(u)', ~thread'[u].i_have_ended, running' # u, ~Held(u)'
        PROVE  thread'[u].child # None /\ thread'[thread'[u].child].schedule_parent_on_end
    <3>1. Unreaped(u) /\ thread'[u] = thread[u]
      BY <1>5, <2>2 DEF Deletes
    <3>2. running # u
      BY <2>2, <3>1 DEF Deletes, ThreadInv, Reaps, Unreaped
    <3>3. PICK c \in Ids : c = thread[u].child
      BY FieldTypes DEF ThreadInv
    <3>4. c # None /\ thread[c].schedule_parent_on_end /\ c \in Threads
      BY <2>2, <3>1, <3>2, <3>3, FieldTypes DEF ThreadInv, Joined, Held
    <3>5. Unreaped(c)
      BY <3>1, <3>3, <3>4 DEF ThreadInv, Stack, Placed
    <3>6. thread'[c] = thread[c]
      BY <1>5, <3>4, <3>5 DEF Deletes
    <3>. QED  BY <3>1, <3>3, <3>4, <3>6
  <2>. QED  BY <2>1, <2>2 DEF Joined
<1>13. Runs'
  <2>1. running' # None => running' = running /\ running \in Threads /\ thread'[running] = thread[running]
    <3>1. running' # None => running' = running /\ running \in Threads
      BY <1>3 DEF Deletes, Ids
    <3>. QED  BY <3>1 DEF Deletes
  <2>. QED  BY <1>1, <1>5, <2>1 DEF ThreadInv, Runs, Deletes, disable, Held
<1>14. Disables'
  BY <1>1 DEF Disables, disable, Deletes
<1>15. fault' = "none"
  BY DEF Deletes, ThreadInv
<1>. QED  BY <1>4, <1>8, <1>9, <1>10, <1>11, <1>12, <1>13, <1>14, <1>15 DEF ThreadInv

\* A deleted thread is of the right type.
LEMMA DeletedType ==
    Deleted \in Vthread /\ Deleted.life = "freed"
<1>1. 0 \in 0..(FORK_COUNTS - 1)
  BY ProgramsAssumption
<1>. QED  BY <1>1 DEF Deleted, NewThread, Vthread, Scopes

\* The threads of the deletion events are deleted when the step is over.
LEMMA DeleteThreadsKeeps ==
    ASSUME ThreadInv, DeleteThreads
    PROVE  ThreadInv'
<1>1. del_thr \in SUBSET Threads /\ thread \in [Threads -> Vthread]
  BY DEF ThreadInv, Typed
<1>2. thread' = [u \in Threads |-> IF u \in del_thr THEN Deleted ELSE thread[u]]
  BY DEF DeleteThreads
<1>3. thread' \in [Threads -> Vthread] /\ \A u \in Threads : u \in del_thr => thread'[u].life = "freed"
  BY <1>1, <1>2, DeletedType
<1>4. \A u \in del_thr : Live(u) /\ ~Unreaped(u) /\ ~Held(u)
  BY DEF ThreadInv, Reaps, Held
<1>5. fault' = fault
  BY <1>4 DEF DeleteThreads, Checked, Freed, Live
<1>6. \A u \in Threads : Live(u) /\ ~Unreaped(u) /\ u \notin del_thr => Held(u) \/ u = running
  BY DEF ThreadInv, Reaps, Remains, Held
<1>7. running = None /\ target = NoScope /\ del_thr' = {} /\ running' = running
      /\ UNCHANGED <<program, links, active, delayed, waiting_list, rest, disable>>
  BY DEF DeleteThreads, TimeStepOver, Executes, Quiet
<1>8. running' \notin del_thr \cup del_thr'
  BY <1>1, <1>7 DEF Threads, None
<1>9. Deletes(del_thr)
  BY <1>2, <1>3, <1>4, <1>5, <1>6, <1>7, <1>8 DEF Deletes
<1>. QED  BY <1>1, <1>3, <1>7, <1>9, DeletesKeeps

\* What is left of a thread that was turned off is run, and deletes it if it can.
LEMMA ZombieKeeps ==
    ASSUME ThreadInv, NEW t, t = running, of_ZOMBIE(t)
    PROVE  ThreadInv'
<1>1. t \in Threads /\ thread[t].off /\ target = NoScope /\ t # None
  BY DEF of_ZOMBIE, Executes, Quiet, ThreadInv, Typed, Ids
<1>2. Live(t) /\ ~Held(t) /\ thread[t].i_have_ended
  BY <1>1 DEF ThreadInv, Runs, Reaps
<1>3. ~Orphan(t) => Unreaped(t)
  BY <1>1, <1>2 DEF Orphan, ThreadInv, Reaps, Remains
<1>4. Orphan(t) => ~Unreaped(t)
  BY <1>2 DEF Orphan, Unreaped
<1>. DEFINE D == IF Orphan(t) /\ ~thread[t].delay_delete THEN {t} ELSE {}
<1>5. D \in SUBSET Threads
  BY <1>1
<1>6. /\ thread' = IF Orphan(t) /\ ~thread[t].delay_delete
                   THEN [thread EXCEPT ![t] = Deleted] ELSE thread
      /\ del_thr' = IF Orphan(t) /\ thread[t].delay_delete THEN del_thr \cup {t} ELSE del_thr
      /\ running' = None
      /\ UNCHANGED <<program, links, active, delayed, waiting_list, rest, disable, fault>>
  BY DEF of_ZOMBIE
<1>7. thread \in [Threads -> Vthread] /\ del_thr \subseteq Threads
  BY DEF ThreadInv, Typed
<1>8. /\ thread' \in [Threads -> Vthread] /\ del_thr' \subseteq Threads
      /\ \A u \in Threads : u \in D => thread'[u].life = "freed"
      /\ \A u \in Threads : u \notin D => thread'[u] = thread[u]
  BY <1>1, <1>6, <1>7, DeletedType
<1>9. \A u \in D : Live(u) /\ ~Unreaped(u) /\ ~Held(u)
  BY <1>2, <1>4
<1>10. \A u \in Threads : Live(u) /\ ~Unreaped(u) /\ u \notin D =>
          Held(u) \/ u \in del_thr' \/ u = running'
  <2>1. ASSUME NEW u \in Threads, Live(u), ~Unreaped(u), u # t PROVE Held(u) \/ u \in del_thr
    BY <2>1 DEF ThreadInv, Reaps, Remains, Held
  <2>2. ~Unreaped(t) /\ t \notin D => t \in del_thr'
    BY <1>3, <1>6
  <2>. QED  BY <1>6, <2>1, <2>2
<1>11. \A u \in del_thr' : Live(u) /\ ~Unreaped(u) /\ ~Held(u) /\ u \notin D
  <2>1. \A u \in del_thr : Live(u) /\ ~Unreaped(u) /\ ~Held(u) /\ u # t
    BY <1>1 DEF ThreadInv, Reaps, Held, Runs
  <2>2. CASE Orphan(t) /\ thread[t].delay_delete
    BY <1>2, <1>4, <1>6, <2>1, <2>2
  <2>3. CASE ~(Orphan(t) /\ thread[t].delay_delete)
    BY <1>6, <2>1, <2>3
  <2>. QED  BY <2>2, <2>3
<1>12. running' \notin D \cup del_thr'
  BY <1>1, <1>6, <1>8 DEF Threads, None
<1>. HIDE DEF D
<1>13. Deletes(D)
  BY <1>1, <1>6, <1>8, <1>9, <1>10, <1>11, <1>12 DEF Deletes
<1>. QED  BY <1>5, <1>8, <1>13, DeletesKeeps

-----------------------------------------------------------------------------
(* The running thread sleeps, waits or ends.                               *)

\* Only flags change.
SameBodies ==
    \A u \in Threads :
        /\ thread'[u].life = thread[u].life /\ thread'[u].fork_count = thread[u].fork_count
        /\ thread'[u].child = thread[u].child /\ thread'[u].parent = thread[u].parent
        /\ thread'[u].scope = thread[u].scope /\ thread'[u].forker = thread[u].forker
        /\ thread'[u].line = thread[u].line

\* t, which was running, is scheduled, waits for an event or for its last child,
\* or stays as a zombie for its parent.
Paused(t) ==
    /\ Program(t) /\ running = t /\ running' = None
    /\ UNCHANGED <<program, links, del_thr, disable>> /\ SameBodies
    /\ \A u \in Threads : u # t => /\ thread'[u].off = thread[u].off
                                   /\ thread'[u].i_have_ended = thread[u].i_have_ended
                                   /\ Held(u)' <=> Held(u)
    /\ \A u \in Threads : thread[u].schedule_parent_on_end => thread'[u].schedule_parent_on_end
    /\ \A u \in Threads : thread'[u].schedule_parent_on_end /\ ~thread[u].schedule_parent_on_end =>
          /\ u \in Children(t) /\ u = thread[t].child
          /\ ~thread[u].i_have_ended /\ ~Held(t)' /\ ~thread'[t].i_have_ended
    /\ thread'[t].off = thread'[t].i_have_ended
    /\ thread'[t].i_have_ended =>
          Children(t) = {} /\ thread[t].parent # None /\ ~thread[t].schedule_parent_on_end
    /\ \/ Held(t)' \/ thread'[t].i_have_ended
       \/ Children(t) # {} /\ thread'[thread[t].child].schedule_parent_on_end

\* The running thread, when the program goes on.
LEMMA RunningThread ==
    ASSUME ThreadInv, NEW t, t = running, Program(t)
    PROVE  /\ t \in Threads /\ t # None /\ Live(t) /\ ~Held(t) /\ Unreaped(t)
           /\ ~thread[t].off /\ ~thread[t].i_have_ended
           /\ target = NoScope /\ disabling = <<>> /\ ~myself /\ t \notin del_thr
           /\ \A u : ~Entered(u)
<1>1. t \in Threads /\ t # None /\ target = NoScope /\ ~thread[t].off
  BY DEF Program, Executes, Quiet, ThreadInv, Typed, Ids
<1>2. Live(t) /\ ~Held(t) /\ disabling = <<>> /\ ~myself /\ t \notin del_thr
  BY <1>1 DEF ThreadInv, Runs
<1>3. ~thread[t].i_have_ended
  BY <1>1, <1>2 DEF ThreadInv, Reaps
<1>. QED  BY <1>1, <1>2, <1>3 DEF Unreaped, Entered, In

\* The running thread stops, held by a queue, an event or a %join.
LEMMA PausedKeeps ==
    ASSUME ThreadInv, NEW t, Paused(t), Typed', Queued', Flagged', fault' = "none"
    PROVE  ThreadInv'
<1>1. /\ t \in Threads /\ t # None /\ Live(t) /\ ~Held(t) /\ Unreaped(t)
      /\ ~thread[t].off /\ ~thread[t].i_have_ended
      /\ target = NoScope /\ disabling = <<>> /\ ~myself /\ t \notin del_thr
      /\ \A u : ~Entered(u)
  BY RunningThread DEF Paused
<1>2. UNCHANGED <<program, links, del_thr, target, disabling, myself>>
  BY DEF Paused, disable
<1>3. ASSUME NEW u \in Threads PROVE (Live(u)' <=> Live(u)) /\ (Unreaped(u)' <=> Unreaped(u))
  <2>1. /\ thread'[u].life = thread[u].life /\ thread'[u].parent = thread[u].parent
        /\ u # t => thread'[u].i_have_ended = thread[u].i_have_ended
    BY DEF Paused, SameBodies
  <2>2. thread'[t].i_have_ended => thread[t].parent # None
    BY DEF Paused
  <2>. QED  BY <1>1, <2>1, <2>2 DEF Live, Unreaped
<1>4. Standing
  <2>1. SameStack
    BY <1>3 DEF SameStack, Paused, SameBodies, Keeps
  <2>2. \A u : Entered(u)' <=> Entered(u)
    BY <1>2 DEF Entered
  <2>. QED  BY <1>1, <2>1, <2>2 DEF Standing, Paused
<1>5. Family' /\ Stack' /\ Rings'
  BY <1>4, StandingKeeps DEF ThreadInv
<1>6. InOrder'
  BY OrderKept DEF ThreadInv, Paused, SameBodies
<1>7. Reaps'
  <2>1. \A u \in Threads : Live(u)' => thread'[u].off = thread'[u].i_have_ended
    BY <1>3 DEF Paused, ThreadInv, Reaps
  <2>2. ASSUME NEW u \in Threads, Live(u)', ~Unreaped(u)' PROVE Remains(u)'
    <3>1. Live(u) /\ ~Unreaped(u) /\ u # t
      BY <1>1, <1>3, <2>2
    <3>2. Remains(u) /\ running = t
      BY <3>1 DEF ThreadInv, Reaps, Paused
    <3>3. thread'[u].i_have_ended /\ (Held(u) => Held(u)')
      BY <3>1, <3>2 DEF Paused, Remains
    <3>. QED  BY <1>2, <3>1, <3>2, <3>3 DEF Remains, Held, Paused, SameBodies
  <2>3. ASSUME NEW u \in del_thr'
        PROVE  Live(u)' /\ ~Unreaped(u)' /\ ~thread'[u].is_scheduled /\ ~thread'[u].waiting_for_event
    <3>1. u \in Threads /\ u # t /\ Live(u) /\ ~Unreaped(u) /\ ~Held(u)
      BY <1>1, <1>2 DEF ThreadInv, Typed, Reaps, Held
    <3>2. ~Held(u)'
      BY <3>1 DEF Paused
    <3>. QED  BY <1>3, <3>1, <3>2 DEF Held
  <2>. QED  BY <2>1, <2>2, <2>3 DEF Reaps
<1>8. Joined'
  <2>1. ASSUME NEW c \in Threads, Unreaped(c)', thread'[c].schedule_parent_on_end,
               NEW p, p = thread'[c].parent
        PROVE  Joins(c, p)'
    <3>1. Unreaped(c) /\ p = thread[c].parent /\ thread'[c].forker = thread[c].forker
      BY <1>3, <2>1 DEF Paused, SameBodies
    <3>2. CASE thread[c].schedule_parent_on_end
      <4>1. Joins(c, p) /\ p \in Ids
        BY <2>1, <3>1, <3>2, FieldTypes DEF ThreadInv, Joined
      <4>2. p # t /\ p \in Threads
        BY <1>1, <4>1 DEF Joins, Paused, Ids
      <4>3. ~thread[p].i_have_ended /\ ~Held(p) /\ ~thread[c].i_have_ended
        BY <1>1, <4>1 DEF Joins
      <4>4. ~thread'[p].i_have_ended /\ ~Held(p)' /\ ~thread'[c].i_have_ended
        BY <3>2, <4>2, <4>3 DEF Paused
      <4>5. running' # p
        BY <4>2 DEF Paused, Threads, None
      <4>. QED  BY <3>1, <4>1, <4>4, <4>5 DEF Joins
    <3>3. CASE ~thread[c].schedule_parent_on_end
      <4>1. /\ c \in Children(t) /\ c = thread[t].child
            /\ ~thread[c].i_have_ended /\ ~Held(t)' /\ ~thread'[t].i_have_ended
        BY <2>1, <3>3 DEF Paused
      <4>2. thread[c].forker = t /\ thread[c].parent # None
        BY <4>1 DEF Children
      <4>3. p = t
        BY <1>1, <3>1, <4>1, <4>2 DEF ThreadInv, Stack, Placed, Threads, None
      <4>4. c # t
        <5>1. t # None => ~(thread[t].forker = t)
          BY <1>1 DEF ThreadInv, Family, Kin, Threads
        <5>. QED  BY <1>1, <4>2, <5>1
      <4>5. ~thread'[c].i_have_ended
        BY <4>1, <4>4 DEF Paused
      <4>. QED  BY <1>1, <3>1, <4>1, <4>2, <4>3, <4>5 DEF Joins, Paused
    <3>. QED  BY <3>2, <3>3
  <2>2. ASSUME NEW u \in Threads, Unreaped(u)', ~thread'[u].i_have_ended, running' # u, ~Held(u)'
        PROVE  thread'[u].child # None /\ thread'[thread'[u].child].schedule_parent_on_end
    <3>. PICK c \in Ids : c = thread[u].child
      BY FieldTypes DEF ThreadInv
    <3>1. thread'[u].child = c /\ Unreaped(u)
      BY <1>3, <2>2 DEF Paused, SameBodies
    <3>2. CASE u = t
      <4>1. Children(t) # {} /\ thread'[c].schedule_parent_on_end
        BY <2>2, <3>2 DEF Paused
      <4>2. c \in Children(t)
        BY <1>1, <3>2, <4>1 DEF ThreadInv, Stack, Placed
      <4>3. c # None
        BY <4>2 DEF Children, Threads, None
      <4>. QED  BY <3>1, <4>1, <4>3
    <3>3. CASE u # t
      <4>1. ~thread[u].i_have_ended /\ running # u /\ ~Held(u)
        BY <2>2, <3>3 DEF Paused
      <4>2. c # None /\ thread[c].schedule_parent_on_end /\ c \in Threads
        BY <3>1, <4>1, FieldTypes DEF ThreadInv, Joined
      <4>. QED  BY <3>1, <4>2 DEF Paused
    <3>. QED  BY <3>2, <3>3
  <2>. QED  BY <2>1, <2>2 DEF Joined
<1>9. Runs'
  <2>1. None \notin del_thr
    BY DEF ThreadInv, Typed, Threads, None
  <2>. QED  BY <1>1, <1>2, <2>1 DEF Paused, Runs
<1>10. Disables'
  BY <1>1, <1>2 DEF Disables
<1>. QED  BY <1>5, <1>6, <1>7, <1>8, <1>9, <1>10 DEF ThreadInv

\* The thread on top of one that has forked some was forked by it.
LEMMA OnTop ==
    ASSUME ThreadInv, NEW t \in Threads, Unreaped(t), Children(t) # {}, NEW c, c = thread[t].child
    PROVE  /\ c \in Children(t) /\ c \in Threads /\ Unreaped(c) /\ c # t /\ c # None
           /\ thread[c].parent = t /\ thread[c].forker = t
           /\ \A u \in Children(t) : u <= c
           /\ thread[t].fork_count \in Nat /\ thread[t].fork_count > 0
<1>1. t # None
  BY DEF Threads, None
<1>2. c \in Children(t) /\ (\A u \in Children(t) : u <= c)
      /\ thread[t].fork_count = Cardinality(Children(t))
  BY DEF ThreadInv, Stack, Placed
<1>3. c \in Threads /\ Unreaped(c) /\ thread[c].forker = t /\ c # None
  BY <1>2 DEF Children, Unreaped, Threads, None
<1>4. thread[c].parent = t
  BY <1>2, <1>3 DEF ThreadInv, Stack, Placed
<1>5. t < c
  BY <1>1, <1>3 DEF ThreadInv, Family, Kin
<1>6. Cardinality(Children(t)) \in Nat /\ Cardinality(Children(t)) # 0
  BY <1>2, ChildrenFinite, FS_EmptySet
<1>. QED  BY <1>2, <1>3, <1>4, <1>5, <1>6 DEF Threads

\* No flag of the queues changes.
LEMMA HeldKept ==
    ASSUME ThreadInv, program' = program, UNCHANGED <<active, delayed, waiting_list, rest>>,
           \A u \in Threads : /\ thread'[u].life = thread[u].life
                              /\ thread'[u].is_scheduled = thread[u].is_scheduled
                              /\ thread'[u].waiting_for_event = thread[u].waiting_for_event
    PROVE  Queued' /\ Flagged' /\ \A u \in Threads : Held(u)' <=> Held(u)
<1>1. SameQueues
  BY DEF SameQueues, Live
<1>. QED  BY <1>1, QueuesKept DEF ThreadInv, Held

\* The types that depend on the program.
LEMMA SameProgram ==
    ASSUME program' = program
    PROVE  P' = P /\ Scopes' = Scopes /\ Vthread' = Vthread /\ Cells' = Cells
  BY DEF P, Scopes, Vthread, Cells

JoinWaits(t) ==
    LET c == thread[t].child IN
      /\ Program(t) /\ Children(t) # {}
      /\ ~thread[c].i_have_ended
      /\ thread' = [thread EXCEPT ![c].schedule_parent_on_end = TRUE]
      /\ running' = None
      /\ Checked({c}, thread[c].parent = t /\ thread[t].fork_count > 0)
      /\ UNCHANGED <<links, del_thr>>
      /\ UNCHANGED <<program, active, delayed, waiting_list, rest, disable>>

\* A %join of a child that has not ended waits for it.
LEMMA JoinWaitsKeeps ==
    ASSUME ThreadInv, NEW t, t = running, JoinWaits(t)
    PROVE  ThreadInv'
<1>1. /\ t \in Threads /\ t # None /\ Live(t) /\ ~Held(t) /\ Unreaped(t)
      /\ ~thread[t].off /\ ~thread[t].i_have_ended
  BY RunningThread DEF JoinWaits
<1>. DEFINE c == thread[t].child
<1>2. /\ c \in Children(t) /\ c \in Threads /\ Unreaped(c) /\ c # t /\ c # None
      /\ thread[c].parent = t /\ thread[c].forker = t
      /\ thread[t].fork_count > 0
  BY <1>1, OnTop DEF JoinWaits
<1>. HIDE DEF c
<1>3. thread' = [thread EXCEPT ![c].schedule_parent_on_end = TRUE]
      /\ running' = None /\ Program(t) /\ ~thread[c].i_have_ended
  BY DEF JoinWaits, c
<1>4. thread \in [Threads -> Vthread]
  BY DEF ThreadInv, Typed
<1>5. thread' \in [Threads -> Vthread]
  <2>1. [thread[c] EXCEPT !.schedule_parent_on_end = TRUE] \in Vthread
    <3>1. thread[c] \in Vthread
      BY <1>2, <1>4
    <3>. QED  BY <3>1 DEF Vthread
  <2>. QED  BY <1>3, <1>4, <2>1
<1>6. /\ \A u \in Threads : u # c => thread'[u] = thread[u]
      /\ thread'[c] = [thread[c] EXCEPT !.schedule_parent_on_end = TRUE]
  BY <1>2, <1>3, <1>4
<1>7. \A u \in Threads : /\ thread'[u].off = thread[u].off
                         /\ thread'[u].i_have_ended = thread[u].i_have_ended
                         /\ thread'[u].is_scheduled = thread[u].is_scheduled
                         /\ thread'[u].waiting_for_event = thread[u].waiting_for_event
  BY <1>2, <1>4, <1>6 DEF Vthread
<1>8. SameBodies
  BY <1>2, <1>4, <1>6 DEF Vthread, SameBodies
<1>9. Typed'
  BY <1>3, <1>5, SameProgram DEF JoinWaits, ThreadInv, Typed, links, disable, Ids
<1>10. Queued' /\ Flagged' /\ \A u \in Threads : Held(u)' <=> Held(u)
  BY <1>7, <1>8, HeldKept DEF SameBodies, JoinWaits
<1>11. thread'[c].schedule_parent_on_end
       /\ \A u \in Threads : u # c => thread'[u].schedule_parent_on_end = thread[u].schedule_parent_on_end
  BY <1>2, <1>4, <1>6 DEF Vthread
<1>12. Paused(t)
  <2>1. ~Held(t)' /\ ~thread'[t].i_have_ended /\ ~thread'[t].off
    BY <1>1, <1>7, <1>10
  <2>2. c = thread[t].child
    BY DEF c
  <2>3. UNCHANGED <<program, links, del_thr, disable>>
    BY DEF JoinWaits
  <2>4. \A u \in Threads : thread[u].schedule_parent_on_end => thread'[u].schedule_parent_on_end
    BY <1>11
  <2>5. \A u \in Threads : thread'[u].schedule_parent_on_end /\ ~thread[u].schedule_parent_on_end =>
          /\ u \in Children(t) /\ u = thread[t].child
          /\ ~thread[u].i_have_ended /\ ~Held(t)' /\ ~thread'[t].i_have_ended
    BY <1>2, <1>3, <1>11, <2>1, <2>2
  <2>6. \A u \in Threads : /\ thread'[u].off = thread[u].off
                           /\ thread'[u].i_have_ended = thread[u].i_have_ended
                           /\ Held(u)' <=> Held(u)
    BY <1>7, <1>10
  <2>7. Children(t) # {} /\ thread'[thread[t].child].schedule_parent_on_end
    BY <1>2, <1>11, <2>2
  <2>8. thread'[t].off = thread'[t].i_have_ended
    BY <1>1, <1>7 DEF ThreadInv, Reaps
  <2>. QED
    BY <1>3, <1>8, <2>1, <2>3, <2>4, <2>5, <2>6, <2>7, <2>8 DEF Paused
<1>13. fault' = "none"
  <2>1. Checked({c}, thread[c].parent = t /\ thread[t].fork_count > 0)
    BY DEF JoinWaits, c
  <2>. QED  BY <1>2, <2>1 DEF Checked, Freed, Unreaped, Live, ThreadInv
<1>. QED  BY <1>9, <1>10, <1>12, <1>13, PausedKeeps

\* The running thread stays as a zombie.
EndsAsZombie(t) ==
    /\ Program(t) /\ Children(t) = {}
    /\ ~thread[t].schedule_parent_on_end /\ thread[t].parent # None
    /\ thread' = [thread EXCEPT ![t].i_have_ended = TRUE, ![t].off = TRUE]
    /\ running' = None
    /\ UNCHANGED <<program, links, queues, rest, disable, fault>>

\* A thread ends and waits for the %join of its parent.
LEMMA EndsAsZombieKeeps ==
    ASSUME ThreadInv, NEW t, t = running, EndsAsZombie(t)
    PROVE  ThreadInv'
<1>1. t \in Threads /\ t # None /\ Live(t) /\ ~Held(t) /\ Unreaped(t)
  BY RunningThread DEF EndsAsZombie
<1>2. thread \in [Threads -> Vthread] /\ thread[t] \in Vthread
  BY <1>1 DEF ThreadInv, Typed
<1>3. thread' = [thread EXCEPT ![t] = [thread[t] EXCEPT !.i_have_ended = TRUE, !.off = TRUE]]
  BY <1>1, <1>2 DEF EndsAsZombie
<1>4. [thread[t] EXCEPT !.i_have_ended = TRUE, !.off = TRUE] \in Vthread
  BY <1>2 DEF Vthread
<1>5. /\ thread' \in [Threads -> Vthread]
      /\ \A u \in Threads : u # t => thread'[u] = thread[u]
      /\ thread'[t] = [thread[t] EXCEPT !.i_have_ended = TRUE, !.off = TRUE]
  BY <1>1, <1>2, <1>3, <1>4
<1>6. SameBodies
  <2>1. /\ thread'[t].life = thread[t].life /\ thread'[t].fork_count = thread[t].fork_count
        /\ thread'[t].child = thread[t].child /\ thread'[t].parent = thread[t].parent
        /\ thread'[t].scope = thread[t].scope /\ thread'[t].forker = thread[t].forker
        /\ thread'[t].line = thread[t].line
    BY <1>2, <1>5 DEF Vthread
  <2>. QED  BY <1>5, <2>1 DEF SameBodies
<1>7. /\ thread'[t].off /\ thread'[t].i_have_ended
      /\ thread'[t].is_scheduled = thread[t].is_scheduled
      /\ thread'[t].waiting_for_event = thread[t].waiting_for_event
      /\ thread'[t].schedule_parent_on_end = thread[t].schedule_parent_on_end
      /\ thread'[t].off = thread'[t].i_have_ended
  BY <1>2, <1>5 DEF Vthread
<1>8. Typed'
  BY <1>5, SameProgram DEF EndsAsZombie, ThreadInv, Typed, links, queues, disable, Ids
<1>9. Queued' /\ Flagged' /\ \A u \in Threads : Held(u)' <=> Held(u)
  BY <1>5, <1>6, <1>7, HeldKept DEF SameBodies, EndsAsZombie, queues
<1>10. Paused(t)
  <2>1. \A u \in Threads : u # t => /\ thread'[u].off = thread[u].off
                                    /\ thread'[u].i_have_ended = thread[u].i_have_ended
                                    /\ Held(u)' <=> Held(u)
    BY <1>5, <1>9
  <2>2. \A u \in Threads : thread'[u].schedule_parent_on_end = thread[u].schedule_parent_on_end
    BY <1>5, <1>7
  <2>. QED  BY <1>6, <1>7, <2>1, <2>2 DEF Paused, EndsAsZombie, queues
<1>. QED  BY <1>8, <1>9, <1>10, PausedKeeps DEF EndsAsZombie, ThreadInv

-----------------------------------------------------------------------------
(* Threads enter the queues.                                               *)

\* The chains, the rest of the one that runs and the delayed threads.
ChainsApart ==
    /\ \A i \in 1..Len(active) : active[i] # <<>>
    /\ \A i, j \in 1..Len(active) : \A k \in 1..Len(active[i]), l \in 1..Len(active[j]) :
          active[i][k] = active[j][l] => i = j /\ k = l
    /\ \A i, j \in 1..Len(rest) : rest[i] = rest[j] => i = j
    /\ \A t \in Threads : In(t, rest) => t \notin delayed /\ ~InChains(t)
    /\ \A t \in delayed : ~InChains(t)

EventsApart ==
    \A d, e \in P.events :
       \A k \in 1..Len(waiting_list[d]), l \in 1..Len(waiting_list[e]) :
          waiting_list[d][k] = waiting_list[e][l] => d = e /\ k = l

\* The chains and the lists of the events are told apart.
LEMMA QueuedParts == Queued <=> ChainsApart /\ EventsApart
  BY DEF Queued, ChainsApart, EventsApart

\* A sequence and one more.
LEMMA AppendOf ==
    ASSUME NEW S, NEW s \in Seq(S), NEW x \in S, NEW r, r = Append(s, x)
    PROVE  /\ r \in Seq(S) /\ Len(s) \in Nat /\ Len(r) = Len(s) + 1
           /\ \A i \in 1..Len(r) : \/ i \in 1..Len(s) /\ r[i] = s[i]
                                   \/ i = Len(s) + 1 /\ r[i] = x
           /\ \A i \in 1..Len(s) : i \in 1..Len(r) /\ r[i] = s[i]
           /\ Len(r) \in 1..Len(r) /\ r[Len(r)] = x
  OBVIOUS

\* What a sequence holds that has one more in front.
LEMMA PrependOf ==
    ASSUME NEW S, NEW s \in Seq(S), NEW x \in S, NEW r, r = <<x>> \o s
    PROVE  /\ r \in Seq(S) /\ Len(s) \in Nat /\ Len(r) = Len(s) + 1
           /\ 1 \in 1..Len(r) /\ r[1] = x
           /\ \A i \in 1..Len(r) : i = 1 \/ (i - 1 \in 1..Len(s) /\ r[i] = s[i - 1])
           /\ \A i \in 1..Len(s) : i + 1 \in 1..Len(r) /\ r[i + 1] = s[i]
           /\ \A y : In(y, r) <=> y = x \/ In(y, s)
<1>1. <<x>> \in Seq(S) /\ Len(<<x>>) = 1 /\ <<x>>[1] = x /\ Len(s) \in Nat
  OBVIOUS
<1>2. r \in Seq(S) /\ Len(r) = 1 + Len(s)
      /\ \A i \in 1..(1 + Len(s)) : r[i] = IF i <= 1 THEN <<x>>[i] ELSE s[i - 1]
  BY <1>1, ConcatProperties
<1>3. /\ 1 \in 1..Len(r) /\ r[1] = x
      /\ \A i \in 1..Len(r) : i = 1 \/ (i - 1 \in 1..Len(s) /\ r[i] = s[i - 1])
  BY <1>1, <1>2
<1>4. ASSUME NEW i \in 1..Len(s) PROVE i + 1 \in 1..Len(r) /\ r[i + 1] = s[i]
  <2>1. i + 1 \in 1..(1 + Len(s)) /\ ~(i + 1 <= 1) /\ (i + 1) - 1 = i
    BY <1>1
  <2>. QED  BY <1>2, <2>1
<1>5. ASSUME NEW y, In(y, r) PROVE y = x \/ In(y, s)
  BY <1>3, <1>5 DEF In
<1>6. ASSUME NEW y, y = x \/ In(y, s) PROVE In(y, r)
  BY <1>3, <1>4, <1>6 DEF In
<1>. QED  BY <1>1, <1>2, <1>3, <1>4, <1>5, <1>6

\* A chain of threads that are not scheduled is put at the end.
LEMMA ChainAppended ==
    ASSUME active \in Seq(Seq(Threads)), ChainsApart, NEW q \in Seq(Threads), q # <<>>,
           \A k, l \in 1..Len(q) : q[k] = q[l] => k = l,
           \A u \in Threads : In(u, q) => ~Scheduled(u),
           active' = Append(active, q), UNCHANGED <<rest, delayed>>, delayed \subseteq Threads
    PROVE  /\ active' \in Seq(Seq(Threads)) /\ ChainsApart'
           /\ \A u \in Threads : Scheduled(u)' <=> Scheduled(u) \/ In(u, q)
<1>. DEFINE n == Len(active)
<1>1. /\ active' \in Seq(Seq(Threads)) /\ n \in Nat /\ Len(active') = n + 1
      /\ \A i \in 1..Len(active') : \/ i \in 1..n /\ active'[i] = active[i]
                                    \/ i = n + 1 /\ active'[i] = q
      /\ \A i \in 1..n : i \in 1..Len(active') /\ active'[i] = active[i]
      /\ n + 1 \in 1..Len(active') /\ active'[n + 1] = q
  BY AppendOf
<1>. HIDE DEF n
<1>2. \A u \in Threads : In(u, q) => ~InChains(u)
  BY DEF Scheduled
<1>3. ASSUME NEW u PROVE InChains(u)' <=> InChains(u) \/ In(u, q)
  <2>1. InChains(u)' <=> \E i \in 1..Len(active') : In(u, active'[i])
    BY DEF InChains
  <2>2. InChains(u) <=> \E i \in 1..n : In(u, active[i])
    BY DEF InChains, n
  <2>. QED  BY <1>1, <2>1, <2>2
<1>4. \A i \in 1..n : \A k \in 1..Len(active[i]), l \in 1..Len(q) : active[i][k] # q[l]
  <2>. SUFFICES ASSUME NEW i \in 1..n, NEW k \in 1..Len(active[i]), NEW l \in 1..Len(q),
                       active[i][k] = q[l]
                PROVE  FALSE
    OBVIOUS
  <2>1. q[l] \in Threads /\ In(q[l], q)
    BY DEF In
  <2>2. InChains(q[l])
    BY DEF InChains, In, n
  <2>. QED  BY <1>2, <2>1, <2>2
<1>5. ASSUME NEW i \in 1..Len(active'), NEW j \in 1..Len(active'),
             NEW k \in 1..Len(active'[i]), NEW l \in 1..Len(active'[j]),
             active'[i][k] = active'[j][l]
      PROVE  i = j /\ k = l
  <2>1. CASE i \in 1..n /\ active'[i] = active[i] /\ j \in 1..n /\ active'[j] = active[j]
    BY <1>5, <2>1 DEF ChainsApart, n
  <2>2. CASE i \in 1..n /\ active'[i] = active[i] /\ j = n + 1 /\ active'[j] = q
    BY <1>4, <1>5, <2>2
  <2>3. CASE i = n + 1 /\ active'[i] = q /\ j \in 1..n /\ active'[j] = active[j]
    BY <1>4, <1>5, <2>3
  <2>4. CASE i = n + 1 /\ active'[i] = q /\ j = n + 1 /\ active'[j] = q
    BY <1>5, <2>4
  <2>. QED  BY <1>1, <2>1, <2>2, <2>3, <2>4
<1>6. ChainsApart'
  <2>1. \A i \in 1..Len(active') : active'[i] # <<>>
    BY <1>1 DEF ChainsApart, n
  <2>2. \A u \in Threads : In(u, rest)' => u \notin delayed' /\ ~InChains(u)'
    BY <1>3 DEF ChainsApart, Scheduled
  <2>3. \A u \in delayed' : ~InChains(u)'
    BY <1>3 DEF ChainsApart, Scheduled
  <2>. QED  BY <1>5, <2>1, <2>2, <2>3 DEF ChainsApart
<1>. QED  BY <1>1, <1>3, <1>6 DEF Scheduled

\* A thread that is not scheduled is put in front.
LEMMA Pushed ==
    ASSUME active \in Seq(Seq(Threads)), ChainsApart, NEW t \in Threads, ~Scheduled(t),
           Push(t), UNCHANGED <<rest, delayed>>, delayed \subseteq Threads
    PROVE  /\ active' \in Seq(Seq(Threads)) /\ ChainsApart'
           /\ \A u \in Threads : Scheduled(u)' <=> Scheduled(u) \/ u = t
<1>. DEFINE n == Len(active)
            q == <<t>>
<1>0. q \in Seq(Threads) /\ Len(q) = 1 /\ q[1] = t /\ q # <<>> /\ \A u : In(u, q) <=> u = t
  BY DEF In
<1>. HIDE DEF q
<1>1. active' = <<q>> \o active
  BY DEF Push, q
<1>2. /\ active' \in Seq(Seq(Threads)) /\ n \in Nat /\ Len(active') = n + 1
      /\ 1 \in 1..Len(active') /\ active'[1] = q
      /\ \A i \in 1..Len(active') : i = 1 \/ (i - 1 \in 1..n /\ active'[i] = active[i - 1])
      /\ \A i \in 1..n : i + 1 \in 1..Len(active') /\ active'[i + 1] = active[i]
  BY <1>0, <1>1, PrependOf
<1>. HIDE DEF n
<1>3. ~InChains(t)
  BY DEF Scheduled
<1>4. ASSUME NEW u PROVE InChains(u)' <=> InChains(u) \/ u = t
  <2>1. InChains(u)' <=> \E i \in 1..Len(active') : In(u, active'[i])
    BY DEF InChains
  <2>2. InChains(u) <=> \E i \in 1..n : In(u, active[i])
    BY DEF InChains, n
  <2>. QED  BY <1>0, <1>2, <2>1, <2>2
<1>5. \A i \in 1..n : \A k \in 1..Len(active[i]) : active[i][k] # t
  BY <1>3 DEF InChains, In, n
<1>6. ASSUME NEW i \in 1..Len(active'), NEW j \in 1..Len(active'),
             NEW k \in 1..Len(active'[i]), NEW l \in 1..Len(active'[j]),
             active'[i][k] = active'[j][l]
      PROVE  i = j /\ k = l
  <2>1. CASE i = 1 /\ active'[i] = q /\ j = 1 /\ active'[j] = q
    <3>1. k \in 1..1 /\ l \in 1..1
      BY <1>0, <2>1
    <3>. QED  BY <2>1, <3>1
  <2>2. ASSUME active'[i] = q, j # 1 PROVE FALSE
    <3>1. k \in 1..1 /\ j - 1 \in 1..n /\ active'[j] = active[j - 1]
      BY <1>0, <1>2, <2>2
    <3>2. active'[i][k] = t
      BY <1>0, <2>2, <3>1
    <3>. QED  BY <1>5, <1>6, <3>1, <3>2
  <2>3. ASSUME i # 1, active'[j] = q PROVE FALSE
    <3>1. l \in 1..1 /\ i - 1 \in 1..n /\ active'[i] = active[i - 1]
      BY <1>0, <1>2, <2>3
    <3>2. active'[j][l] = t
      BY <1>0, <2>3, <3>1
    <3>. QED  BY <1>5, <1>6, <3>1, <3>2
  <2>4. CASE i # 1 /\ j # 1
    <3>1. PICK a \in 1..n : a = i - 1 /\ active'[i] = active[a]
      BY <1>2, <2>4
    <3>2. PICK b \in 1..n : b = j - 1 /\ active'[j] = active[b]
      BY <1>2, <2>4
    <3>3. k \in 1..Len(active[a]) /\ l \in 1..Len(active[b]) /\ active[a][k] = active[b][l]
      BY <1>6, <3>1, <3>2
    <3>4. a = b /\ k = l
      BY <3>3 DEF ChainsApart, n
    <3>. QED  BY <3>1, <3>2, <3>4
  <2>. QED  BY <1>2, <2>1, <2>2, <2>3, <2>4
<1>7. ChainsApart'
  <2>1. ASSUME NEW i \in 1..Len(active') PROVE active'[i] # <<>>
    <3>1. i - 1 \in 1..n => active[i - 1] # <<>>
      BY DEF ChainsApart, n
    <3>. QED  BY <1>0, <1>2, <3>1
  <2>2. \A u \in Threads : In(u, rest)' => u \notin delayed' /\ ~InChains(u)'
    BY <1>4 DEF ChainsApart, Scheduled
  <2>3. \A u \in delayed' : ~InChains(u)'
    BY <1>4 DEF ChainsApart, Scheduled
  <2>. QED  BY <1>6, <2>1, <2>2, <2>3 DEF ChainsApart
<1>. QED  BY <1>2, <1>4, <1>7 DEF Scheduled

\* A thread that sleeps is in a queue.
LEMMA DelayKeeps ==
    ASSUME ThreadInv, NEW t, t = running, of_DELAY(t)
    PROVE  ThreadInv'
<1>1. t \in Threads /\ t # None /\ Live(t) /\ ~Held(t) /\ Unreaped(t) /\ ~thread[t].off
      /\ ~thread[t].i_have_ended
  BY RunningThread DEF of_DELAY
<1>2. thread \in [Threads -> Vthread] /\ thread[t] \in Vthread
  BY <1>1 DEF ThreadInv, Typed
<1>3. [thread[t] EXCEPT !.is_scheduled = TRUE] \in Vthread
  BY <1>2 DEF Vthread
<1>4. /\ thread' \in [Threads -> Vthread]
      /\ \A u \in Threads : u # t => thread'[u] = thread[u]
      /\ thread'[t] = [thread[t] EXCEPT !.is_scheduled = TRUE]
  BY <1>1, <1>2, <1>3 DEF of_DELAY
<1>5. /\ thread'[t].life = thread[t].life /\ thread'[t].fork_count = thread[t].fork_count
      /\ thread'[t].child = thread[t].child /\ thread'[t].parent = thread[t].parent
      /\ thread'[t].scope = thread[t].scope /\ thread'[t].forker = thread[t].forker
      /\ thread'[t].line = thread[t].line /\ thread'[t].off = thread[t].off
      /\ thread'[t].i_have_ended = thread[t].i_have_ended
      /\ thread'[t].is_scheduled /\ thread'[t].waiting_for_event = thread[t].waiting_for_event
      /\ thread'[t].schedule_parent_on_end = thread[t].schedule_parent_on_end
  BY <1>2, <1>4 DEF Vthread
<1>6. SameBodies
  BY <1>4, <1>5 DEF SameBodies
<1>7. ~Scheduled(t) /\ ~Waiting(t)
  BY <1>1 DEF ThreadInv, Flagged, Held
<1>8. active \in Seq(Seq(Threads)) /\ rest \in Seq(Threads) /\ delayed \subseteq Threads /\ ChainsApart
  BY QueuedParts DEF ThreadInv, Typed
<1>9. UNCHANGED <<program, links, del_thr, waiting_list, rest, disable>> /\ running' = None /\ Program(t)
      /\ Checked({}, ~thread[t].is_scheduled)
  BY DEF of_DELAY
<1>10. /\ active' \in Seq(Seq(Threads)) /\ delayed' \subseteq Threads /\ ChainsApart'
       /\ \A u \in Threads : Scheduled(u)' <=> Scheduled(u) \/ u = t
  <2>1. CASE delayed' = delayed \cup {t} /\ UNCHANGED active
    <3>1. \A u : InChains(u)' <=> InChains(u)
      BY <2>1 DEF InChains
    <3>2. ~InChains(t) /\ ~In(t, rest)
      BY <1>7 DEF Scheduled
    <3>3. ChainsApart'
      BY <1>8, <1>9, <2>1, <3>1, <3>2 DEF ChainsApart
    <3>. QED  BY <1>1, <1>8, <1>9, <2>1, <3>1, <3>3 DEF Scheduled
  <2>2. CASE active' = Append(active, <<t>>) /\ UNCHANGED delayed
    <3>. DEFINE q == <<t>>
    <3>1. /\ q \in Seq(Threads) /\ q # <<>> /\ \A k, l \in 1..Len(q) : q[k] = q[l] => k = l
          /\ \A u \in Threads : In(u, q) <=> u = t
      BY <1>1 DEF In
    <3>2. active' = Append(active, q)
      BY <2>2
    <3>. HIDE DEF q
    <3>. QED  BY <1>7, <1>8, <1>9, <2>2, <3>1, <3>2, ChainAppended
  <2>. QED  BY <2>1, <2>2 DEF of_DELAY
<1>11. Typed'
  BY <1>4, <1>9, <1>10, SameProgram DEF ThreadInv, Typed, links, disable, Ids
<1>12. Queued'
  <2>1. EventsApart'
    BY <1>9, QueuedParts, SameProgram DEF ThreadInv, EventsApart
  <2>. QED  BY <1>10, <2>1, QueuedParts DEF Queued, ChainsApart, EventsApart
<1>13. Flagged'
  <2>1. \A u \in Threads : Waiting(u)' <=> Waiting(u)
    BY <1>9, SameProgram DEF Waiting
  <2>. QED  BY <1>1, <1>4, <1>5, <1>7, <1>10, <2>1 DEF ThreadInv, Flagged, Live
<1>14. Paused(t)
  <2>1. Held(t)'
    BY <1>5 DEF Held
  <2>2. \A u \in Threads : u # t => /\ thread'[u].off = thread[u].off
                                    /\ thread'[u].i_have_ended = thread[u].i_have_ended
                                    /\ Held(u)' <=> Held(u)
    BY <1>4 DEF Held
  <2>3. \A u \in Threads : thread'[u].schedule_parent_on_end = thread[u].schedule_parent_on_end
    BY <1>4, <1>5
  <2>4. thread'[t].off = thread'[t].i_have_ended /\ ~thread'[t].i_have_ended
    BY <1>1, <1>5 DEF ThreadInv, Reaps
  <2>. QED  BY <1>6, <1>9, <2>1, <2>2, <2>3, <2>4 DEF Paused
<1>15. fault' = "none"
  BY <1>1, <1>9 DEF Checked, Held, ThreadInv
<1>. QED  BY <1>11, <1>12, <1>13, <1>14, <1>15, PausedKeeps

\* A thread is put in front of those that wait for an event.
LEMMA WaitsFor ==
    ASSUME waiting_list \in [P.events -> Seq(Threads)], EventsApart, program' = program,
           NEW t \in Threads, ~Waiting(t), NEW e \in P.events,
           waiting_list' = [waiting_list EXCEPT ![e] = <<t>> \o @]
    PROVE  /\ waiting_list' \in [P.events -> Seq(Threads)] /\ EventsApart'
           /\ \A u : Waiting(u)' <=> Waiting(u) \/ u = t
<1>. DEFINE s == waiting_list[e]
            r == <<t>> \o s
<1>1. /\ s \in Seq(Threads) /\ waiting_list' = [waiting_list EXCEPT ![e] = r]
      /\ s = waiting_list[e] /\ r = <<t>> \o s
  OBVIOUS
<1>. HIDE DEF r, s
<1>2. /\ r \in Seq(Threads) /\ Len(s) \in Nat /\ Len(r) = Len(s) + 1
      /\ 1 \in 1..Len(r) /\ r[1] = t
      /\ \A i \in 1..Len(r) : i = 1 \/ (i - 1 \in 1..Len(s) /\ r[i] = s[i - 1])
      /\ \A i \in 1..Len(s) : i + 1 \in 1..Len(r) /\ r[i + 1] = s[i]
      /\ \A y : In(y, r) <=> y = t \/ In(y, s)
  <2>1. s \in Seq(Threads) /\ r = <<t>> \o s
    BY <1>1
  <2>2. r \in Seq(Threads) /\ Len(s) \in Nat /\ Len(r) = Len(s) + 1 /\ 1 \in 1..Len(r) /\ r[1] = t
    BY <2>1, PrependOf
  <2>3. \A i \in 1..Len(r) : i = 1 \/ (i - 1 \in 1..Len(s) /\ r[i] = s[i - 1])
    BY <2>1, PrependOf
  <2>4. \A i \in 1..Len(s) : i + 1 \in 1..Len(r) /\ r[i + 1] = s[i]
    BY <2>1, PrependOf
  <2>5. \A y : In(y, r) <=> y = t \/ In(y, s)
    BY <2>1, PrependOf
  <2>. QED  BY <2>2, <2>3, <2>4, <2>5
<1>3. /\ waiting_list' \in [P.events -> Seq(Threads)] /\ waiting_list'[e] = r
      /\ \A d \in P.events : d # e => waiting_list'[d] = waiting_list[d]
  BY <1>1, <1>2
<1>4. P' = P
  BY DEF P
<1>5. \A d \in P.events : \A k \in 1..Len(waiting_list[d]) : waiting_list[d][k] # t
  BY DEF Waiting, In
<1>6. /\ \A a, b \in 1..Len(s) : s[a] = s[b] => a = b
      /\ \A f \in P.events : \A a \in 1..Len(s), l \in 1..Len(waiting_list[f]) :
            s[a] = waiting_list[f][l] => f = e
  BY <1>1 DEF EventsApart
<1>7. ASSUME NEW u PROVE Waiting(u)' <=> Waiting(u) \/ u = t
  <2>1. Waiting(u)' <=> \E d \in P.events : In(u, waiting_list'[d])
    BY <1>4 DEF Waiting
  <2>2. Waiting(u) <=> \E d \in P.events : In(u, waiting_list[d])
    BY DEF Waiting
  <2>. QED  BY <1>1, <1>2, <1>3, <2>1, <2>2
<1>8. ASSUME NEW d \in P.events, NEW f \in P.events,
             NEW k \in 1..Len(waiting_list'[d]), NEW l \in 1..Len(waiting_list'[f]),
             waiting_list'[d][k] = waiting_list'[f][l]
      PROVE  d = f /\ k = l
  <2>1. CASE d # e /\ f # e
    BY <1>3, <1>8, <2>1 DEF EventsApart
  <2>2. ASSUME d = e, f # e PROVE FALSE
    <3>1. f \in P.events /\ l \in 1..Len(waiting_list[f]) /\ r[k] = waiting_list[f][l] /\ k \in 1..Len(r)
      BY <1>3, <1>8, <2>2
    <3>2. CASE k = 1
      BY <1>2, <1>5, <3>1, <3>2
    <3>3. CASE k # 1
      <4>1. PICK a \in 1..Len(s) : r[k] = s[a]
        BY <1>2, <3>1, <3>3
      <4>. QED  BY <1>6, <2>2, <3>1, <4>1
    <3>. QED  BY <3>2, <3>3
  <2>3. ASSUME d # e, f = e PROVE FALSE
    <3>1. d \in P.events /\ k \in 1..Len(waiting_list[d]) /\ r[l] = waiting_list[d][k] /\ l \in 1..Len(r)
      BY <1>3, <1>8, <2>3
    <3>2. CASE l = 1
      BY <1>2, <1>5, <3>1, <3>2
    <3>3. CASE l # 1
      <4>1. PICK a \in 1..Len(s) : r[l] = s[a]
        BY <1>2, <3>1, <3>3
      <4>. QED  BY <1>6, <2>3, <3>1, <4>1
    <3>. QED  BY <3>2, <3>3
  <2>4. CASE d = e /\ f = e
    <3>1. k \in 1..Len(r) /\ l \in 1..Len(r) /\ r[k] = r[l]
      BY <1>3, <1>8, <2>4
    <3>2. ASSUME NEW a \in 1..Len(r), NEW b \in 1..Len(r), a # 1, r[a] = r[b] PROVE a = b
      <4>1. PICK x \in 1..Len(s) : x = a - 1 /\ r[a] = s[x]
        BY <1>2, <3>2
      <4>2. b # 1
        BY <1>1, <1>2, <1>5, <3>2, <4>1
      <4>3. PICK y \in 1..Len(s) : y = b - 1 /\ r[b] = s[y]
        BY <1>2, <4>2
      <4>4. x = y
        BY <1>6, <3>2, <4>1, <4>3
      <4>. QED  BY <4>1, <4>3, <4>4
    <3>. QED  BY <2>4, <3>1, <3>2
  <2>. QED  BY <2>1, <2>2, <2>3, <2>4
<1>9. EventsApart'
  BY <1>4, <1>8 DEF EventsApart
<1>. QED  BY <1>3, <1>7, <1>9

\* A thread that waits for an event is on its list.
LEMMA WaitKeeps ==
    ASSUME ThreadInv, NEW t, t = running, of_WAIT(t)
    PROVE  ThreadInv'
<1>1. t \in Threads /\ t # None /\ Live(t) /\ ~Held(t) /\ Unreaped(t) /\ ~thread[t].off
      /\ ~thread[t].i_have_ended
  BY RunningThread DEF of_WAIT
<1>2. thread \in [Threads -> Vthread] /\ thread[t] \in Vthread
  BY <1>1 DEF ThreadInv, Typed
<1>3. [thread[t] EXCEPT !.waiting_for_event = TRUE] \in Vthread
  BY <1>2 DEF Vthread
<1>4. /\ thread' \in [Threads -> Vthread]
      /\ \A u \in Threads : u # t => thread'[u] = thread[u]
      /\ thread'[t] = [thread[t] EXCEPT !.waiting_for_event = TRUE]
  BY <1>1, <1>2, <1>3 DEF of_WAIT
<1>5. /\ thread'[t].life = thread[t].life /\ thread'[t].fork_count = thread[t].fork_count
      /\ thread'[t].child = thread[t].child /\ thread'[t].parent = thread[t].parent
      /\ thread'[t].scope = thread[t].scope /\ thread'[t].forker = thread[t].forker
      /\ thread'[t].line = thread[t].line /\ thread'[t].off = thread[t].off
      /\ thread'[t].i_have_ended = thread[t].i_have_ended
      /\ thread'[t].waiting_for_event /\ thread'[t].is_scheduled = thread[t].is_scheduled
      /\ thread'[t].schedule_parent_on_end = thread[t].schedule_parent_on_end
  BY <1>2, <1>4 DEF Vthread
<1>6. SameBodies
  BY <1>4, <1>5 DEF SameBodies
<1>7. ~Scheduled(t) /\ ~Waiting(t)
  BY <1>1 DEF ThreadInv, Flagged, Held
<1>8. waiting_list \in [P.events -> Seq(Threads)] /\ EventsApart /\ ChainsApart
  BY QueuedParts DEF ThreadInv, Typed
<1>9. UNCHANGED <<program, links, del_thr, active, delayed, rest, disable>> /\ running' = None /\ Program(t)
      /\ Checked({}, ~thread[t].waiting_for_event)
  BY DEF of_WAIT
<1>10. /\ waiting_list' \in [P.events -> Seq(Threads)] /\ EventsApart'
       /\ \A u : Waiting(u)' <=> Waiting(u) \/ u = t
  <2>1. PICK e \in P.events : waiting_list' = [waiting_list EXCEPT ![e] = <<t>> \o @]
    BY DEF of_WAIT
  <2>. QED  BY <1>1, <1>7, <1>8, <1>9, <2>1, WaitsFor
<1>11. Typed'
  BY <1>4, <1>9, <1>10, SameProgram DEF ThreadInv, Typed, links, disable, Ids
<1>12. \A u : InChains(u)' <=> InChains(u)
  BY <1>9 DEF InChains
<1>13. Queued'
  <2>1. ChainsApart'
    BY <1>8, <1>9, <1>12 DEF ChainsApart
  <2>. QED  BY <1>10, <2>1 DEF Queued, ChainsApart, EventsApart
<1>14. Flagged'
  <2>1. \A u \in Threads : Scheduled(u)' <=> Scheduled(u)
    BY <1>9, <1>12 DEF Scheduled
  <2>2. ~thread'[t].is_scheduled
    BY <1>1, <1>5 DEF Held
  <2>3. \A u \in Threads : /\ Live(u)' <=> Live(u)
                           /\ u # t => thread'[u] = thread[u]
    BY <1>4, <1>5 DEF Live
  <2>4. ASSUME NEW u \in Threads, u # t
        PROVE  /\ Scheduled(u)' <=> Live(u)' /\ thread'[u].is_scheduled
               /\ Waiting(u)' <=> Live(u)' /\ thread'[u].waiting_for_event
               /\ Live(u)' => ~(thread'[u].is_scheduled /\ thread'[u].waiting_for_event)
    BY <1>10, <2>1, <2>3, <2>4 DEF ThreadInv, Flagged
  <2>5. /\ Scheduled(t)' <=> Live(t)' /\ thread'[t].is_scheduled
        /\ Waiting(t)' <=> Live(t)' /\ thread'[t].waiting_for_event
        /\ Live(t)' => ~(thread'[t].is_scheduled /\ thread'[t].waiting_for_event)
    BY <1>1, <1>5, <1>7, <1>10, <2>1, <2>2, <2>3
  <2>. QED  BY <2>4, <2>5 DEF Flagged
<1>15. Paused(t)
  <2>1. Held(t)'
    BY <1>5 DEF Held
  <2>2. \A u \in Threads : u # t => /\ thread'[u].off = thread[u].off
                                    /\ thread'[u].i_have_ended = thread[u].i_have_ended
                                    /\ Held(u)' <=> Held(u)
    BY <1>4 DEF Held
  <2>3. \A u \in Threads : thread'[u].schedule_parent_on_end = thread[u].schedule_parent_on_end
    BY <1>4, <1>5
  <2>4. thread'[t].off = thread'[t].i_have_ended /\ ~thread'[t].i_have_ended
    BY <1>1, <1>5 DEF ThreadInv, Reaps
  <2>. QED  BY <1>6, <1>9, <2>1, <2>2, <2>3, <2>4 DEF Paused
<1>16. fault' = "none"
  BY <1>1, <1>9 DEF Checked, Held, ThreadInv
<1>. QED  BY <1>11, <1>13, <1>14, <1>15, <1>16, PausedKeeps

-----------------------------------------------------------------------------
(* Steps that leave every thread in its place.                             *)

SameFlags ==
    /\ UNCHANGED <<program, links, del_thr, disabling>> /\ SameBodies
    /\ \A u \in Threads : /\ thread'[u].off = thread[u].off
                          /\ thread'[u].i_have_ended = thread[u].i_have_ended
                          /\ thread'[u].schedule_parent_on_end = thread[u].schedule_parent_on_end
                          /\ Held(u)' <=> Held(u)
    /\ \/ running' = running
       \/ /\ running' = None
          /\ Live(running) => /\ thread[running].i_have_ended
                              /\ Unreaped(running) \/ running \in del_thr

\* A step that changes no flag of a thread keeps what is said of threads.
LEMMA SameFlagsKeeps ==
    ASSUME ThreadInv, SameFlags, Typed', Queued', Flagged', Runs', fault' = "none",
           disabling # <<>> => target' = target
    PROVE  ThreadInv'
<1>1. UNCHANGED <<program, links, del_thr, disabling>>
  BY DEF SameFlags
<1>2. \A u \in Threads : (Live(u)' <=> Live(u)) /\ (Unreaped(u)' <=> Unreaped(u))
  BY DEF SameFlags, SameBodies, Live, Unreaped
<1>3. Standing
  <2>1. SameStack
    BY <1>1, <1>2 DEF SameStack, SameFlags, SameBodies, Keeps
  <2>2. \A u : Entered(u)' <=> Entered(u)
    BY <1>1 DEF Entered
  <2>. QED  BY <2>1, <2>2 DEF Standing, SameFlags
<1>4. Family' /\ Stack' /\ Rings'
  BY <1>3, StandingKeeps DEF ThreadInv
<1>5. InOrder'
  BY OrderKept DEF ThreadInv, SameFlags, SameBodies
<1>6. Reaps'
  <2>1. \A u \in Threads : Live(u)' => thread'[u].off = thread'[u].i_have_ended
    BY <1>2 DEF SameFlags, ThreadInv, Reaps
  <2>2. ASSUME NEW u \in Threads, Live(u)', ~Unreaped(u)' PROVE Remains(u)'
    <3>1. Live(u) /\ ~Unreaped(u) /\ Remains(u)
      BY <1>2, <2>2 DEF ThreadInv, Reaps
    <3>2. Held(u)' \/ u \in del_thr' \/ u = running'
      BY <1>1, <3>1 DEF Remains, Held, SameFlags
    <3>. QED  BY <3>1, <3>2 DEF Remains, Held, SameFlags, SameBodies
  <2>3. ASSUME NEW u \in del_thr'
        PROVE  Live(u)' /\ ~Unreaped(u)' /\ ~thread'[u].is_scheduled /\ ~thread'[u].waiting_for_event
    <3>1. u \in Threads /\ Live(u) /\ ~Unreaped(u) /\ ~Held(u)
      BY <1>1 DEF ThreadInv, Typed, Reaps, Held
    <3>2. ~Held(u)'
      BY <3>1 DEF SameFlags
    <3>. QED  BY <1>2, <3>1, <3>2 DEF Held
  <2>. QED  BY <2>1, <2>2, <2>3 DEF Reaps
<1>7. running' # running => running' = None
  BY DEF SameFlags
<1>8. Joined'
  <2>1. ASSUME NEW c \in Threads, Unreaped(c)', thread'[c].schedule_parent_on_end,
               NEW p, p = thread'[c].parent
        PROVE  Joins(c, p)'
    <3>1. /\ Unreaped(c) /\ p = thread[c].parent /\ thread'[c].forker = thread[c].forker
          /\ thread[c].schedule_parent_on_end /\ thread'[c].i_have_ended = thread[c].i_have_ended
      BY <1>2, <2>1 DEF SameFlags, SameBodies
    <3>2. Joins(c, p) /\ p \in Ids
      BY <3>1, FieldTypes DEF ThreadInv, Joined
    <3>3. p \in Threads /\ p # None
      BY <3>2 DEF Joins, Ids
    <3>4. /\ (Entered(p)' <=> Entered(p)) /\ (Held(p)' <=> Held(p))
          /\ thread'[p].i_have_ended = thread[p].i_have_ended
      BY <1>1, <3>3 DEF SameFlags, Entered
    <3>. QED  BY <1>1, <1>7, <3>1, <3>2, <3>3, <3>4 DEF Joins, SameFlags, Entered
  <2>2. ASSUME NEW u \in Threads, Unreaped(u)', ~thread'[u].i_have_ended, running' # u, ~Held(u)'
        PROVE  thread'[u].child # None /\ thread'[thread'[u].child].schedule_parent_on_end
    <3>1. PICK c \in Ids : c = thread[u].child
      BY FieldTypes DEF ThreadInv
    <3>2. thread'[u].child = c /\ Unreaped(u) /\ ~Held(u) /\ ~thread[u].i_have_ended
      BY <1>2, <2>2, <3>1 DEF SameFlags, SameBodies
    <3>3. running # u
      BY <2>2, <3>2 DEF SameFlags, Unreaped
    <3>4. c # None /\ thread[c].schedule_parent_on_end /\ c \in Threads
      BY <3>1, <3>2, <3>3, FieldTypes DEF ThreadInv, Joined
    <3>. QED  BY <3>2, <3>4 DEF SameFlags
  <2>. QED  BY <2>1, <2>2 DEF Joined
<1>9. Disables'
  <2>1. \A i \in 1..Len(disabling) : disabling[i] \in Threads
    BY DEF ThreadInv, Typed
  <2>2. \A i \in 1..(Len(disabling) - 1) : i \in 1..Len(disabling)
    BY DEF ThreadInv, Typed
  <2>3. disabling # <<>> => Len(disabling) \in 1..Len(disabling)
    BY DEF ThreadInv, Typed
  <2>4. \A i \in 1..Len(disabling) : Unreaped(disabling[i])' /\ thread'[disabling[i]].i_have_ended
    BY <1>2, <2>1 DEF ThreadInv, Disables, SameFlags
  <2>5. \A i \in 1..(Len(disabling) - 1) :
          /\ thread'[disabling[i]].forker = disabling[i + 1]
          /\ thread'[disabling[i]].parent = disabling[i + 1]
          /\ ~thread'[disabling[i]].schedule_parent_on_end
    BY <2>1, <2>2 DEF ThreadInv, Disables, SameFlags, SameBodies
  <2>6. disabling # <<>> => thread'[disabling[Len(disabling)]].scope = target'
    BY <2>1, <2>3 DEF ThreadInv, Disables, SameFlags, SameBodies
  <2>. QED  BY <1>1, <2>4, <2>5, <2>6 DEF Disables, Unreaped, Live
<1>. QED  BY <1>4, <1>5, <1>6, <1>8, <1>9 DEF ThreadInv

\* No thread changes at all.
LEMMA SameThreads ==
    ASSUME ThreadInv, thread' = thread
    PROVE  /\ SameBodies
           /\ \A u \in Threads : /\ thread'[u].off = thread[u].off
                                 /\ thread'[u].i_have_ended = thread[u].i_have_ended
                                 /\ thread'[u].schedule_parent_on_end = thread[u].schedule_parent_on_end
                                 /\ Held(u)' <=> Held(u)
           /\ \A u : (Live(u)' <=> Live(u)) /\ (Unreaped(u)' <=> Unreaped(u)) /\ (Held(u)' <=> Held(u))
  BY DEF SameBodies, Held, Live, Unreaped

\* %disable names the scope to empty.
LEMMA DisableKeeps ==
    ASSUME ThreadInv, NEW t, t = running, of_DISABLE(t)
    PROVE  ThreadInv'
<1>1. /\ t \in Threads /\ t # None /\ Live(t) /\ ~Held(t) /\ Unreaped(t) /\ ~thread[t].i_have_ended
      /\ disabling = <<>>
  BY RunningThread DEF of_DISABLE
<1>2. UNCHANGED <<program, thread, links, queues, running, rest, disabling, fault>> /\ ~myself'
      /\ myself' = FALSE /\ target' \in P.disabled
  BY DEF of_DISABLE
<1>3. Typed'
  BY <1>2, SameProgram DEF ThreadInv, Typed, links, queues, Ids
<1>4. Queued' /\ Flagged'
  BY <1>2, HeldKept DEF queues
<1>5. target' # NoScope
  BY <1>2, DisabledNames DEF ThreadInv, Typed
<1>6. Runs'
  BY <1>1, <1>2, <1>5, SameThreads DEF Runs, queues
<1>7. SameFlags
  BY <1>2, SameThreads DEF SameFlags, queues
<1>. QED  BY <1>1, <1>2, <1>3, <1>4, <1>6, <1>7, SameFlagsKeeps DEF ThreadInv

\* %disable is over when the list is empty.
LEMMA ScopeEmptyKeeps ==
    ASSUME ThreadInv, ScopeEmpty
    PROVE  ThreadInv'
<1>1. UNCHANGED <<program, thread, links, queues, rest, disabling, fault>> /\ myself' = FALSE
      /\ target' = NoScope /\ disabling = <<>> /\ target # NoScope
      /\ running' = IF myself THEN None ELSE running
  BY DEF ScopeEmpty, Disabling
<1>2. Typed'
  BY <1>1, SameProgram DEF ThreadInv, Typed, links, queues, Ids
<1>3. Queued' /\ Flagged'
  BY <1>1, HeldKept DEF queues
<1>4. None \notin del_thr
  BY DEF ThreadInv, Typed, Threads, None
<1>5. ~myself => Live(running) /\ ~Held(running) /\ running \notin del_thr /\ running # None
  BY <1>1 DEF ThreadInv, Runs, Unreaped, Reaps
<1>6. Runs'
  BY <1>1, <1>4, <1>5, SameThreads DEF Runs, queues
<1>7. SameFlags
  BY <1>1, SameThreads DEF SameFlags, queues, ThreadInv, Runs, Typed
<1>. QED  BY <1>1, <1>2, <1>3, <1>6, <1>7, SameFlagsKeeps DEF ThreadInv

\* A sync callback keeps the thread until the step is over.
LEMMA DelayDeleteKeeps ==
    ASSUME ThreadInv, NEW t, t = running, vthread_delay_delete(t)
    PROVE  ThreadInv'
<1>1. /\ t \in Threads /\ t # None /\ Live(t) /\ ~Held(t) /\ Unreaped(t) /\ disabling = <<>>
      /\ target = NoScope /\ t \notin del_thr
  BY RunningThread DEF vthread_delay_delete
<1>2. UNCHANGED <<program, links, queues, running, rest, disable, fault>>
      /\ thread' = [thread EXCEPT ![t].delay_delete = TRUE]
  BY DEF vthread_delay_delete
<1>3. thread \in [Threads -> Vthread] /\ thread[t] \in Vthread
  BY <1>1 DEF ThreadInv, Typed
<1>4. [thread[t] EXCEPT !.delay_delete = TRUE] \in Vthread
  BY <1>3 DEF Vthread
<1>5. /\ thread' \in [Threads -> Vthread]
      /\ \A u \in Threads : u # t => thread'[u] = thread[u]
      /\ thread'[t] = [thread[t] EXCEPT !.delay_delete = TRUE]
  BY <1>1, <1>2, <1>3, <1>4
<1>6. /\ thread'[t].life = thread[t].life /\ thread'[t].fork_count = thread[t].fork_count
      /\ thread'[t].child = thread[t].child /\ thread'[t].parent = thread[t].parent
      /\ thread'[t].scope = thread[t].scope /\ thread'[t].forker = thread[t].forker
      /\ thread'[t].line = thread[t].line /\ thread'[t].off = thread[t].off
      /\ thread'[t].i_have_ended = thread[t].i_have_ended
      /\ thread'[t].is_scheduled = thread[t].is_scheduled
      /\ thread'[t].waiting_for_event = thread[t].waiting_for_event
      /\ thread'[t].schedule_parent_on_end = thread[t].schedule_parent_on_end
  BY <1>3, <1>5 DEF Vthread
<1>7. SameBodies
  BY <1>5, <1>6 DEF SameBodies
<1>8. Typed'
  BY <1>2, <1>5, SameProgram DEF ThreadInv, Typed, links, queues, disable, Ids
<1>9. Queued' /\ Flagged' /\ \A u \in Threads : Held(u)' <=> Held(u)
  BY <1>2, <1>5, <1>6, HeldKept DEF queues
<1>10. SameFlags
  BY <1>2, <1>5, <1>6, <1>7, <1>9 DEF SameFlags, queues, disable
<1>11. Runs'
  <2>1. Live(t)' /\ ~Held(t)'
    BY <1>1, <1>6, <1>9 DEF Live
  <2>. QED  BY <1>1, <1>2, <2>1 DEF ThreadInv, Runs, queues, disable
<1>. QED  BY <1>1, <1>2, <1>8, <1>9, <1>10, <1>11, SameFlagsKeeps DEF ThreadInv, disable

\* An order of a finite set has each of its members once.
LEMMA Ordered ==
    ASSUME NEW D, IsFiniteSet(D), NEW order \in SetToSeqs(D)
    PROVE  /\ order \in Seq(D) /\ Len(order) \in Nat
           /\ \A i, j \in 1..Len(order) : order[i] = order[j] => i = j
           /\ \A u : In(u, order) <=> u \in D
<1>. DEFINE n == Cardinality(D)
            I == 1..n
<1>1. n \in Nat
  BY FS_CardinalityType
<1>2. order \in [I -> D] /\ \A i, j \in I : i # j => order[i] # order[j]
  BY DEF SetToSeqs
<1>3. IsFiniteSet(I) /\ Cardinality(I) = n
  <2>1. 1 \in Int /\ n \in Int /\ ~(1 > n /\ n # 0)
    BY <1>1
  <2>. QED  BY <1>1, <2>1, FS_Interval
<1>. HIDE DEF n
<1>4. order \in Seq(D) /\ Len(order) = n
  BY <1>1, <1>2
<1>. HIDE DEF I
<1>5. order \in Injection(I, D)
  BY <1>2 DEF Injection, IsInjective
<1>6. order \in Surjection(I, D)
  BY <1>3, <1>5, FS_Injection DEF n
<1>7. \A u : In(u, order) <=> u \in D
  BY <1>2, <1>4, <1>6 DEF Surjection, In, I
<1>. QED  BY <1>1, <1>2, <1>4, <1>7 DEF I

\* Time goes on and the threads that are due are scheduled.
LEMMA AdvanceTimeKeeps ==
    ASSUME ThreadInv, AdvanceTime
    PROVE  ThreadInv'
<1>0. PICK due \in SUBSET delayed \ {{}} : \E order \in SetToSeqs(due) :
          /\ active' = [i \in DOMAIN order |-> <<order[i]>>]
          /\ delayed' = delayed \ due
  BY DEF AdvanceTime
<1>1. PICK order \in SetToSeqs(due) :
          /\ active' = [i \in DOMAIN order |-> <<order[i]>>]
          /\ delayed' = delayed \ due
  BY <1>0
<1>2. UNCHANGED <<program, thread, links, del_thr, waiting_list, running, rest, disable, fault>>
      /\ active = <<>> /\ rest = <<>> /\ due \subseteq delayed
  BY DEF AdvanceTime, TimeStepOver
<1>3. delayed \subseteq Threads /\ MaxThreads \in Int
  BY ProgramsAssumption DEF ThreadInv, Typed
<1>4. IsFiniteSet(due)
  <2>1. IsFiniteSet(1..MaxThreads)
    BY <1>3, FS_Interval
  <2>. QED  BY <1>2, <1>3, <2>1, FS_Subset DEF Threads
<1>5. /\ order \in Seq(due) /\ Len(order) \in Nat
      /\ \A i, j \in 1..Len(order) : order[i] = order[j] => i = j
      /\ \A u : In(u, order) <=> u \in due
  BY <1>4, Ordered
<1>. DEFINE n == Len(order)
<1>6. /\ active' = [i \in 1..n |-> <<order[i]>>]
      /\ \A i \in 1..n : order[i] \in Threads
  BY <1>1, <1>2, <1>3, <1>5
<1>7. active' \in Seq(Seq(Threads)) /\ Len(active') = n
  BY <1>5, <1>6
<1>8. \A i \in 1..n : /\ active'[i] # <<>> /\ Len(active'[i]) = 1
                      /\ active'[i][1] = order[i]
                      /\ \A k \in 1..Len(active'[i]) : k = 1
  BY <1>6
<1>9. \A u : In(u, order) <=> \E i \in 1..n : order[i] = u
  BY DEF In
<1>. HIDE DEF n
<1>10. ASSUME NEW u PROVE InChains(u)' <=> u \in due
  <2>1. InChains(u)' <=> \E i \in 1..n : In(u, active'[i])
    BY <1>7 DEF InChains
  <2>2. \A i \in 1..n : In(u, active'[i]) <=> order[i] = u
    BY <1>8 DEF In
  <2>. QED  BY <1>5, <1>9, <2>1, <2>2
<1>11. \A u : ~InChains(u) /\ ~In(u, rest)
  BY <1>2 DEF InChains, In
<1>12. ChainsApart'
  <2>1. ASSUME NEW i \in 1..Len(active'), NEW j \in 1..Len(active'),
               NEW k \in 1..Len(active'[i]), NEW l \in 1..Len(active'[j]),
               active'[i][k] = active'[j][l]
        PROVE  i = j /\ k = l
    <3>1. i \in 1..n /\ j \in 1..n
      BY <1>7
    <3>2. k = 1 /\ l = 1 /\ order[i] = order[j]
      BY <1>8, <2>1, <3>1
    <3>. QED  BY <1>5, <3>1, <3>2 DEF n
  <2>2. \A i \in 1..Len(active') : active'[i] # <<>>
    BY <1>7, <1>8
  <2>3. \A u : ~In(u, rest)'
    BY <1>2, <1>11 DEF In
  <2>4. \A u \in delayed' : ~InChains(u)'
    BY <1>1, <1>10
  <2>5. \A i, j \in 1..Len(rest') : rest'[i] = rest'[j] => i = j
    BY <1>2
  <2>. QED  BY <2>1, <2>2, <2>3, <2>4, <2>5 DEF ChainsApart
<1>13. Queued'
  <2>1. EventsApart'
    BY <1>2, QueuedParts, SameProgram DEF ThreadInv, EventsApart
  <2>. QED  BY <1>12, <2>1 DEF Queued, ChainsApart, EventsApart
<1>14. Flagged'
  <2>1. \A u \in Threads : Scheduled(u)' <=> Scheduled(u)
    BY <1>1, <1>2, <1>10, <1>11 DEF Scheduled, In
  <2>2. \A u : Waiting(u)' <=> Waiting(u)
    BY <1>2, SameProgram DEF Waiting
  <2>. QED  BY <1>2, <2>1, <2>2 DEF ThreadInv, Flagged, Live
<1>15. Typed'
  BY <1>1, <1>2, <1>3, <1>7, SameProgram DEF ThreadInv, Typed, links, disable, Ids
<1>16. SameFlags
  BY <1>2, SameThreads DEF SameFlags, disable
<1>17. Runs'
  BY <1>2, SameThreads DEF ThreadInv, Runs, disable
<1>. QED  BY <1>2, <1>13, <1>14, <1>15, <1>16, <1>17, SameFlagsKeeps DEF ThreadInv, disable

\* An event schedules the threads that wait for it as one chain.
LEMMA TriggerKeeps ==
    ASSUME ThreadInv, Trigger
    PROVE  ThreadInv'
<1>1. PICK e \in P.events :
         LET woken == Range(waiting_list[e]) IN
           /\ woken # {}
           /\ thread' = [u \in Threads |->
                IF u \in woken THEN [thread[u] EXCEPT !.waiting_for_event = FALSE,
                                                      !.is_scheduled = TRUE]
                ELSE thread[u]]
           /\ active' = Append(active, waiting_list[e])
           /\ waiting_list' = [waiting_list EXCEPT ![e] = <<>>]
           /\ Checked(woken, \A u \in woken : /\ thread[u].waiting_for_event
                                              /\ ~thread[u].is_scheduled)
  BY DEF Trigger
<1>. DEFINE q == waiting_list[e]
            W == Range(q)
<1>2. UNCHANGED <<program, links, delayed, del_thr, running, rest, disable>> /\ target = NoScope
  BY DEF Trigger, Quiet
<1>3. /\ q \in Seq(Threads) /\ waiting_list \in [P.events -> Seq(Threads)] /\ delayed \subseteq Threads
      /\ active \in Seq(Seq(Threads)) /\ rest \in Seq(Threads) /\ ChainsApart /\ EventsApart
      /\ thread \in [Threads -> Vthread]
  BY QueuedParts DEF ThreadInv, Typed
<1>4. W \subseteq Threads /\ \A u : u \in W <=> In(u, q)
  BY <1>3, InRange DEF Range
<1>5. /\ W # {}
      /\ thread' = [u \in Threads |->
           IF u \in W THEN [thread[u] EXCEPT !.waiting_for_event = FALSE, !.is_scheduled = TRUE]
           ELSE thread[u]]
      /\ active' = Append(active, q) /\ waiting_list' = [waiting_list EXCEPT ![e] = <<>>]
      /\ Checked(W, \A u \in W : thread[u].waiting_for_event /\ ~thread[u].is_scheduled)
  BY <1>1
<1>6. q = waiting_list[e]
  OBVIOUS
<1>. HIDE DEF W, q
<1>7. ASSUME NEW u \in W
      PROVE  /\ u \in Threads /\ Live(u) /\ thread[u].waiting_for_event /\ ~thread[u].is_scheduled
             /\ ~Scheduled(u) /\ Waiting(u)
  <2>1. u \in Threads /\ Waiting(u)
    BY <1>4, <1>6 DEF Waiting
  <2>. QED  BY <2>1 DEF ThreadInv, Flagged
<1>8. q # <<>> /\ \A k, l \in 1..Len(q) : q[k] = q[l] => k = l
  <2>1. q # <<>>
    <3>1. PICK u \in W : In(u, q)
      BY <1>4, <1>5
    <3>2. Len(q) # 0
      BY <1>3, <3>1 DEF In
    <3>. QED  BY <3>2
  <2>. QED  BY <1>3, <1>6, <2>1 DEF EventsApart
<1>9. /\ active' \in Seq(Seq(Threads)) /\ ChainsApart'
      /\ \A u \in Threads : Scheduled(u)' <=> Scheduled(u) \/ In(u, q)
  <2>1. \A u \in Threads : In(u, q) => ~Scheduled(u)
    BY <1>4, <1>7
  <2>. QED  BY <1>2, <1>3, <1>5, <1>8, <2>1, ChainAppended
<1>10. /\ waiting_list' \in [P.events -> Seq(Threads)] /\ waiting_list'[e] = <<>>
       /\ \A d \in P.events : d # e => waiting_list'[d] = waiting_list[d]
  <2>1. <<>> \in Seq(Threads)
    OBVIOUS
  <2>. QED  BY <1>3, <1>5, <2>1
<1>11. P' = P
  BY <1>2 DEF P
<1>12. EventsApart'
  <2>1. ASSUME NEW d \in P.events, NEW f \in P.events,
               NEW k \in 1..Len(waiting_list'[d]), NEW l \in 1..Len(waiting_list'[f]),
               waiting_list'[d][k] = waiting_list'[f][l]
        PROVE  d = f /\ k = l
    <3>1. d # e /\ f # e
      BY <1>10
    <3>. QED  BY <1>3, <1>10, <2>1, <3>1 DEF EventsApart
  <2>. QED  BY <1>11, <2>1 DEF EventsApart
<1>13. \A u : Waiting(u)' <=> Waiting(u) /\ ~In(u, q)
  <2>. SUFFICES ASSUME NEW u PROVE Waiting(u)' <=> Waiting(u) /\ ~In(u, q)
    OBVIOUS
  <2>1. Waiting(u)' <=> \E d \in P.events : In(u, waiting_list'[d])
    BY <1>11 DEF Waiting
  <2>2. Waiting(u) <=> \E d \in P.events : In(u, waiting_list[d])
    BY DEF Waiting
  <2>3. ~In(u, waiting_list'[e])
    BY <1>10 DEF In
  <2>4. ASSUME NEW d \in P.events, d # e, In(u, waiting_list[d]), In(u, q) PROVE FALSE
    BY <1>3, <1>6, <2>4 DEF EventsApart, In
  <2>. QED  BY <1>6, <1>10, <2>1, <2>2, <2>3, <2>4
<1>14. \A u \in Threads : u \notin W => thread'[u] = thread[u]
  BY <1>5
<1>15. ASSUME NEW u \in W
       PROVE  /\ thread'[u] \in Vthread
              /\ thread'[u].life = thread[u].life /\ thread'[u].fork_count = thread[u].fork_count
              /\ thread'[u].child = thread[u].child /\ thread'[u].parent = thread[u].parent
              /\ thread'[u].scope = thread[u].scope /\ thread'[u].forker = thread[u].forker
              /\ thread'[u].line = thread[u].line /\ thread'[u].off = thread[u].off
              /\ thread'[u].i_have_ended = thread[u].i_have_ended
              /\ thread'[u].schedule_parent_on_end = thread[u].schedule_parent_on_end
              /\ thread'[u].is_scheduled /\ ~thread'[u].waiting_for_event
  <2>1. thread[u] \in Vthread /\ u \in Threads
    BY <1>3, <1>4
  <2>2. thread'[u] = [thread[u] EXCEPT !.waiting_for_event = FALSE, !.is_scheduled = TRUE]
    BY <1>5, <2>1
  <2>. QED  BY <2>1, <2>2 DEF Vthread
<1>16. thread' \in [Threads -> Vthread]
  <2>1. \A u \in Threads : thread'[u] \in Vthread
    BY <1>3, <1>14, <1>15
  <2>2. thread' = [u \in Threads |-> thread'[u]]
    BY <1>5
  <2>. QED  BY <2>1, <2>2
<1>17. SameBodies
  BY <1>14, <1>15 DEF SameBodies
<1>18. \A u \in Threads : (Held(u)' <=> Held(u)) /\ (Live(u)' <=> Live(u))
  BY <1>7, <1>14, <1>15 DEF Held, Live
<1>19. SameFlags
  BY <1>2, <1>14, <1>15, <1>17, <1>18 DEF SameFlags, disable
<1>20. Typed'
  BY <1>2, <1>3, <1>9, <1>10, <1>16, SameProgram DEF ThreadInv, Typed, links, disable, Ids
<1>21. Queued'
  BY <1>9, <1>12 DEF Queued, ChainsApart, EventsApart
<1>22. Flagged'
  <2>1. ASSUME NEW u \in Threads, u \notin W
        PROVE  /\ Scheduled(u)' <=> Live(u)' /\ thread'[u].is_scheduled
               /\ Waiting(u)' <=> Live(u)' /\ thread'[u].waiting_for_event
               /\ Live(u)' => ~(thread'[u].is_scheduled /\ thread'[u].waiting_for_event)
    BY <1>4, <1>9, <1>13, <1>14, <1>18, <2>1 DEF ThreadInv, Flagged
  <2>2. ASSUME NEW u \in W
        PROVE  /\ Scheduled(u)' <=> Live(u)' /\ thread'[u].is_scheduled
               /\ Waiting(u)' <=> Live(u)' /\ thread'[u].waiting_for_event
               /\ Live(u)' => ~(thread'[u].is_scheduled /\ thread'[u].waiting_for_event)
    BY <1>4, <1>7, <1>9, <1>13, <1>15, <1>18
  <2>. QED  BY <2>1, <2>2 DEF Flagged
<1>23. Runs'
  <2>1. running \in Threads \/ running = None
    BY DEF ThreadInv, Typed, Ids
  <2>2. running # None => Live(running)' /\ ~Held(running)' /\ running \notin del_thr'
    BY <1>2, <1>18, <2>1 DEF ThreadInv, Runs
  <2>3. None \notin del_thr'
    BY <1>2 DEF ThreadInv, Typed, Threads, None
  <2>. QED  BY <1>2, <2>2, <2>3 DEF ThreadInv, Runs, disable
<1>24. fault' = "none"
  <2>1. \A u \in W : ~Freed(u)
    BY <1>7 DEF Freed, Live
  <2>. QED  BY <1>5, <1>7, <2>1 DEF Checked, ThreadInv
<1>. QED  BY <1>2, <1>19, <1>20, <1>21, <1>22, <1>23, <1>24, SameFlagsKeeps DEF disable

-----------------------------------------------------------------------------
(* A cell leaves its list.                                                 *)

\* A cell of a ring leaves it while do_disable is at no other one.
LEMMA RingUnlinked ==
    ASSUME Typed, NEW s \in Scopes, s \notin Threads, Ring(s), NEW c \in Listed(s), c # s,
           UnlinkScope(c), \A n \in InScope(s) : ~Entered(n),
           Listed(s)' = Listed(s) \ {c}, InScope(s)' \subseteq InScope(s),
           \A n \in InScope(s)' : Entered(n)' => n = c
    PROVE  Ring(s)'
<1>. DEFINE a == scope_prev[c]
            b == scope_next[c]
<1>1. /\ a \in Listed(s) /\ b \in Listed(s) /\ scope_next[a] = c /\ scope_prev[b] = c
      /\ b = s \/ b < c
  BY DEF Ring
<1>2. Listed(s) \subseteq Cells /\ \A n \in Listed(s) : n # s => n \in Threads /\ n \in Nat
  BY DEF Listed, InScope, Cells, Threads
<1>3. a # c /\ b # c
  <2>1. b # c
    BY <1>1, <1>2
  <2>. QED  BY <1>1, <2>1
<1>4. /\ scope_next' = [scope_next EXCEPT ![a] = b]
      /\ scope_prev' = [scope_prev EXCEPT ![b] = a]
  BY DEF UnlinkScope
<1>5. scope_next \in [Cells -> Cells] /\ scope_prev \in [Cells -> Cells]
  BY DEF Typed
<1>. HIDE DEF a, b
<1>6. ASSUME NEW n \in Listed(s)
      PROVE  /\ scope_next'[n] = IF n = a THEN b ELSE scope_next[n]
             /\ scope_prev'[n] = IF n = b THEN a ELSE scope_prev[n]
  BY <1>2, <1>4, <1>5
<1>7. ASSUME NEW n \in Listed(s), n # c
      PROVE  /\ scope_next'[n] \in Listed(s) \ {c} /\ scope_prev'[n] \in Listed(s) \ {c}
             /\ scope_prev'[scope_next'[n]] = n /\ scope_next'[scope_prev'[n]] = n
             /\ n # s => scope_next'[n] = s \/ scope_next'[n] < n
  <2>1. /\ scope_next[n] \in Listed(s) /\ scope_prev[n] \in Listed(s)
        /\ scope_prev[scope_next[n]] = n /\ scope_next[scope_prev[n]] = n
        /\ n # s => scope_next[n] = s \/ scope_next[n] < n
    BY DEF Ring
  <2>2. n # a => scope_next[n] # c /\ scope_next[n] # b
    BY <1>1, <1>7, <2>1 DEF a, b
  <2>3. n # b => scope_prev[n] # c /\ scope_prev[n] # a
    BY <1>1, <1>7, <2>1 DEF a, b
  <2>4. scope_next'[n] = (IF n = a THEN b ELSE scope_next[n])
        /\ scope_prev'[n] = (IF n = b THEN a ELSE scope_prev[n])
    BY <1>6
  <2>5. scope_next'[n] \in Listed(s) \ {c} /\ scope_prev'[n] \in Listed(s) \ {c}
    BY <1>1, <1>3, <2>1, <2>2, <2>3, <2>4
  <2>6. scope_prev'[scope_next'[n]] = n
    <3>1. CASE n = a
      BY <1>1, <1>6, <2>4, <3>1
    <3>2. CASE n # a
      BY <1>6, <2>1, <2>2, <2>4, <3>2
    <3>. QED  BY <3>1, <3>2
  <2>7. scope_next'[scope_prev'[n]] = n
    <3>1. CASE n = b
      BY <1>1, <1>6, <2>4, <3>1
    <3>2. CASE n # b
      BY <1>6, <2>1, <2>3, <2>4, <3>2
    <3>. QED  BY <3>1, <3>2
  <2>8. n # s => scope_next'[n] = s \/ scope_next'[n] < n
    <3>1. CASE n = a /\ n # s /\ b # s
      <4>1. c < n /\ b < c
        BY <1>1, <2>1, <3>1 DEF b
      <4>2. n \in Nat /\ c \in Nat /\ b \in Nat
        BY <1>1, <1>2, <3>1
      <4>. QED  BY <2>4, <3>1, <4>1, <4>2
    <3>. QED  BY <2>1, <2>4, <3>1
  <2>. QED  BY <2>5, <2>6, <2>7, <2>8
<1>8. /\ scope_next'[c] = b /\ scope_prev'[c] = a
      /\ scope_prev'[b] = a /\ scope_next'[a] = b
  BY <1>1, <1>3, <1>6 DEF a, b
<1>9. ASSUME NEW n \in InScope(s)', Entered(n)'
      PROVE  /\ scope_next'[n] \in Listed(s)' /\ scope_prev'[n] \in Listed(s)'
             /\ scope_prev'[scope_next'[n]] = scope_prev'[n]
             /\ scope_next'[scope_prev'[n]] = scope_next'[n]
  <2>1. n = c
    BY <1>9
  <2>. QED  BY <1>1, <1>3, <1>8, <2>1
<1>. QED  BY <1>7, <1>9 DEF Ring

\* Taking it out once more changes nothing.
LEMMA RingAgain ==
    ASSUME Typed, NEW s \in Scopes, Ring(s), NEW c \in InScope(s), Entered(c), UnlinkScope(c)
    PROVE  scope_next' = scope_next /\ scope_prev' = scope_prev
<1>. DEFINE a == scope_prev[c]
            b == scope_next[c]
<1>1. a \in Listed(s) /\ b \in Listed(s) /\ scope_next[a] = b /\ scope_prev[b] = a
  BY DEF Ring
<1>2. Listed(s) \subseteq Cells
  BY DEF Listed, InScope, Cells
<1>3. scope_next' = [scope_next EXCEPT ![a] = b] /\ scope_prev' = [scope_prev EXCEPT ![b] = a]
  BY DEF UnlinkScope
<1>4. scope_next \in [Cells -> Cells] /\ scope_prev \in [Cells -> Cells]
  BY DEF Typed
<1>. HIDE DEF a, b
<1>. QED  BY <1>1, <1>2, <1>3, <1>4

\* The newest cell of a disabled scope, or the first one, leaves its list: it is
\* reaped, or do_disable turns it off.
LEMMA LooseUnlinked ==
    ASSUME Typed, NEW s \in Scopes, s \notin Threads, Loose(s), NEW c \in InScope(s), UnlinkScope(c),
           \/ \A u \in InScope(s) : u <= c
           \/ c = scope_next[s] /\ c \in InScope(s)',
           \/ InScope(s)' = InScope(s) \ {c}
           \/ InScope(s)' = InScope(s) /\ thread'[c].off,
           \A u \in InScope(s)' : /\ thread'[u].forker = thread[u].forker
                                  /\ thread[u].off => thread'[u].off
    PROVE  Loose(s)'
<1>. DEFINE b == scope_next[c]
            T == InScope(s)
<1>0. /\ T \subseteq Threads /\ \A u \in T : u \in Nat /\ u # s /\ u \in Cells
      /\ c \in T /\ s \in Cells
  BY DEF InScope, Threads, Cells
<1>1. /\ Older(c, b, s) /\ (b = s \/ b \in T) /\ b # c /\ b \in Cells
  <2>1. Older(c, b, s)
    BY DEF Loose
  <2>. QED  BY <1>0, <2>1 DEF Older
<1>2. scope_prev[c] = s
  <2>1. CASE \A u \in T : u <= c
    <3>1. ASSUME scope_prev[c] \in T, scope_next[scope_prev[c]] = c PROVE FALSE
      <4>1. Older(scope_prev[c], c, s)
        BY <3>1 DEF Loose
      <4>2. c < scope_prev[c]
        BY <1>0, <4>1 DEF Older
      <4>. QED  BY <1>0, <2>1, <3>1, <4>2
    <3>. QED  BY <3>1 DEF Loose
  <2>2. CASE c = scope_next[s]
    BY <1>0, <2>2 DEF Loose
  <2>. QED  BY <2>1, <2>2
<1>3. /\ scope_next' = [scope_next EXCEPT ![s] = b]
      /\ scope_prev' = [scope_prev EXCEPT ![b] = s]
      /\ scope_next \in [Cells -> Cells] /\ scope_prev \in [Cells -> Cells]
  BY <1>2 DEF UnlinkScope, Typed
<1>4. /\ scope_next'[s] = b /\ scope_prev'[b] = s
      /\ \A n \in Cells : n # s => scope_next'[n] = scope_next[n]
      /\ \A n \in Cells : n # b => scope_prev'[n] = scope_prev[n]
  BY <1>0, <1>1, <1>3
<1>. HIDE DEF b
<1>5. InScope(s)' \subseteq T /\ \A u \in T : u # c => u \in InScope(s)'
  OBVIOUS
<1>. DEFINE TT == InScope(s)'
<1>6. b = s \/ b \in TT
  BY <1>1, <1>5
<1>7. ASSUME NEW t \in TT, NEW n, n = scope_next'[t]
      PROVE  \/ n = s /\ \A u \in TT : t <= u
             \/ n \in TT /\ n < t /\ \A u \in TT : u < t => u <= n
  <2>1. t \in T /\ n = scope_next[t] /\ Older(t, n, s)
    BY <1>0, <1>4, <1>5, <1>7 DEF Loose
  <2>3. CASE n = s /\ \A u \in T : t <= u
    BY <1>5, <2>1, <2>3
  <2>4. CASE n \in T /\ n < t /\ \A u \in T : u < t => u <= n
    <3>1. n \in TT
      <4>1. CASE c \in TT
        BY <1>5, <2>4, <4>1
      <4>2. CASE c \notin TT
        <5>1. \A u \in T : u <= c
          BY <4>2
        <5>2. n # c
          BY <1>0, <2>1, <2>4, <5>1
        <5>. QED  BY <1>5, <2>4, <5>2
      <4>. QED  BY <4>1, <4>2
    <3>. QED  BY <1>5, <2>1, <2>4, <3>1
  <2>. QED  BY <2>1, <2>3, <2>4 DEF Older
<1>8. ASSUME NEW t \in TT
      PROVE  scope_prev'[t] = s \/ (scope_prev'[t] \in TT /\ scope_next'[scope_prev'[t]] = t)
  <2>1. CASE t = b
    BY <1>4, <2>1
  <2>2. CASE t # b /\ scope_prev[t] # s
    <3>1. t \in T /\ scope_prev'[t] = scope_prev[t]
      BY <1>0, <1>4, <1>5, <2>2
    <3>2. scope_prev[t] \in T /\ scope_next[scope_prev[t]] = t
      BY <2>2, <3>1 DEF Loose
    <3>3. scope_prev[t] # c
      BY <2>2, <3>2 DEF b
    <3>. QED  BY <1>0, <1>4, <1>5, <3>1, <3>2, <3>3
  <2>3. CASE t # b /\ scope_prev[t] = s
    BY <1>0, <1>4, <1>5, <2>3
  <2>. QED  BY <2>1, <2>2, <2>3
<1>9. ASSUME NEW t \in TT, ~thread'[t].off PROVE scope_next'[s] \in TT /\ t <= scope_next'[s]
  <2>1. t \in T /\ ~thread[t].off /\ t \in Nat
    BY <1>0, <1>5, <1>9
  <2>2. t # c
    BY <1>9
  <2>3. t < c
    <3>1. CASE \A u \in T : u <= c
      BY <1>0, <2>1, <2>2, <3>1
    <3>2. CASE c = scope_next[s]
      BY <1>0, <2>1, <2>2, <3>2 DEF Loose
    <3>. QED  BY <3>1, <3>2
  <2>4. \/ b = s /\ \A u \in T : c <= u
        \/ b \in T /\ b < c /\ \A u \in T : u < c => u <= b
    BY <1>1 DEF Older
  <2>5. b \in T /\ t <= b
    BY <1>0, <2>1, <2>3, <2>4
  <2>. QED  BY <1>1, <1>4, <1>5, <2>5
<1>10. scope_prev'[s] = s \/ (scope_prev'[s] \in TT /\ scope_next'[scope_prev'[s]] = s)
  <2>1. CASE b = s
    BY <1>4, <2>1
  <2>2. CASE b # s
    <3>1. scope_prev'[s] = scope_prev[s]
      BY <1>0, <1>4, <2>2
    <3>2. scope_prev[s] = s \/ (scope_prev[s] \in T /\ scope_next[scope_prev[s]] = s)
      BY DEF Loose
    <3>3. scope_prev[s] # c
      BY <2>2, <3>2, <1>0 DEF b
    <3>. QED  BY <1>0, <1>4, <1>5, <3>1, <3>2, <3>3
  <2>. QED  BY <2>1, <2>2
<1>11. \A t, u \in TT : thread'[t].forker = thread'[u].forker /\ thread'[t].forker # None
  <2>1. \A t, u \in T : thread[t].forker = thread[u].forker /\ thread[t].forker # None
    BY DEF Loose
  <2>. QED  BY <1>5, <2>1
<1>12. scope_next'[s] \in TT \cup {s} /\ (scope_next'[s] # s => scope_prev'[scope_next'[s]] = s)
  BY <1>4, <1>6
<1>13. \A t \in TT : \/ scope_next'[t] = s /\ \A u \in TT : t <= u
                     \/ /\ scope_next'[t] \in TT /\ scope_next'[t] < t
                        /\ \A u \in TT : u < t => u <= scope_next'[t]
  BY <1>7
<1>14. \A t \in TT : ~thread'[t].off => scope_next'[s] \in TT /\ t <= scope_next'[s]
  BY <1>9
<1>. HIDE DEF T
<1>. QED  BY <1>8, <1>10, <1>11, <1>12, <1>13, <1>14 DEF Loose, Older

-----------------------------------------------------------------------------
(* The threads do_disable is at.                                           *)

\* They descend from each other, the last one first, and are in scopes apart.
LEMMA EnteredLine ==
    ASSUME ThreadInv, NEW i \in 1..Len(disabling), NEW j \in 1..Len(disabling), i <= j
    PROVE  disabling[j] \in thread[disabling[i]].line
<1>. SUFFICES ASSUME disabling[j] \notin thread[disabling[i]].line PROVE FALSE
  OBVIOUS
<1>. DEFINE T == {k \in i..Len(disabling) : disabling[k] \notin thread[disabling[i]].line}
<1>1. disabling \in Seq(Threads) /\ Len(disabling) \in Nat /\ \A k \in 1..Len(disabling) : disabling[k] \in Threads
  BY DEF ThreadInv, Typed
<1>2. i \in Nat /\ j \in Nat /\ i >= 1 /\ T # {} /\ T \in SUBSET Nat
  BY <1>1
<1>3. PICK k \in T : \A l \in T : k <= l
  <2>. HIDE DEF T
  <2>. QED  BY <1>2, LeastNumber
<1>4. disabling[i] \in thread[disabling[i]].line
  BY <1>1 DEF ThreadInv, Disables, Family, Kin
<1>5. k # i /\ k \in 1..Len(disabling) /\ k \in Nat
  BY <1>2, <1>3, <1>4
<1>6. PICK l \in 1..(Len(disabling) - 1) : l + 1 = k
  <2>1. k - 1 \in 1..(Len(disabling) - 1) /\ (k - 1) + 1 = k
    BY <1>1, <1>2, <1>3, <1>5
  <2>. QED  BY <2>1
<1>7. l \notin T /\ l \in i..Len(disabling)
  BY <1>1, <1>2, <1>3, <1>5, <1>6
<1>8. disabling[l] \in thread[disabling[i]].line /\ l \in 1..Len(disabling)
  BY <1>1, <1>2, <1>6, <1>7
<1>. DEFINE u == disabling[l]
            v == disabling[k]
            x == disabling[i]
<1>9. u \in Threads /\ v \in Threads /\ x \in Threads /\ Unreaped(u) /\ Unreaped(x)
  BY <1>1, <1>5, <1>8 DEF ThreadInv, Disables
<1>10. thread[u].forker = v /\ v # None
  BY <1>6, <1>9 DEF ThreadInv, Disables, Threads, None
<1>. HIDE DEF u, v, x
<1>11. thread[u].line = {u} \cup thread[v].line /\ Unreaped(v)
  BY <1>9, <1>10 DEF ThreadInv, Family, Kin
<1>12. v \in thread[v].line
  BY <1>9, <1>11 DEF ThreadInv, Family, Kin
<1>13. thread[u].line \subseteq thread[x].line
  <2>1. u \in thread[x].line
    BY <1>8 DEF u, x
  <2>. QED  BY <1>9, <2>1 DEF ThreadInv, Family, Kin
<1>14. v \in thread[x].line
  BY <1>11, <1>12, <1>13
<1>. QED  BY <1>3, <1>14 DEF v, x

\* None of their scopes is one that the first encloses nothing by.
LEMMA EnteredScopes ==
    ASSUME ThreadInv, NEW i \in 1..Len(disabling), NEW j \in 1..Len(disabling), i <= j
    PROVE  thread[disabling[j]].scope \in Enclosing(disabling[i])
<1>. DEFINE n == Len(disabling)
<1>1. n \in Nat /\ n \in 1..n /\ j <= n
  BY DEF ThreadInv, Typed
<1>2. disabling[j] \in thread[disabling[i]].line /\ disabling[n] \in thread[disabling[j]].line
  BY <1>1, EnteredLine
<1>3. disabling # <<>>
  BY <1>1
<1>4. thread[disabling[n]].scope = target /\ target \in P.disabled
  BY <1>3 DEF ThreadInv, Disables, Runs, Typed
<1>5. WithinDisabled(disabling[j])
  BY <1>2, <1>4 DEF WithinDisabled
<1>. QED  BY <1>2, <1>5 DEF Enclosing

\* Who comes later was created before.
LEMMA EnteredApart ==
    ASSUME ThreadInv, NEW i \in 1..Len(disabling), NEW j \in 1..Len(disabling), i < j
    PROVE  /\ disabling[j] < disabling[i]
           /\ thread[disabling[j]].scope # thread[disabling[i]].scope
<1>1. disabling \in Seq(Threads) /\ Len(disabling) \in Nat /\ \A k \in 1..Len(disabling) : disabling[k] \in Threads
  BY DEF ThreadInv, Typed
<1>. DEFINE u == disabling[i]
            f == disabling[i + 1]
            v == disabling[j]
<1>2. i + 1 \in 1..Len(disabling) /\ i + 1 <= j /\ i \in 1..(Len(disabling) - 1)
  BY <1>1
<1>3. u \in Threads /\ f \in Threads /\ v \in Threads /\ Unreaped(u) /\ Unreaped(f) /\ f # None
  BY <1>1, <1>2 DEF ThreadInv, Disables, Threads, None
<1>4. thread[u].forker = f
  BY <1>2 DEF ThreadInv, Disables
<1>5. v \in thread[f].line /\ thread[v].scope \in Enclosing(f)
  BY <1>2, EnteredLine, EnteredScopes
<1>. HIDE DEF u, f, v
<1>6. f < u /\ thread[u].scope \notin Enclosing(f)
  BY <1>3, <1>4 DEF ThreadInv, Family, Kin
<1>7. v <= f
  BY <1>3, <1>5 DEF ThreadInv, Family, Kin
<1>8. u \in Nat /\ v \in Nat /\ f \in Nat
  BY <1>3 DEF Threads
<1>9. v < u /\ thread[v].scope # thread[u].scope
  BY <1>5, <1>6, <1>7, <1>8
<1>. QED  BY <1>9 DEF u, v

\* The threads that one which is entered has forked are in other scopes.
LEMMA EnteredForker ==
    ASSUME ThreadInv, disabling # <<>>, NEW c \in Threads, Unreaped(c),
           thread[c].forker = Head(disabling)
    PROVE  /\ ~Entered(c)
           /\ \A u \in InScope(thread[c].scope) : ~Entered(u)
<1>1. disabling \in Seq(Threads) /\ Len(disabling) \in Nat /\ \A k \in 1..Len(disabling) : disabling[k] \in Threads
  BY DEF ThreadInv, Typed
<1>2. 1 \in 1..Len(disabling) /\ Head(disabling) = disabling[1]
  BY <1>1, TailOf
<1>. DEFINE h == disabling[1]
<1>3. h \in Threads /\ h # None /\ Unreaped(h) /\ thread[c].forker = h
  BY <1>1, <1>2 DEF ThreadInv, Disables, Threads, None
<1>4. ASSUME NEW j \in 1..Len(disabling)
      PROVE  disabling[j] \in thread[h].line /\ thread[disabling[j]].scope \in Enclosing(h)
  <2>1. 1 <= j
    OBVIOUS
  <2>. QED  BY <1>2, <2>1, EnteredLine, EnteredScopes
<1>. HIDE DEF h
<1>5. h < c /\ thread[c].scope \notin Enclosing(h)
  BY <1>3 DEF ThreadInv, Family, Kin
<1>6. ASSUME NEW j \in 1..Len(disabling) PROVE disabling[j] # c /\ thread[disabling[j]].scope # thread[c].scope
  <2>1. disabling[j] <= h
    BY <1>3, <1>4 DEF ThreadInv, Family, Kin
  <2>2. disabling[j] \in Nat /\ h \in Nat /\ c \in Nat
    BY <1>1, <1>3 DEF Threads
  <2>3. disabling[j] # c
    BY <1>5, <2>1, <2>2
  <2>. QED  BY <1>4, <1>5, <2>3
<1>7. ~Entered(c)
  BY <1>6 DEF Entered, In
<1>8. ASSUME NEW u \in InScope(thread[c].scope), Entered(u) PROVE FALSE
  <2>1. thread[u].scope = thread[c].scope
    BY DEF InScope
  <2>. QED  BY <1>6, <1>8, <2>1 DEF Entered, In
<1>. QED  BY <1>7, <1>8

\* The head is only at the head.
LEMMA EnteredTail ==
    ASSUME ThreadInv, disabling # <<>>, NEW c, c = Head(disabling)
    PROVE  \A u : In(u, Tail(disabling)) <=> Entered(u) /\ u # c
<1>1. disabling \in Seq(Threads) /\ Len(disabling) \in Nat /\ \A k \in 1..Len(disabling) : disabling[k] \in Threads
  BY DEF ThreadInv, Typed
<1>2. /\ 1 \in 1..Len(disabling) /\ c = disabling[1]
      /\ Len(Tail(disabling)) = Len(disabling) - 1
      /\ \A i \in 1..Len(Tail(disabling)) : Tail(disabling)[i] = disabling[i + 1] /\ i + 1 \in 1..Len(disabling)
      /\ \A u : In(u, disabling) <=> u = c \/ In(u, Tail(disabling))
  BY <1>1, TailOf
<1>3. ASSUME In(c, Tail(disabling)) PROVE FALSE
  <2>1. PICK i \in 1..Len(Tail(disabling)) : Tail(disabling)[i] = c
    BY <1>3 DEF In
  <2>2. PICK j \in 1..Len(disabling) : j = i + 1 /\ disabling[j] = c /\ 1 < j
    BY <1>1, <1>2, <2>1
  <2>3. disabling[j] < disabling[1]
    BY <1>2, <2>2, EnteredApart
  <2>. QED  BY <1>1, <1>2, <2>2, <2>3 DEF Threads
<1>. QED  BY <1>2, <1>3 DEF Entered

\* A thread whose parent forked it is the newest of a scope that is disabled.
LEMMA NewestInScope ==
    ASSUME ThreadInv, NEW c \in Threads, Unreaped(c), thread[c].parent = thread[c].forker,
           NEW s, s = thread[c].scope, s \in P.disabled
    PROVE  \A u \in InScope(s) : u <= c
<1>. DEFINE p == thread[c].forker
<1>1. Loose(s) /\ c \in InScope(s)
  BY DisabledNames DEF ThreadInv, Typed, Rings, InScope
<1>2. p # None /\ \A u \in InScope(s) : thread[u].forker = p
  BY <1>1 DEF Loose
<1>3. p \in Threads
  BY <1>2, FieldTypes DEF ThreadInv
<1>4. Unreaped(p) /\ thread[p].child = c
  BY <1>2 DEF ThreadInv, Stack, Placed
<1>5. ASSUME NEW u \in InScope(s) PROVE u \in Children(p)
  <2>1. u \in Threads /\ Unreaped(u) /\ thread[u].forker = p
    BY <1>2 DEF InScope
  <2>2. thread[u].parent # None
    BY <1>2, <2>1 DEF ThreadInv, Family, Kin
  <2>. QED  BY <2>1, <2>2, ChildUnreaped
<1>6. Placed(p, c, thread[p].parent)
  BY <1>3, <1>4 DEF ThreadInv, Stack
<1>. HIDE DEF p
<1>. QED  BY <1>1, <1>5, <1>6 DEF Placed

-----------------------------------------------------------------------------
(* The lists when a thread leaves one.                                     *)

\* c is reaped, or do_disable turns it off.
Unlisting(c) ==
    /\ program' = program /\ UnlinkScope(c)
    /\ \A u \in Threads : u # c => /\ Unreaped(u)' <=> Unreaped(u)
                                   /\ Entered(u)' <=> Entered(u)
    /\ \A u \in Threads : Unreaped(u)' => /\ thread'[u].scope = thread[u].scope
                                          /\ thread'[u].forker = thread[u].forker
                                          /\ thread[u].off => thread'[u].off
    /\ ~Unreaped(c)' \/ (thread'[c].off /\ Entered(c)')

\* A cell points to cells of its own list.
LEMMA CellsNextTo ==
    ASSUME Rings, NEW c \in Threads, Unreaped(c), NEW s, s = thread[c].scope, s \in Scopes
    PROVE  /\ c \in InScope(s)
           /\ scope_next[c] \in InScope(s) \cup {s} /\ scope_prev[c] \in InScope(s) \cup {s}
<1>1. c \in InScope(s)
  BY DEF InScope
<1>2. CASE s \in P.disabled
  <2>1. Loose(s)
    BY <1>2 DEF Rings
  <2>. QED  BY <1>1, <2>1 DEF Loose, Older
<1>3. CASE s \notin P.disabled
  <2>1. Ring(s)
    BY <1>3 DEF Rings
  <2>. QED  BY <1>1, <2>1 DEF Ring, Listed
<1>. QED  BY <1>1, <1>2, <1>3

\* The lists when c leaves its own.
LEMMA RingsUnlinked ==
    ASSUME Typed, Rings, NEW c \in Threads, Unreaped(c), Unlisting(c),
           NEW s, s = thread[c].scope,
           s \notin P.disabled =>
              \/ \A u \in InScope(s) : ~Entered(u)
              \/ Entered(c) /\ ~Unreaped(c)' /\ \A u \in InScope(s) : Entered(u) => u = c,
           s \in P.disabled =>
              \/ \A u \in InScope(s) : u <= c
              \/ c = scope_next[s] /\ Unreaped(c)'
    PROVE  Rings'
<1>1. s \in Scopes /\ \A r \in Scopes : r \notin Threads
  BY FieldTypes, DisabledNames DEF Typed
<1>2. /\ c \in InScope(s)
      /\ scope_next[c] \in InScope(s) \cup {s} /\ scope_prev[c] \in InScope(s) \cup {s}
  BY <1>1, CellsNextTo
<1>3. P' = P /\ Scopes' = Scopes
  BY SameProgram DEF Unlisting
<1>4. \A r : \A u : u # c => (u \in InScope(r)' <=> u \in InScope(r))
  BY DEF InScope, Unlisting
<1>5. ASSUME NEW r \in Scopes, r # s
      PROVE  SameList(r) /\ \A u \in InScope(r) : Entered(u)' <=> Entered(u)
  <2>1. c \notin InScope(r) /\ c \notin InScope(r)'
    BY <1>5 DEF InScope, Unlisting
  <2>2. \A u : u \in InScope(r)' <=> u \in InScope(r)
    BY <1>4, <2>1
  <2>3. ASSUME NEW n \in InScope(r) \cup {r}
        PROVE  n \in Cells /\ n \notin InScope(s) \cup {s}
    BY <1>1, <1>5, <2>3 DEF InScope, Cells
  <2>4. ASSUME NEW n \in InScope(r) \cup {r}
        PROVE  scope_next'[n] = scope_next[n] /\ scope_prev'[n] = scope_prev[n]
    <3>1. n \in Cells /\ n # scope_next[c] /\ n # scope_prev[c]
      BY <1>2, <2>3
    <3>. QED  BY <3>1 DEF Unlisting, UnlinkScope, Typed
  <2>5. \A u \in InScope(r) : /\ thread'[u].forker = thread[u].forker
                              /\ thread[u].off => thread'[u].off
                              /\ u \in Threads /\ u # c
    BY <2>1, <2>2 DEF InScope, Unlisting
  <2>. QED  BY <2>2, <2>4, <2>5 DEF SameList, Unlisting
<1>6. \A u \in InScope(s)' : /\ thread'[u].forker = thread[u].forker
                             /\ thread[u].off => thread'[u].off
  BY DEF InScope, Unlisting
<1>7. \/ InScope(s)' = InScope(s) \ {c} /\ ~Unreaped(c)'
      \/ InScope(s)' = InScope(s) /\ Unreaped(c)' /\ thread'[c].off /\ Entered(c)'
  <2>1. CASE Unreaped(c)'
    <3>1. c \in InScope(s)' /\ thread'[c].off /\ Entered(c)'
      BY <2>1 DEF InScope, Unlisting
    <3>. QED  BY <1>2, <1>4, <2>1, <3>1
  <2>2. CASE ~Unreaped(c)'
    <3>1. c \notin InScope(s)'
      BY <2>2 DEF InScope
    <3>. QED  BY <1>4, <2>2, <3>1
  <2>. QED  BY <2>1, <2>2
<1>8. CASE s \in P.disabled
  <2>1. Loose(s)
    BY <1>1, <1>8 DEF Rings
  <2>2. UnlinkScope(c)
    BY DEF Unlisting
  <2>3. \/ \A u \in InScope(s) : u <= c
        \/ c = scope_next[s] /\ c \in InScope(s)'
    BY <1>2, <1>7, <1>8
  <2>4. Loose(s)'
    BY <1>1, <1>2, <1>6, <1>7, <2>1, <2>2, <2>3, LooseUnlinked
  <2>5. ASSUME NEW r \in Scopes PROVE (r \in P.disabled => Loose(r)') /\ (r \notin P.disabled => Ring(r)')
    BY <1>5, <1>8, <2>4, RingKept, LooseKept DEF Rings
  <2>. QED  BY <1>3, <2>5 DEF Rings
<1>9. CASE s \notin P.disabled
  <2>1. Ring(s) /\ UnlinkScope(c)
    BY <1>1, <1>9 DEF Rings, Unlisting
  <2>2. CASE \A u \in InScope(s) : ~Entered(u)
    <3>1. c \in Listed(s) /\ c # s
      BY <1>1, <1>2, <2>2 DEF Listed
    <3>2. \A n \in InScope(s)' : Entered(n)' => n = c
      BY <1>4, <2>2 DEF Unlisting, InScope
    <3>3. InScope(s)' \subseteq InScope(s)
      BY <1>7
    <3>4. Listed(s)' = Listed(s) \ {c}
      <4>1. ASSUME NEW u PROVE u \in Listed(s)' <=> u \in Listed(s) /\ u # c
        <5>1. u \in Listed(s)' <=> u = s \/ (u \in InScope(s)' /\ ~Entered(u)')
          BY DEF Listed
        <5>2. u \in Listed(s) <=> u = s \/ (u \in InScope(s) /\ ~Entered(u))
          BY DEF Listed
        <5>3. CASE u = c
          BY <1>1, <1>7, <5>1, <5>3
        <5>4. CASE u # c
          <6>1. u \in InScope(s) => (Entered(u)' <=> Entered(u))
            BY <5>4 DEF InScope, Unlisting
          <6>. QED  BY <1>4, <5>1, <5>2, <5>4, <6>1
        <5>. QED  BY <5>3, <5>4
      <4>. QED  BY <4>1
    <3>5. Ring(s)'
      BY <1>1, <2>1, <2>2, <3>1, <3>2, <3>3, <3>4, RingUnlinked
    <3>6. ASSUME NEW r \in Scopes PROVE (r \in P.disabled => Loose(r)') /\ (r \notin P.disabled => Ring(r)')
      BY <1>5, <1>9, <3>5, RingKept, LooseKept DEF Rings
    <3>. QED  BY <1>3, <3>6 DEF Rings
  <2>3. CASE Entered(c) /\ ~Unreaped(c)' /\ \A u \in InScope(s) : Entered(u) => u = c
    <3>1. scope_next' = scope_next /\ scope_prev' = scope_prev
      BY <1>1, <1>2, <2>1, <2>3, RingAgain
    <3>2. InScope(s)' = InScope(s) \ {c}
      BY <1>7, <2>3
    <3>3. \A u \in InScope(s)' : ~Entered(u)'
      BY <2>3, <3>2 DEF Unlisting, InScope
    <3>4. Listed(s)' = Listed(s)
      BY <2>3, <3>2, <3>3 DEF Listed
    <3>5. Ring(s)'
      BY <2>1, <3>1, <3>3, <3>4 DEF Ring
    <3>6. ASSUME NEW r \in Scopes PROVE (r \in P.disabled => Loose(r)') /\ (r \notin P.disabled => Ring(r)')
      BY <1>5, <1>9, <3>5, RingKept, LooseKept DEF Rings
    <3>. QED  BY <1>3, <3>6 DEF Rings
  <2>. QED  BY <1>9, <2>2, <2>3
<1>. QED  BY <1>8, <1>9

-----------------------------------------------------------------------------
(* A thread is reaped.                                                     *)

\* What vthread_reap makes of the threads when c leaves the stack and p, which
\* forked it, is woken or not.
ReapFields(c, p, w) ==
    /\ \A u \in Threads : u # c =>
         /\ Keeps(u)
         /\ thread'[u].life = thread[u].life /\ thread'[u].off = thread[u].off
         /\ thread'[u].i_have_ended = thread[u].i_have_ended
         /\ thread'[u].schedule_parent_on_end = thread[u].schedule_parent_on_end
         /\ thread'[u].waiting_for_event = thread[u].waiting_for_event
         /\ thread'[u].is_scheduled <=> thread[u].is_scheduled \/ (w /\ u = p)
         /\ thread'[u].parent = IF u = thread[c].child THEN p ELSE thread[u].parent
         /\ thread'[u].child = IF u = p THEN thread[c].child ELSE thread[u].child
         /\ thread'[u].fork_count = IF u = p THEN thread[u].fork_count - 1
                                    ELSE thread[u].fork_count
    /\ thread'[c].life = IF Held(c) \/ thread[c].delay_delete THEN "live" ELSE "freed"
    /\ thread'[c].life = "live" =>
         /\ thread'[c].child = None /\ thread'[c].parent = None
         /\ thread'[c].i_have_ended /\ thread'[c].off = thread'[c].i_have_ended
         /\ thread'[c].fork_count = 0
         /\ thread'[c].waiting_for_event = thread[c].waiting_for_event
         /\ thread'[c].is_scheduled = thread[c].is_scheduled

\* Who reaps it: the %join of p, its own %end, or do_disable.
Reaper(c, p) ==
    \/ /\ target = NoScope /\ running = p /\ running' = running /\ disabling' = disabling
       /\ ~thread[c].schedule_parent_on_end
    \/ target = NoScope /\ running = c /\ running' = None /\ disabling' = disabling
    \/ /\ disabling # <<>> /\ c = Head(disabling) /\ disabling' = Tail(disabling)
       /\ running' = running

ReapStep(c, p, w) ==
    /\ Unreaped(c) /\ Children(c) = {}
    /\ p = thread[c].parent /\ p = thread[c].forker
    /\ w <=> thread[c].schedule_parent_on_end
    /\ w => p # None /\ ~Entered(p)
    /\ ~w /\ p # None => running = p \/ thread[p].i_have_ended
    /\ ReapFields(c, p, w) /\ Reaper(c, p)
    /\ UnlinkScope(c)
    /\ del_thr' = IF ~Held(c) /\ thread[c].delay_delete THEN del_thr \cup {c} ELSE del_thr
    /\ IF w THEN Push(p) ELSE UNCHANGED active
    /\ UNCHANGED <<program, delayed, waiting_list, rest, target, myself>>

\* It is alone at the head, or nobody is entered.
LEMMA ReapEntered ==
    ASSUME ThreadInv, NEW c \in Threads, NEW p, Reaper(c, p)
    PROVE  /\ \A u : Entered(u)' <=> Entered(u) /\ u # c
           /\ Entered(c) \/ (target = NoScope /\ \A u : ~Entered(u))
           /\ Entered(c) <=> disabling # <<>>
           /\ Entered(c) => c = Head(disabling) /\ disabling' = Tail(disabling) /\ running' = running
           /\ ~Entered(c) => disabling = <<>> /\ disabling' = <<>>
<1>1. CASE target = NoScope /\ disabling' = disabling
  <2>1. disabling = <<>>
    BY <1>1 DEF ThreadInv, Runs
  <2>2. \A u : ~Entered(u) /\ ~Entered(u)'
    BY <1>1, <2>1 DEF Entered, In
  <2>. QED  BY <1>1, <2>1, <2>2
<1>2. CASE disabling # <<>> /\ c = Head(disabling) /\ disabling' = Tail(disabling) /\ running' = running
  <2>1. \A u : In(u, Tail(disabling)) <=> Entered(u) /\ u # c
    BY <1>2, EnteredTail
  <2>2. Entered(c)
    BY <1>2, TailOf DEF ThreadInv, Typed, Entered
  <2>3. \A u : Entered(u)' <=> In(u, Tail(disabling))
    BY <1>2 DEF Entered
  <2>. QED  BY <1>2, <2>1, <2>2, <2>3
<1>. QED  BY <1>1, <1>2 DEF Reaper

\* It is no longer there, and nobody else goes.
LEMMA ReapUnreaped ==
    ASSUME NEW c \in Threads, NEW p, NEW w, ReapFields(c, p, w),
           \A u \in Threads : u # c /\ Unreaped(u) =>
               (thread'[u].parent = None <=> thread[u].parent = None),
           \A u \in Threads : Live(u) /\ ~Unreaped(u) => u # thread[c].child
    PROVE  /\ ~Unreaped(c)'
           /\ \A u \in Threads : u # c => (Live(u)' <=> Live(u)) /\ (Unreaped(u)' <=> Unreaped(u))
<1>1. ~Unreaped(c)'
  BY DEF ReapFields, Unreaped, Live
<1>2. ASSUME NEW u \in Threads, u # c
      PROVE  (Live(u)' <=> Live(u)) /\ (Unreaped(u)' <=> Unreaped(u))
  <2>1. /\ thread'[u].life = thread[u].life
        /\ thread'[u].i_have_ended = thread[u].i_have_ended
        /\ u # thread[c].child => thread'[u].parent = thread[u].parent
    BY <1>2 DEF ReapFields
  <2>2. Live(u)' <=> Live(u)
    BY <2>1 DEF Live
  <2>3. CASE Unreaped(u)
    BY <1>2, <2>1, <2>2, <2>3 DEF Unreaped
  <2>4. CASE ~Unreaped(u) /\ Live(u)
    BY <2>1, <2>2, <2>4 DEF Unreaped
  <2>5. CASE ~Live(u)
    BY <2>2, <2>5 DEF Unreaped
  <2>. QED  BY <2>2, <2>3, <2>4, <2>5
<1>. QED  BY <1>1, <1>2

\* The families, the stack and the lists.
LEMMA ReapOrder ==
    ASSUME ThreadInv, NEW c \in Threads, NEW p \in Ids, NEW w, ReapStep(c, p, w)
    PROVE  /\ ~Unreaped(c)'
           /\ \A u \in Threads : u # c => (Live(u)' <=> Live(u)) /\ (Unreaped(u)' <=> Unreaped(u))
           /\ Family' /\ Stack' /\ Rings'
<1>1. /\ Unreaped(c) /\ Children(c) = {} /\ p = thread[c].parent /\ p = thread[c].forker
      /\ program' = program /\ ReapFields(c, p, w) /\ Reaper(c, p) /\ UnlinkScope(c)
  BY DEF ReapStep
<1>2. /\ \A u : Entered(u)' <=> Entered(u) /\ u # c
      /\ Entered(c) \/ (target = NoScope /\ \A u : ~Entered(u))
  BY <1>1, ReapEntered
<1>. PICK x \in Ids : x = thread[c].child
  BY FieldTypes DEF ThreadInv
<1>3. x # None => x \in Threads /\ Unreaped(x) /\ thread[x].parent = c /\ x # c
  <2>1. x # None => x \in Threads /\ Unreaped(x) /\ thread[x].parent = c
    BY <1>1, FieldTypes DEF ThreadInv, Stack, Placed, Ids
  <2>2. ASSUME x = c, x # None PROVE FALSE
    <3>1. thread[c].forker = c /\ thread[c].parent = c
      BY <1>1, <2>1, <2>2
    <3>. QED  BY <1>1, <2>2, <3>1 DEF ThreadInv, Family, Kin, Threads
  <2>. QED  BY <2>1, <2>2
<1>4. p = None => x = None
  <2>1. ASSUME p = None, x # None PROVE FALSE
    <3>1. thread[c].line = {c} /\ Placed(c, x, None)
      BY <1>1, <2>1 DEF ThreadInv, Family, Kin, Stack
    <3>2. NextIs(c, x)
      BY <1>1, <3>1 DEF Placed
    <3>3. x \in Later(c)
      BY <2>1, <3>2 DEF NextIs
    <3>. QED  BY <1>1, <2>1, <3>1, <3>3 DEF Later
  <2>. QED  BY <2>1
<1>5. \A u \in Threads : u # c /\ Unreaped(u) =>
          (thread'[u].parent = None <=> thread[u].parent = None)
  <2>1. c # None
    BY DEF Threads, None
  <2>2. ASSUME NEW u \in Threads, u # c, u = x
        PROVE  thread'[u].parent = None <=> thread[u].parent = None
    <3>1. u # None
      BY DEF Threads, None
    <3>. QED  BY <1>1, <1>3, <1>4, <2>1, <2>2, <3>1 DEF ReapFields
  <2>3. ASSUME NEW u \in Threads, u # c, u # x
        PROVE  thread'[u].parent = None <=> thread[u].parent = None
    BY <1>1, <2>3 DEF ReapFields
  <2>. QED  BY <2>2, <2>3
<1>6. \A u \in Threads : Live(u) /\ ~Unreaped(u) => u # thread[c].child
  BY <1>3 DEF Threads, None
<1>7. /\ ~Unreaped(c)'
      /\ \A u \in Threads : u # c => (Live(u)' <=> Live(u)) /\ (Unreaped(u)' <=> Unreaped(u))
  BY <1>1, <1>5, <1>6, ReapUnreaped
<1>8. Reaping(c, p)
  BY <1>1, <1>2, <1>7 DEF Reaping, ReapFields
<1>9. Family' /\ Stack'
  BY <1>8, ReapingFamily, ReapingStack DEF ThreadInv
<1>10. Unlisting(c)
  <2>1. \A u \in Threads : Unreaped(u)' => /\ u # c /\ thread'[u].scope = thread[u].scope
                                           /\ thread'[u].forker = thread[u].forker
                                           /\ thread[u].off => thread'[u].off
    BY <1>1, <1>7 DEF ReapFields, Keeps
  <2>. QED  BY <1>1, <1>2, <1>7, <2>1 DEF Unlisting
<1>. PICK s \in Scopes : s = thread[c].scope
  BY FieldTypes DEF ThreadInv
<1>11. s \notin P.disabled =>
          \/ \A u \in InScope(s) : ~Entered(u)
          \/ Entered(c) /\ ~Unreaped(c)' /\ \A u \in InScope(s) : Entered(u) => u = c
  <2>1. ASSUME Entered(c), NEW u \in InScope(s), Entered(u), u # c PROVE FALSE
    <3>1. PICK i \in 1..Len(disabling) : disabling[i] = c
      BY <2>1 DEF Entered, In
    <3>2. PICK j \in 1..Len(disabling) : disabling[j] = u
      BY <2>1 DEF Entered, In
    <3>3. Len(disabling) \in Nat
      BY DEF ThreadInv, Typed
    <3>4. i # j /\ thread[disabling[i]].scope = thread[disabling[j]].scope
      BY <2>1, <3>1, <3>2 DEF InScope
    <3>5. i < j \/ j < i
      BY <3>3, <3>4
    <3>. QED  BY <3>4, <3>5, EnteredApart
  <2>. QED  BY <1>2, <1>7, <2>1
<1>12. s \in P.disabled => \A u \in InScope(s) : u <= c
  BY <1>1, NewestInScope
<1>13. Rings'
  BY <1>1, <1>10, <1>11, <1>12, RingsUnlinked DEF ThreadInv
<1>. QED  BY <1>7, <1>9, <1>13

\* The queues: the parent may enter one.
LEMMA ReapQueues ==
    ASSUME ThreadInv, NEW c \in Threads, NEW p \in Ids, NEW w, ReapStep(c, p, w)
    PROVE  /\ active' \in Seq(Seq(Threads)) /\ Queued' /\ Flagged'
           /\ \A u \in Threads : u # c => (Held(u)' <=> Held(u) \/ (w /\ u = p))
           /\ Live(c)' => (Held(c)' <=> Held(c))
           /\ w => /\ p \in Threads /\ p # c /\ ~Held(p) /\ running # p
                   /\ ~thread[p].i_have_ended /\ thread[c].forker = p
<1>1. /\ Unreaped(c) /\ Live(c) /\ p = thread[c].parent /\ ReapFields(c, p, w)
      /\ w <=> thread[c].schedule_parent_on_end
      /\ UNCHANGED <<program, delayed, waiting_list, rest>>
  BY DEF ReapStep, Unreaped
<1>2. w => /\ p \in Threads /\ p # c /\ ~Held(p) /\ running # p
           /\ ~thread[p].i_have_ended /\ thread[c].forker = p
  <2>. SUFFICES ASSUME w PROVE /\ p \in Threads /\ p # c /\ ~Held(p) /\ running # p
                               /\ ~thread[p].i_have_ended /\ thread[c].forker = p
    OBVIOUS
  <2>1. Joins(c, p) /\ ~Entered(p)
    BY <1>1 DEF ThreadInv, Joined, ReapStep
  <2>2. p \in Threads /\ thread[c].forker = p /\ p # None
    BY <2>1 DEF Joins, Ids
  <2>3. p < c
    BY <1>1, <2>2 DEF ThreadInv, Family, Kin
  <2>. QED  BY <2>1, <2>2, <2>3 DEF Joins, Threads
<1>3. \A u \in Threads : u # c =>
        /\ Live(u)' <=> Live(u)
        /\ thread'[u].is_scheduled <=> thread[u].is_scheduled \/ (w /\ u = p)
        /\ thread'[u].waiting_for_event <=> thread[u].waiting_for_event
  BY <1>1 DEF ReapFields, Live
<1>4. /\ Held(c) => Live(c)'
      /\ Live(c)' => /\ thread'[c].is_scheduled <=> thread[c].is_scheduled
                     /\ thread'[c].waiting_for_event <=> thread[c].waiting_for_event
  BY <1>1 DEF ReapFields, Live
<1>5. /\ \A u \in Threads : u # c => (Held(u)' <=> Held(u) \/ (w /\ u = p))
      /\ Live(c)' => (Held(c)' <=> Held(c))
  BY <1>3, <1>4 DEF Held
<1>6. active \in Seq(Seq(Threads)) /\ delayed \subseteq Threads /\ ChainsApart /\ EventsApart
  BY QueuedParts DEF ThreadInv, Typed
<1>7. CASE ~w
  <2>1. active' = active
    BY <1>7 DEF ReapStep
  <2>2. SameQueues
    <3>1. ASSUME NEW u \in Threads
          PROVE  /\ Live(u)' /\ thread'[u].is_scheduled <=> Live(u) /\ thread[u].is_scheduled
                 /\ Live(u)' /\ thread'[u].waiting_for_event <=> Live(u) /\ thread[u].waiting_for_event
      <4>1. CASE u = c
        BY <1>1, <1>4, <4>1 DEF Held
      <4>2. CASE u # c
        BY <1>3, <1>7, <4>2
      <4>. QED  BY <4>1, <4>2
    <3>. QED  BY <1>1, <2>1, <3>1 DEF SameQueues
  <2>3. Queued' /\ Flagged'
    BY <2>2, QueuesKept DEF ThreadInv
  <2>. QED  BY <1>2, <1>5, <1>6, <2>1, <2>3
<1>8. CASE w
  <2>1. Push(p) /\ p \in Threads /\ ~Held(p) /\ p # c
    BY <1>2, <1>8 DEF ReapStep
  <2>2. ~Scheduled(p) /\ ~Waiting(p)
    BY <2>1 DEF ThreadInv, Flagged, Held
  <2>3. /\ active' \in Seq(Seq(Threads)) /\ ChainsApart'
        /\ \A u \in Threads : Scheduled(u)' <=> Scheduled(u) \/ u = p
    BY <1>1, <1>6, <2>1, <2>2, Pushed
  <2>4. EventsApart' /\ \A u \in Threads : Waiting(u)' <=> Waiting(u)
    BY <1>1, <1>6, SameProgram DEF EventsApart, Waiting
  <2>5. Queued'
    BY <2>3, <2>4 DEF Queued, ChainsApart, EventsApart
  <2>6. Live(p)
    <3>1. thread[p].child = c /\ Unreaped(p)
      BY <1>1, <2>1 DEF ThreadInv, Stack, Placed, Threads, None
    <3>. QED  BY <3>1 DEF Unreaped
  <2>7. Flagged'
    <3>1. ASSUME NEW u \in Threads
          PROVE  /\ Scheduled(u)' <=> Live(u)' /\ thread'[u].is_scheduled
                 /\ Waiting(u)' <=> Live(u)' /\ thread'[u].waiting_for_event
                 /\ Live(u)' => ~(thread'[u].is_scheduled /\ thread'[u].waiting_for_event)
      <4>1. /\ Scheduled(u) <=> Live(u) /\ thread[u].is_scheduled
            /\ Waiting(u) <=> Live(u) /\ thread[u].waiting_for_event
            /\ Live(u) => ~(thread[u].is_scheduled /\ thread[u].waiting_for_event)
        BY DEF ThreadInv, Flagged
      <4>2. CASE u = c
        BY <1>1, <1>4, <2>1, <2>3, <2>4, <4>1, <4>2 DEF Held
      <4>3. CASE u = p
        BY <1>3, <1>8, <2>1, <2>3, <2>4, <2>6, <4>1, <4>3 DEF Held
      <4>4. CASE u # p /\ u # c
        BY <1>3, <2>3, <2>4, <4>1, <4>4
      <4>. QED  BY <4>2, <4>3, <4>4
    <3>. QED  BY <3>1 DEF Flagged
  <2>. QED  BY <1>2, <1>5, <2>3, <2>5, <2>7
<1>. QED  BY <1>7, <1>8

\* What is left of c is held, or deleted later; the others stay as they are.
LEMMA ReapReaps ==
    ASSUME ThreadInv, NEW c \in Threads, NEW p \in Ids, NEW w, ReapStep(c, p, w)
    PROVE  Reaps' /\ InOrder'
<1>1. /\ Unreaped(c) /\ Live(c) /\ p = thread[c].parent /\ ReapFields(c, p, w) /\ Reaper(c, p)
      /\ del_thr' = IF ~Held(c) /\ thread[c].delay_delete THEN del_thr \cup {c} ELSE del_thr
  BY DEF ReapStep, Unreaped
<1>2. /\ ~Unreaped(c)'
      /\ \A u \in Threads : u # c => (Live(u)' <=> Live(u)) /\ (Unreaped(u)' <=> Unreaped(u))
  BY ReapOrder
<1>3. /\ \A u \in Threads : u # c => (Held(u)' <=> Held(u) \/ (w /\ u = p))
      /\ Live(c)' => (Held(c)' <=> Held(c))
  BY ReapQueues
<1>4. p # None => p \in Threads /\ Unreaped(p)
  BY <1>1 DEF ThreadInv, Stack, Placed, Ids
<1>5. thread[c].child # None => thread[c].child \in Threads /\ Unreaped(thread[c].child)
  BY <1>1, FieldTypes DEF ThreadInv, Stack, Placed, Ids
<1>6. ASSUME NEW u \in Threads, Live(u)' PROVE thread'[u].off = thread'[u].i_have_ended
  <2>1. CASE u = c
    BY <1>1, <1>6, <2>1 DEF ReapFields, Live
  <2>2. CASE u # c
    BY <1>1, <1>2, <1>6, <2>2 DEF ReapFields, ThreadInv, Reaps
  <2>. QED  BY <2>1, <2>2
<1>7. ASSUME NEW u \in Threads, Live(u)', ~Unreaped(u)' PROVE Remains(u)'
  <2>1. CASE u = c
    <3>1. Held(c) \/ thread[c].delay_delete
      BY <1>1, <1>7, <2>1 DEF ReapFields, Live
    <3>2. Held(c)' \/ c \in del_thr'
      BY <1>1, <1>3, <1>7, <2>1, <3>1
    <3>. QED  BY <1>1, <1>7, <2>1, <3>2 DEF ReapFields, Live, Remains, Held
  <2>2. CASE u # c
    <3>1. Live(u) /\ ~Unreaped(u) /\ Remains(u)
      BY <1>2, <1>7, <2>2 DEF ThreadInv, Reaps
    <3>2. u # p /\ u # thread[c].child
      BY <1>4, <1>5, <3>1 DEF Threads, None
    <3>3. /\ thread'[u].child = None /\ thread'[u].parent = None
          /\ thread'[u].i_have_ended /\ thread'[u].fork_count = 0
      BY <1>1, <2>2, <3>1, <3>2 DEF Remains, ReapFields
    <3>4. Held(u) \/ u \in del_thr \/ u = running
      BY <3>1 DEF Remains, Held
    <3>5. u = running => u = running'
      BY <1>1, <2>2 DEF Reaper
    <3>6. Held(u)' \/ u \in del_thr' \/ u = running'
      BY <1>1, <1>3, <2>2, <3>4, <3>5
    <3>. QED  BY <3>3, <3>6 DEF Remains, Held
  <2>. QED  BY <2>1, <2>2
<1>8. ASSUME NEW u \in del_thr'
      PROVE  Live(u)' /\ ~Unreaped(u)' /\ ~thread'[u].is_scheduled /\ ~thread'[u].waiting_for_event
  <2>1. CASE u \in del_thr
    <3>1. u \in Threads /\ Live(u) /\ ~Unreaped(u) /\ ~Held(u) /\ u # c
      BY <1>1, <2>1 DEF ThreadInv, Typed, Reaps, Held
    <3>2. ~(w /\ u = p)
      <4>1. u # None
        BY <3>1 DEF Threads, None
      <4>. QED  BY <1>4, <3>1, <4>1
    <3>3. ~Held(u)'
      BY <1>3, <3>1, <3>2
    <3>. QED  BY <1>2, <3>1, <3>3 DEF Held
  <2>2. CASE u \notin del_thr
    <3>1. u = c /\ ~Held(c) /\ thread[c].delay_delete
      BY <1>1, <1>8, <2>2
    <3>2. Live(c)'
      BY <1>1, <3>1 DEF ReapFields, Live
    <3>3. ~Held(c)'
      BY <1>3, <3>1, <3>2
    <3>. QED  BY <1>2, <3>1, <3>2, <3>3 DEF Held
  <2>. QED  BY <2>1, <2>2
<1>9. \A u \in Threads : thread'[u].life = "unborn" <=> thread[u].life = "unborn"
  <2>1. thread[c].life = "live" /\ thread'[c].life # "unborn"
    BY <1>1 DEF ReapFields, Live
  <2>. QED  BY <1>1, <2>1 DEF ReapFields
<1>10. InOrder'
  BY <1>9, OrderKept DEF ThreadInv
<1>. QED  BY <1>6, <1>7, <1>8, <1>10 DEF Reaps

\* Whoever waits in its %join waits for another thread.
LEMMA ReapJoined ==
    ASSUME ThreadInv, NEW c \in Threads, NEW p \in Ids, NEW w, ReapStep(c, p, w)
    PROVE  Joined'
<1>1. /\ Unreaped(c) /\ Live(c) /\ Children(c) = {} /\ p = thread[c].parent /\ p = thread[c].forker
      /\ ReapFields(c, p, w) /\ Reaper(c, p)
      /\ ~w /\ p # None => running = p \/ thread[p].i_have_ended
  BY DEF ReapStep, Unreaped
<1>2. /\ ~Unreaped(c)'
      /\ \A u \in Threads : u # c => (Live(u)' <=> Live(u)) /\ (Unreaped(u)' <=> Unreaped(u))
  BY ReapOrder
<1>3. \A u \in Threads : u # c => (Held(u)' <=> Held(u) \/ (w /\ u = p))
  BY ReapQueues
<1>4. /\ \A u : Entered(u)' <=> Entered(u) /\ u # c
      /\ Entered(c) <=> disabling # <<>>
      /\ Entered(c) => c = Head(disabling) /\ disabling' = Tail(disabling) /\ running' = running
      /\ ~Entered(c) => disabling = <<>> /\ disabling' = <<>>
  BY <1>1, ReapEntered
<1>5. p # None => p \in Threads /\ Unreaped(p) /\ thread[p].child = c
  BY <1>1 DEF ThreadInv, Stack, Placed, Ids
<1>6. c # None
  BY DEF Threads, None
<1>7. ASSUME NEW u \in Threads, Unreaped(u)', thread'[u].schedule_parent_on_end,
             NEW q, q = thread'[u].parent
      PROVE  Joins(u, q)'
  <2>1. u # c /\ Unreaped(u) /\ thread[u].schedule_parent_on_end
    BY <1>1, <1>2, <1>7 DEF ReapFields
  <2>. PICK r \in Ids : r = thread[u].parent
    BY FieldTypes DEF ThreadInv
  <2>2. Joins(u, r)
    BY <2>1 DEF ThreadInv, Joined
  <2>3. r \in Threads /\ thread[u].forker = r /\ r # None
    BY <2>2 DEF Joins, Ids
  <2>4. thread[r].child = u
    BY <2>1, <2>3 DEF ThreadInv, Stack, Placed
  <2>5. r # c
    BY <1>1, <2>1, <2>3, ChildUnreaped
  <2>6. r # p
    BY <1>5, <2>1, <2>3, <2>4
  <2>7. u # thread[c].child
    <3>1. u = thread[c].child => thread[u].parent = c
      BY <1>1, <1>6 DEF ThreadInv, Stack, Placed, Threads, None
    <3>. QED  BY <2>5, <3>1
  <2>8. q = r /\ thread'[u].forker = r /\ thread'[u].i_have_ended = thread[u].i_have_ended
        /\ thread'[r].i_have_ended = thread[r].i_have_ended
    BY <1>1, <1>7, <2>1, <2>3, <2>5, <2>7 DEF ReapFields, Keeps
  <2>9. Entered(r)' \/ (~thread'[r].i_have_ended /\ ~Held(r)' /\ running' # r)
    <3>1. CASE Entered(r)
      BY <1>4, <2>5, <3>1
    <3>2. CASE ~thread[r].i_have_ended /\ ~Held(r) /\ running # r
      <4>1. running' # r
        BY <1>1, <2>3, <3>2 DEF Reaper
      <4>. QED  BY <1>3, <2>3, <2>5, <2>6, <2>8, <3>2, <4>1
    <3>. QED  BY <2>2, <3>1, <3>2 DEF Joins
  <2>10. thread'[u].i_have_ended => disabling' # <<>> /\ disabling'[Len(disabling')] = u
    <3>. SUFFICES ASSUME thread[u].i_have_ended
                  PROVE  disabling' # <<>> /\ disabling'[Len(disabling')] = u
      BY <2>8
    <3>1. disabling # <<>> /\ disabling[Len(disabling)] = u
      BY <2>2 DEF Joins
    <3>2. disabling \in Seq(Threads)
      BY DEF ThreadInv, Typed
    <3>. DEFINE d == Tail(disabling)
    <3>3. /\ disabling[1] = c /\ Len(disabling) \in Nat /\ Len(disabling) > 0
          /\ Len(d) = Len(disabling) - 1 /\ d \in Seq(Threads)
          /\ \A i \in 1..Len(d) : d[i] = disabling[i + 1]
          /\ disabling' = d
      BY <1>4, <3>1, <3>2, TailOf
    <3>. HIDE DEF d
    <3>4. Len(d) > 0
      BY <2>1, <3>1, <3>3
    <3>5. d # <<>> /\ d[Len(d)] = disabling[Len(d) + 1] /\ Len(d) + 1 = Len(disabling)
      BY <3>3, <3>4
    <3>. QED  BY <3>1, <3>3, <3>5
  <2>. QED  BY <2>3, <2>8, <2>9, <2>10 DEF Joins
<1>8. ASSUME NEW u \in Threads, Unreaped(u)', ~thread'[u].i_have_ended, running' # u, ~Held(u)'
      PROVE  thread'[u].child # None /\ thread'[thread'[u].child].schedule_parent_on_end
  <2>1. u # c /\ Unreaped(u) /\ ~thread[u].i_have_ended /\ ~Held(u) /\ ~(w /\ u = p)
    BY <1>1, <1>2, <1>3, <1>8 DEF ReapFields
  <2>2. running # u
    BY <1>1, <1>8, <2>1 DEF Reaper
  <2>3. u # p
    BY <1>1, <2>1, <2>2 DEF Threads, None
  <2>. PICK y \in Ids : y = thread[u].child
    BY FieldTypes DEF ThreadInv
  <2>4. y # None /\ y \in Threads /\ thread[y].schedule_parent_on_end
    BY <2>1, <2>2 DEF ThreadInv, Joined, Ids
  <2>5. thread[y].parent = u
    BY <2>1, <2>4 DEF ThreadInv, Stack, Placed
  <2>6. y # c
    BY <1>1, <2>3, <2>5
  <2>7. thread'[u].child = y /\ thread'[y].schedule_parent_on_end
    BY <1>1, <2>1, <2>3, <2>4, <2>6 DEF ReapFields
  <2>. QED  BY <2>4, <2>7
<1>. QED  BY <1>7, <1>8 DEF Joined

\* The running thread, and the threads do_disable is at.
LEMMA ReapRuns ==
    ASSUME ThreadInv, NEW c \in Threads, NEW p \in Ids, NEW w, ReapStep(c, p, w)
    PROVE  Runs' /\ Disables'
<1>1. /\ Unreaped(c) /\ Live(c) /\ Children(c) = {} /\ p = thread[c].parent /\ p = thread[c].forker
      /\ ReapFields(c, p, w) /\ Reaper(c, p)
      /\ target' = target /\ myself' = myself
      /\ del_thr' = IF ~Held(c) /\ thread[c].delay_delete THEN del_thr \cup {c} ELSE del_thr
  BY DEF ReapStep, Unreaped
<1>2. /\ ~Unreaped(c)'
      /\ \A u \in Threads : u # c => (Live(u)' <=> Live(u)) /\ (Unreaped(u)' <=> Unreaped(u))
  BY ReapOrder
<1>3. /\ \A u \in Threads : u # c => (Held(u)' <=> Held(u) \/ (w /\ u = p))
      /\ Live(c)' => (Held(c)' <=> Held(c))
      /\ w => running # p
  BY ReapQueues
<1>4. /\ \A u : Entered(u)' <=> Entered(u) /\ u # c
      /\ Entered(c) <=> disabling # <<>>
      /\ Entered(c) => c = Head(disabling) /\ disabling' = Tail(disabling) /\ running' = running
      /\ ~Entered(c) => disabling = <<>> /\ disabling' = <<>>
  BY <1>1, ReapEntered
<1>5. None \notin del_thr' /\ c \notin del_thr /\ del_thr \subseteq Threads
  <2>1. c \notin del_thr /\ del_thr \subseteq Threads
    BY <1>1 DEF ThreadInv, Reaps, Typed
  <2>. QED  BY <1>1, <2>1 DEF Threads, None
<1>6. running \in Ids /\ (running # None => running \in Threads)
  BY DEF ThreadInv, Typed, Ids
<1>7. running' # None /\ (Live(running') \/ target = NoScope) => running' = running
  BY <1>1 DEF Reaper
<1>8. Runs'
  <2>1. CASE running' = None
    <3>1. target = NoScope
      BY <1>1, <2>1 DEF Reaper, ThreadInv, Runs
    <3>2. disabling' = <<>> /\ ~myself'
      BY <1>1, <1>4, <3>1 DEF ThreadInv, Runs
    <3>. QED  BY <1>1, <1>5, <2>1, <3>1, <3>2 DEF Runs
  <2>2. CASE running' # None
    <3>1. running' = running /\ running \in Threads
      BY <1>1, <1>6, <2>2 DEF Reaper
    <3>2. CASE target = NoScope
      <4>1. /\ running = p /\ Live(p) /\ ~Held(p) /\ disabling = <<>> /\ disabling' = <<>>
            /\ ~myself /\ p \notin del_thr /\ p # c
        <5>1. running = p /\ disabling = <<>>
          BY <1>1, <3>2, <2>2 DEF Reaper, ThreadInv, Runs
        <5>2. p < c
          BY <1>1, <2>2, <3>1, <5>1 DEF ThreadInv, Family, Kin
        <5>. QED  BY <1>4, <2>2, <3>1, <3>2, <5>1, <5>2 DEF ThreadInv, Runs, Threads
      <4>2. Live(p)' /\ ~Held(p)' /\ p \notin del_thr'
        BY <1>1, <1>2, <1>3, <3>1, <4>1
      <4>. QED  BY <1>1, <2>2, <3>1, <3>2, <4>1, <4>2 DEF Runs
    <3>3. CASE target # NoScope
      <4>1. /\ Entered(c) /\ thread[c].i_have_ended /\ (Live(running) => ~Held(running))
            /\ myself \/ (Unreaped(running) /\ ~thread[running].i_have_ended)
            /\ myself /\ Live(running) =>
                  thread[running].i_have_ended /\ (Unreaped(running) \/ running \in del_thr)
        <5>1. Entered(c)
          BY <1>1, <3>3, <1>4 DEF Reaper
        <5>. QED  BY <2>2, <3>1, <3>3, <5>1 DEF ThreadInv, Runs, Disables, Entered, In
      <4>2. CASE running = c
        <5>1. myself
          BY <4>1, <4>2
        <5>2. Live(c)' => ~Held(c)' /\ thread'[c].i_have_ended /\ c \in del_thr'
          BY <1>1, <1>3, <4>1, <4>2 DEF ReapFields, Live
        <5>. QED  BY <1>1, <2>2, <3>1, <3>3, <4>2, <5>1, <5>2 DEF Runs
      <4>3. CASE running # c
        <5>1. /\ Live(running)' <=> Live(running)
              /\ Unreaped(running)' <=> Unreaped(running)
              /\ thread'[running].i_have_ended = thread[running].i_have_ended
              /\ Held(running)' <=> Held(running)
          BY <1>1, <1>2, <1>3, <3>1, <4>3 DEF ReapFields
        <5>2. running \in del_thr => running \in del_thr'
          BY <1>1
        <5>. QED  BY <1>1, <2>2, <3>1, <3>3, <4>1, <5>1, <5>2 DEF Runs
      <4>. QED  BY <4>2, <4>3
    <3>. QED  BY <3>2, <3>3
  <2>. QED  BY <2>1, <2>2
<1>9. Disables'
  <2>1. CASE ~Entered(c)
    BY <1>4, <2>1 DEF Disables
  <2>2. CASE Entered(c)
    <3>. DEFINE d == Tail(disabling)
    <3>1. /\ disabling \in Seq(Threads) /\ Len(disabling) \in Nat /\ Len(disabling) > 0
          /\ disabling # <<>> /\ c = disabling[1]
          /\ Len(d) = Len(disabling) - 1 /\ Len(d) \in Nat
          /\ \A i \in 1..Len(d) : d[i] = disabling[i + 1] /\ i + 1 \in 1..Len(disabling)
          /\ disabling' = d
      <4>1. disabling \in Seq(Threads) /\ disabling # <<>>
        BY <1>4, <2>2 DEF ThreadInv, Typed
      <4>. QED  BY <1>4, <2>2, <4>1, TailOf
    <3>. HIDE DEF d
    <3>2. ASSUME NEW i \in 1..Len(d)
          PROVE  /\ d[i] \in Threads /\ d[i] # c /\ Unreaped(d[i]) /\ thread[d[i]].i_have_ended
      <4>1. PICK j \in 1..Len(disabling) : j = i + 1 /\ d[i] = disabling[j]
        BY <3>1
      <4>2. 1 \in 1..Len(disabling) /\ 1 < j
        BY <3>1, <4>1
      <4>3. disabling[j] < disabling[1] /\ disabling[j] \in Threads
        BY <3>1, <4>1, <4>2, EnteredApart
      <4>4. Unreaped(disabling[j]) /\ thread[disabling[j]].i_have_ended
        BY <4>1 DEF ThreadInv, Disables
      <4>. QED  BY <3>1, <4>1, <4>3, <4>4 DEF Threads
    <3>3. ASSUME NEW i \in 1..(Len(d) - 1)
          PROVE  /\ thread[d[i]].forker = d[i + 1] /\ thread[d[i]].parent = d[i + 1]
                 /\ ~thread[d[i]].schedule_parent_on_end
                 /\ i \in 1..Len(d) /\ i + 1 \in 1..Len(d)
      <4>1. i \in 1..Len(d) /\ i + 1 \in 1..Len(d)
        BY <3>1
      <4>2. PICK j \in 1..(Len(disabling) - 1) : j = i + 1 /\ d[i] = disabling[j] /\ d[i + 1] = disabling[j + 1]
        BY <3>1, <4>1
      <4>. QED  BY <4>1, <4>2 DEF ThreadInv, Disables
    <3>4. ASSUME NEW i \in 1..Len(d), NEW v, v = d[i]
          PROVE  Unreaped(v)' /\ thread'[v].i_have_ended
      <4>1. v \in Threads /\ v # c /\ Unreaped(v) /\ thread[v].i_have_ended
        BY <3>2, <3>4
      <4>. QED  BY <1>1, <1>2, <4>1 DEF ReapFields
    <3>5. ASSUME NEW i \in 1..(Len(d) - 1)
          PROVE  /\ thread'[d[i]].forker = d[i + 1] /\ thread'[d[i]].parent = d[i + 1]
                 /\ ~thread'[d[i]].schedule_parent_on_end
      <4>1. d[i] \in Threads /\ d[i] # c /\ d[i + 1] # c /\ Unreaped(d[i])
        BY <3>2, <3>3
      <4>2. d[i] # thread[c].child
        <5>1. c # None
          BY DEF Threads, None
        <5>2. d[i] = thread[c].child => thread[d[i]].parent = c
          BY <1>1, <4>1 DEF ThreadInv, Stack, Placed, Threads, None
        <5>. QED  BY <3>3, <4>1, <5>2
      <4>. QED  BY <1>1, <3>3, <4>1, <4>2 DEF ReapFields, Keeps
    <3>6. d # <<>> => thread'[d[Len(d)]].scope = target
      <4>. SUFFICES ASSUME d # <<>> PROVE thread'[d[Len(d)]].scope = target
        OBVIOUS
      <4>1. Len(d) \in 1..Len(d) /\ d[Len(d)] = disabling[Len(disabling)]
        <5>1. Len(d) # 0
          BY <3>1 DEF d
        <5>. QED  BY <3>1, <5>1
      <4>2. d[Len(d)] \in Threads /\ d[Len(d)] # c
        BY <3>2, <4>1
      <4>. QED  BY <1>1, <3>1, <4>1, <4>2 DEF ThreadInv, Disables, ReapFields, Keeps
    <3>7. \A i \in 1..Len(disabling') : \A v : v = disabling'[i] => Unreaped(v)' /\ thread'[v].i_have_ended
      BY <3>1, <3>4
    <3>8. (\A i \in 1..Len(disabling) : Unreaped(disabling[i]) /\ thread[disabling[i]].i_have_ended)'
      BY <3>7 DEF Unreaped, Live
    <3>. QED  BY <1>1, <3>1, <3>5, <3>6, <3>8 DEF Disables
  <2>. QED  BY <2>1, <2>2
<1>. QED  BY <1>8, <1>9

\* A thread is reaped.
LEMMA ReapKeeps ==
    ASSUME ThreadInv, NEW c \in Threads, NEW p \in Ids, NEW w, ReapStep(c, p, w),
           thread' \in [Threads -> Vthread], fault' = "none"
    PROVE  ThreadInv'
<1>1. /\ Unreaped(c) /\ Reaper(c, p) /\ UnlinkScope(c)
      /\ del_thr' = IF ~Held(c) /\ thread[c].delay_delete THEN del_thr \cup {c} ELSE del_thr
      /\ UNCHANGED <<program, delayed, waiting_list, rest, target, myself>>
  BY DEF ReapStep
<1>2. /\ scope_next' \in [Cells -> Cells] /\ scope_prev' \in [Cells -> Cells]
  <2>1. c \in Cells /\ scope_next \in [Cells -> Cells] /\ scope_prev \in [Cells -> Cells]
    BY DEF ThreadInv, Typed, Cells
  <2>2. scope_next[c] \in Cells /\ scope_prev[c] \in Cells
    BY <2>1
  <2>. QED  BY <1>1, <2>1, <2>2 DEF UnlinkScope
<1>3. disabling' \in Seq(Threads) /\ running' \in Ids
  <2>1. disabling \in Seq(Threads) /\ running \in Ids /\ None \in Ids
    BY DEF ThreadInv, Typed, Ids
  <2>2. disabling # <<>> => Tail(disabling) \in Seq(Threads)
    BY <2>1, TailOf
  <2>. QED  BY <1>1, <2>1, <2>2 DEF Reaper
<1>4. active' \in Seq(Seq(Threads)) /\ Queued' /\ Flagged'
  BY ReapQueues
<1>5. Typed'
  BY <1>1, <1>2, <1>3, <1>4, SameProgram DEF ThreadInv, Typed
<1>6. Family' /\ Stack' /\ Rings'
  BY ReapOrder
<1>. QED  BY <1>4, <1>5, <1>6, ReapReaps, ReapJoined, ReapRuns DEF ThreadInv

\* The bit field does not wrap.
LEMMA MinusOne ==
    ASSUME NEW n \in 0..(FORK_COUNTS - 1), n > 0
    PROVE  Minus(n) = n - 1 /\ Minus(n) \in 0..(FORK_COUNTS - 1)
<1>. FORK_COUNTS \in Nat \ {0} /\ n \in 1..(FORK_COUNTS - 1)
  BY ProgramsAssumption
<1>. QED  BY DEF Minus

\* What is changed before c is reaped: it has ended, and p has joined it.
Before(m, c, p, w) ==
    /\ m \in [Threads -> Vthread]
    /\ \A u \in Threads : u # c /\ u # p => m[u] = thread[u]
    /\ /\ m[c].i_have_ended /\ m[c].life = "live" /\ m[c].fork_count = 0
       /\ m[c].child = thread[c].child /\ m[c].parent = thread[c].parent
       /\ m[c].waiting_for_event = thread[c].waiting_for_event
       /\ m[c].is_scheduled = thread[c].is_scheduled
       /\ m[c].delay_delete = thread[c].delay_delete
    /\ p # None =>
         m[p] = IF w THEN [thread[p] EXCEPT !.fork_count = Minus(@), !.is_scheduled = TRUE]
                ELSE [thread[p] EXCEPT !.fork_count = Minus(@)]

\* Where c is when it is reaped.
LEMMA ReapPlace ==
    ASSUME ThreadInv, NEW c \in Threads, NEW p \in Ids, Unreaped(c), Children(c) = {},
           p = thread[c].parent, p = thread[c].forker, NEW x \in Ids, x = thread[c].child
    PROVE  /\ p # None => /\ p \in Threads /\ p # c /\ thread[p].child = c /\ Unreaped(p)
                          /\ thread[p].fork_count > 0
           /\ x # None => /\ x \in Threads /\ x # c /\ x # p /\ thread[x].parent = c /\ Unreaped(x)
           /\ thread[c].fork_count = 0 /\ x \in Ids
<1>1. x \in Ids
  BY FieldTypes DEF ThreadInv
<1>2. ASSUME p # None
      PROVE  /\ p \in Threads /\ p # c /\ thread[p].child = c /\ Unreaped(p)
             /\ thread[p].fork_count > 0
             /\ x # p
  <2>1. p \in Threads
    BY <1>2 DEF Ids
  <2>2. /\ thread[p].child = c /\ Unreaped(p) /\ p < c /\ c \in Children(p) /\ x # p
    BY <1>1, <2>1, NextAfter DEF ThreadInv
  <2>3. thread[p].fork_count \in Nat /\ thread[p].fork_count > 0
    BY <2>1, <2>2, OnTop
  <2>. QED  BY <2>1, <2>2, <2>3, FieldTypes DEF ThreadInv, Threads
<1>3. ASSUME x # None
      PROVE  x \in Threads /\ x # c /\ x # p /\ thread[x].parent = c /\ Unreaped(x)
  <2>1. x \in Threads /\ thread[x].parent = c /\ Unreaped(x)
    BY <1>1, <1>3 DEF Ids, ThreadInv, Stack, Placed
  <2>2. p = None => x # p
    BY <1>3
  <2>3. x # p
    BY <1>2, <2>2
  <2>4. x # c
    <3>1. x = c => p = c
      BY <2>1
    <3>. QED  BY <1>2, <3>1 DEF Threads, None
  <2>. QED  BY <2>1, <2>3, <2>4
<1>4. thread[c].fork_count = 0
  BY FS_EmptySet DEF ThreadInv, Stack, Placed
<1>. QED  BY <1>1, <1>2, <1>3, <1>4

\* vthread_reap changes what ReapFields says, and its asserts hold.
LEMMA ReapedFields ==
    ASSUME ThreadInv, NEW c \in Threads, NEW p \in Ids, NEW w \in BOOLEAN,
           Unreaped(c), Children(c) = {}, p = thread[c].parent, p = thread[c].forker,
           NEW m, Before(m, c, p, w), thread' = Reaped(m, c)
    PROVE  /\ thread' \in [Threads -> Vthread] /\ ReapFields(c, p, w) /\ Reapable(m, c)
           /\ Idle(m, c) <=> ~Held(c)
           /\ m[c].delay_delete = thread[c].delay_delete
<1>. PICK x \in Ids : x = thread[c].child
  BY FieldTypes DEF ThreadInv
<1>1. /\ p # None => /\ p \in Threads /\ p # c /\ thread[p].child = c /\ Unreaped(p)
                     /\ thread[p].fork_count > 0
      /\ x # None => /\ x \in Threads /\ x # c /\ x # p /\ thread[x].parent = c /\ Unreaped(x)
  <2>1. Unreaped(c) /\ Children(c) = {} /\ p = thread[c].parent /\ p = thread[c].forker /\ x = thread[c].child
    OBVIOUS
  <2>2. ThreadInv
    OBVIOUS
  <2>. QED  BY <2>1, <2>2, ReapPlace, Zenon
<1>2. thread \in [Threads -> Vthread] /\ m \in [Threads -> Vthread]
  BY DEF ThreadInv, Typed, Before
<1>3. /\ m[c].child = x /\ m[c].parent = p /\ m[c].fork_count = 0
      /\ m[c].i_have_ended /\ m[c].life = "live"
      /\ m[c].waiting_for_event = thread[c].waiting_for_event
      /\ m[c].is_scheduled = thread[c].is_scheduled
      /\ m[c].delay_delete = thread[c].delay_delete
      /\ m[c] \in Vthread
  BY <1>2 DEF Before
<1>4. Idle(m, c) <=> ~Held(c)
  BY <1>3 DEF Idle, Held
<1>5. /\ thread'[c] = IF Idle(m, c) /\ ~m[c].delay_delete THEN Deleted
                      ELSE [m[c] EXCEPT !.child = None, !.parent = None, !.off = TRUE]
      /\ \A u \in Threads : u # c =>
            thread'[u] = IF u = x THEN [m[u] EXCEPT !.parent = p]
                         ELSE IF u = p THEN [m[u] EXCEPT !.child = x] ELSE m[u]
      /\ thread' = [u \in Threads |-> thread'[u]]
  <2>1. thread' = [u \in Threads |->
                     CASE u = c -> IF Idle(m, c) /\ ~m[c].delay_delete THEN Deleted
                                   ELSE [m[c] EXCEPT !.child = None, !.parent = None, !.off = TRUE]
                       [] u = x -> [m[u] EXCEPT !.parent = p]
                       [] u = p -> [m[u] EXCEPT !.child = x]
                       [] OTHER -> m[u]]
    BY <1>3 DEF Reaped
  <2>2. x # c /\ p # c
    BY <1>1 DEF Threads, None
  <2>3. thread'[c] = IF Idle(m, c) /\ ~m[c].delay_delete THEN Deleted
                     ELSE [m[c] EXCEPT !.child = None, !.parent = None, !.off = TRUE]
    BY <2>1, <2>2
  <2>4. ASSUME NEW u \in Threads, u # c
        PROVE  thread'[u] = IF u = x THEN [m[u] EXCEPT !.parent = p]
                            ELSE IF u = p THEN [m[u] EXCEPT !.child = x] ELSE m[u]
    <3>1. x = p => x = None
      BY <1>1
    <3>2. u # None
      BY DEF Threads, None
    <3>3. CASE u = x
      BY <2>1, <2>2, <2>4, <3>1, <3>2, <3>3
    <3>4. CASE u # x /\ u = p
      BY <2>1, <2>2, <2>4, <3>4
    <3>5. CASE u # x /\ u # p
      BY <2>1, <2>2, <2>4, <3>5
    <3>. QED  BY <3>3, <3>4, <3>5
  <2>. QED  BY <2>1, <2>3, <2>4
<1>6. ASSUME p # None
      PROVE  /\ m[p] \in Vthread
             /\ m[p].fork_count = thread[p].fork_count - 1
             /\ m[p].is_scheduled <=> thread[p].is_scheduled \/ w
             /\ m[p].life = thread[p].life /\ m[p].off = thread[p].off
             /\ m[p].i_have_ended = thread[p].i_have_ended
             /\ m[p].schedule_parent_on_end = thread[p].schedule_parent_on_end
             /\ m[p].waiting_for_event = thread[p].waiting_for_event
             /\ m[p].parent = thread[p].parent /\ m[p].child = thread[p].child
             /\ m[p].forker = thread[p].forker /\ m[p].scope = thread[p].scope
             /\ m[p].line = thread[p].line
  <2>1. thread[p] \in Vthread /\ m[p] \in Vthread
    BY <1>1, <1>2, <1>6
  <2>2. Minus(thread[p].fork_count) = thread[p].fork_count - 1
    <3>1. thread[p].fork_count \in 0..(FORK_COUNTS - 1) /\ thread[p].fork_count > 0
      BY <1>1, <1>6, FieldTypes DEF ThreadInv
    <3>. QED  BY <3>1, MinusOne
  <2>3. CASE w
    <3>1. m[p] = [thread[p] EXCEPT !.fork_count = Minus(thread[p].fork_count), !.is_scheduled = TRUE]
      BY <1>6, <2>3 DEF Before
    <3>. QED  BY <2>1, <2>2, <2>3, <3>1 DEF Vthread
  <2>4. CASE ~w
    <3>1. m[p] = [thread[p] EXCEPT !.fork_count = Minus(thread[p].fork_count)]
      BY <1>6, <2>4 DEF Before
    <3>. QED  BY <2>1, <2>2, <2>4, <3>1 DEF Vthread
  <2>. QED  BY <2>3, <2>4
<1>7. \A u \in Threads : u # c /\ u # p => m[u] = thread[u]
  BY DEF Before
<1>8. ASSUME NEW u \in Threads, u # c
      PROVE  /\ thread'[u] \in Vthread
             /\ Keeps(u)
             /\ thread'[u].life = thread[u].life /\ thread'[u].off = thread[u].off
             /\ thread'[u].i_have_ended = thread[u].i_have_ended
             /\ thread'[u].schedule_parent_on_end = thread[u].schedule_parent_on_end
             /\ thread'[u].waiting_for_event = thread[u].waiting_for_event
             /\ thread'[u].is_scheduled <=> thread[u].is_scheduled \/ (w /\ u = p)
             /\ thread'[u].parent = IF u = x THEN p ELSE thread[u].parent
             /\ thread'[u].child = IF u = p THEN x ELSE thread[u].child
             /\ thread'[u].fork_count = IF u = p THEN thread[u].fork_count - 1
                                        ELSE thread[u].fork_count
  <2>1. thread[u] \in Vthread /\ m[u] \in Vthread
    BY <1>2
  <2>2. u # None
    BY DEF Threads, None
  <2>3. CASE u = p
    <3>1. u # x /\ thread'[u] = [m[u] EXCEPT !.child = x] /\ p # None
      BY <1>1, <1>5, <1>8, <2>2, <2>3
    <3>2. [m[u] EXCEPT !.child = x] \in Vthread
      BY <2>1 DEF Vthread, Ids
    <3>3. /\ thread'[u].child = x /\ thread'[u].fork_count = m[u].fork_count
          /\ thread'[u].life = m[u].life /\ thread'[u].off = m[u].off
          /\ thread'[u].i_have_ended = m[u].i_have_ended
          /\ thread'[u].schedule_parent_on_end = m[u].schedule_parent_on_end
          /\ thread'[u].waiting_for_event = m[u].waiting_for_event
          /\ thread'[u].is_scheduled = m[u].is_scheduled
          /\ thread'[u].parent = m[u].parent /\ thread'[u].forker = m[u].forker
          /\ thread'[u].scope = m[u].scope /\ thread'[u].line = m[u].line
      BY <2>1, <3>1 DEF Vthread
    <3>. QED  BY <1>6, <2>3, <3>1, <3>2, <3>3 DEF Keeps
  <2>4. CASE u = x
    <3>1. u # p /\ m[u] = thread[u] /\ thread'[u] = [thread[u] EXCEPT !.parent = p]
      BY <1>1, <1>5, <1>7, <1>8, <2>2, <2>4
    <3>2. [thread[u] EXCEPT !.parent = p] \in Vthread
      BY <2>1 DEF Vthread, Ids
    <3>. QED  BY <2>1, <2>4, <3>1, <3>2 DEF Vthread, Keeps
  <2>5. CASE u # p /\ u # x
    BY <1>5, <1>7, <1>8, <2>1, <2>5 DEF Keeps
  <2>. QED  BY <2>3, <2>4, <2>5
<1>9. /\ thread'[c] \in Vthread
      /\ thread'[c].life = IF Held(c) \/ thread[c].delay_delete THEN "live" ELSE "freed"
      /\ thread'[c].life = "live" =>
            /\ thread'[c].child = None /\ thread'[c].parent = None
            /\ thread'[c].i_have_ended /\ thread'[c].off = thread'[c].i_have_ended
            /\ thread'[c].fork_count = 0
            /\ thread'[c].waiting_for_event = thread[c].waiting_for_event
            /\ thread'[c].is_scheduled = thread[c].is_scheduled
  <2>1. CASE Held(c) \/ thread[c].delay_delete
    <3>1. thread'[c] = [m[c] EXCEPT !.child = None, !.parent = None, !.off = TRUE]
      BY <1>3, <1>4, <1>5, <2>1
    <3>2. [m[c] EXCEPT !.child = None, !.parent = None, !.off = TRUE] \in Vthread
      BY <1>3 DEF Vthread
    <3>3. m[c].i_have_ended = TRUE
      BY <1>3 DEF Vthread
    <3>. QED  BY <1>3, <2>1, <3>1, <3>2, <3>3 DEF Vthread
  <2>2. CASE ~(Held(c) \/ thread[c].delay_delete)
    <3>1. thread'[c] = Deleted
      BY <1>3, <1>4, <1>5, <2>2
    <3>. QED  BY <2>2, <3>1, DeletedType
  <2>. QED  BY <2>1, <2>2
<1>10. thread' \in [Threads -> Vthread]
  <2>1. \A u \in Threads : thread'[u] \in Vthread
    BY <1>8, <1>9
  <2>. QED  BY <1>5, <2>1
<1>11. ReapFields(c, p, w)
  BY <1>8, <1>9 DEF ReapFields
<1>12. Reapable(m, c)
  <2>1. x # None => m[x].parent = c
    BY <1>1, <1>7
  <2>2. p # None => m[p].child = c
    BY <1>1, <1>6
  <2>. QED  BY <1>3, <2>1, <2>2 DEF Reapable
<1>. QED  BY <1>3, <1>4, <1>10, <1>11, <1>12

\* A cell points to no thread that was deleted.
LEMMA NeighboursAlive ==
    ASSUME ThreadInv, NEW c \in Threads, Unreaped(c)
    PROVE  \A n \in Neighbours(c) \cup {c, thread[c].child, thread[c].parent} : ~Freed(n)
<1>. PICK s \in Scopes : s = thread[c].scope
  BY FieldTypes DEF ThreadInv
<1>1. scope_next[c] \in InScope(s) \cup {s} /\ scope_prev[c] \in InScope(s) \cup {s}
  BY CellsNextTo DEF ThreadInv
<1>2. \A n \in InScope(s) \cup {s} : ~Freed(n)
  BY DisabledNames DEF ThreadInv, Typed, InScope, Freed, Unreaped, Live
<1>3. \A n \in Threads : Unreaped(n) => ~Freed(n)
  BY DEF Freed, Unreaped, Live
<1>4. ~Freed(None)
  BY DEF Freed, Threads, None
<1>5. /\ thread[c].child # None => thread[c].child \in Threads /\ Unreaped(thread[c].child)
      /\ thread[c].parent # None => thread[c].parent \in Threads /\ Unreaped(thread[c].parent)
  BY FieldTypes DEF ThreadInv, Stack, Placed, Ids
<1>. QED  BY <1>1, <1>2, <1>3, <1>4, <1>5 DEF Neighbours

\* A %join reaps a child that has ended.
JoinReaps(t) ==
    LET c == thread[t].child
        m == [thread EXCEPT ![t].fork_count = Minus(@)]
    IN  /\ Program(t) /\ Children(t) # {}
        /\ thread[c].i_have_ended
        /\ vthread_reap(m, c)
        /\ Checked({c, thread[c].child} \cup Neighbours(c),
                   /\ thread[c].parent = t /\ thread[t].fork_count > 0
                   /\ Reapable(m, c))
        /\ UNCHANGED running
        /\ UNCHANGED <<program, active, delayed, waiting_list, rest, disable>>

\* A thread that has ended has joined what it has forked, or do_disable is at it.
LEMMA EndedChildless ==
    ASSUME ThreadInv, NEW c \in Threads, Unreaped(c), thread[c].i_have_ended, ~Entered(c)
    PROVE  Children(c) = {}
<1>. SUFFICES ASSUME NEW u \in Children(c) PROVE FALSE
  OBVIOUS
<1>1. u \in Threads /\ Unreaped(u) /\ thread[u].forker = c
  BY DEF Children, Unreaped
<1>. QED  BY <1>1 DEF ThreadInv, Family, Kin, Threads, None

\* A %join reaps the child that has ended.
LEMMA JoinReapsKeeps ==
    ASSUME ThreadInv, NEW t, t = running, JoinReaps(t)
    PROVE  ThreadInv'
<1>1. /\ t \in Threads /\ t # None /\ Live(t) /\ Unreaped(t)
      /\ target = NoScope /\ \A u : ~Entered(u)
  BY RunningThread DEF JoinReaps
<1>. PICK c \in Ids : c = thread[t].child
  BY <1>1, FieldTypes DEF ThreadInv
<1>2. /\ c \in Children(t) /\ c \in Threads /\ Unreaped(c) /\ c # t /\ c # None
      /\ thread[c].parent = t /\ thread[c].forker = t
      /\ thread[t].fork_count > 0
  BY <1>1, OnTop DEF JoinReaps
<1>. DEFINE m == [thread EXCEPT ![t].fork_count = Minus(@)]
<1>3. /\ thread[c].i_have_ended /\ vthread_reap(m, c)
      /\ Checked({c, thread[c].child} \cup Neighbours(c),
                   /\ thread[c].parent = t /\ thread[t].fork_count > 0
                   /\ Reapable(m, c))
      /\ UNCHANGED <<running, program, active, delayed, waiting_list, rest, disable>>
  BY DEF JoinReaps
<1>4. Children(c) = {}
  BY <1>1, <1>2, <1>3, EndedChildless
<1>5. thread \in [Threads -> Vthread] /\ thread[c] \in Vthread /\ thread[t] \in Vthread
  BY <1>1, <1>2 DEF ThreadInv, Typed
<1>6. Before(m, c, t, FALSE)
  <2>1. Minus(thread[t].fork_count) \in 0..(FORK_COUNTS - 1)
    BY <1>1, <1>2, FieldTypes, MinusOne DEF ThreadInv
  <2>2. [thread[t] EXCEPT !.fork_count = Minus(thread[t].fork_count)] \in Vthread
    BY <1>5, <2>1 DEF Vthread
  <2>3. m = [thread EXCEPT ![t] = [thread[t] EXCEPT !.fork_count = Minus(thread[t].fork_count)]]
    BY <1>1, <1>5
  <2>4. m \in [Threads -> Vthread] /\ (\A u \in Threads : u # t => m[u] = thread[u])
        /\ m[t] = [thread[t] EXCEPT !.fork_count = Minus(thread[t].fork_count)]
    BY <1>1, <1>5, <2>2, <2>3
  <2>5. thread[c].fork_count = 0 /\ thread[c].life = "live"
    BY <1>2, <1>4, FS_EmptySet DEF ThreadInv, Stack, Placed, Unreaped, Live
  <2>. HIDE DEF m
  <2>. QED  BY <1>2, <1>3, <2>4, <2>5 DEF Before
<1>. HIDE DEF m
<1>7. thread' = Reaped(m, c) /\ UnlinkScope(c) /\ DeleteLater(m, c)
  BY <1>3 DEF vthread_reap
<1>8. /\ thread' \in [Threads -> Vthread] /\ ReapFields(c, t, FALSE) /\ Reapable(m, c)
      /\ Idle(m, c) <=> ~Held(c)
      /\ m[c].delay_delete = thread[c].delay_delete
  <2>1. t \in Ids
    BY <1>1 DEF Ids
  <2>. QED  BY <1>2, <1>4, <1>6, <1>7, <2>1, ReapedFields
<1>9. ~thread[c].schedule_parent_on_end
  <2>1. ~(disabling # <<>>)
    BY <1>1 DEF ThreadInv, Runs
  <2>. QED  BY <1>2, <1>3, <2>1 DEF ThreadInv, Joined, Joins
<1>10. ReapStep(c, t, FALSE)
  <2>1. Reaper(c, t)
    BY <1>1, <1>3, <1>9 DEF Reaper, disable
  <2>2. del_thr' = IF ~Held(c) /\ thread[c].delay_delete THEN del_thr \cup {c} ELSE del_thr
    BY <1>7, <1>8 DEF DeleteLater
  <2>. QED  BY <1>2, <1>3, <1>4, <1>7, <1>8, <1>9, <2>1, <2>2 DEF ReapStep, disable
<1>11. fault' = "none"
  <2>1. \A n \in {c, thread[c].child} \cup Neighbours(c) : ~Freed(n)
    BY <1>2, NeighboursAlive
  <2>. QED  BY <1>2, <1>3, <1>8, <2>1 DEF Checked, ThreadInv
<1>12. t \in Ids
  BY <1>1 DEF Ids
<1>. QED  BY <1>2, <1>8, <1>10, <1>11, <1>12, ReapKeeps

\* A thread wakes its parent, which waits for it, and reaps itself.
LEMMA WakeParentKeeps ==
    ASSUME ThreadInv, NEW c \in Threads, Unreaped(c), Children(c) = {},
           thread[c].schedule_parent_on_end, NEW p, p = thread[c].parent, ~Entered(p),
           WakeParent(c), Reaper(c, p), UNCHANGED <<program, delayed, waiting_list, rest, target, myself>>
    PROVE  ThreadInv'
<1>1. Joins(c, p) /\ p \in Ids
  BY FieldTypes DEF ThreadInv, Joined
<1>2. p \in Threads /\ p # None /\ thread[c].forker = p /\ ~Held(p)
  BY <1>1 DEF Joins, Ids
<1>3. /\ p # c /\ Unreaped(p) /\ thread[p].child = c /\ thread[p].fork_count > 0
      /\ thread[c].fork_count = 0
  <2>. PICK x \in Ids : x = thread[c].child
    BY FieldTypes DEF ThreadInv
  <2>1. Unreaped(c) /\ Children(c) = {} /\ p = thread[c].parent /\ p = thread[c].forker /\ x = thread[c].child
    BY <1>2
  <2>2. ThreadInv
    OBVIOUS
  <2>. QED  BY <1>1, <1>2, <2>1, <2>2, ReapPlace, Zenon
<1>. DEFINE m == [thread EXCEPT ![c].i_have_ended = TRUE, ![c].off = TRUE,
                                ![p].fork_count = Minus(@), ![p].is_scheduled = TRUE]
<1>4. /\ vthread_reap(m, c) /\ Push(p)
      /\ Checked({p, thread[c].child} \cup Neighbours(c),
                 /\ thread[p].fork_count > 0 /\ ~thread[p].is_scheduled
                 /\ Reapable(m, c))
  BY <1>2 DEF WakeParent
<1>5. thread \in [Threads -> Vthread] /\ thread[c] \in Vthread /\ thread[p] \in Vthread
  BY <1>2 DEF ThreadInv, Typed
<1>6. Before(m, c, p, TRUE)
  <2>. DEFINE k == Minus(thread[p].fork_count)
              a == [thread[c] EXCEPT !.i_have_ended = TRUE, !.off = TRUE]
              b == [thread[p] EXCEPT !.fork_count = k, !.is_scheduled = TRUE]
  <2>1. k \in 0..(FORK_COUNTS - 1)
    BY <1>2, <1>3, FieldTypes, MinusOne DEF ThreadInv
  <2>2. m = [[thread EXCEPT ![c] = a] EXCEPT ![p] = b]
    BY <1>2, <1>3, <1>5
  <2>. HIDE DEF k
  <2>3. a \in Vthread /\ b \in Vthread
    BY <1>5, <2>1 DEF Vthread
  <2>4. /\ a.i_have_ended /\ a.life = thread[c].life /\ a.fork_count = thread[c].fork_count
        /\ a.child = thread[c].child /\ a.parent = thread[c].parent
        /\ a.waiting_for_event = thread[c].waiting_for_event
        /\ a.is_scheduled = thread[c].is_scheduled
        /\ a.delay_delete = thread[c].delay_delete
    BY <1>5 DEF Vthread
  <2>. HIDE DEF m, a, b
  <2>5. /\ m \in [Threads -> Vthread] /\ m[c] = a /\ m[p] = b
        /\ \A u \in Threads : u # c /\ u # p => m[u] = thread[u]
    BY <1>2, <1>3, <1>5, <2>2, <2>3
  <2>6. b = [thread[p] EXCEPT !.fork_count = Minus(@), !.is_scheduled = TRUE]
    BY DEF b, k
  <2>7. thread[c].life = "live"
    BY DEF Unreaped, Live
  <2>. QED  BY <1>3, <2>4, <2>5, <2>6, <2>7 DEF Before
<1>. HIDE DEF m
<1>7. thread' = Reaped(m, c) /\ UnlinkScope(c) /\ DeleteLater(m, c)
  BY <1>4 DEF vthread_reap
<1>8. /\ thread' \in [Threads -> Vthread] /\ ReapFields(c, p, TRUE) /\ Reapable(m, c)
      /\ Idle(m, c) <=> ~Held(c)
      /\ m[c].delay_delete = thread[c].delay_delete
  BY <1>1, <1>2, <1>6, <1>7, ReapedFields
<1>9. ReapStep(c, p, TRUE)
  <2>1. del_thr' = IF ~Held(c) /\ thread[c].delay_delete THEN del_thr \cup {c} ELSE del_thr
    BY <1>7, <1>8 DEF DeleteLater
  <2>. QED  BY <1>2, <1>4, <1>7, <1>8, <2>1 DEF ReapStep
<1>10. fault' = "none"
  <2>1. \A n \in {p, thread[c].child} \cup Neighbours(c) : ~Freed(n)
    BY NeighboursAlive
  <2>. QED  BY <1>2, <1>3, <1>4, <1>8, <2>1 DEF Checked, ThreadInv, Held
<1>. QED  BY <1>1, <1>8, <1>9, <1>10, ReapKeeps

\* A thread that nobody will join reaps itself.
LEMMA WithoutParentKeeps ==
    ASSUME ThreadInv, NEW c \in Threads, Unreaped(c), Children(c) = {},
           ~thread[c].schedule_parent_on_end, thread[c].parent = None,
           EndWithoutParent(c), Reaper(c, None),
           UNCHANGED <<program, delayed, waiting_list, rest, target, myself>>
    PROVE  ThreadInv'
<1>1. thread[c].forker = None
  BY DEF ThreadInv, Family, Kin
<1>. DEFINE m == [thread EXCEPT ![c].i_have_ended = TRUE, ![c].off = TRUE]
<1>2. /\ vthread_reap(m, c) /\ UNCHANGED active
      /\ Checked(Neighbours(c) \cup {thread[c].child}, Reapable(m, c))
  BY DEF EndWithoutParent
<1>3. thread \in [Threads -> Vthread] /\ thread[c] \in Vthread
  BY DEF ThreadInv, Typed
<1>4. Before(m, c, None, FALSE)
  <2>. DEFINE a == [thread[c] EXCEPT !.i_have_ended = TRUE, !.off = TRUE]
  <2>1. m = [thread EXCEPT ![c] = a]
    BY <1>3
  <2>2. a \in Vthread
    BY <1>3 DEF Vthread
  <2>3. /\ a.i_have_ended /\ a.life = thread[c].life /\ a.fork_count = thread[c].fork_count
        /\ a.child = thread[c].child /\ a.parent = thread[c].parent
        /\ a.waiting_for_event = thread[c].waiting_for_event
        /\ a.is_scheduled = thread[c].is_scheduled
        /\ a.delay_delete = thread[c].delay_delete
    BY <1>3 DEF Vthread
  <2>. HIDE DEF m, a
  <2>4. m \in [Threads -> Vthread] /\ m[c] = a /\ \A u \in Threads : u # c => m[u] = thread[u]
    BY <1>3, <2>1, <2>2
  <2>5. thread[c].life = "live" /\ thread[c].fork_count = 0
    BY FS_EmptySet DEF Unreaped, Live, ThreadInv, Stack, Placed
  <2>. QED  BY <2>3, <2>4, <2>5 DEF Before
<1>. HIDE DEF m
<1>5. thread' = Reaped(m, c) /\ UnlinkScope(c) /\ DeleteLater(m, c) /\ None \in Ids
  BY <1>2 DEF vthread_reap, Ids
<1>6. /\ thread' \in [Threads -> Vthread] /\ ReapFields(c, None, FALSE) /\ Reapable(m, c)
      /\ Idle(m, c) <=> ~Held(c)
      /\ m[c].delay_delete = thread[c].delay_delete
  BY <1>1, <1>4, <1>5, ReapedFields
<1>7. ReapStep(c, None, FALSE)
  <2>1. del_thr' = IF ~Held(c) /\ thread[c].delay_delete THEN del_thr \cup {c} ELSE del_thr
    BY <1>5, <1>6 DEF DeleteLater
  <2>. QED  BY <1>1, <1>2, <1>5, <1>6, <2>1 DEF ReapStep
<1>8. fault' = "none"
  <2>1. \A n \in Neighbours(c) \cup {thread[c].child} : ~Freed(n)
    BY NeighboursAlive
  <2>. QED  BY <1>2, <1>6, <2>1 DEF Checked, ThreadInv
<1>. QED  BY <1>5, <1>6, <1>7, <1>8, ReapKeeps

\* do_disable returns to that of the parent, which reaps the child.
LEMMA ReturnToParentKeeps ==
    ASSUME ThreadInv, ReturnToParent
    PROVE  ThreadInv'
<1>1. /\ disabling \in Seq(Threads) /\ Len(disabling) \in Nat /\ Len(disabling) > 1
      /\ 1 \in 1..Len(disabling) /\ 2 \in 1..Len(disabling) /\ 1 \in 1..(Len(disabling) - 1)
      /\ disabling # <<>> /\ Head(disabling) = disabling[1]
  <2>1. disabling \in Seq(Threads) /\ Len(disabling) \in Nat /\ Len(disabling) > 1
    BY DEF ThreadInv, Typed, ReturnToParent
  <2>2. disabling # <<>>
    BY <2>1
  <2>. QED  BY <2>1, <2>2, TailOf
<1>. PICK c \in Threads : c = disabling[1]
  BY <1>1
<1>. PICK p \in Threads : p = disabling[2]
  BY <1>1
<1>. DEFINE m == [thread EXCEPT ![p].fork_count = Minus(@)]
<1>2. /\ thread[c].fork_count = 0 /\ vthread_reap(m, c)
      /\ Checked({c, p} \cup Neighbours(c), Reapable(m, c))
      /\ disabling' = Tail(disabling)
      /\ UNCHANGED <<program, active, delayed, waiting_list, running, rest, target, myself>>
  BY <1>1 DEF ReturnToParent
<1>3. /\ Unreaped(c) /\ thread[c].i_have_ended /\ Unreaped(p) /\ thread[p].i_have_ended
      /\ thread[c].forker = p /\ thread[c].parent = p /\ ~thread[c].schedule_parent_on_end
  BY <1>1 DEF ThreadInv, Disables
<1>4. Children(c) = {}
  BY <1>2, <1>3, ChildrenFinite, FS_EmptySet DEF ThreadInv, Stack, Placed
<1>5. p \in Ids /\ p # None
  BY DEF Ids, Threads, None
<1>6. p # c /\ thread[p].fork_count > 0
  <2>. PICK x \in Ids : x = thread[c].child
    BY FieldTypes DEF ThreadInv
  <2>1. Unreaped(c) /\ Children(c) = {} /\ p = thread[c].parent /\ p = thread[c].forker /\ x = thread[c].child
    BY <1>3, <1>4
  <2>2. ThreadInv
    OBVIOUS
  <2>. QED  BY <1>5, <2>1, <2>2, ReapPlace, Zenon
<1>7. thread \in [Threads -> Vthread] /\ thread[c] \in Vthread /\ thread[p] \in Vthread
  BY DEF ThreadInv, Typed
<1>8. Before(m, c, p, FALSE)
  <2>1. Minus(thread[p].fork_count) \in 0..(FORK_COUNTS - 1)
    BY <1>6, FieldTypes, MinusOne DEF ThreadInv
  <2>2. [thread[p] EXCEPT !.fork_count = Minus(thread[p].fork_count)] \in Vthread
    BY <1>7, <2>1 DEF Vthread
  <2>3. m = [thread EXCEPT ![p] = [thread[p] EXCEPT !.fork_count = Minus(thread[p].fork_count)]]
    BY <1>7
  <2>4. m \in [Threads -> Vthread] /\ (\A u \in Threads : u # p => m[u] = thread[u])
        /\ m[p] = [thread[p] EXCEPT !.fork_count = Minus(thread[p].fork_count)]
    BY <1>7, <2>2, <2>3
  <2>5. thread[c].life = "live"
    BY <1>3 DEF Unreaped, Live
  <2>. HIDE DEF m
  <2>. QED  BY <1>2, <1>3, <1>6, <2>4, <2>5 DEF Before
<1>. HIDE DEF m
<1>9. thread' = Reaped(m, c) /\ UnlinkScope(c) /\ DeleteLater(m, c)
  BY <1>2 DEF vthread_reap
<1>10. /\ thread' \in [Threads -> Vthread] /\ ReapFields(c, p, FALSE) /\ Reapable(m, c)
       /\ Idle(m, c) <=> ~Held(c)
       /\ m[c].delay_delete = thread[c].delay_delete
  BY <1>3, <1>4, <1>5, <1>8, <1>9, ReapedFields
<1>11. ReapStep(c, p, FALSE)
  <2>1. Reaper(c, p)
    BY <1>1, <1>2 DEF Reaper
  <2>2. del_thr' = IF ~Held(c) /\ thread[c].delay_delete THEN del_thr \cup {c} ELSE del_thr
    BY <1>9, <1>10 DEF DeleteLater
  <2>. QED  BY <1>2, <1>3, <1>4, <1>9, <1>10, <2>1, <2>2 DEF ReapStep
<1>12. fault' = "none"
  <2>1. \A n \in {c} \cup Neighbours(c) : ~Freed(n)
    BY <1>3, NeighboursAlive
  <2>2. ~Freed(p)
    BY <1>3 DEF Unreaped, Live, Freed
  <2>. QED  BY <1>2, <1>10, <2>1, <2>2 DEF Checked, ThreadInv
<1>. QED  BY <1>5, <1>10, <1>11, <1>12, ReapKeeps

\* The only thread do_disable is at stays for the %join of its parent.
LEMMA StaysKeeps ==
    ASSUME ThreadInv, NEW c \in Threads, Children(c) = {}, ~thread[c].schedule_parent_on_end,
           target # NoScope, disabling = <<c>>, disabling' = <<>>,
           UNCHANGED <<program, thread, links, queues, running, rest, target, myself, fault>>
    PROVE  ThreadInv'
<1>1. UNCHANGED <<program, thread, scope_next, scope_prev, active, delayed, del_thr,
                  waiting_list, running, rest, target, myself, fault>>
  BY DEF links, queues
<1>2. Len(disabling) = 1 /\ disabling[1] = c /\ disabling # <<>> /\ Len(disabling') = 0
  OBVIOUS
<1>3. (\A u : Entered(u) <=> u = c) /\ \A u : ~Entered(u)'
  BY <1>2 DEF Entered, In
<1>4. thread[c].scope \in P.disabled
  BY <1>2 DEF ThreadInv, Disables, Typed
<1>5. \A u : /\ Live(u)' <=> Live(u)
             /\ Unreaped(u)' <=> Unreaped(u)
             /\ Held(u)' <=> Held(u)
  BY <1>1 DEF Live, Unreaped, Held
<1>6. Standing
  <2>1. SameStack
    BY <1>1, <1>5 DEF SameStack, Keeps
  <2>2. UNCHANGED links
    BY <1>1 DEF links
  <2>. QED  BY <1>1, <1>3, <1>4, <2>1, <2>2 DEF Standing
<1>7. Family' /\ Stack' /\ Rings'
  BY <1>6, StandingKeeps DEF ThreadInv
<1>8. Typed'
  <2>1. disabling' \in Seq(Threads)
    OBVIOUS
  <2>. QED  BY <1>1, <2>1, SameProgram DEF ThreadInv, Typed
<1>9. InOrder'
  BY <1>1 DEF ThreadInv, InOrder
<1>10. Reaps'
  BY <1>1, <1>5 DEF ThreadInv, Reaps, Remains
<1>11. Queued' /\ Flagged'
  <2>1. SameQueues
    BY <1>1, <1>5 DEF SameQueues
  <2>. QED  BY <2>1, QueuesKept DEF ThreadInv
<1>12. Joined'
  <2>1. ASSUME NEW u \in Threads, Unreaped(u), thread[u].schedule_parent_on_end,
               NEW p, p = thread[u].parent
        PROVE  Joins(u, p)'
    <3>1. Joins(u, p)
      BY <2>1 DEF ThreadInv, Joined
    <3>2. ~thread[u].i_have_ended
      BY <1>2, <2>1, <3>1 DEF Joins
    <3>3. p # c
      <4>1. thread[u].parent # None /\ thread[u].forker = p
        BY <2>1, <3>1 DEF Joins
      <4>. QED  BY <2>1, <4>1, ChildUnreaped
    <3>. QED  BY <1>1, <1>3, <1>5, <3>1, <3>2, <3>3 DEF Joins
  <2>2. \A u \in Threads : Unreaped(u)' /\ ~thread'[u].i_have_ended /\ running' # u /\ ~Held(u)' =>
          thread'[u].child # None /\ thread'[thread'[u].child].schedule_parent_on_end
    BY <1>1, <1>5 DEF ThreadInv, Joined
  <2>3. \A u \in Threads : Unreaped(u)' /\ thread'[u].schedule_parent_on_end =>
          \A p : p = thread[u].parent => Joins(u, p)'
    BY <1>1, <1>5, <2>1
  <2>4. \A u \in Threads : Unreaped(u)' /\ thread'[u].schedule_parent_on_end =>
          Joins(u, thread[u].parent)'
    BY <1>1, <2>3 DEF Joins, Held
  <2>. QED  BY <1>1, <2>2, <2>4 DEF Joined
<1>13. Runs'
  BY <1>1, <1>5 DEF ThreadInv, Runs, Live, Held, Unreaped
<1>14. Disables'
  BY <1>2 DEF Disables
<1>. QED  BY <1>1, <1>7, <1>8, <1>9, <1>10, <1>11, <1>12, <1>13, <1>14 DEF ThreadInv

\* do_disable returns to of_DISABLE.
LEMMA ReturnToScopeKeeps ==
    ASSUME ThreadInv, ReturnToScope
    PROVE  ThreadInv'
<1>1. disabling \in Seq(Threads) /\ Len(disabling) = 1 /\ disabling # <<>>
  <2>1. disabling \in Seq(Threads) /\ Len(disabling) = 1
    BY DEF ThreadInv, Typed, ReturnToScope
  <2>. QED  BY <2>1
<1>. PICK c \in Threads : c = Head(disabling)
  BY <1>1, TailOf
<1>2. /\ disabling[1] = c /\ 1 \in 1..Len(disabling) /\ disabling = <<c>> /\ Tail(disabling) = <<>>
  <2>1. disabling[1] = c
    BY <1>1, TailOf
  <2>2. disabling = <<disabling[1]>>
    BY <1>1
  <2>3. disabling = <<c>>
    BY <2>1, <2>2
  <2>4. Tail(disabling) = <<>>
    BY <2>3
  <2>5. 1 \in 1..Len(disabling)
    BY <1>1
  <2>. QED  BY <2>1, <2>3, <2>4, <2>5
<1>3. /\ thread[c].fork_count = 0 /\ Leave(c) /\ disabling' = <<>> /\ target # NoScope /\ fault = "none"
      /\ UNCHANGED <<program, delayed, waiting_list, running, rest, target, myself>>
  BY DEF ReturnToScope, Disabling
<1>4. Unreaped(c) /\ thread[c].i_have_ended
  BY <1>2 DEF ThreadInv, Disables
<1>5. Children(c) = {}
  BY <1>3, <1>4, ChildrenFinite, FS_EmptySet DEF ThreadInv, Stack, Placed
<1>6. \A p : Reaper(c, p)
  BY <1>1, <1>2, <1>3 DEF Reaper
<1>7. CASE thread[c].schedule_parent_on_end
  <2>. PICK p \in Ids : p = thread[c].parent
    BY FieldTypes DEF ThreadInv
  <2>1. ~Entered(p)
    <3>1. p # c
      <4>1. Joins(c, p)
        BY <1>4, <1>7 DEF ThreadInv, Joined
      <4>2. ~(thread[c].forker = c /\ c # None)
        BY <1>4 DEF ThreadInv, Family, Kin, Threads
      <4>. QED  BY <4>1, <4>2 DEF Joins
    <3>. QED  BY <1>1, <1>2, <3>1 DEF Entered, In
  <2>2. WakeParent(c)
    BY <1>3, <1>7 DEF Leave
  <2>. QED  BY <1>3, <1>4, <1>5, <1>6, <1>7, <2>1, <2>2, WakeParentKeeps
<1>8. CASE ~thread[c].schedule_parent_on_end /\ thread[c].parent = None
  <2>1. EndWithoutParent(c)
    BY <1>3, <1>8 DEF Leave
  <2>. QED  BY <1>3, <1>4, <1>5, <1>6, <1>8, <2>1, WithoutParentKeeps
<1>9. CASE ~thread[c].schedule_parent_on_end /\ thread[c].parent # None
  <2>1. UNCHANGED <<thread, links, active, del_thr, fault>>
    BY <1>3, <1>9 DEF Leave
  <2>. QED  BY <1>2, <1>3, <1>5, <1>9, <2>1, StaysKeeps DEF queues
<1>. QED  BY <1>7, <1>8, <1>9

\* The running thread ends.
LEMMA EndKeeps ==
    ASSUME ThreadInv, NEW t, t = running, of_END(t)
    PROVE  ThreadInv'
<1>1. /\ t \in Threads /\ t # None /\ Live(t) /\ ~Held(t) /\ Unreaped(t)
      /\ target = NoScope /\ disabling = <<>> /\ \A u : ~Entered(u)
  BY RunningThread DEF of_END
<1>2. /\ Children(t) = {} /\ running' = None /\ Program(t)
      /\ UNCHANGED <<program, delayed, waiting_list, rest, target, disabling, myself>>
  BY DEF of_END, disable
<1>3. EndAllowed(t)
  <2>1. thread[t].fork_count = 0
    BY <1>1, <1>2, FS_EmptySet DEF ThreadInv, Stack, Placed
  <2>2. thread[t].parent = None => thread[t].child = None
    <3>1. SUFFICES ASSUME thread[t].parent = None, thread[t].child # None PROVE FALSE
      OBVIOUS
    <3>2. thread[t].line = {t} /\ thread[t].forker = None
      BY <1>1, <3>1 DEF ThreadInv, Family, Kin
    <3>3. NextIs(t, thread[t].child)
      BY <1>1, <1>2 DEF ThreadInv, Stack, Placed
    <3>. QED  BY <3>1, <3>2, <3>3 DEF NextIs, Later
  <2>. QED  BY <1>1, <2>1, <2>2 DEF EndAllowed, Held
<1>4. \A p : Reaper(t, p)
  BY <1>1, <1>2 DEF Reaper
<1>5. CASE thread[t].schedule_parent_on_end
  <2>1. WakeParent(t)
    BY <1>3, <1>5 DEF of_END
  <2>. PICK p : p = thread[t].parent
    OBVIOUS
  <2>. QED  BY <1>1, <1>2, <1>4, <1>5, <2>1, WakeParentKeeps
<1>6. CASE ~thread[t].schedule_parent_on_end /\ thread[t].parent = None
  <2>1. EndWithoutParent(t)
    BY <1>3, <1>6 DEF of_END
  <2>. QED  BY <1>1, <1>2, <1>4, <1>6, <2>1, WithoutParentKeeps
<1>7. CASE ~thread[t].schedule_parent_on_end /\ thread[t].parent # None
  <2>1. StayZombie(t) /\ UNCHANGED disable
    BY <1>3, <1>7 DEF of_END
  <2>2. fault' = "none"
    BY <2>1 DEF StayZombie, Checked, ThreadInv
  <2>3. EndsAsZombie(t)
    BY <1>2, <1>7, <2>1, <2>2 DEF EndsAsZombie, StayZombie, queues, ThreadInv
  <2>. QED  BY <2>3, EndsAsZombieKeeps
<1>. QED  BY <1>5, <1>6, <1>7

\* The running thread joins a child.
LEMMA JoinKeeps ==
    ASSUME ThreadInv, NEW t, t = running, of_JOIN(t)
    PROVE  ThreadInv'
<1>1. CASE thread[thread[t].child].i_have_ended
  <2>1. JoinReaps(t)
    BY <1>1 DEF of_JOIN, JoinReaps
  <2>. QED  BY <2>1, JoinReapsKeeps
<1>2. CASE ~thread[thread[t].child].i_have_ended
  <2>1. JoinWaits(t)
    BY <1>2 DEF of_JOIN, JoinWaits
  <2>. QED  BY <2>1, JoinWaitsKeeps
<1>. QED  BY <1>1, <1>2

-----------------------------------------------------------------------------
(* do_disable is called.                                                   *)

\* do_disable takes c out of its list and turns it off: it is the first of the
\* scope, or the last that the one it is at has forked.
EnterStep(c) ==
    /\ Unreaped(c) /\ thread[c].parent # None /\ ~Entered(c) /\ target # NoScope
    /\ \A u \in Threads : u # c => thread'[u] = thread[u]
    /\ SameBodies
    /\ thread'[c].i_have_ended /\ thread'[c].off = thread'[c].i_have_ended
    /\ thread'[c].off
    /\ thread'[c].is_scheduled = thread[c].is_scheduled
    /\ thread'[c].waiting_for_event = thread[c].waiting_for_event
    /\ thread'[c].schedule_parent_on_end => thread[c].schedule_parent_on_end
    /\ UnlinkScope(c)
    /\ disabling' = <<c>> \o disabling
    /\ myself' = (myself \/ c = running)
    /\ UNCHANGED <<program, active, delayed, del_thr, waiting_list, running, rest, target>>
    /\ disabling = <<>> => /\ thread[c].scope = target /\ c = scope_next[target]
                           /\ thread'[c].schedule_parent_on_end = thread[c].schedule_parent_on_end
    /\ disabling # <<>> => /\ thread[c].forker = Head(disabling)
                           /\ thread[c].parent = Head(disabling)
                           /\ ~thread'[c].schedule_parent_on_end

\* The threads do_disable is at are c and those it was at.
LEMMA EnterEntered ==
    ASSUME ThreadInv, NEW c \in Threads, disabling' = <<c>> \o disabling
    PROVE  /\ disabling \in Seq(Threads) /\ disabling' \in Seq(Threads)
           /\ Len(disabling) \in Nat /\ Len(disabling') = Len(disabling) + 1 /\ disabling'[1] = c
           /\ \A i \in 1..Len(disabling') : i = 1 \/ (i - 1 \in 1..Len(disabling) /\ disabling'[i] = disabling[i - 1])
           /\ \A i \in 1..Len(disabling) : i + 1 \in 1..Len(disabling') /\ disabling'[i + 1] = disabling[i]
           /\ \A u : Entered(u)' <=> u = c \/ Entered(u)
           /\ disabling' # <<>>
<1>1. disabling \in Seq(Threads)
  BY DEF ThreadInv, Typed
<1>. DEFINE r == <<c>> \o disabling
<1>2. /\ r \in Seq(Threads) /\ Len(disabling) \in Nat /\ Len(r) = Len(disabling) + 1
      /\ 1 \in 1..Len(r) /\ r[1] = c
      /\ \A i \in 1..Len(r) : i = 1 \/ (i - 1 \in 1..Len(disabling) /\ r[i] = disabling[i - 1])
      /\ \A i \in 1..Len(disabling) : i + 1 \in 1..Len(r) /\ r[i + 1] = disabling[i]
      /\ \A y : In(y, r) <=> y = c \/ In(y, disabling)
  BY <1>1, PrependOf
<1>3. disabling' = r
  OBVIOUS
<1>. HIDE DEF r
<1>4. \A u : Entered(u)' <=> u = c \/ Entered(u)
  BY <1>2, <1>3 DEF Entered
<1>5. r # <<>>
  BY <1>2
<1>. QED  BY <1>1, <1>2, <1>3, <1>4, <1>5

\* do_disable takes a thread out of its list and moves no other.
LEMMA EnterOrder ==
    ASSUME ThreadInv, NEW c \in Threads, EnterStep(c)
    PROVE  /\ \A u \in Threads : (Live(u)' <=> Live(u)) /\ (Unreaped(u)' <=> Unreaped(u))
           /\ Family' /\ Stack' /\ Rings' /\ InOrder'
<1>1. /\ Unreaped(c) /\ thread[c].parent # None /\ ~Entered(c) /\ SameBodies
      /\ \A u \in Threads : u # c => thread'[u] = thread[u]
      /\ UnlinkScope(c) /\ program' = program /\ thread'[c].off
  BY DEF EnterStep
<1>2. \A u : Entered(u)' <=> u = c \/ Entered(u)
  BY EnterEntered DEF EnterStep
<1>3. \A u \in Threads : (Live(u)' <=> Live(u)) /\ (Unreaped(u)' <=> Unreaped(u))
  BY <1>1 DEF SameBodies, Live, Unreaped
<1>4. Family'
  <2>1. ASSUME NEW u \in Threads, Unreaped(u) PROVE KinStays(u)
    <3>1. \A v \in thread[u].line : v \in Threads /\ Unreaped(v)
      BY <2>1, FieldTypes DEF ThreadInv, Family, Kin
    <3>2. \A v \in Threads : Keeps(v) /\ thread'[v].parent = thread[v].parent
      BY <1>1 DEF SameBodies, Keeps
    <3>3. \A f \in Threads : f = thread[u].forker /\ thread'[f].i_have_ended => Entered(f)'
      <4>1. ASSUME NEW f \in Threads, f = thread[u].forker, thread'[f].i_have_ended, f # c
            PROVE  Entered(f)'
        BY <1>1, <1>2, <2>1, <4>1 DEF ThreadInv, Family, Kin, Threads, None
      <4>. QED  BY <1>2, <4>1
    <3>. QED  BY <1>3, <2>1, <3>1, <3>2, <3>3 DEF KinStays
  <2>. QED  BY <1>1, <1>3, <2>1, FamilyKept DEF ThreadInv
<1>5. Stack'
  <2>1. SameStack
    BY <1>1, <1>3 DEF SameStack, SameBodies, Keeps
  <2>. QED  BY <2>1, StackKept DEF ThreadInv
<1>6. InOrder'
  BY <1>1, OrderKept DEF ThreadInv, SameBodies
<1>7. Unlisting(c)
  <2>1. \A u \in Threads : /\ thread'[u].scope = thread[u].scope
                           /\ thread'[u].forker = thread[u].forker
                           /\ thread[u].off => thread'[u].off
    BY <1>1 DEF SameBodies
  <2>. QED  BY <1>1, <1>2, <1>3, <2>1 DEF Unlisting
<1>. PICK s \in Scopes : s = thread[c].scope
  BY FieldTypes DEF ThreadInv
<1>8. CASE disabling = <<>>
  <2>1. s = target /\ c = scope_next[s] /\ \A u : ~Entered(u)
    BY <1>8 DEF EnterStep, Entered, In
  <2>. QED  BY <1>1, <1>3, <1>4, <1>5, <1>6, <1>7, <2>1, RingsUnlinked DEF ThreadInv
<1>9. CASE disabling # <<>>
  <2>1. thread[c].forker = Head(disabling) /\ thread[c].parent = thread[c].forker
    BY <1>9 DEF EnterStep
  <2>2. \A u \in InScope(s) : ~Entered(u)
    BY <1>1, <1>9, <2>1, EnteredForker
  <2>3. s \in P.disabled => \A u \in InScope(s) : u <= c
    BY <1>1, <2>1, NewestInScope
  <2>. QED  BY <1>1, <1>3, <1>4, <1>5, <1>6, <1>7, <2>2, <2>3, RingsUnlinked DEF ThreadInv
<1>. QED  BY <1>8, <1>9

\* do_disable goes on to a thread.
LEMMA EnterKeeps ==
    ASSUME ThreadInv, NEW c \in Threads, EnterStep(c),
           thread' \in [Threads -> Vthread], fault' = "none"
    PROVE  ThreadInv'
<1>1. /\ Unreaped(c) /\ thread[c].parent # None /\ ~Entered(c) /\ SameBodies /\ target # NoScope
      /\ \A u \in Threads : u # c => thread'[u] = thread[u]
      /\ UnlinkScope(c) /\ thread'[c].off = thread'[c].i_have_ended /\ thread'[c].i_have_ended
      /\ thread'[c].is_scheduled = thread[c].is_scheduled
      /\ thread'[c].waiting_for_event = thread[c].waiting_for_event
      /\ thread'[c].schedule_parent_on_end => thread[c].schedule_parent_on_end
      /\ myself' = (myself \/ c = running)
      /\ UNCHANGED <<program, active, delayed, del_thr, waiting_list, running, rest, target>>
  BY DEF EnterStep
<1>2. /\ disabling \in Seq(Threads) /\ disabling' \in Seq(Threads)
      /\ Len(disabling) \in Nat /\ Len(disabling') = Len(disabling) + 1 /\ disabling'[1] = c
      /\ \A i \in 1..Len(disabling') : i = 1 \/ (i - 1 \in 1..Len(disabling) /\ disabling'[i] = disabling[i - 1])
      /\ \A i \in 1..Len(disabling) : i + 1 \in 1..Len(disabling') /\ disabling'[i + 1] = disabling[i]
      /\ \A u : Entered(u)' <=> u = c \/ Entered(u)
      /\ disabling' # <<>>
  BY EnterEntered DEF EnterStep
<1>3. /\ \A u \in Threads : (Live(u)' <=> Live(u)) /\ (Unreaped(u)' <=> Unreaped(u))
      /\ Family' /\ Stack' /\ Rings' /\ InOrder'
  BY EnterOrder
<1>4. \A u \in Threads : /\ thread'[u].life = thread[u].life
                         /\ thread'[u].is_scheduled = thread[u].is_scheduled
                         /\ thread'[u].waiting_for_event = thread[u].waiting_for_event
  BY <1>1 DEF SameBodies
<1>5. Queued' /\ Flagged' /\ \A u \in Threads : Held(u)' <=> Held(u)
  BY <1>1, <1>4, HeldKept
<1>6. Typed'
  <2>1. scope_next' \in [Cells -> Cells] /\ scope_prev' \in [Cells -> Cells]
    <3>1. c \in Cells /\ scope_next \in [Cells -> Cells] /\ scope_prev \in [Cells -> Cells]
      BY DEF ThreadInv, Typed, Cells
    <3>2. scope_next[c] \in Cells /\ scope_prev[c] \in Cells
      BY <3>1
    <3>. QED  BY <1>1, <3>1, <3>2 DEF UnlinkScope
  <2>2. myself' \in BOOLEAN
    BY <1>1
  <2>. QED  BY <1>1, <1>2, <2>1, <2>2, SameProgram DEF ThreadInv, Typed
<1>7. Reaps'
  <2>1. ASSUME NEW u \in Threads, Live(u)' PROVE thread'[u].off = thread'[u].i_have_ended
    BY <1>1, <1>3, <2>1 DEF ThreadInv, Reaps
  <2>2. ASSUME NEW u \in Threads, Live(u)', ~Unreaped(u)' PROVE Remains(u)'
    <3>1. Live(u) /\ ~Unreaped(u) /\ u # c /\ Remains(u)
      BY <1>1, <1>3, <2>2 DEF ThreadInv, Reaps
    <3>. QED  BY <1>1, <3>1 DEF Remains
  <2>3. ASSUME NEW u \in del_thr'
        PROVE  Live(u)' /\ ~Unreaped(u)' /\ ~thread'[u].is_scheduled /\ ~thread'[u].waiting_for_event
    <3>1. u \in Threads /\ Live(u) /\ ~Unreaped(u) /\ u # c
      BY <1>1, <2>3 DEF ThreadInv, Typed, Reaps
    <3>. QED  BY <1>1, <1>3, <2>3, <3>1 DEF ThreadInv, Reaps
  <2>. QED  BY <2>1, <2>2, <2>3 DEF Reaps
<1>8. Joined'
  <2>1. ASSUME NEW u \in Threads, Unreaped(u)', thread'[u].schedule_parent_on_end,
               NEW p, p = thread'[u].parent
        PROVE  Joins(u, p)'
    <3>1. /\ Unreaped(u) /\ p = thread[u].parent /\ thread'[u].forker = thread[u].forker
          /\ thread[u].schedule_parent_on_end
      BY <1>1, <1>3, <2>1 DEF SameBodies
    <3>2. Joins(u, p) /\ p \in Threads /\ p # None
      BY <3>1, FieldTypes DEF ThreadInv, Joined, Joins, Ids
    <3>3. Entered(p)' \/ (~thread'[p].i_have_ended /\ ~Held(p)' /\ running' # p)
      <4>1. CASE p = c
        BY <1>2, <4>1
      <4>2. CASE p # c
        BY <1>1, <1>2, <1>5, <3>2, <4>2 DEF Joins
      <4>. QED  BY <4>1, <4>2
    <3>4. thread'[u].i_have_ended => disabling'[Len(disabling')] = u
      <4>. SUFFICES ASSUME thread'[u].i_have_ended PROVE disabling'[Len(disabling')] = u
        OBVIOUS
      <4>1. CASE disabling = <<>>
        <5>1. u = c
          BY <1>1, <3>2, <4>1 DEF Joins
        <5>. QED  BY <1>2, <4>1, <5>1
      <4>2. CASE disabling # <<>>
        <5>1. u # c
          BY <2>1, <4>2 DEF EnterStep
        <5>2. disabling[Len(disabling)] = u
          BY <1>1, <3>2, <5>1 DEF Joins
        <5>3. Len(disabling) \in 1..Len(disabling)
          BY <1>2, <4>2
        <5>. QED  BY <1>2, <5>2, <5>3
      <4>. QED  BY <4>1, <4>2
    <3>. QED  BY <1>2, <3>1, <3>2, <3>3, <3>4 DEF Joins
  <2>2. ASSUME NEW u \in Threads, Unreaped(u)', ~thread'[u].i_have_ended, running' # u, ~Held(u)'
        PROVE  thread'[u].child # None /\ thread'[thread'[u].child].schedule_parent_on_end
    <3>1. PICK y \in Ids : y = thread[u].child
      BY FieldTypes DEF ThreadInv
    <3>2. /\ thread'[u].child = y /\ Unreaped(u) /\ ~Held(u) /\ ~thread[u].i_have_ended
          /\ running # u /\ u # c
      BY <1>1, <1>3, <1>5, <2>2, <3>1 DEF SameBodies
    <3>3. y # None /\ thread[y].schedule_parent_on_end /\ y \in Threads
      BY <3>1, <3>2, FieldTypes DEF ThreadInv, Joined
    <3>4. thread'[y].schedule_parent_on_end
      <4>1. CASE y # c
        BY <1>1, <3>3, <4>1
      <4>2. CASE y = c
        <5>1. thread[c].parent = u
          BY <3>1, <3>2, <3>3, <4>2 DEF ThreadInv, Stack, Placed
        <5>2. Joins(c, u)
          BY <1>1, <3>3, <4>2, <5>1 DEF ThreadInv, Joined
        <5>3. CASE disabling # <<>>
          <6>1. u = Head(disabling)
            BY <5>1, <5>3 DEF EnterStep
          <6>2. thread[u].i_have_ended
            <7>1. 1 \in 1..Len(disabling) /\ disabling[1] = u
              BY <1>2, <5>3, <6>1, TailOf
            <7>. QED  BY <7>1 DEF ThreadInv, Disables
          <6>. QED  BY <3>2, <6>2
        <5>4. CASE disabling = <<>>
          BY <3>1, <3>3, <4>2, <5>4 DEF EnterStep
        <5>. QED  BY <5>3, <5>4
      <4>. QED  BY <4>1, <4>2
    <3>. QED  BY <3>2, <3>3, <3>4
  <2>. QED  BY <2>1, <2>2 DEF Joined
<1>9. Runs'
  <2>1. running \in Threads /\ running # None
    BY <1>1 DEF ThreadInv, Typed, Ids, Runs
  <2>2. CASE running = c
    <3>1. myself'
      BY <1>1, <2>2
    <3>2. Live(c) => ~Held(c)
      BY <2>1, <2>2 DEF ThreadInv, Runs
    <3>. QED  BY <1>1, <1>3, <1>5, <2>1, <2>2, <3>1, <3>2 DEF Runs
  <2>3. CASE running # c
    <3>1. myself' <=> myself
      BY <1>1, <2>3
    <3>2. /\ Live(running) => ~Held(running)
          /\ myself \/ (Unreaped(running) /\ ~thread[running].i_have_ended)
          /\ myself /\ Live(running) =>
                thread[running].i_have_ended /\ (Unreaped(running) \/ running \in del_thr)
      BY <1>1, <2>1 DEF ThreadInv, Runs
    <3>. QED  BY <1>1, <1>3, <1>5, <2>1, <2>3, <3>1, <3>2 DEF Runs
  <2>. QED  BY <2>2, <2>3
<1>10. Disables'
  <2>1. ASSUME NEW i \in 1..Len(disabling'), NEW v, v = disabling'[i]
        PROVE  Unreaped(v)' /\ thread'[v].i_have_ended
    <3>1. CASE v = c
      BY <1>1, <1>3, <3>1
    <3>2. CASE v # c
      <4>1. PICK j \in 1..Len(disabling) : v = disabling[j]
        BY <1>2, <2>1, <3>2
      <4>2. v \in Threads /\ Unreaped(v) /\ thread[v].i_have_ended
        BY <1>2, <4>1 DEF ThreadInv, Disables
      <4>. QED  BY <1>1, <1>3, <3>2, <4>2
    <3>. QED  BY <3>1, <3>2
  <2>2. (\A i \in 1..Len(disabling) : Unreaped(disabling[i]) /\ thread[disabling[i]].i_have_ended)'
    BY <2>1 DEF Unreaped, Live
  <2>3. ASSUME NEW i \in 1..(Len(disabling') - 1)
        PROVE  /\ thread'[disabling'[i]].forker = disabling'[i + 1]
               /\ thread'[disabling'[i]].parent = disabling'[i + 1]
               /\ ~thread'[disabling'[i]].schedule_parent_on_end
    <3>1. CASE i = 1
      <4>1. disabling # <<>> /\ disabling'[2] = disabling[1]
        BY <1>2, <2>3, <3>1
      <4>2. disabling[1] = Head(disabling)
        BY <1>2, <4>1, TailOf
      <4>3. /\ thread'[c].forker = Head(disabling) /\ thread'[c].parent = Head(disabling)
            /\ ~thread'[c].schedule_parent_on_end
        BY <1>1, <4>1 DEF EnterStep, SameBodies
      <4>. QED  BY <1>2, <3>1, <4>1, <4>2, <4>3
    <3>2. CASE i # 1
      <4>1. PICK j \in 1..(Len(disabling) - 1) : j + 1 = i
        <5>1. i - 1 \in 1..(Len(disabling) - 1) /\ (i - 1) + 1 = i
          BY <1>2, <2>3, <3>2
        <5>. QED  BY <5>1
      <4>2. /\ j \in 1..Len(disabling) /\ j + 1 \in 1..Len(disabling)
        BY <1>2, <4>1
      <4>3. disabling'[i] = disabling[j] /\ disabling'[i + 1] = disabling[j + 1]
        BY <1>2, <4>1, <4>2
      <4>4. /\ disabling[j] \in Threads /\ Entered(disabling[j])
            /\ thread[disabling[j]].forker = disabling[j + 1]
            /\ thread[disabling[j]].parent = disabling[j + 1]
            /\ ~thread[disabling[j]].schedule_parent_on_end
        BY <1>2, <4>1, <4>2 DEF ThreadInv, Disables, Entered, In
      <4>5. disabling[j] # c
        BY <1>1, <4>4
      <4>. QED  BY <1>1, <4>3, <4>4, <4>5
    <3>. QED  BY <3>1, <3>2
  <2>4. thread'[disabling'[Len(disabling')]].scope = target
    <3>1. CASE disabling = <<>>
      BY <1>1, <1>2, <3>1 DEF EnterStep, SameBodies
    <3>2. CASE disabling # <<>>
      <4>1. Len(disabling) \in 1..Len(disabling)
        BY <1>2, <3>2
      <4>2. disabling'[Len(disabling')] = disabling[Len(disabling)] /\ disabling[Len(disabling)] \in Threads
        BY <1>2, <4>1
      <4>3. thread[disabling[Len(disabling)]].scope = target
        BY <3>2 DEF ThreadInv, Disables
      <4>. QED  BY <1>1, <4>2, <4>3 DEF SameBodies
    <3>. QED  BY <3>1, <3>2
  <2>. QED  BY <1>1, <2>2, <2>3, <2>4 DEF Disables
<1>. QED  BY <1>3, <1>5, <1>6, <1>7, <1>8, <1>9, <1>10 DEF ThreadInv

\* do_disable of the first thread of the scope.
LEMMA DisableFirstKeeps ==
    ASSUME ThreadInv, DisableFirst
    PROVE  ThreadInv'
<1>. PICK c : c = scope_next[target]
  OBVIOUS
<1>1. /\ target # NoScope /\ disabling = <<>> /\ c # target
      /\ Enter(thread, c) /\ Checked({c} \cup Neighbours(c), TRUE)
      /\ UNCHANGED <<program, queues, running, rest, target>>
  BY DEF DisableFirst, Disabling
<1>2. target \in P.disabled /\ target \in Scopes
  BY <1>1, DisabledNames DEF ThreadInv, Typed
<1>3. Loose(target)
  BY <1>2 DEF ThreadInv, Rings
<1>4. c \in InScope(target)
  BY <1>1, <1>3 DEF Loose
<1>5. c \in Threads /\ Unreaped(c) /\ thread[c].scope = target /\ thread[c].forker # None
  BY <1>3, <1>4 DEF InScope, Loose
<1>6. thread[c].parent # None
  BY <1>5 DEF ThreadInv, Family, Kin
<1>7. thread \in [Threads -> Vthread] /\ thread[c] \in Vthread
  BY <1>5 DEF ThreadInv, Typed
<1>8. /\ UnlinkScope(c)
      /\ thread' = [thread EXCEPT ![c].off = TRUE, ![c].i_have_ended = TRUE]
      /\ disabling' = <<c>> \o disabling
      /\ myself' = (myself \/ c = running)
  BY <1>1 DEF Enter
<1>9. [thread[c] EXCEPT !.off = TRUE, !.i_have_ended = TRUE] \in Vthread
  BY <1>7 DEF Vthread
<1>10. thread' = [thread EXCEPT ![c] = [thread[c] EXCEPT !.off = TRUE, !.i_have_ended = TRUE]]
  BY <1>5, <1>7, <1>8
<1>11. /\ thread' \in [Threads -> Vthread]
       /\ \A u \in Threads : u # c => thread'[u] = thread[u]
       /\ thread'[c] = [thread[c] EXCEPT !.off = TRUE, !.i_have_ended = TRUE]
  BY <1>5, <1>7, <1>9, <1>10
<1>12. /\ thread'[c].life = thread[c].life /\ thread'[c].fork_count = thread[c].fork_count
       /\ thread'[c].child = thread[c].child /\ thread'[c].parent = thread[c].parent
       /\ thread'[c].scope = thread[c].scope /\ thread'[c].forker = thread[c].forker
       /\ thread'[c].line = thread[c].line
       /\ thread'[c].i_have_ended /\ thread'[c].off = thread'[c].i_have_ended /\ thread'[c].off
       /\ thread'[c].is_scheduled = thread[c].is_scheduled
       /\ thread'[c].waiting_for_event = thread[c].waiting_for_event
       /\ thread'[c].schedule_parent_on_end = thread[c].schedule_parent_on_end
  BY <1>7, <1>11 DEF Vthread
<1>13. SameBodies
  BY <1>11, <1>12 DEF SameBodies
<1>14. ~Entered(c)
  BY <1>1 DEF Entered, In
<1>15. EnterStep(c)
  BY <1>1, <1>5, <1>6, <1>8, <1>11, <1>12, <1>13, <1>14 DEF EnterStep, queues
<1>16. fault' = "none"
  <2>1. \A n \in {c} \cup Neighbours(c) : ~Freed(n)
    BY <1>5, NeighboursAlive
  <2>. QED  BY <1>1, <2>1 DEF Checked, ThreadInv
<1>. QED  BY <1>5, <1>11, <1>15, <1>16, EnterKeeps

\* do_disable of the last thread that the one it is at has forked.
LEMMA DisableChildKeeps ==
    ASSUME ThreadInv, DisableChild
    PROVE  ThreadInv'
<1>1. disabling \in Seq(Threads) /\ disabling # <<>> /\ target # NoScope
  BY DEF ThreadInv, Typed, DisableChild, Disabling
<1>. PICK h \in Threads : h = Head(disabling)
  BY <1>1, TailOf
<1>. PICK c \in Ids : c = thread[h].child
  BY FieldTypes DEF ThreadInv
<1>. DEFINE m == [thread EXCEPT ![c].schedule_parent_on_end = FALSE]
<1>0. thread[h].fork_count > 0
  BY DEF DisableChild
<1>3. Unreaped(h)
  <2>1. 1 \in 1..Len(disabling) /\ disabling[1] = h
    BY <1>1, TailOf
  <2>. QED  BY <2>1 DEF ThreadInv, Disables
<1>4. Children(h) # {}
  BY <1>0, <1>3, FS_EmptySet DEF ThreadInv, Stack, Placed
<1>2. /\ Enter(m, c) /\ Checked({h, c} \cup Neighbours(c), thread[c].parent = h)
      /\ UNCHANGED <<program, queues, running, rest, target>>
  <2>1. c # None
    BY <1>3, <1>4, OnTop DEF Threads, None
  <2>. QED  BY <2>1 DEF DisableChild
<1>5. /\ c \in Threads /\ Unreaped(c) /\ c # None /\ thread[c].parent = h /\ thread[c].forker = h
      /\ h # None
  BY <1>3, <1>4, OnTop DEF Threads, None
<1>6. ~Entered(c)
  BY <1>1, <1>5, EnteredForker
<1>7. thread \in [Threads -> Vthread] /\ thread[c] \in Vthread
  BY <1>5 DEF ThreadInv, Typed
<1>. DEFINE a == [thread[c] EXCEPT !.schedule_parent_on_end = FALSE, !.off = TRUE, !.i_have_ended = TRUE]
<1>8. /\ UnlinkScope(c)
      /\ thread' = [m EXCEPT ![c].off = TRUE, ![c].i_have_ended = TRUE]
      /\ disabling' = <<c>> \o disabling
      /\ myself' = (myself \/ c = running)
  BY <1>2 DEF Enter
<1>9. a \in Vthread
  BY <1>7 DEF Vthread
<1>10. thread' = [thread EXCEPT ![c] = a]
  BY <1>5, <1>7, <1>8
<1>11. /\ a.life = thread[c].life /\ a.fork_count = thread[c].fork_count
       /\ a.child = thread[c].child /\ a.parent = thread[c].parent
       /\ a.scope = thread[c].scope /\ a.forker = thread[c].forker
       /\ a.line = thread[c].line
       /\ a.i_have_ended /\ a.off = a.i_have_ended /\ a.off
       /\ a.is_scheduled = thread[c].is_scheduled
       /\ a.waiting_for_event = thread[c].waiting_for_event
       /\ ~a.schedule_parent_on_end
  BY <1>7 DEF Vthread
<1>. HIDE DEF a, m
<1>12. /\ thread' \in [Threads -> Vthread]
       /\ \A u \in Threads : u # c => thread'[u] = thread[u]
       /\ thread'[c] = a
  BY <1>5, <1>7, <1>9, <1>10
<1>13. SameBodies
  BY <1>11, <1>12 DEF SameBodies
<1>14. EnterStep(c)
  BY <1>1, <1>2, <1>5, <1>6, <1>8, <1>11, <1>12, <1>13 DEF EnterStep, queues
<1>15. fault' = "none"
  <2>1. \A n \in {c} \cup Neighbours(c) : ~Freed(n)
    BY <1>5, NeighboursAlive
  <2>2. ~Freed(h)
    BY <1>3 DEF Unreaped, Live, Freed
  <2>. QED  BY <1>2, <1>5, <2>1, <2>2 DEF Checked, ThreadInv
<1>. QED  BY <1>5, <1>12, <1>14, <1>15, EnterKeeps

\* A step of do_disable.
LEMMA DoDisableKeeps ==
    ASSUME ThreadInv, do_disable
    PROVE  ThreadInv'
  BY DisableFirstKeeps, DisableChildKeeps, ReturnToParentKeeps, ReturnToScopeKeeps, ScopeEmptyKeeps
  DEF do_disable

-----------------------------------------------------------------------------
(* A thread is forked.                                                     *)

\* The new thread n of scope s on top of the stack of t; a function has ended.
ForkFields(t, n, s, ended) ==
    /\ \A u \in Threads : u # n =>
         /\ Keeps(u)
         /\ thread'[u].life = thread[u].life /\ thread'[u].off = thread[u].off
         /\ thread'[u].i_have_ended = thread[u].i_have_ended
         /\ thread'[u].schedule_parent_on_end = thread[u].schedule_parent_on_end
         /\ thread'[u].waiting_for_event = thread[u].waiting_for_event
         /\ thread'[u].is_scheduled = thread[u].is_scheduled
         /\ thread'[u].parent = IF u = thread[t].child THEN n ELSE thread[u].parent
         /\ thread'[u].child = IF u = t THEN n ELSE thread[u].child
         /\ thread'[u].fork_count = IF u = t THEN thread[u].fork_count + 1
                                    ELSE thread[u].fork_count
    /\ thread'[n].life = "live" /\ thread'[n].fork_count = 0
    /\ thread'[n].off = thread'[n].i_have_ended /\ (thread'[n].i_have_ended <=> ended)
    /\ thread'[n].is_scheduled <=> ~ended
    /\ ~thread'[n].schedule_parent_on_end /\ ~thread'[n].waiting_for_event
    /\ thread'[n].child = thread[t].child /\ thread'[n].parent = t
    /\ thread'[n].scope = s /\ thread'[n].forker = t
    /\ thread'[n].line = {n} \cup thread[t].line

ForkStep(t, n, s, ended) ==
    /\ t = running /\ Program(t)
    /\ thread[n].life = "unborn" /\ \A u \in Threads : u < n => thread[u].life # "unborn"
    /\ ~Reenters(t, s)
    /\ ForkFields(t, n, s, ended) /\ LinkScope(n, s)
    /\ IF ended THEN UNCHANGED active ELSE Push(n)
    /\ UNCHANGED <<program, delayed, del_thr, waiting_list, running, rest, disable>>

\* Where the threads are.
LEMMA ForkPlace ==
    ASSUME ThreadInv, NEW t, NEW n \in Threads, NEW s, NEW ended, ForkStep(t, n, s, ended)
    PROVE  /\ t \in Threads /\ t # None /\ Live(t) /\ Unreaped(t) /\ ~Held(t)
           /\ ~thread[t].i_have_ended /\ target = NoScope /\ disabling = <<>>
           /\ ~Live(n) /\ ~Unreaped(n) /\ n # None /\ t < n /\ t # n
           /\ (\A u \in Threads : Live(u) => u < n)
           /\ \A u : ~Entered(u) /\ ~Entered(u)'
           /\ thread[t].child # n /\ thread[t].child # t /\ thread[t].child \in Ids
           /\ thread[t].child # None =>
                /\ thread[t].child \in Threads /\ Unreaped(thread[t].child)
                /\ thread[thread[t].child].parent = t
                /\ ~thread[thread[t].child].schedule_parent_on_end
<1>1. /\ t \in Threads /\ t # None /\ Live(t) /\ ~Held(t) /\ Unreaped(t)
      /\ ~thread[t].i_have_ended
      /\ target = NoScope /\ disabling = <<>> /\ \A u : ~Entered(u)
  BY RunningThread DEF ForkStep
<1>2. ~Live(n) /\ ~Unreaped(n) /\ n # None /\ thread[n].life = "unborn"
  BY DEF ForkStep, Live, Unreaped, Threads, None
<1>3. \A u \in Threads : Live(u) => u < n
  BY <1>2 DEF ThreadInv, InOrder, Live
<1>4. \A u : ~Entered(u)'
  BY <1>1 DEF ForkStep, disable, Entered
<1>. PICK x \in Ids : x = thread[t].child
  BY <1>1, FieldTypes DEF ThreadInv
<1>5. x # None => x \in Threads /\ Unreaped(x) /\ thread[x].parent = t
  BY <1>1, FieldTypes DEF ThreadInv, Stack, Placed
<1>6. x # t
  <2>1. SUFFICES ASSUME x = t PROVE FALSE
    OBVIOUS
  <2>2. CASE Children(t) # {}
    BY <1>1, <2>1, <2>2, OnTop
  <2>3. CASE Children(t) = {}
    <3>0. Placed(t, x, thread[t].parent)
      BY <1>1 DEF ThreadInv, Stack
    <3>1. t \in Later(t)
      BY <1>1, <2>1, <2>3, <3>0 DEF Placed, NextIs
    <3>2. PICK z \in thread[t].line : t < z
      BY <3>1 DEF Later
    <3>3. z <= t /\ z \in Threads
      BY <1>1, FieldTypes DEF ThreadInv, Family, Kin
    <3>. QED  BY <1>1, <3>2, <3>3 DEF Threads
  <2>. QED  BY <2>2, <2>3
<1>7. x # n
  BY <1>2, <1>5
<1>8. x # None => ~thread[x].schedule_parent_on_end
  <2>1. SUFFICES ASSUME x # None, thread[x].schedule_parent_on_end PROVE FALSE
    OBVIOUS
  <2>2. Joins(x, t)
    BY <1>5, <2>1 DEF ThreadInv, Joined
  <2>. QED  BY <1>1, <2>2 DEF Joins, ForkStep
<1>. QED  BY <1>1, <1>2, <1>3, <1>4, <1>5, <1>6, <1>7, <1>8 DEF Threads

\* Only the new thread is added.
LEMMA ForkUnreaped ==
    ASSUME ThreadInv, NEW t, NEW n \in Threads, NEW s, NEW ended, ForkStep(t, n, s, ended)
    PROVE  /\ Live(n)' /\ Unreaped(n)'
           /\ \A u \in Threads : u # n => (Live(u)' <=> Live(u)) /\ (Unreaped(u)' <=> Unreaped(u))
<1>1. ForkFields(t, n, s, ended)
  BY DEF ForkStep
<1>0. /\ t # None /\ n # None
      /\ thread[t].child # None => /\ Unreaped(thread[t].child)
                                   /\ thread[thread[t].child].parent = t
      /\ thread[t].child # n
  BY ForkPlace
<1>2. Live(n)' /\ Unreaped(n)'
  BY <1>0, <1>1 DEF ForkFields, Live, Unreaped
<1>3. ASSUME NEW u \in Threads, u # n
      PROVE  (Live(u)' <=> Live(u)) /\ (Unreaped(u)' <=> Unreaped(u))
  <2>1. /\ thread'[u].life = thread[u].life /\ thread'[u].i_have_ended = thread[u].i_have_ended
        /\ thread'[u].parent = IF u = thread[t].child THEN n ELSE thread[u].parent
    BY <1>1, <1>3 DEF ForkFields
  <2>2. Live(u)' <=> Live(u)
    BY <2>1 DEF Live
  <2>3. CASE u = thread[t].child
    <3>1. Unreaped(u) /\ thread'[u].parent # None
      BY <1>0, <2>1, <2>3 DEF Threads, None
    <3>. QED  BY <2>2, <3>1 DEF Unreaped
  <2>4. CASE u # thread[t].child
    BY <2>1, <2>2, <2>4 DEF Unreaped
  <2>. QED  BY <2>2, <2>3, <2>4
<1>. QED  BY <1>2, <1>3

\* The new thread has the line of the one that forks it.
LEMMA ForkFamily ==
    ASSUME ThreadInv, NEW t, NEW n \in Threads, NEW s, NEW ended, ForkStep(t, n, s, ended)
    PROVE  Family'
<1>1. ForkFields(t, n, s, ended) /\ program' = program /\ s \notin Enclosing(t)
  BY DEF ForkStep, Reenters
<1>2. /\ t \in Threads /\ t # None /\ Unreaped(t) /\ ~thread[t].i_have_ended /\ ~Unreaped(n)
      /\ n # None /\ t < n /\ t # n
      /\ \A u \in Threads : Live(u) => u < n
      /\ \A u : ~Entered(u)
  BY ForkPlace
<1>3. /\ Unreaped(n)'
      /\ \A u \in Threads : u # n => (Unreaped(u)' <=> Unreaped(u))
  BY ForkUnreaped
<1>4. ASSUME NEW u \in Threads, Unreaped(u)
      PROVE  \A v \in thread[u].line : v \in Threads /\ v # n /\ Unreaped(v) /\ Unreaped(v)' /\ Keeps(v)
  <2>1. \A v \in thread[u].line : v \in Threads /\ Unreaped(v)
    BY <1>4, FieldTypes DEF ThreadInv, Family, Kin
  <2>2. \A v \in thread[u].line : v # n
    BY <1>2, <2>1
  <2>. QED  BY <1>1, <1>3, <2>1, <2>2 DEF ForkFields
<1>5. ASSUME NEW u \in Threads, u # n, Unreaped(u), NEW f, f = thread[u].forker PROVE Kin(u, f)'
  <2>1. Keeps(u)
    BY <1>1, <1>5 DEF ForkFields
  <2>2. thread'[u].parent = None <=> thread[u].parent = None
    <3>1. thread[t].child # None => thread[thread[t].child].parent = t
      BY ForkPlace
    <3>2. u = thread[t].child => thread[u].parent = t
      BY <1>5, <3>1 DEF Threads, None
    <3>. QED  BY <1>1, <1>2, <1>5, <3>2 DEF ForkFields
  <2>3. \A g \in Threads : g = thread[u].forker /\ thread'[g].i_have_ended => Entered(g)'
    <3>1. ASSUME NEW g \in Threads, g = thread[u].forker PROVE ~thread'[g].i_have_ended
      <4>1. Unreaped(g) /\ ~thread[g].i_have_ended
        BY <1>2, <1>5, <3>1 DEF ThreadInv, Family, Kin, Threads, None
      <4>. QED  BY <1>1, <1>2, <4>1 DEF ForkFields
    <3>. QED  BY <3>1
  <2>4. KinStays(u)
    BY <1>4, <1>5, <2>1, <2>2, <2>3 DEF KinStays
  <2>. QED  BY <1>1, <1>5, <2>4, KinKept DEF ThreadInv
<1>6. Kin(n, t)'
  <2>1. Enclosing(t)' = Enclosing(t)
    BY <1>1, <1>2, <1>4, EnclosingKept DEF ThreadInv
  <2>2. thread'[n].line = {n} \cup thread[t].line /\ thread'[t].line = thread[t].line
    BY <1>1, <1>2 DEF ForkFields, Keeps
  <2>3. ASSUME NEW v \in thread'[n].line
        PROVE  v <= n /\ Unreaped(v)' /\ thread'[v].line \subseteq thread'[n].line
    <3>1. CASE v = n
      BY <1>3, <3>1 DEF Threads
    <3>2. CASE v # n
      <4>1. v \in thread[t].line /\ v \in Threads /\ Unreaped(v) /\ Unreaped(v)' /\ Keeps(v)
        BY <1>2, <1>4, <2>2, <3>2
      <4>2. v < n
        BY <1>2, <4>1 DEF Unreaped
      <4>3. thread[v].line \subseteq thread[t].line
        BY <1>2, <4>1 DEF ThreadInv, Family, Kin
      <4>. QED  BY <2>2, <4>1, <4>2, <4>3 DEF Keeps, Threads
    <3>. QED  BY <3>1, <3>2
  <2>4. /\ thread'[n].parent = t /\ Unreaped(t)' /\ thread'[n].scope = s
        /\ ~thread'[t].i_have_ended
    BY <1>1, <1>2, <1>3 DEF ForkFields
  <2>. QED  BY <1>1, <1>2, <2>1, <2>2, <2>3, <2>4 DEF Kin
<1>7. ASSUME NEW u \in Threads, Unreaped(u)', NEW f, f = thread'[u].forker PROVE Kin(u, f)'
  <2>1. CASE u = n
    BY <1>1, <1>6, <1>7, <2>1 DEF ForkFields
  <2>2. CASE u # n
    <3>1. f = thread[u].forker /\ Unreaped(u)
      BY <1>1, <1>3, <1>7, <2>2 DEF ForkFields, Keeps
    <3>. QED  BY <1>5, <2>2, <3>1
  <2>. QED  BY <2>1, <2>2
<1>. QED  BY <1>7 DEF Family, Kin

\* The new thread is the last of t's children; what it has forked before is below it.
LEMMA ForkSets ==
    ASSUME ThreadInv, NEW t, NEW n \in Threads, NEW s, NEW ended, ForkStep(t, n, s, ended)
    PROVE  /\ \A u \in Threads : u # n => thread'[u].forker = thread[u].forker
           /\ \A u \in Threads : u # t /\ u # n => Children(u)' = Children(u)
           /\ Children(t)' = Children(t) \cup {n} /\ Children(n)' = {}
           /\ \A u \in Threads : u # n /\ Unreaped(u) => Later(u)' = Later(u)
           /\ Later(n)' = Children(t) \cup Later(t)
<1>1. ForkFields(t, n, s, ended)
  BY DEF ForkStep
<1>2. /\ t \in Threads /\ t # None /\ Unreaped(t) /\ ~Unreaped(n) /\ n # None /\ t < n /\ t # n
      /\ \A u \in Threads : Live(u) => u < n
      /\ thread[t].child # None => thread[thread[t].child].parent = t
  BY ForkPlace
<1>3. /\ Unreaped(n)' /\ Live(n)'
      /\ \A u \in Threads : u # n => (Unreaped(u)' <=> Unreaped(u)) /\ (Live(u)' <=> Live(u))
  BY ForkUnreaped
<1>4. \A u \in Threads : u # n => thread'[u].forker = thread[u].forker /\ thread'[u].line = thread[u].line
  BY <1>1 DEF ForkFields, Keeps
<1>5. thread'[n].forker = t /\ thread'[n].line = {n} \cup thread[t].line /\ thread'[n].parent = t
  BY <1>1 DEF ForkFields
<1>6. \A u \in Threads : Unreaped(u) => u < n /\ u # n
  BY <1>2 DEF Unreaped
<1>7. \A u \in Threads : Unreaped(u) => \A v \in thread[u].line : v \in Threads /\ Unreaped(v)
  BY FieldTypes DEF ThreadInv, Family, Kin
<1>8. ASSUME NEW u \in Threads, u # n
      PROVE  thread'[u].parent = None <=> thread[u].parent = None
  <2>1. thread'[u].parent = IF u = thread[t].child THEN n ELSE thread[u].parent
    BY <1>1, <1>8 DEF ForkFields
  <2>2. u # None
    BY DEF Threads, None
  <2>. QED  BY <1>2, <2>1, <2>2
<1>9. ASSUME NEW u \in Threads, NEW v \in Threads
      PROVE  v \in Children(u)' <=> v \in Children(u) \/ (v = n /\ u = t)
  <2>1. CASE v = n
    BY <1>2, <1>3, <1>5, <2>1 DEF Children, Live, Unreaped
  <2>2. CASE v # n
    BY <1>3, <1>4, <1>8, <2>2 DEF Children
  <2>. QED  BY <2>1, <2>2
<1>10. \A u \in Threads : u # t => Children(u)' = Children(u)
  <2>1. \A u : Children(u) \subseteq Threads /\ Children(u)' \subseteq Threads
    BY DEF Children
  <2>. QED  BY <1>9, <2>1
<1>11. Children(t)' = Children(t) \cup {n}
  <2>1. Children(t) \subseteq Threads /\ Children(t)' \subseteq Threads
    BY DEF Children
  <2>. QED  BY <1>2, <1>9, <2>1
<1>12. Children(n)' = {}
  <2>1. ASSUME NEW y \in Children(n) PROVE FALSE
    <3>1. y \in Threads /\ Unreaped(y) /\ thread[y].forker = n
      BY DEF Children, Unreaped
    <3>. QED  BY <1>2, <3>1 DEF ThreadInv, Family, Kin
  <2>. QED  BY <1>2, <1>10, <2>1
<1>13. ASSUME NEW u \in Threads, u # n, Unreaped(u), NEW y \in Threads
       PROVE  y \in Later(u)' <=> y \in Later(u)
  <2>1. \A v \in thread[u].line : v \in Threads /\ v # n /\ v < n
    BY <1>6, <1>7, <1>13
  <2>2. thread'[u].line = thread[u].line
    BY <1>4, <1>13
  <2>3. CASE y = n
    <3>1. y \notin Later(u)
      BY <1>2, <2>3 DEF Later
    <3>2. y \notin Later(u)'
      BY <2>1, <2>2, <2>3 DEF Later, Threads
    <3>. QED  BY <3>1, <3>2
  <2>4. CASE y # n
    BY <1>3, <1>4, <2>1, <2>2, <2>4 DEF Later
  <2>. QED  BY <2>3, <2>4
<1>14. \A u \in Threads : u # n /\ Unreaped(u) => Later(u)' = Later(u)
  <2>1. \A u : Later(u) \subseteq Threads /\ Later(u)' \subseteq Threads
    BY DEF Later
  <2>. QED  BY <1>13, <2>1
<1>15. ASSUME NEW y \in Threads
       PROVE  y \in Later(n)' <=> y \in Children(t) \/ y \in Later(t)
  <2>1. \A v \in thread[t].line : v \in Threads /\ v # n /\ v < n
    BY <1>2, <1>6, <1>7
  <2>2. CASE y = n
    <3>1. y \notin Later(t) /\ y \notin Children(t)
      BY <1>2, <2>2, ChildUnreaped DEF Later
    <3>2. y \notin Later(n)'
      BY <1>5, <2>1, <2>2 DEF Later, Threads
    <3>. QED  BY <3>1, <3>2
  <2>3. CASE y # n
    <3>1. y \in Children(t) <=> Unreaped(y) /\ thread[y].forker = t
      BY <1>2, ChildUnreaped DEF ThreadInv, Family, Kin
    <3>2. y \in Later(n)' <=> /\ Unreaped(y) /\ thread[y].forker # None
                              /\ \E z \in {n} \cup thread[t].line :
                                    thread'[z].forker = thread[y].forker /\ y < z
      BY <1>3, <1>4, <1>5, <2>3 DEF Later
    <3>3. (\E z \in {n} \cup thread[t].line : thread'[z].forker = thread[y].forker /\ y < z)
             <=> \/ t = thread[y].forker /\ y < n
                 \/ \E z \in thread[t].line : thread[z].forker = thread[y].forker /\ y < z
      BY <1>4, <1>5, <2>1
    <3>4. Unreaped(y) => y < n
      BY <1>6
    <3>5. y \in Later(t) <=> /\ Unreaped(y) /\ thread[y].forker # None
                             /\ \E z \in thread[t].line : thread[z].forker = thread[y].forker /\ y < z
      BY DEF Later
    <3>. QED  BY <1>2, <3>1, <3>2, <3>3, <3>4, <3>5
  <2>. QED  BY <2>2, <2>3
<1>16. Later(n)' = Children(t) \cup Later(t)
  <2>1. Later(t) \subseteq Threads /\ Later(n)' \subseteq Threads /\ Children(t) \subseteq Threads
    BY DEF Later, Children
  <2>. QED  BY <1>15, <2>1
<1>. QED  BY <1>4, <1>10, <1>11, <1>12, <1>14, <1>16

\* The new thread is on top of the thread that forks it.
LEMMA ForkStack ==
    ASSUME ThreadInv, NEW t, NEW n \in Threads, NEW s, NEW ended, ForkStep(t, n, s, ended)
    PROVE  Stack'
<1>1. ForkFields(t, n, s, ended)
  BY DEF ForkStep
<1>. PICK x \in Ids : x = thread[t].child
  BY ForkPlace
<1>2. /\ t \in Threads /\ t # None /\ Unreaped(t) /\ ~Unreaped(n) /\ n # None /\ t < n /\ t # n
      /\ x # n /\ x # t
      /\ x # None => x \in Threads /\ Unreaped(x) /\ thread[x].parent = t
  BY ForkPlace
<1>3. /\ Unreaped(n)'
      /\ \A u \in Threads : u # n => (Unreaped(u)' <=> Unreaped(u))
  BY ForkUnreaped
<1>4. /\ \A u \in Threads : u # n => thread'[u].forker = thread[u].forker
      /\ \A u \in Threads : u # t /\ u # n => Children(u)' = Children(u)
      /\ Children(t)' = Children(t) \cup {n} /\ Children(n)' = {}
      /\ \A u \in Threads : u # n /\ Unreaped(u) => Later(u)' = Later(u)
      /\ Later(n)' = Children(t) \cup Later(t)
  BY ForkSets
<1>5. \A u \in Threads : u # n =>
         /\ thread'[u].parent = IF u = x THEN n ELSE thread[u].parent
         /\ thread'[u].child = IF u = t THEN n ELSE thread[u].child
         /\ thread'[u].fork_count = IF u = t THEN thread[u].fork_count + 1 ELSE thread[u].fork_count
  BY <1>1 DEF ForkFields
<1>6. \A u \in Threads : Unreaped(u) => Placed(u, thread[u].child, thread[u].parent)
  BY DEF ThreadInv, Stack
<1>7. \A u \in Threads : Unreaped(u) => u # n /\ u < n /\ u # None
  <2>1. \A u \in Threads : Live(u) => u < n
    BY ForkPlace
  <2>. QED  BY <1>2, <2>1 DEF Unreaped, Threads, None
<1>8. ASSUME NEW u \in Threads, Unreaped(u), NEW c, NextIs(u, c) PROVE NextIs(u, c)'
  <2>1. Later(u)' = Later(u)
    BY <1>4, <1>7, <1>8
  <2>2. \A y \in Later(u) : thread'[y].forker = thread[y].forker
    BY <1>2, <1>4 DEF Later
  <2>. QED  BY <1>8, <2>1, <2>2 DEF NextIs
<1>9. Placed(n, x, t)'
  <2>1. x # None => Unreaped(x)' /\ thread'[x].parent = n
    BY <1>2, <1>3, <1>5
  <2>2. Unreaped(t)' /\ thread'[t].child = n
    BY <1>2, <1>3, <1>5
  <2>3. thread'[n].fork_count = Cardinality(Children(n)')
    BY <1>1, <1>4, FS_EmptySet DEF ForkFields
  <2>4. NextIs(n, x)'
    <3>1. CASE Children(t) # {}
      <4>1. x \in Children(t) /\ \A y \in Children(t) : y <= x
        BY <1>2, <3>1, OnTop
      <4>2. \A y \in Children(t) : y \in Threads /\ y # n /\ thread[y].forker = t
        BY <1>2, ChildUnreaped DEF Children
      <4>3. \A y \in Children(t) : thread'[y].forker = t
        BY <1>4, <4>2
      <4>4. \A y \in Later(t) : y \in Threads /\ y # n /\ thread[y].forker < t
        BY <1>2, LaterForkers DEF Later, ThreadInv
      <4>5. \A y \in Later(t) : thread'[y].forker < t
        BY <1>4, <4>4
      <4>. QED  BY <1>4, <4>1, <4>3, <4>5 DEF NextIs
    <3>2. CASE Children(t) = {}
      <4>1. NextIs(t, x)
        BY <1>2, <1>6, <3>2 DEF Placed
      <4>2. Later(n)' = Later(t)
        BY <1>4, <3>2
      <4>3. \A y \in Later(t) : thread'[y].forker = thread[y].forker
        BY <1>2, <1>4 DEF Later
      <4>. QED  BY <4>1, <4>2, <4>3 DEF NextIs
    <3>. QED  BY <3>1, <3>2
  <2>. QED  BY <1>4, <2>1, <2>2, <2>3, <2>4 DEF Placed
<1>10. ASSUME NEW p, p = thread[t].parent PROVE Placed(t, n, p)'
  <2>0. Placed(t, x, p)
    BY <1>2, <1>6, <1>10
  <2>1. p \in Ids /\ (p # None => p \in Threads /\ Unreaped(p) /\ thread[p].child = t)
    BY <1>2, <1>10, <2>0, FieldTypes DEF Placed, ThreadInv
  <2>2. p # None => Unreaped(p)' /\ thread'[p].child = t
    BY <1>2, <1>3, <1>5, <1>7, <2>1
  <2>3. thread'[n].parent = t
    BY <1>1 DEF ForkFields
  <2>4. thread'[t].fork_count = Cardinality(Children(t)')
    <3>1. n \notin Children(t)
      BY <1>2, ChildUnreaped
    <3>2. Cardinality(Children(t) \cup {n}) = Cardinality(Children(t)) + 1
      BY <3>1, ChildrenFinite, FS_AddElement
    <3>. QED  BY <1>2, <1>4, <1>5, <2>0, <3>2 DEF Placed
  <2>5. \A u \in Children(t) : u <= n
    BY <1>7, ChildUnreaped, ChildrenFinite DEF Threads
  <2>. QED  BY <1>2, <1>3, <1>4, <2>2, <2>3, <2>4, <2>5 DEF Placed, Threads
<1>11. ASSUME NEW u \in Threads, Unreaped(u), u # t, NEW c, c = thread[u].child,
              NEW p, p = thread'[u].parent
       PROVE  Placed(u, c, p)'
  <2>1. Placed(u, c, thread[u].parent)
    BY <1>6, <1>11
  <2>2. c \in Ids /\ (c # None => c \in Threads /\ Unreaped(c) /\ thread[c].parent = u)
    BY <1>11, <2>1, FieldTypes DEF Placed, ThreadInv
  <2>3. c # None => Unreaped(c)' /\ thread'[c].parent = u
    BY <1>2, <1>3, <1>5, <1>7, <1>11, <2>2
  <2>4. p # None => Unreaped(p)' /\ thread'[p].child = u
    <3>1. CASE u = x
      BY <1>1, <1>3, <1>5, <1>7, <1>11, <3>1 DEF ForkFields
    <3>2. CASE u # x
      <4>1. p = thread[u].parent
        BY <1>5, <1>7, <1>11, <3>2
      <4>2. p \in Ids /\ (p # None => p \in Threads /\ Unreaped(p) /\ thread[p].child = u)
        BY <1>11, <2>1, <4>1, FieldTypes DEF Placed, ThreadInv
      <4>. QED  BY <1>2, <1>3, <1>5, <1>7, <3>2, <4>2
    <3>. QED  BY <3>1, <3>2
  <2>5. Children(u)' = Children(u) /\ thread'[u].fork_count = thread[u].fork_count
    BY <1>4, <1>5, <1>7, <1>11
  <2>6. Children(u) = {} => NextIs(u, c)'
    BY <1>8, <1>11, <2>1 DEF Placed
  <2>. QED  BY <2>1, <2>3, <2>4, <2>5, <2>6 DEF Placed
<1>12. ASSUME NEW u \in Threads, Unreaped(u)', NEW c, c = thread'[u].child, NEW p, p = thread'[u].parent
       PROVE  Placed(u, c, p)'
  <2>1. CASE u = n
    BY <1>1, <1>9, <1>12, <2>1 DEF ForkFields
  <2>2. CASE u = t
    BY <1>2, <1>5, <1>10, <1>12, <2>2
  <2>3. CASE u # n /\ u # t
    BY <1>3, <1>5, <1>11, <1>12, <2>3
  <2>. QED  BY <2>1, <2>2, <2>3
<1>. QED  BY <1>12 DEF Stack, Placed

\* A new cell goes into a ring behind its header.
LEMMA RingLinked ==
    ASSUME Typed, NEW s \in Scopes, s \notin Threads, Ring(s), NEW n \in Threads, n \notin InScope(s),
           LinkScope(n, s), \A u \in InScope(s) : ~Entered(u) /\ u < n,
           InScope(s)' = InScope(s) \cup {n}, \A u \in InScope(s)' : ~Entered(u)'
    PROVE  Ring(s)'
<1>. DEFINE b == scope_next[s]
            L == InScope(s) \cup {s}
<1>1. Listed(s) = L /\ Listed(s)' = L \cup {n}
  BY DEF Listed
<1>2. /\ \A m \in L : /\ scope_next[m] \in L /\ scope_prev[m] \in L
                      /\ scope_prev[scope_next[m]] = m /\ scope_next[scope_prev[m]] = m
                      /\ m # s => scope_next[m] = s \/ scope_next[m] < m
  BY <1>1 DEF Ring
<1>3. b \in L /\ scope_prev[b] = s /\ (b = s \/ b < n) /\ s \in L
  BY <1>2
<1>4. n \notin L /\ n # s /\ n # b /\ n \in Cells /\ L \subseteq Cells
  BY <1>3 DEF InScope, Cells
<1>5. /\ scope_next' = [scope_next EXCEPT ![n] = b, ![s] = n]
      /\ scope_prev' = [scope_prev EXCEPT ![n] = s, ![b] = n]
      /\ scope_next \in [Cells -> Cells] /\ scope_prev \in [Cells -> Cells]
  BY DEF LinkScope, Typed
<1>. HIDE DEF b, L
<1>6. /\ scope_next'[n] = b /\ scope_prev'[n] = s
      /\ \A m \in L : /\ scope_next'[m] = IF m = s THEN n ELSE scope_next[m]
                      /\ scope_prev'[m] = IF m = b THEN n ELSE scope_prev[m]
  BY <1>3, <1>4, <1>5
<1>7. ASSUME NEW m \in L
      PROVE  /\ scope_next'[m] \in L \cup {n} /\ scope_prev'[m] \in L \cup {n}
             /\ scope_prev'[scope_next'[m]] = m /\ scope_next'[scope_prev'[m]] = m
             /\ m # s => scope_next'[m] = s \/ scope_next'[m] < m
  <2>1. m # s => scope_next[m] # b
    BY <1>2, <1>3
  <2>2. m # b => scope_prev[m] # s
    BY <1>2 DEF b
  <2>3. scope_prev'[scope_next'[m]] = m
    BY <1>2, <1>6, <2>1
  <2>4. scope_next'[scope_prev'[m]] = m
    BY <1>2, <1>6, <2>2
  <2>. QED  BY <1>2, <1>6, <2>3, <2>4
<1>8. /\ scope_next'[n] \in L /\ scope_prev'[n] \in L
      /\ scope_prev'[scope_next'[n]] = n /\ scope_next'[scope_prev'[n]] = n
      /\ scope_next'[n] = s \/ scope_next'[n] < n
  BY <1>3, <1>6
<1>9. \A m \in L \cup {n} :
         /\ scope_next'[m] \in L \cup {n} /\ scope_prev'[m] \in L \cup {n}
         /\ scope_prev'[scope_next'[m]] = m /\ scope_next'[scope_prev'[m]] = m
         /\ m # s => scope_next'[m] = s \/ scope_next'[m] < m
  BY <1>7, <1>8
<1>. QED  BY <1>1, <1>9 DEF Ring

\* Every set of threads that is not empty has a newest one.
LEMMA NewestThread ==
    ASSUME NEW T \in SUBSET Threads, T # {}
    PROVE  \E x \in T : \A y \in T : y <= x
<1>. DEFINE B == {k \in Nat : \A y \in T : y <= k}
<1>1. MaxThreads \in B
  BY ProgramsAssumption DEF Threads
<1>2. B \in SUBSET Nat /\ B # {}
  BY <1>1
<1>3. PICK k \in B : \A j \in B : k <= j
  <2>. HIDE DEF B
  <2>. QED  BY <1>2, LeastNumber
<1>4. k \in T
  <2>1. SUFFICES ASSUME k \notin T PROVE FALSE
    OBVIOUS
  <2>2. \A y \in T : y \in Nat /\ 1 <= y /\ y < k
    BY <1>3, <2>1 DEF Threads
  <2>3. k - 1 \in B
    BY <1>3, <2>2
  <2>. QED  BY <1>3, <2>3
<1>. QED  BY <1>3, <1>4

\* A new cell goes into the list of a disabled scope, which is whole.
LEMMA LooseLinked ==
    ASSUME Typed, NEW s \in Scopes, s \notin Threads, Loose(s), NEW n \in Threads, n \notin InScope(s),
           LinkScope(n, s), InScope(s)' = InScope(s) \cup {n}, NEW f, f # None,
           \A u \in InScope(s) : u < n /\ ~thread[u].off /\ thread'[u].forker = f,
           thread'[n].forker = f
    PROVE  Loose(s)'
<1>. DEFINE b == scope_next[s]
            T == InScope(s)
            TT == InScope(s)'
<1>0. /\ T \subseteq Threads /\ \A u \in T : u \in Nat /\ u # s /\ u # n /\ u \in Cells
      /\ s \in Cells /\ n \in Cells /\ n \in Nat /\ n # s /\ TT = T \cup {n}
  BY DEF InScope, Threads, Cells
<1>1. \/ b = s /\ T = {}
      \/ b \in T /\ \A u \in T : u <= b
  <2>1. CASE T = {}
    BY <2>1 DEF Loose
  <2>2. CASE T # {}
    <3>1. PICK x \in T : \A u \in T : u <= x
      BY <1>0, <2>2, NewestThread
    <3>2. b \in T /\ x <= b
      BY <3>1 DEF Loose
    <3>. QED  BY <1>0, <3>1, <3>2
  <2>. QED  BY <2>1, <2>2
<1>2. n # b /\ b \in Cells
  BY <1>0, <1>1
<1>3. /\ scope_next' = [scope_next EXCEPT ![n] = b, ![s] = n]
      /\ scope_prev' = [scope_prev EXCEPT ![n] = s, ![b] = n]
      /\ scope_next \in [Cells -> Cells] /\ scope_prev \in [Cells -> Cells]
  BY DEF LinkScope, Typed
<1>. HIDE DEF b
<1>4. /\ scope_next'[n] = b /\ scope_prev'[n] = s /\ scope_next'[s] = n /\ scope_prev'[b] = n
      /\ \A m \in T : scope_next'[m] = scope_next[m]
      /\ \A m \in T \cup {s} : m # b => scope_prev'[m] = scope_prev[m]
  BY <1>0, <1>2, <1>3
<1>5. ASSUME NEW t \in TT, NEW m, m = scope_next'[t]
      PROVE  \/ m = s /\ \A u \in TT : t <= u
             \/ m \in TT /\ m < t /\ \A u \in TT : u < t => u <= m
  <2>1. CASE t = n
    <3>1. m = b
      BY <1>4, <1>5, <2>1
    <3>2. CASE b = s /\ T = {}
      BY <1>0, <2>1, <3>1, <3>2
    <3>3. CASE b \in T /\ \A u \in T : u <= b
      BY <1>0, <2>1, <3>1, <3>3
    <3>. QED  BY <1>1, <3>2, <3>3
  <2>2. CASE t \in T
    <3>1. m = scope_next[t] /\ Older(t, m, s) /\ t < n
      BY <1>4, <1>5, <2>2 DEF Loose
    <3>. QED  BY <1>0, <2>2, <3>1 DEF Older
  <2>. QED  BY <1>0, <2>1, <2>2
<1>6. ASSUME NEW t \in TT
      PROVE  scope_prev'[t] = s \/ (scope_prev'[t] \in TT /\ scope_next'[scope_prev'[t]] = t)
  <2>1. CASE t = n
    BY <1>4, <2>1
  <2>2. CASE t = b
    BY <1>0, <1>4, <2>2
  <2>3. CASE t \in T /\ t # b
    <3>1. scope_prev'[t] = scope_prev[t]
      BY <1>4, <2>3
    <3>2. scope_prev[t] = s \/ (scope_prev[t] \in T /\ scope_next[scope_prev[t]] = t)
      BY <2>3 DEF Loose
    <3>. QED  BY <1>0, <1>4, <3>1, <3>2
  <2>. QED  BY <1>0, <2>1, <2>2, <2>3
<1>7. \A t \in TT : t <= n
  BY <1>0
<1>8. scope_prev'[s] = s \/ (scope_prev'[s] \in TT /\ scope_next'[scope_prev'[s]] = s)
  <2>1. CASE b = s
    BY <1>0, <1>4, <2>1
  <2>2. CASE b # s
    <3>1. scope_prev'[s] = scope_prev[s]
      BY <1>4, <2>2
    <3>2. scope_prev[s] = s \/ (scope_prev[s] \in T /\ scope_next[scope_prev[s]] = s)
      BY DEF Loose
    <3>. QED  BY <1>0, <1>4, <3>1, <3>2
  <2>. QED  BY <2>1, <2>2
<1>9. \A t \in TT : thread'[t].forker = f
  BY <1>0
<1>10. scope_next'[s] \in TT \cup {s} /\ (scope_next'[s] # s => scope_prev'[scope_next'[s]] = s)
  BY <1>0, <1>4
<1>11. \A t \in TT : \/ scope_next'[t] = s /\ \A u \in TT : t <= u
                     \/ /\ scope_next'[t] \in TT /\ scope_next'[t] < t
                        /\ \A u \in TT : u < t => u <= scope_next'[t]
  BY <1>5
<1>12. \A t \in TT : ~thread'[t].off => scope_next'[s] \in TT /\ t <= scope_next'[s]
  BY <1>0, <1>4, <1>7
<1>. HIDE DEF T
<1>. QED  BY <1>6, <1>8, <1>9, <1>10, <1>11, <1>12 DEF Loose, Older

\* Only the list of the new thread's scope changes.
LEMMA ForkLists ==
    ASSUME ThreadInv, NEW t, NEW n \in Threads, NEW s \in Scopes, NEW ended, ForkStep(t, n, s, ended)
    PROVE  Rings'
<1>1. ForkFields(t, n, s, ended) /\ LinkScope(n, s) /\ program' = program /\ ~Reenters(t, s)
  BY DEF ForkStep
<1>2. /\ t \in Threads /\ t # None /\ Unreaped(t) /\ ~Unreaped(n) /\ n # None
      /\ \A u \in Threads : Live(u) => u < n
      /\ \A u : ~Entered(u) /\ ~Entered(u)'
  BY ForkPlace
<1>3. /\ Unreaped(n)'
      /\ \A u \in Threads : u # n => (Unreaped(u)' <=> Unreaped(u))
  BY ForkUnreaped
<1>4. /\ \A u \in Threads : u # n =>
           /\ thread'[u].scope = thread[u].scope /\ thread'[u].forker = thread[u].forker
           /\ thread'[u].off = thread[u].off
      /\ thread'[n].scope = s /\ thread'[n].forker = t
  BY <1>1 DEF ForkFields, Keeps
<1>5. Typed /\ Rings /\ \A r \in Scopes : r \notin Threads
  BY DisabledNames DEF ThreadInv, Typed
<1>6. \A r, u : u # n => (u \in InScope(r)' <=> u \in InScope(r))
  BY <1>3, <1>4 DEF InScope
<1>7. n \notin InScope(s) /\ n \in InScope(s)'
  BY <1>2, <1>3, <1>4 DEF InScope
<1>8. InScope(s)' = InScope(s) \cup {n}
  BY <1>6, <1>7
<1>9. \A u \in InScope(s) : u \in Threads /\ Unreaped(u) /\ u < n
  BY <1>2 DEF InScope, Unreaped
<1>10. scope_next[s] \in InScope(s) \cup {s}
  <2>1. CASE s \in P.disabled
    BY <1>5, <2>1 DEF Rings, Loose
  <2>2. CASE s \notin P.disabled
    BY <1>5, <2>2 DEF Rings, Ring, Listed
  <2>. QED  BY <2>1, <2>2
<1>11. ASSUME NEW r \in Scopes, r # s
       PROVE  SameList(r) /\ \A u \in InScope(r) : Entered(u)' <=> Entered(u)
  <2>1. n \notin InScope(r) /\ n \notin InScope(r)'
    BY <1>2, <1>4, <1>11 DEF InScope
  <2>2. \A u : u \in InScope(r)' <=> u \in InScope(r)
    BY <1>6, <2>1
  <2>3. ASSUME NEW m \in InScope(r) \cup {r}
        PROVE  m \in Cells /\ m # n /\ m # s /\ m # scope_next[s]
    <3>1. m \in InScope(r) => m \in Threads /\ m # n /\ m \notin InScope(s) /\ m # s
      BY <1>5, <1>11, <2>1 DEF InScope
    <3>2. r # n /\ r \notin InScope(s)
      BY <1>5 DEF InScope
    <3>. QED  BY <1>10, <1>11, <2>3, <3>1, <3>2 DEF Cells
  <2>4. ASSUME NEW m \in InScope(r) \cup {r}
        PROVE  scope_next'[m] = scope_next[m] /\ scope_prev'[m] = scope_prev[m]
    <3>1. m \in Cells /\ m # n /\ m # s /\ m # scope_next[s]
      BY <2>3
    <3>. QED  BY <1>1, <1>5, <3>1 DEF LinkScope, Typed
  <2>5. \A u \in InScope(r) : /\ thread'[u].forker = thread[u].forker
                              /\ thread[u].off => thread'[u].off
    BY <1>4, <2>1 DEF InScope
  <2>. QED  BY <1>2, <2>2, <2>4, <2>5 DEF SameList
<1>12. P' = P /\ Scopes' = Scopes
  BY <1>1, SameProgram
<1>13. s \in P.disabled => Loose(s)'
  <2>1. SUFFICES ASSUME s \in P.disabled PROVE Loose(s)'
    OBVIOUS
  <2>2. Loose(s)
    BY <1>5, <2>1 DEF Rings
  <2>3. s # thread[t].scope
    <3>1. SUFFICES ASSUME s = thread[t].scope PROVE FALSE
      OBVIOUS
    <3>2. t \in thread[t].line
      BY <1>2 DEF ThreadInv, Family, Kin
    <3>3. WithinDisabled(t)
      BY <2>1, <3>1, <3>2 DEF WithinDisabled
    <3>. QED  BY <1>1, <3>1, <3>2, <3>3 DEF Enclosing, Reenters
  <2>4. \A u \in InScope(s) : thread[u].forker = t /\ ~thread[u].off
    BY <1>1, <2>1, <2>3 DEF Reenters, InScope
  <2>5. \A u \in InScope(s) : u < n /\ ~thread[u].off /\ thread'[u].forker = t
    BY <1>4, <1>7, <1>9, <2>4
  <2>. QED  BY <1>1, <1>2, <1>4, <1>5, <1>7, <1>8, <2>2, <2>5, LooseLinked
<1>14. s \notin P.disabled => Ring(s)'
  <2>1. SUFFICES ASSUME s \notin P.disabled PROVE Ring(s)'
    OBVIOUS
  <2>2. Ring(s)
    BY <1>5, <2>1 DEF Rings
  <2>3. /\ \A u \in InScope(s) : ~Entered(u) /\ u < n
        /\ \A u \in InScope(s)' : ~Entered(u)'
    BY <1>2, <1>9
  <2>. QED  BY <1>1, <1>5, <1>7, <1>8, <2>2, <2>3, RingLinked
<1>15. ASSUME NEW r \in Scopes PROVE (r \in P.disabled => Loose(r)') /\ (r \notin P.disabled => Ring(r)')
  <2>1. CASE r = s
    BY <1>13, <1>14, <2>1
  <2>2. CASE r # s
    BY <1>5, <1>11, <2>2, RingKept, LooseKept DEF Rings
  <2>. QED  BY <2>1, <2>2
<1>. QED  BY <1>12, <1>15 DEF Rings

\* The new thread is scheduled, or it is a function that has ended.
LEMMA ForkQueues ==
    ASSUME ThreadInv, NEW t, NEW n \in Threads, NEW s, NEW ended \in BOOLEAN, ForkStep(t, n, s, ended)
    PROVE  /\ active' \in Seq(Seq(Threads)) /\ Queued' /\ Flagged'
           /\ \A u \in Threads : u # n => (Held(u)' <=> Held(u))
<1>1. /\ ForkFields(t, n, s, ended) /\ program' = program
      /\ IF ended THEN UNCHANGED active ELSE Push(n)
      /\ UNCHANGED <<delayed, waiting_list, rest>>
  BY DEF ForkStep
<1>2. ~Live(n) /\ Live(n)' /\ \A u \in Threads : u # n => (Live(u)' <=> Live(u))
  BY ForkPlace, ForkUnreaped
<1>3. ~Scheduled(n) /\ ~Waiting(n)
  BY <1>2 DEF ThreadInv, Flagged
<1>4. active \in Seq(Seq(Threads)) /\ rest \in Seq(Threads) /\ delayed \subseteq Threads /\ ChainsApart
  BY QueuedParts DEF ThreadInv, Typed
<1>5. /\ active' \in Seq(Seq(Threads)) /\ ChainsApart'
      /\ \A u \in Threads : Scheduled(u)' <=> Scheduled(u) \/ (u = n /\ ~ended)
  <2>1. CASE ended
    <3>1. \A u : InChains(u)' <=> InChains(u)
      BY <1>1, <2>1 DEF InChains
    <3>2. ChainsApart'
      BY <1>1, <1>4, <2>1, <3>1 DEF ChainsApart
    <3>. QED  BY <1>1, <1>4, <2>1, <3>1, <3>2 DEF Scheduled
  <2>2. CASE ~ended
    <3>1. Push(n)
      BY <1>1, <2>2
    <3>2. /\ active' \in Seq(Seq(Threads)) /\ ChainsApart'
          /\ \A u \in Threads : Scheduled(u)' <=> Scheduled(u) \/ u = n
      BY <1>1, <1>3, <1>4, <3>1, Pushed
    <3>. QED  BY <2>2, <3>2
  <2>. QED  BY <2>1, <2>2
<1>6. Queued'
  <2>1. EventsApart'
    BY <1>1, QueuedParts, SameProgram DEF ThreadInv, EventsApart
  <2>. QED  BY <1>5, <2>1, QueuedParts DEF Queued, ChainsApart, EventsApart
<1>7. \A u \in Threads : u # n => /\ thread'[u].is_scheduled = thread[u].is_scheduled
                                  /\ thread'[u].waiting_for_event = thread[u].waiting_for_event
  BY <1>1 DEF ForkFields
<1>8. (thread'[n].is_scheduled <=> ~ended) /\ ~thread'[n].waiting_for_event
  BY <1>1 DEF ForkFields
<1>9. Flagged'
  <2>1. \A u \in Threads : Waiting(u)' <=> Waiting(u)
    BY <1>1, SameProgram DEF Waiting
  <2>2. ASSUME NEW u \in Threads
        PROVE  /\ Scheduled(u)' <=> Live(u)' /\ thread'[u].is_scheduled
               /\ Waiting(u)' <=> Live(u)' /\ thread'[u].waiting_for_event
               /\ Live(u)' => ~(thread'[u].is_scheduled /\ thread'[u].waiting_for_event)
    <3>1. CASE u = n
      BY <1>2, <1>3, <1>5, <1>8, <2>1, <3>1
    <3>2. CASE u # n
      BY <1>2, <1>5, <1>7, <2>1, <3>2 DEF ThreadInv, Flagged
    <3>. QED  BY <3>1, <3>2
  <2>. QED  BY <2>2 DEF Flagged
<1>. QED  BY <1>5, <1>6, <1>7, <1>9 DEF Held

\* A fork keeps the invariant.
LEMMA ForkKeeps ==
    ASSUME ThreadInv, NEW t, NEW n \in Threads, NEW s \in Scopes, NEW ended \in BOOLEAN,
           ForkStep(t, n, s, ended), thread' \in [Threads -> Vthread], fault' = "none"
    PROVE  ThreadInv'
<1>1. /\ ForkFields(t, n, s, ended) /\ LinkScope(n, s) /\ t = running
      /\ thread[n].life = "unborn" /\ \A u \in Threads : u < n => thread[u].life # "unborn"
      /\ UNCHANGED <<program, delayed, del_thr, waiting_list, running, rest, disable>>
  BY DEF ForkStep
<1>. PICK x \in Ids : x = thread[t].child
  BY ForkPlace
<1>2. /\ t \in Threads /\ t # None /\ Live(t) /\ Unreaped(t) /\ ~Held(t) /\ ~thread[t].i_have_ended
      /\ target = NoScope /\ disabling = <<>> /\ ~Live(n) /\ ~Unreaped(n) /\ n # None /\ t # n
      /\ \A u : ~Entered(u) /\ ~Entered(u)'
      /\ x # None => x \in Threads /\ Unreaped(x) /\ ~thread[x].schedule_parent_on_end
  BY ForkPlace
<1>3. /\ Live(n)' /\ Unreaped(n)'
      /\ \A u \in Threads : u # n => (Live(u)' <=> Live(u)) /\ (Unreaped(u)' <=> Unreaped(u))
  BY ForkUnreaped
<1>4. /\ active' \in Seq(Seq(Threads)) /\ Queued' /\ Flagged'
      /\ \A u \in Threads : u # n => (Held(u)' <=> Held(u))
  BY ForkQueues
<1>5. \A u \in Threads : u # n =>
         /\ thread'[u].life = thread[u].life /\ thread'[u].off = thread[u].off
         /\ thread'[u].i_have_ended = thread[u].i_have_ended
         /\ thread'[u].schedule_parent_on_end = thread[u].schedule_parent_on_end
         /\ thread'[u].is_scheduled = thread[u].is_scheduled
         /\ thread'[u].waiting_for_event = thread[u].waiting_for_event
         /\ thread'[u].forker = thread[u].forker
         /\ thread'[u].parent = IF u = x THEN n ELSE thread[u].parent
         /\ thread'[u].child = IF u = t THEN n ELSE thread[u].child
         /\ thread'[u].fork_count = IF u = t THEN thread[u].fork_count + 1 ELSE thread[u].fork_count
  BY <1>1 DEF ForkFields, Keeps
<1>6. /\ thread'[n].off = thread'[n].i_have_ended /\ (thread'[n].i_have_ended <=> ended)
      /\ thread'[n].is_scheduled <=> ~ended
      /\ ~thread'[n].schedule_parent_on_end /\ thread'[n].life = "live"
  BY <1>1 DEF ForkFields
<1>7. Typed'
  <2>1. scope_next' \in [Cells -> Cells] /\ scope_prev' \in [Cells -> Cells]
    BY <1>1 DEF ThreadInv, Typed, LinkScope, Cells
  <2>. QED  BY <1>1, <1>4, <2>1, SameProgram DEF ThreadInv, Typed, disable, Ids
<1>8. InOrder'
  <2>1. ASSUME NEW a \in Threads, NEW b \in Threads, thread'[a].life = "unborn", thread'[b].life # "unborn"
        PROVE  b < a
    <3>1. a # n /\ thread[a].life = "unborn"
      BY <1>5, <1>6, <2>1
    <3>2. CASE b = n
      BY <1>1, <3>1, <3>2 DEF Threads
    <3>3. CASE b # n
      BY <1>5, <2>1, <3>1, <3>3 DEF ThreadInv, InOrder
    <3>. QED  BY <3>2, <3>3
  <2>. QED  BY <2>1 DEF InOrder
<1>9. Reaps'
  <2>1. ASSUME NEW u \in Threads, Live(u)' PROVE thread'[u].off = thread'[u].i_have_ended
    <3>1. CASE u = n
      BY <1>6, <3>1
    <3>2. CASE u # n
      BY <1>3, <1>5, <2>1, <3>2 DEF ThreadInv, Reaps
    <3>. QED  BY <3>1, <3>2
  <2>2. ASSUME NEW u \in Threads, Live(u)', ~Unreaped(u)' PROVE Remains(u)'
    <3>1. u # n /\ Live(u) /\ ~Unreaped(u)
      BY <1>3, <2>2
    <3>2. u # t /\ u # x
      BY <1>2, <3>1 DEF Threads, None
    <3>3. Remains(u)
      BY <3>1 DEF ThreadInv, Reaps
    <3>. QED  BY <1>1, <1>5, <3>1, <3>2, <3>3 DEF Remains
  <2>3. ASSUME NEW u \in del_thr
        PROVE  Live(u)' /\ ~Unreaped(u)' /\ ~thread'[u].is_scheduled /\ ~thread'[u].waiting_for_event
    <3>1. /\ u \in Threads /\ Live(u) /\ ~Unreaped(u)
          /\ ~thread[u].is_scheduled /\ ~thread[u].waiting_for_event
      BY DEF ThreadInv, Reaps, Typed
    <3>. QED  BY <1>2, <1>3, <1>5, <3>1
  <2>4. del_thr' = del_thr
    BY <1>1
  <2>. QED  BY <2>1, <2>2, <2>3, <2>4 DEF Reaps
<1>10. Joined'
  <2>1. ASSUME NEW c \in Threads, Unreaped(c)', thread'[c].schedule_parent_on_end,
               NEW q, q = thread'[c].parent
        PROVE  Joins(c, q)'
    <3>1. c # n /\ Unreaped(c) /\ thread[c].schedule_parent_on_end
      BY <1>3, <1>5, <1>6, <2>1
    <3>2. c # x
      BY <1>2, <3>1 DEF Threads, None
    <3>3. q = thread[c].parent
      BY <1>5, <2>1, <3>1, <3>2
    <3>4. Joins(c, q)
      BY <3>1, <3>3 DEF ThreadInv, Joined
    <3>5. /\ q # None /\ thread[c].forker = q /\ ~thread[q].i_have_ended /\ ~Held(q) /\ running # q
          /\ ~thread[c].i_have_ended
      BY <1>2, <3>4 DEF Joins
    <3>6. q \in Threads /\ Unreaped(q)
      BY <3>1, <3>3, <3>5, FieldTypes DEF ThreadInv, Stack, Placed
    <3>7. q # n
      BY <1>2, <3>6
    <3>. QED  BY <1>1, <1>4, <1>5, <3>1, <3>5, <3>6, <3>7 DEF Joins
  <2>2. ASSUME NEW u \in Threads, Unreaped(u)', ~thread'[u].i_have_ended, running' # u, ~Held(u)',
               NEW c, c = thread'[u].child
        PROVE  c # None /\ thread'[c].schedule_parent_on_end
    <3>1. u # n
      BY <1>6, <2>2 DEF Held
    <3>2. u # t /\ Unreaped(u) /\ ~thread[u].i_have_ended /\ running # u /\ ~Held(u)
      BY <1>1, <1>3, <1>4, <1>5, <2>2, <3>1
    <3>3. c = thread[u].child
      BY <1>5, <2>2, <3>1, <3>2
    <3>4. c # None /\ thread[c].schedule_parent_on_end
      BY <3>2, <3>3 DEF ThreadInv, Joined
    <3>5. c \in Threads /\ Unreaped(c)
      BY <3>2, <3>3, <3>4, FieldTypes DEF ThreadInv, Stack, Placed
    <3>. QED  BY <1>2, <1>5, <3>4, <3>5
  <2>. QED  BY <2>1, <2>2 DEF Joined, Joins
<1>11. Runs'
  <2>1. Live(t)' /\ ~Held(t)'
    BY <1>2, <1>3, <1>4
  <2>2. disabling = <<>> /\ ~myself /\ running \notin del_thr
    BY <1>2 DEF ThreadInv, Runs
  <2>. QED  BY <1>1, <1>2, <2>1, <2>2 DEF Runs, disable
<1>12. Disables'
  <2>1. disabling' = <<>>
    BY <1>1, <1>2 DEF disable
  <2>. QED  BY <2>1 DEF Disables
<1>13. Family' /\ Stack' /\ Rings'
  BY ForkFamily, ForkStack, ForkLists
<1>. QED  BY <1>4, <1>7, <1>8, <1>9, <1>10, <1>11, <1>12, <1>13 DEF ThreadInv

\* The new thread is the first that was not created yet.
LEMMA NewIdIs ==
    ASSUME ThreadInv, NEW c \in 1..P.threads, thread[c].life = "unborn", NEW n, n = NewId
    PROVE  /\ n \in Threads /\ thread[n].life = "unborn"
           /\ \A u \in Threads : u < n => thread[u].life # "unborn"
<1>. DEFINE T == {u \in Threads : thread[u].life = "unborn"}
<1>1. P \in Range(Programs)
  BY DEF P, Range, ThreadInv, Typed
<1>2. P.threads \in Roots..MaxThreads /\ MaxThreads \in Nat /\ Roots \in 1..MaxThreads
  BY <1>1, ProgramsAssumption
<1>3. c \in Threads
  BY <1>2 DEF Threads
<1>4. T \in SUBSET Nat /\ T # {}
  BY <1>3 DEF Threads
<1>5. PICK k \in T : \A u \in T : k <= u
  <2>. HIDE DEF T
  <2>. QED  BY <1>4, LeastNumber
<1>6. \A u \in 1..(k - 1) : thread[u].life # "unborn"
  <2>1. ASSUME NEW u \in 1..(k - 1), thread[u].life = "unborn" PROVE FALSE
    <3>1. u \in Threads /\ u < k
      BY <1>2, <1>5 DEF Threads
    <3>. QED  BY <1>5, <2>1, <3>1 DEF Threads
  <2>. QED  BY <2>1
<1>7. /\ n \in Threads /\ thread[n].life = "unborn"
      /\ \A u \in 1..(n - 1) : thread[u].life # "unborn"
  BY <1>5, <1>6 DEF NewId
<1>8. \A u \in Threads : u < n => u \in 1..(n - 1)
  BY <1>2, <1>7 DEF Threads
<1>. QED  BY <1>7, <1>8

\* The fields a fork leaves alone, and how threads are linked after it.
LEMMA ForkedLinks ==
    ASSUME ThreadInv, NEW t \in Threads, Unreaped(t), NEW n \in Threads, ~Unreaped(n),
           NEW s \in Scopes, NEW m, m = Forked(t, n, s),
           thread[t].child # t, thread[t].child # n
    PROVE  /\ m = [u \in Threads |-> m[u]] /\ m[n] \in Vthread
           /\ m[n].life = "live" /\ m[n].forker = t /\ m[n].parent = t
           /\ \A u \in Threads : u # n =>
                /\ m[u].life = thread[u].life /\ m[u].forker = thread[u].forker
                /\ m[u].parent = IF u # t /\ u = thread[t].child THEN n ELSE thread[u].parent
<1>. PICK x \in Ids : x = thread[t].child
  BY FieldTypes DEF ThreadInv
<1>. DEFINE r == [NewThread(s, t, {n} \cup thread[t].line) EXCEPT
                    !.child = x, !.parent = t, !.is_scheduled = TRUE]
<1>1. thread \in [Threads -> Vthread] /\ thread[t] \in Vthread /\ n # t
  BY DEF ThreadInv, Typed
<1>2. /\ m[n] = r
      /\ m[t] = [thread[t] EXCEPT !.child = n, !.fork_count = Plus(@)]
      /\ \A u \in Threads : u # n /\ u # t =>
            m[u] = IF u = x THEN [thread[u] EXCEPT !.parent = n] ELSE thread[u]
      /\ m = [u \in Threads |-> m[u]]
  BY <1>1 DEF Forked
<1>3. r.life = "live" /\ r.forker = t /\ r.parent = t
  BY DEF NewThread
<1>4. r \in Vthread
  <2>1. 0 \in 0..(FORK_COUNTS - 1)
    BY ProgramsAssumption
  <2>2. {n} \cup thread[t].line \in SUBSET Threads
    BY FieldTypes DEF ThreadInv
  <2>. QED  BY <2>1, <2>2 DEF NewThread, Vthread, Ids
<1>. HIDE DEF r
<1>5. ASSUME NEW u \in Threads, u # n
      PROVE  /\ m[u].life = thread[u].life /\ m[u].forker = thread[u].forker
             /\ m[u].parent = (IF u # t /\ u = x THEN n ELSE thread[u].parent)
  <2>1. thread[u] \in Vthread
    BY <1>1
  <2>2. CASE u = t
    BY <1>1, <1>2, <2>2 DEF Vthread
  <2>3. CASE u # t /\ u = x
    <3>1. m[u] = [thread[u] EXCEPT !.parent = n]
      BY <1>2, <1>5, <2>3
    <3>. QED  BY <2>1, <2>3, <3>1 DEF Vthread
  <2>4. CASE u # t /\ u # x
    BY <1>2, <1>5, <2>4
  <2>. QED  BY <2>2, <2>3, <2>4
<1>. QED  BY <1>2, <1>3, <1>4, <1>5

\* fork_count does not wrap while the children can be counted.
LEMMA PlusOne ==
    ASSUME ThreadInv, NEW t \in Threads, Unreaped(t), NEW n \in Threads, ~Unreaped(n),
           NEW s \in Scopes, NEW m, m = Forked(t, n, s),
           thread[t].child # t, thread[t].child # n,
           \A u \in Threads : /\ thread'[u].life = m[u].life /\ thread'[u].forker = m[u].forker
                              /\ thread'[u].parent = m[u].parent,
           Countable', NEW k, k = thread[t].fork_count
    PROVE  Plus(k) = k + 1 /\ Plus(k) \in 0..(FORK_COUNTS - 1)
<1>1. /\ m[n].life = "live" /\ m[n].forker = t /\ m[n].parent = t
      /\ \A u \in Threads : u # n =>
           /\ m[u].life = thread[u].life /\ m[u].forker = thread[u].forker
           /\ m[u].parent = IF u # t /\ u = thread[t].child THEN n ELSE thread[u].parent
  BY ForkedLinks
<1>2. t # None /\ n # None /\ t # n /\ Live(t)
  BY DEF Threads, None, Unreaped
<1>3. n \in Children(t)'
  BY <1>1, <1>2 DEF Children, Live
<1>4. ASSUME NEW u \in Children(t) PROVE u \in Children(t)'
  <2>1. u \in Threads /\ Live(u) /\ thread[u].forker = t /\ thread[u].parent # None /\ u # n
    BY ChildUnreaped DEF Children
  <2>. QED  BY <1>1, <1>2, <2>1 DEF Children, Live
<1>. DEFINE A == Children(t) \cup {n}
<1>5. A \subseteq Children(t)'
  BY <1>3, <1>4
<1>6. IsFiniteSet(Children(t)) /\ Cardinality(Children(t)) \in Nat /\ n \notin Children(t)
  BY ChildrenFinite, ChildUnreaped
<1>7. IsFiniteSet(A) /\ Cardinality(A) = Cardinality(Children(t)) + 1
  BY <1>6, FS_AddElement
<1>8. IsFiniteSet(Children(t)') /\ Cardinality(Children(t)') \in Nat
  <2>1. MaxThreads \in Nat
    BY ProgramsAssumption
  <2>2. IsFiniteSet(Threads)
    BY <2>1, FS_Interval DEF Threads
  <2>3. Children(t)' \subseteq Threads
    BY DEF Children
  <2>. QED  BY <2>2, <2>3, FS_Subset, FS_CardinalityType
<1>9. Cardinality(A) <= Cardinality(Children(t)')
  <2>. HIDE DEF A
  <2>. QED  BY <1>5, <1>8, FS_Subset
<1>10. Cardinality(Children(t)') < FORK_COUNTS
  <2>1. Live(t)'
    BY <1>1, <1>2 DEF Live
  <2>. QED  BY <2>1 DEF Countable
<1>11. k = Cardinality(Children(t)) /\ FORK_COUNTS \in Nat \ {0}
  BY ProgramsAssumption DEF ThreadInv, Stack, Placed
<1>. HIDE DEF A
<1>12. k \in Nat /\ k + 1 < FORK_COUNTS
  BY <1>6, <1>7, <1>8, <1>9, <1>10, <1>11
<1>13. (k + 1) % FORK_COUNTS = k + 1
  BY <1>11, <1>12
<1>. QED  BY <1>11, <1>12, <1>13 DEF Plus

\* The fields of the threads after a fork.
LEMMA ForkedFields ==
    ASSUME ThreadInv, NEW t \in Threads, Unreaped(t), NEW n \in Threads, ~Unreaped(n),
           NEW s \in Scopes, NEW x \in Ids, x = thread[t].child, x # t, x # n,
           NEW m, m = Forked(t, n, s), Plus(thread[t].fork_count) = thread[t].fork_count + 1,
           Plus(thread[t].fork_count) \in 0..(FORK_COUNTS - 1)
    PROVE  /\ m \in [Threads -> Vthread]
           /\ \A u \in Threads : u # n =>
                /\ m[u].forker = thread[u].forker /\ m[u].scope = thread[u].scope
                /\ m[u].line = thread[u].line /\ m[u].life = thread[u].life
                /\ m[u].off = thread[u].off /\ m[u].i_have_ended = thread[u].i_have_ended
                /\ m[u].schedule_parent_on_end = thread[u].schedule_parent_on_end
                /\ m[u].waiting_for_event = thread[u].waiting_for_event
                /\ m[u].is_scheduled = thread[u].is_scheduled
                /\ m[u].parent = IF u = x THEN n ELSE thread[u].parent
                /\ m[u].child = IF u = t THEN n ELSE thread[u].child
                /\ m[u].fork_count = IF u = t THEN thread[u].fork_count + 1 ELSE thread[u].fork_count
           /\ m[n].life = "live" /\ m[n].fork_count = 0 /\ ~m[n].off /\ ~m[n].i_have_ended
           /\ m[n].off = m[n].i_have_ended /\ m[n].is_scheduled
           /\ ~m[n].schedule_parent_on_end /\ ~m[n].waiting_for_event
           /\ m[n].child = x /\ m[n].parent = t /\ m[n].scope = s /\ m[n].forker = t
           /\ m[n].line = {n} \cup thread[t].line
<1>. DEFINE k == thread[t].fork_count
            r == [NewThread(s, t, {n} \cup thread[t].line) EXCEPT
                    !.child = x, !.parent = t, !.is_scheduled = TRUE]
            a == [thread[t] EXCEPT !.child = n, !.fork_count = Plus(k)]
<1>1. thread \in [Threads -> Vthread] /\ thread[t] \in Vthread /\ n # t
  BY DEF ThreadInv, Typed
<1>2. Plus(k) = k + 1 /\ Plus(k) \in 0..(FORK_COUNTS - 1)
  OBVIOUS
<1>3. /\ m[n] = r /\ m[t] = a
      /\ \A u \in Threads : u # n /\ u # t =>
            m[u] = IF u = x THEN [thread[u] EXCEPT !.parent = n] ELSE thread[u]
      /\ m = [u \in Threads |-> m[u]]
  BY <1>1 DEF Forked
<1>4. thread[t].line \subseteq Threads
  BY FieldTypes DEF ThreadInv
<1>5. /\ r.life = "live" /\ r.fork_count = 0 /\ ~r.off /\ ~r.i_have_ended /\ r.off = r.i_have_ended
      /\ r.is_scheduled /\ ~r.schedule_parent_on_end /\ ~r.waiting_for_event
      /\ r.child = x /\ r.parent = t /\ r.scope = s /\ r.forker = t
      /\ r.line = {n} \cup thread[t].line
  BY DEF NewThread
<1>6. r \in Vthread
  <2>1. 0 \in 0..(FORK_COUNTS - 1)
    BY ProgramsAssumption
  <2>2. {n} \cup thread[t].line \in SUBSET Threads
    BY <1>4
  <2>. QED  BY <2>1, <2>2 DEF NewThread, Vthread, Ids
<1>. HIDE DEF r
<1>7. a \in Vthread
  BY <1>1, <1>2 DEF Vthread
<1>8. /\ a.forker = thread[t].forker /\ a.scope = thread[t].scope
      /\ a.line = thread[t].line /\ a.life = thread[t].life
      /\ a.off = thread[t].off /\ a.i_have_ended = thread[t].i_have_ended
      /\ a.schedule_parent_on_end = thread[t].schedule_parent_on_end
      /\ a.waiting_for_event = thread[t].waiting_for_event
      /\ a.is_scheduled = thread[t].is_scheduled
      /\ a.parent = thread[t].parent /\ a.child = n /\ a.fork_count = k + 1
  BY <1>1, <1>2 DEF Vthread
<1>. HIDE DEF a
<1>9. ASSUME NEW u \in Threads, u # n, u # t
      PROVE  /\ m[u] \in Vthread
             /\ m[u].forker = thread[u].forker /\ m[u].scope = thread[u].scope
             /\ m[u].line = thread[u].line /\ m[u].life = thread[u].life
             /\ m[u].off = thread[u].off /\ m[u].i_have_ended = thread[u].i_have_ended
             /\ m[u].schedule_parent_on_end = thread[u].schedule_parent_on_end
             /\ m[u].waiting_for_event = thread[u].waiting_for_event
             /\ m[u].is_scheduled = thread[u].is_scheduled
             /\ m[u].parent = (IF u = x THEN n ELSE thread[u].parent)
             /\ m[u].child = thread[u].child /\ m[u].fork_count = thread[u].fork_count
  <2>1. thread[u] \in Vthread
    BY <1>1, <1>9
  <2>2. CASE u = x
    <3>1. m[u] = [thread[u] EXCEPT !.parent = n]
      BY <1>3, <1>9, <2>2
    <3>. QED  BY <2>1, <2>2, <3>1 DEF Vthread
  <2>3. CASE u # x
    BY <1>3, <1>9, <2>1, <2>3
  <2>. QED  BY <2>2, <2>3
<1>10. \A u \in Threads : m[u] \in Vthread
  BY <1>3, <1>6, <1>7, <1>9
<1>11. m \in [Threads -> Vthread]
  BY <1>3, <1>10
<1>. HIDE DEF k
<1>12. ASSUME NEW u \in Threads, u # n
       PROVE  /\ m[u].forker = thread[u].forker /\ m[u].scope = thread[u].scope
              /\ m[u].line = thread[u].line /\ m[u].life = thread[u].life
              /\ m[u].off = thread[u].off /\ m[u].i_have_ended = thread[u].i_have_ended
              /\ m[u].schedule_parent_on_end = thread[u].schedule_parent_on_end
              /\ m[u].waiting_for_event = thread[u].waiting_for_event
              /\ m[u].is_scheduled = thread[u].is_scheduled
              /\ m[u].parent = (IF u = x THEN n ELSE thread[u].parent)
              /\ m[u].child = (IF u = t THEN n ELSE thread[u].child)
              /\ m[u].fork_count = (IF u = t THEN thread[u].fork_count + 1 ELSE thread[u].fork_count)
  <2>1. CASE u = t
    BY <1>3, <1>8, <2>1 DEF k
  <2>2. CASE u # t
    BY <1>9, <1>12, <2>2
  <2>. QED  BY <2>1, <2>2
<1>. QED  BY <1>3, <1>5, <1>11, <1>12

\* What a fork finds.
LEMMA ForkPossible ==
    ASSUME ThreadInv, ~reentered', NEW t, t = running, Program(t), NEW s \in Scopes, CanFork(t, s),
           NEW n, n = NewId, ForkChecked(t, s), reentered' = (reentered \/ Reenters(t, s))
    PROVE  /\ n \in Threads /\ thread[n].life = "unborn" /\ ~Unreaped(n)
           /\ \A u \in Threads : u < n => thread[u].life # "unborn"
           /\ ~Reenters(t, s)
           /\ thread[t].child # n /\ thread[t].child # t /\ thread[t].child \in Ids
           /\ t \in Threads /\ Unreaped(t)
           /\ fault' = "none"
<1>1. t \in Threads /\ t # None /\ Unreaped(t)
  BY RunningThread
<1>2. /\ n \in Threads /\ thread[n].life = "unborn"
      /\ \A u \in Threads : u < n => thread[u].life # "unborn"
  BY NewIdIs DEF CanFork
<1>3. ~Unreaped(n)
  BY <1>2 DEF Unreaped, Live
<1>4. ~Reenters(t, s)
  OBVIOUS
<1>. PICK x \in Ids : x = thread[t].child
  BY <1>1, FieldTypes DEF ThreadInv
<1>5. Placed(t, x, thread[t].parent)
  BY <1>1 DEF ThreadInv, Stack
<1>6. x # None => x \in Threads /\ Unreaped(x) /\ thread[x].parent = t
  BY <1>1, <1>5, FieldTypes DEF ThreadInv, Placed
<1>7. x # t
  <2>1. SUFFICES ASSUME x = t PROVE FALSE
    OBVIOUS
  <2>2. CASE Children(t) # {}
    BY <1>1, <2>1, <2>2, OnTop
  <2>3. CASE Children(t) = {}
    <3>1. t \in Later(t)
      BY <1>1, <1>5, <2>1, <2>3 DEF Placed, NextIs
    <3>2. PICK z \in thread[t].line : t < z
      BY <3>1 DEF Later
    <3>3. z <= t /\ z \in Threads
      BY <1>1, FieldTypes DEF ThreadInv, Family, Kin
    <3>. QED  BY <1>1, <3>2, <3>3 DEF Threads
  <2>. QED  BY <2>2, <2>3
<1>8. x # n
  BY <1>2, <1>3, <1>6 DEF Threads, None
<1>9. ~Freed(scope_next[s]) /\ ~Freed(x)
  <2>1. scope_next[s] \in InScope(s) \cup {s}
    <3>1. CASE s \in P.disabled
      BY <3>1 DEF ThreadInv, Rings, Loose
    <3>2. CASE s \notin P.disabled
      BY <3>2 DEF ThreadInv, Rings, Ring, Listed
    <3>. QED  BY <3>1, <3>2
  <2>2. s \notin Threads
    BY DisabledNames DEF ThreadInv, Typed
  <2>3. \A u \in InScope(s) : ~Freed(u)
    BY DEF InScope, Unreaped, Live, Freed
  <2>. QED  BY <1>6, <2>1, <2>2, <2>3 DEF Freed, Unreaped, Live, Threads, None
<1>10. fault' = "none"
  BY <1>6, <1>9 DEF ForkChecked, Checked, ThreadInv
<1>. QED  BY <1>1, <1>2, <1>3, <1>4, <1>7, <1>8, <1>10

\* %fork and what it calls keep the invariant.
LEMMA ForkOpKeeps ==
    ASSUME ThreadInv, Countable', ~reentered', NEW t, t = running, of_FORK(t)
    PROVE  ThreadInv'
<1>. PICK s \in P.blocks \cup {thread[t].scope} :
         /\ CanFork(t, s)
         /\ thread' = Forked(t, NewId, s)
         /\ LinkScope(NewId, s)
         /\ Push(NewId)
         /\ ForkChecked(t, s)
         /\ reentered' = (reentered \/ Reenters(t, s))
  BY DEF of_FORK
<1>1. Program(t) /\ UNCHANGED <<program, delayed, del_thr, waiting_list, running, rest, disable>>
  BY DEF of_FORK
<1>. PICK n : n = NewId
  OBVIOUS
<1>2. t \in Threads
  BY <1>1, RunningThread
<1>3. s \in Scopes
  BY <1>2, FieldTypes DEF ThreadInv, Scopes
<1>4. /\ n \in Threads /\ thread[n].life = "unborn" /\ ~Unreaped(n)
      /\ \A u \in Threads : u < n => thread[u].life # "unborn"
      /\ ~Reenters(t, s)
      /\ thread[t].child # n /\ thread[t].child # t /\ thread[t].child \in Ids
      /\ t \in Threads /\ Unreaped(t)
      /\ fault' = "none"
  BY <1>1, <1>3, ForkPossible
<1>. DEFINE m == Forked(t, n, s)
<1>. PICK x \in Ids : x = thread[t].child
  BY <1>4
<1>5. /\ m \in [Threads -> Vthread]
      /\ \A u \in Threads : u # n =>
           /\ m[u].forker = thread[u].forker /\ m[u].scope = thread[u].scope
           /\ m[u].line = thread[u].line /\ m[u].life = thread[u].life
           /\ m[u].off = thread[u].off /\ m[u].i_have_ended = thread[u].i_have_ended
           /\ m[u].schedule_parent_on_end = thread[u].schedule_parent_on_end
           /\ m[u].waiting_for_event = thread[u].waiting_for_event
           /\ m[u].is_scheduled = thread[u].is_scheduled
           /\ m[u].parent = IF u = x THEN n ELSE thread[u].parent
           /\ m[u].child = IF u = t THEN n ELSE thread[u].child
           /\ m[u].fork_count = IF u = t THEN thread[u].fork_count + 1 ELSE thread[u].fork_count
      /\ m[n].life = "live" /\ m[n].fork_count = 0 /\ ~m[n].off /\ ~m[n].i_have_ended
      /\ m[n].off = m[n].i_have_ended /\ m[n].is_scheduled
      /\ ~m[n].schedule_parent_on_end /\ ~m[n].waiting_for_event
      /\ m[n].child = x /\ m[n].parent = t /\ m[n].scope = s /\ m[n].forker = t
      /\ m[n].line = {n} \cup thread[t].line
  <2>1. x # t /\ x # n
    BY <1>4
  <2>. HIDE DEF m
  <2>2. m = Forked(t, n, s)
    BY DEF m
  <2>3. \A u \in Threads : /\ thread'[u].life = m[u].life /\ thread'[u].forker = m[u].forker
                            /\ thread'[u].parent = m[u].parent
    BY <2>2
  <2>4. Plus(thread[t].fork_count) = thread[t].fork_count + 1
        /\ Plus(thread[t].fork_count) \in 0..(FORK_COUNTS - 1)
    BY <1>3, <1>4, <2>2, <2>3, PlusOne
  <2>. QED  BY <1>3, <1>4, <2>1, <2>2, <2>4, ForkedFields
<1>6. thread' = m
  OBVIOUS
<1>. HIDE DEF m
<1>7. ForkFields(t, n, s, FALSE)
  BY <1>5, <1>6 DEF ForkFields, Keeps
<1>8. ForkStep(t, n, s, FALSE)
  BY <1>1, <1>4, <1>7 DEF ForkStep
<1>. QED  BY <1>3, <1>4, <1>5, <1>6, <1>8, ForkKeeps

\* %fork of a function keeps the invariant.
LEMMA ForkFunctionKeeps ==
    ASSUME ThreadInv, Countable', ~reentered', NEW t, t = running, of_FORK_function(t)
    PROVE  ThreadInv'
<1>0. PICK s \in P.functions :
         /\ CanFork(t, s)
         /\ thread' = [Forked(t, NewId, s) EXCEPT
                         ![NewId].is_scheduled = FALSE, ![NewId].off = TRUE,
                         ![NewId].i_have_ended = TRUE]
         /\ LinkScope(NewId, s)
         /\ ForkChecked(t, s)
         /\ reentered' = (reentered \/ Reenters(t, s))
  BY DEF of_FORK_function
<1>1. Program(t) /\ UNCHANGED <<program, queues, running, rest, disable>>
  BY DEF of_FORK_function
<1>. PICK n : n = NewId
  OBVIOUS
<1>2. t \in Threads
  BY <1>1, RunningThread
<1>3. s \in Scopes
  BY DEF Scopes
<1>4. /\ n \in Threads /\ thread[n].life = "unborn" /\ ~Unreaped(n)
      /\ \A u \in Threads : u < n => thread[u].life # "unborn"
      /\ ~Reenters(t, s)
      /\ thread[t].child # n /\ thread[t].child # t /\ thread[t].child \in Ids
      /\ t \in Threads /\ Unreaped(t)
      /\ fault' = "none"
  BY <1>0, <1>1, <1>3, ForkPossible
<1>. DEFINE m == Forked(t, n, s)
            a == [m[n] EXCEPT !.is_scheduled = FALSE, !.off = TRUE, !.i_have_ended = TRUE]
<1>. PICK x \in Ids : x = thread[t].child
  BY <1>4
<1>5. /\ m \in [Threads -> Vthread]
      /\ \A u \in Threads : u # n =>
           /\ m[u].forker = thread[u].forker /\ m[u].scope = thread[u].scope
           /\ m[u].line = thread[u].line /\ m[u].life = thread[u].life
           /\ m[u].off = thread[u].off /\ m[u].i_have_ended = thread[u].i_have_ended
           /\ m[u].schedule_parent_on_end = thread[u].schedule_parent_on_end
           /\ m[u].waiting_for_event = thread[u].waiting_for_event
           /\ m[u].is_scheduled = thread[u].is_scheduled
           /\ m[u].parent = IF u = x THEN n ELSE thread[u].parent
           /\ m[u].child = IF u = t THEN n ELSE thread[u].child
           /\ m[u].fork_count = IF u = t THEN thread[u].fork_count + 1 ELSE thread[u].fork_count
      /\ m[n].life = "live" /\ m[n].fork_count = 0 /\ ~m[n].off /\ ~m[n].i_have_ended
      /\ m[n].off = m[n].i_have_ended /\ m[n].is_scheduled
      /\ ~m[n].schedule_parent_on_end /\ ~m[n].waiting_for_event
      /\ m[n].child = x /\ m[n].parent = t /\ m[n].scope = s /\ m[n].forker = t
      /\ m[n].line = {n} \cup thread[t].line
  <2>1. x # t /\ x # n
    BY <1>4
  <2>. HIDE DEF m
  <2>2. m = Forked(t, n, s)
    BY DEF m
  <2>3. m = [u \in Threads |-> m[u]] /\ m[n] \in Vthread
    BY <1>3, <1>4, <2>2, ForkedLinks
  <2>4. thread' = [m EXCEPT ![n] = [m[n] EXCEPT !.is_scheduled = FALSE, !.off = TRUE,
                                                !.i_have_ended = TRUE]]
    BY <1>0, <1>4, <2>2, <2>3
  <2>5. \A u \in Threads : /\ thread'[u].life = m[u].life /\ thread'[u].forker = m[u].forker
                            /\ thread'[u].parent = m[u].parent
    BY <1>4, <2>3, <2>4 DEF Vthread
  <2>6. Plus(thread[t].fork_count) = thread[t].fork_count + 1
        /\ Plus(thread[t].fork_count) \in 0..(FORK_COUNTS - 1)
    BY <1>3, <1>4, <2>2, <2>5, PlusOne
  <2>. QED  BY <1>3, <1>4, <2>1, <2>2, <2>6, ForkedFields
<1>6. thread' = [m EXCEPT ![n].is_scheduled = FALSE, ![n].off = TRUE, ![n].i_have_ended = TRUE]
  BY <1>0
<1>. HIDE DEF m
<1>7. m[n] \in Vthread
  BY <1>4, <1>5
<1>8. a \in Vthread
  BY <1>7 DEF Vthread
<1>9. thread' = [m EXCEPT ![n] = a]
  BY <1>4, <1>5, <1>6, <1>7
<1>10. /\ a.life = m[n].life /\ a.fork_count = m[n].fork_count /\ a.off /\ a.i_have_ended
       /\ a.off = a.i_have_ended /\ ~a.is_scheduled
       /\ a.schedule_parent_on_end = m[n].schedule_parent_on_end
       /\ a.waiting_for_event = m[n].waiting_for_event
       /\ a.child = m[n].child /\ a.parent = m[n].parent /\ a.scope = m[n].scope
       /\ a.forker = m[n].forker /\ a.line = m[n].line
  BY <1>7 DEF Vthread
<1>. HIDE DEF a
<1>11. /\ thread' \in [Threads -> Vthread] /\ thread'[n] = a
       /\ \A u \in Threads : u # n => thread'[u] = m[u]
  <2>1. n \in Threads /\ m \in [Threads -> Vthread]
    BY <1>4, <1>5
  <2>. QED  BY <1>8, <1>9, <2>1
<1>12. ForkFields(t, n, s, TRUE)
  <2>1. /\ thread'[n].life = "live" /\ thread'[n].fork_count = 0
        /\ thread'[n].off = thread'[n].i_have_ended /\ thread'[n].i_have_ended
        /\ ~thread'[n].is_scheduled
        /\ ~thread'[n].schedule_parent_on_end /\ ~thread'[n].waiting_for_event
        /\ thread'[n].child = x /\ thread'[n].parent = t
        /\ thread'[n].scope = s /\ thread'[n].forker = t
        /\ thread'[n].line = {n} \cup thread[t].line
    BY <1>5, <1>10, <1>11
  <2>2. ASSUME NEW u \in Threads, u # n
        PROVE  /\ Keeps(u)
               /\ thread'[u].life = thread[u].life /\ thread'[u].off = thread[u].off
               /\ thread'[u].i_have_ended = thread[u].i_have_ended
               /\ thread'[u].schedule_parent_on_end = thread[u].schedule_parent_on_end
               /\ thread'[u].waiting_for_event = thread[u].waiting_for_event
               /\ thread'[u].is_scheduled = thread[u].is_scheduled
               /\ thread'[u].parent = (IF u = x THEN n ELSE thread[u].parent)
               /\ thread'[u].child = (IF u = t THEN n ELSE thread[u].child)
               /\ thread'[u].fork_count = (IF u = t THEN thread[u].fork_count + 1
                                           ELSE thread[u].fork_count)
    <3>1. thread'[u] = m[u]
      BY <1>11, <2>2
    <3>. QED  BY <1>5, <2>2, <3>1 DEF Keeps
  <2>. QED  BY <2>1, <2>2 DEF ForkFields
<1>13. ForkStep(t, n, s, TRUE)
  BY <1>0, <1>1, <1>4, <1>12 DEF ForkStep, queues
<1>. QED  BY <1>3, <1>4, <1>11, <1>13, ForkKeeps

-----------------------------------------------------------------------------
(* The invariant and what it says.                                         *)

\* The compiled .thread statements are scheduled and alone in the module.
LEMMA InitOk ==
    ASSUME Init
    PROVE  ThreadInv
<1>1. MaxThreads \in Nat /\ Roots \in 1..MaxThreads /\ FORK_COUNTS \in Nat \ {0}
  BY ProgramsAssumption
<1>2. program \in DOMAIN Programs /\ running = None /\ rest = <<>> /\ delayed = {} /\ del_thr = {}
      /\ target = NoScope /\ disabling = <<>> /\ myself = FALSE /\ fault = "none"
      /\ waiting_list = [e \in P.events |-> <<>>]
  BY DEF Init
<1>3. /\ Module \notin P.disabled /\ Module \in Scopes /\ P.disabled \subseteq Scopes
      /\ \A s \in Scopes : s \notin Threads
  BY <1>2, DisabledNames
<1>4. ASSUME NEW t \in Threads
      PROVE  /\ thread[t] \in Vthread
             /\ thread[t].life = IF t <= Roots THEN "live" ELSE "unborn"
             /\ ~thread[t].off /\ ~thread[t].i_have_ended /\ thread[t].off = thread[t].i_have_ended
             /\ ~thread[t].schedule_parent_on_end /\ ~thread[t].waiting_for_event
             /\ thread[t].is_scheduled <=> t <= Roots
             /\ thread[t].fork_count = 0 /\ thread[t].child = None /\ thread[t].parent = None
             /\ thread[t].scope = Module /\ thread[t].forker = None
             /\ t <= Roots => thread[t].line = {t}
  <2>1. CASE t <= Roots
    <3>1. thread[t] = [NewThread(Module, None, {t}) EXCEPT !.is_scheduled = TRUE]
      BY <2>1 DEF Init
    <3>. DEFINE r == [NewThread(Module, None, {t}) EXCEPT !.is_scheduled = TRUE]
    <3>2. /\ r.life = "live" /\ ~r.off /\ ~r.i_have_ended /\ r.off = r.i_have_ended
          /\ ~r.schedule_parent_on_end /\ ~r.waiting_for_event /\ r.is_scheduled
          /\ r.fork_count = 0 /\ r.child = None /\ r.parent = None
          /\ r.scope = Module /\ r.forker = None /\ r.line = {t}
      BY DEF NewThread
    <3>3. r \in Vthread
      <4>1. 0 \in 0..(FORK_COUNTS - 1) /\ {t} \in SUBSET Threads
        BY <1>1
      <4>. QED  BY <1>3, <4>1 DEF NewThread, Vthread
    <3>4. thread[t] = r
      BY <3>1
    <3>. HIDE DEF r
    <3>. QED  BY <2>1, <3>2, <3>3, <3>4
  <2>2. CASE ~(t <= Roots)
    <3>1. thread[t] = Unborn
      BY <2>2 DEF Init
    <3>. DEFINE r == Unborn
    <3>2. /\ r.life = "unborn" /\ ~r.off /\ ~r.i_have_ended /\ r.off = r.i_have_ended
          /\ ~r.schedule_parent_on_end /\ ~r.waiting_for_event /\ ~r.is_scheduled
          /\ r.fork_count = 0 /\ r.child = None /\ r.parent = None
          /\ r.scope = Module /\ r.forker = None
      BY DEF Unborn, NewThread
    <3>3. r \in Vthread
      <4>1. 0 \in 0..(FORK_COUNTS - 1) /\ {} \in SUBSET Threads
        BY <1>1
      <4>. QED  BY <1>3, <4>1 DEF Unborn, NewThread, Vthread
    <3>4. thread[t] = r
      BY <3>1
    <3>. HIDE DEF r
    <3>. QED  BY <2>2, <3>2, <3>3, <3>4
  <2>. QED  BY <2>1, <2>2
<1>5. \A t \in Threads : (Live(t) <=> t <= Roots) /\ (Unreaped(t) <=> t <= Roots)
  BY <1>4 DEF Live, Unreaped
<1>6. /\ active \in Seq(Seq(Threads)) /\ Len(active) = Roots
      /\ \A i \in 1..Roots : i \in Threads /\ active[i] = <<i>> /\ Len(active[i]) = 1
  <2>1. active = [t \in 1..Roots |-> <<t>>] /\ Roots \in Nat
    BY <1>1 DEF Init
  <2>2. \A i \in 1..Roots : i \in Threads
    BY <1>1 DEF Threads
  <2>3. \A i \in 1..Roots : active[i] = <<i>> /\ active[i] \in Seq(Threads)
    BY <2>1, <2>2
  <2>. QED  BY <2>1, <2>2, <2>3
<1>7. /\ scope_next = [n \in Cells |-> CASE n = Module -> Roots
                                        [] n \in 2..Roots -> n - 1
                                        [] n = 1 -> Module
                                        [] OTHER -> n]
      /\ scope_prev = [n \in Cells |-> CASE n = Module -> 1
                                        [] n \in 1..(Roots - 1) -> n + 1
                                        [] n = Roots -> Module
                                        [] OTHER -> n]
  BY DEF Init, Cells
<1>8. ASSUME NEW n \in Cells
      PROVE  /\ scope_next[n] \in Cells /\ scope_prev[n] \in Cells
             /\ n = Module => scope_next[n] = Roots /\ scope_prev[n] = 1
             /\ n \in 2..Roots => scope_next[n] = n - 1
             /\ n = 1 => scope_next[n] = Module
             /\ n \in 1..(Roots - 1) => scope_prev[n] = n + 1
             /\ n = Roots => scope_prev[n] = Module
             /\ n \in Scopes /\ n # Module => scope_next[n] = n /\ scope_prev[n] = n
  <2>1. Module \notin 1..Roots
    BY <1>1, <1>3 DEF Threads
  <2>2. n \in Scopes => n \notin 1..Roots
    BY <1>1, <1>3 DEF Threads
  <2>3. 1..Roots \subseteq Cells /\ Module \in Cells
    BY <1>1, <1>3 DEF Threads, Cells
  <2>. QED  BY <1>1, <1>7, <2>1, <2>2, <2>3
<1>9. Typed
  <2>1. thread \in [Threads -> Vthread]
    BY <1>4 DEF Init
  <2>2. scope_next \in [Cells -> Cells] /\ scope_prev \in [Cells -> Cells]
    BY <1>7, <1>8
  <2>3. waiting_list \in [P.events -> Seq(Threads)]
    BY <1>2
  <2>4. /\ rest \in Seq(Threads) /\ disabling \in Seq(Threads)
        /\ running \in Ids /\ target \in P.disabled \cup {NoScope} /\ myself \in BOOLEAN
        /\ delayed \subseteq Threads /\ del_thr \subseteq Threads
    <3>1. <<>> \in Seq(Threads)
      OBVIOUS
    <3>2. rest \in Seq(Threads) /\ disabling \in Seq(Threads)
      BY <1>2, <3>1, Zenon
    <3>3. myself \in BOOLEAN
      BY <1>2
    <3>4. running \in Ids /\ target \in P.disabled \cup {NoScope}
      BY <1>2 DEF Ids
    <3>5. delayed \subseteq Threads /\ del_thr \subseteq Threads
      BY <1>2
    <3>. QED  BY <3>2, <3>3, <3>4, <3>5
  <2>. QED  BY <1>2, <1>6, <2>1, <2>2, <2>3, <2>4 DEF Typed
<1>10. InOrder
  BY <1>1, <1>4 DEF InOrder, Threads
<1>11. Reaps
  BY <1>2, <1>4, <1>5 DEF Reaps
<1>12. Family
  BY <1>4, <1>5 DEF Family, Kin, Threads
<1>13. Stack
  <2>1. \A t : Children(t) = {} /\ Later(t) = {}
    BY <1>4 DEF Children, Later
  <2>. QED  BY <1>4, <2>1, FS_EmptySet DEF Stack, Placed, NextIs
<1>14. Queued
  BY <1>2, <1>6 DEF Queued, InChains, In
<1>15. Flagged
  <2>1. ASSUME NEW t \in Threads PROVE (Scheduled(t) <=> t <= Roots) /\ ~Waiting(t)
    <3>1. InChains(t) <=> t \in 1..Roots
      BY <1>6 DEF InChains, In
    <3>2. ~In(t, rest) /\ t \notin delayed /\ ~Waiting(t)
      BY <1>2 DEF In, Waiting
    <3>. QED  BY <1>1, <3>1, <3>2 DEF Scheduled, Threads
  <2>. QED  BY <1>4, <1>5, <2>1 DEF Flagged
<1>16. Joined
  BY <1>4, <1>5 DEF Joined, Held
<1>17. Runs
  BY <1>2 DEF Runs
<1>18. Disables
  BY <1>2 DEF Disables
<1>19. InScope(Module) = 1..Roots /\ \A s \in Scopes : s # Module => InScope(s) = {}
  BY <1>1, <1>4, <1>5 DEF InScope, Threads
<1>20. \A u : ~Entered(u)
  BY <1>2 DEF Entered, In
<1>21. Ring(Module)
  <2>1. Listed(Module) = (1..Roots) \cup {Module} /\ Module \notin 1..Roots
    BY <1>1, <1>3, <1>19, <1>20 DEF Listed, Threads
  <2>2. \A n \in 1..Roots : n \in Cells
    BY <1>6 DEF Cells
  <2>3. ASSUME NEW n \in 1..Roots
        PROVE  /\ scope_next[n] \in Listed(Module) /\ scope_prev[n] \in Listed(Module)
               /\ scope_prev[scope_next[n]] = n /\ scope_next[scope_prev[n]] = n
               /\ scope_next[n] = Module \/ scope_next[n] < n
    <3>1. Module \in Cells
      BY <1>3 DEF Cells
    <3>2. scope_next[n] = IF n = 1 THEN Module ELSE n - 1
      BY <1>1, <1>8, <2>2
    <3>3. scope_prev[n] = IF n = Roots THEN Module ELSE n + 1
      BY <1>1, <1>8, <2>2
    <3>4. scope_prev[Module] = 1 /\ scope_next[Module] = Roots
      BY <1>8, <3>1
    <3>5. scope_prev[scope_next[n]] = n
      <4>1. CASE n = 1
        BY <3>2, <3>4, <4>1
      <4>2. CASE n # 1
        <5>1. n - 1 \in 1..Roots /\ n - 1 \in 1..(Roots - 1)
          BY <1>1, <4>2
        <5>2. scope_prev[n - 1] = n
          BY <1>8, <2>2, <5>1
        <5>. QED  BY <3>2, <4>2, <5>2
      <4>. QED  BY <4>1, <4>2
    <3>6. scope_next[scope_prev[n]] = n
      <4>1. CASE n = Roots
        BY <3>3, <3>4, <4>1
      <4>2. CASE n # Roots
        <5>1. n + 1 \in 1..Roots /\ n + 1 \in 2..Roots
          BY <1>1, <4>2
        <5>2. scope_next[n + 1] = n
          BY <1>8, <2>2, <5>1
        <5>. QED  BY <3>3, <4>2, <5>2
      <4>. QED  BY <4>1, <4>2
    <3>. QED  BY <1>1, <2>1, <3>2, <3>3, <3>5, <3>6
  <2>4. /\ scope_next[Module] \in Listed(Module) /\ scope_prev[Module] \in Listed(Module)
        /\ scope_prev[scope_next[Module]] = Module /\ scope_next[scope_prev[Module]] = Module
    <3>1. Module \in Cells /\ Roots \in Cells /\ 1 \in Cells /\ 1 \in 1..Roots /\ Roots \in 1..Roots
      BY <1>1, <1>3, <2>2 DEF Cells
    <3>. QED  BY <1>8, <2>1, <3>1
  <2>. QED  BY <1>20, <2>1, <2>3, <2>4 DEF Ring
<1>22. ASSUME NEW s \in Scopes, s # Module PROVE Ring(s) /\ Loose(s)
  <2>1. scope_next[s] = s /\ scope_prev[s] = s
    BY <1>8, <1>22 DEF Cells
  <2>2. InScope(s) = {} /\ Listed(s) = {s}
    BY <1>19, <1>22 DEF Listed
  <2>. QED  BY <2>1, <2>2 DEF Ring, Loose
<1>23. Rings
  BY <1>3, <1>21, <1>22 DEF Rings
<1>. QED  BY <1>2, <1>9, <1>10, <1>11, <1>12, <1>13, <1>14, <1>15, <1>16, <1>17, <1>18, <1>23
     DEF ThreadInv

\* A step that changes nothing.
LEMMA StutterKeeps ==
    ASSUME ThreadInv, UNCHANGED vars
    PROVE  ThreadInv'
<1>1. /\ thread' = thread /\ program' = program /\ running' = running
      /\ UNCHANGED <<scope_next, scope_prev, active, delayed, del_thr, waiting_list, rest, target,
                     disabling, myself, fault>>
  BY DEF vars, links, queues, disable
<1>2. P' = P /\ Scopes' = Scopes /\ Vthread' = Vthread /\ Cells' = Cells
  BY <1>1, SameProgram
<1>3. SameFlags
  BY <1>1, SameThreads DEF SameFlags, links
<1>4. Typed' /\ Runs'
  BY <1>1, <1>2 DEF ThreadInv, Typed, Runs, Ids, Live, Unreaped, Held
<1>5. Queued' /\ Flagged'
  BY <1>1, HeldKept
<1>. QED  BY <1>1, <1>3, <1>4, <1>5, SameFlagsKeeps DEF ThreadInv

\* Every step keeps the invariant.
LEMMA NextOk ==
    ASSUME ThreadInv, Countable', ~reentered', [Next]_vars
    PROVE  ThreadInv'
<1>1. CASE Opcode(running)
  <2>1. ASSUME NEW t, t = running, Opcode(t) PROVE ThreadInv'
    BY <2>1, ForkOpKeeps, ForkFunctionKeeps, JoinKeeps, EndKeeps, ZombieKeeps, DelayKeeps, WaitKeeps,
       DelayDeleteKeeps, DisableKeeps DEF Opcode
  <2>. QED  BY <1>1, <2>1
<1>2. CASE RunChain \/ RunNext \/ DeleteThreads \/ AdvanceTime \/ Trigger \/ do_disable
  BY <1>2, RunChainKeeps, RunNextKeeps, DeleteThreadsKeeps, AdvanceTimeKeeps, TriggerKeeps, DoDisableKeeps
<1>3. CASE UNCHANGED vars
  BY <1>3, StutterKeeps
<1>. QED  BY <1>1, <1>2, <1>3 DEF Next

\* What a program has done stays done.
LEMMA ReenteredStays ==
    ASSUME [Next]_vars, reentered
    PROVE  reentered'
<1>1. ASSUME NEW t, Opcode(t) PROVE reentered'
  BY <1>1 DEF Opcode, of_FORK, of_FORK_function, of_JOIN, of_END, of_ZOMBIE, of_DELAY, of_WAIT,
       vthread_delay_delete, of_DISABLE
<1>2. ASSUME do_disable PROVE reentered'
  BY <1>2 DEF do_disable, DisableFirst, DisableChild, ReturnToParent, ReturnToScope, ScopeEmpty
<1>3. ASSUME RunChain \/ RunNext \/ DeleteThreads \/ AdvanceTime \/ Trigger PROVE reentered'
  BY <1>3 DEF RunChain, RunNext, DeleteThreads, AdvanceTime, Trigger
<1>4. CASE UNCHANGED vars
  BY <1>4 DEF vars
<1>. QED  BY <1>1, <1>2, <1>3, <1>4 DEF Next

\* The invariant holds until a disabled block is entered again, for any number of
\* threads, scopes and events.
THEOREM ThreadsConsistent ==
    Spec /\ []Countable => [](reentered \/ ThreadInv)
<1>1. Init => ThreadInv
  BY InitOk
<1>2. (reentered \/ ThreadInv) /\ Countable' /\ [Next]_vars => (reentered \/ ThreadInv)'
  BY NextOk, ReenteredStays
<1>. QED  BY <1>1, <1>2, PTL DEF Spec

\* No assert of vthread.cc fails and no step uses a thread that was deleted, until
\* a disabled block is entered again.
THEOREM AssertsAlwaysHold ==
    Spec /\ []Countable => []AssertsHold
<1>1. reentered \/ ThreadInv => AssertsHold
  BY DEF ThreadInv, AssertsHold
<1>. QED  BY <1>1, ThreadsConsistent, PTL

\* No queue, event, thread or deletion event holds a deleted thread, until a
\* disabled block is entered again.
THEOREM DeletedAlwaysUnused ==
    Spec /\ []Countable => [](reentered \/ DeletedIsUnused)
<1>1. ThreadInv => DeletedIsUnused
  BY AllUnused
<1>. QED  BY <1>1, ThreadsConsistent, PTL

\* A %join finds a child of its own thread on top, the last one it has forked,
\* until a disabled block is entered again.
THEOREM StackAlwaysInOrder ==
    Spec /\ []Countable => [](reentered \/ StackInOrder)
<1>1. ThreadInv => StackInOrder
  BY AllInOrder
<1>. QED  BY <1>1, ThreadsConsistent, PTL

\* A thread that has not ended is held by one queue, one event or one %join, until
\* a disabled block is entered again.
THEOREM ThreadsNeverLost ==
    Spec /\ []Countable => [](reentered \/ NoThreadLost)
<1>1. ThreadInv => NoThreadLost
  BY NoneLost
<1>. QED  BY <1>1, ThreadsConsistent, PTL

\* A thread that nobody will join is deleted, or something is left to delete it,
\* until a disabled block is entered again.
THEOREM ThreadsNeverLeak ==
    Spec /\ []Countable => [](reentered \/ NothingLeaks)
<1>1. ThreadInv => NothingLeaks
  BY NoLeak
<1>. QED  BY <1>1, ThreadsConsistent, PTL

\* Every step but the last of of_DISABLE keeps the scope it empties.
LEMMA TargetKept ==
    ASSUME Next, target # NoScope
    PROVE  ScopeEmpty \/ target' = target
<1>1. ASSUME NEW t, Opcode(t) PROVE FALSE
  BY <1>1 DEF Opcode, of_FORK, of_FORK_function, of_JOIN, of_END, of_ZOMBIE, of_DELAY, of_WAIT,
       vthread_delay_delete, of_DISABLE, Program, Executes, Quiet
<1>2. ~RunChain /\ ~RunNext /\ ~DeleteThreads /\ ~AdvanceTime /\ ~Trigger
  BY DEF RunChain, RunNext, DeleteThreads, AdvanceTime, Trigger, TimeStepOver, Executes, Quiet
<1>3. do_disable
  BY <1>1, <1>2 DEF Next
<1>. QED  BY <1>3 DEF do_disable, DisableFirst, DisableChild, ReturnToParent, ReturnToScope, ScopeEmpty

\* of_DISABLE leaves its loop only when every thread of the scope has ended.
LEMMA EmptyScopeEnded ==
    ASSUME ThreadInv, target # NoScope, scope_next[target] = target,
           NEW t \in Threads, Live(t), thread[t].scope = target
    PROVE  thread[t].i_have_ended
<1>1. SUFFICES ASSUME ~thread[t].i_have_ended PROVE FALSE
  OBVIOUS
<1>2. target \in P.disabled /\ target \in Scopes /\ target \notin Threads
  BY DisabledNames DEF ThreadInv, Typed
<1>3. Loose(target)
  BY <1>2 DEF ThreadInv, Rings
<1>4. t \in InScope(target)
  BY <1>1 DEF InScope, Unreaped
<1>5. ~thread[t].off
  BY <1>1 DEF ThreadInv, Reaps
<1>. QED  BY <1>2, <1>3, <1>4, <1>5 DEF Loose, InScope

\* %disable ends every thread that executes in the scope, until a disabled block is
\* entered again.
THEOREM DisableAlwaysEndsScope ==
    Spec /\ []Countable => DisableEndsScope
<1>1. (reentered \/ ThreadInv) /\ [Next]_vars =>
         [target # NoScope /\ target' = NoScope =>
            \/ reentered
            \/ \A t \in Threads : Live(t) /\ thread[t].scope = target =>
                  thread[t].i_have_ended]_vars
  <2>1. SUFFICES ASSUME ThreadInv, Next, target # NoScope, target' = NoScope,
                        NEW t \in Threads, Live(t), thread[t].scope = target
                 PROVE  thread[t].i_have_ended
    OBVIOUS
  <2>2. scope_next[target] = target
    BY <2>1, TargetKept DEF ScopeEmpty
  <2>. QED  BY <2>1, <2>2, EmptyScopeEnded
<1>. QED  BY <1>1, ThreadsConsistent, PTL DEF Spec, DisableEndsScope
=============================================================================
