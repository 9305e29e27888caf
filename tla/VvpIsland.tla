------------------------------- MODULE VvpIsland -------------------------------
(***************************************************************************)
(* Islands (vvp_island.cc, island_tran.cc): nets joined by bidirectional   *)
(* switches.  A port collects what comes from outside, the island runs     *)
(* when its event is served, pushes the values through the branches that   *)
(* are on, port by port, and sends the ports what they resolved to.  The   *)
(* recursion of push_value_through_branch is a stack of frames.            *)
(***************************************************************************)
EXTENDS Naturals, Sequences, SequencesExt, FiniteSets

CONSTANTS
    Meshes,   \* the islands, by name: the widths of their ports, their branches,
              \* and what the drivers of the ports may give a bit
    NoPort    \* no enable

\* A bit is driven with a strength to one level, or to both: x.
Bit == [strength : Nat, levels : SUBSET {0, 1}]

\* A branch without a part select joins ports of one width; the others name the
\* part of a that is b.
ASSUME MeshesAssumption ==
    \A m \in DOMAIN Meshes :
       LET width == Meshes[m].width
           ports == DOMAIN width
       IN  /\ IsFiniteSet(ports) /\ NoPort \notin ports
           /\ width \in [ports -> Nat \ {0}]
           /\ Meshes[m].drives \subseteq Bit
           /\ Meshes[m].branches \in
                 Seq([a : ports, b : ports, en : ports \cup {NoPort}, high : BOOLEAN,
                      width : Nat, part : Nat, offset : Nat])
           /\ \A br \in Range(Meshes[m].branches) :
                 IF br.width = 0 THEN width[br.a] = width[br.b]
                 ELSE /\ br.width = width[br.a] /\ br.part = width[br.b]
                      /\ br.offset + br.part <= br.width

VARIABLES
    mesh,      \* which island it is
    rings,     \* the ends of branches at one port, in a circle
    linked,    \* how many branches the loader has added
    invalue, outvalue, value,   \* of every port
    flagged,   \* the island's event is scheduled
    phase,     \* linking, idle, or what of run_island goes on
    enabled,   \* of every branch, as the last run found it
    todo,      \* the ends the present loop has before it
    stack      \* the values being pushed, innermost first

ports == <<invalue, outvalue, value>>
vars == <<mesh, rings, linked, ports, flagged, phase, enabled, todo, stack>>

Width == Meshes[mesh].width
Ports == DOMAIN Width
Branch == Meshes[mesh].branches
Branches == DOMAIN Branch
Drives == Meshes[mesh].drives
Nil == <<>>

\* An end of a branch: <<branch, 0>> at its port a, <<branch, 1>> at its port b.
Ends == Branches \X {0, 1}
PortOf(e) == IF e[2] = 0 THEN Branch[e[1]].a ELSE Branch[e[1]].b
Other(e) == <<e[1], 1 - e[2]>>

\* The order of branches_, the last one added first; side a before b.
EndsInOrder ==
    [i \in 1..(2 * Len(Branch)) |->
       <<Len(Branch) - (i - 1) \div 2, (i - 1) % 2>>]

-----------------------------------------------------------------------------
(* Values.                                                                 *)

Z == [strength |-> 0, levels |-> {}]

\* resolve: the stronger wins, levels of one strength meet.
Resolved(a, b) ==
    IF a.strength > b.strength THEN a
    ELSE IF b.strength > a.strength THEN b
    ELSE [a EXCEPT !.levels = @ \cup b.levels]

ResolvedVector(v, w) == [i \in DOMAIN v |-> Resolved(v[i], w[i])]

part_expand(v, wid, off) ==
    [i \in 1..wid |-> IF i - off \in DOMAIN v THEN v[i - off] ELSE Z]

subvalue(v, off, wid) == SubSeq(v, off + 1, off + wid)

\* What a value is on the other side of a branch, where it comes in at end e.
\* width is zero in a branch without a part select; the part is on side b.
Across(v, e) ==
    LET br == Branch[e[1]] IN
      IF br.width = 0 THEN v
      ELSE IF e[2] = 1 THEN subvalue(v, br.offset, br.part)
      ELSE part_expand(v, br.width, br.offset)

Is(bit, level) == bit.strength > 0 /\ bit.levels = {level}

-----------------------------------------------------------------------------
(* Loading.                                                                *)

\* An end goes into the circle of its port behind the end that came first.
\* Slip: whoever came first is taken to have come with its side a.
Linked_sideA(r, e) ==
    LET p == PortOf(e) IN
      IF r.first[p] = Nil THEN [r EXCEPT !.link[e] = e, !.first[p] = e]
      ELSE [r EXCEPT !.link[e] = r.link[<<r.first[p][1], 0>>],
                     !.link[<<r.first[p][1], 0>>] = e]

Linked(r, e) ==
    LET p == PortOf(e) IN
      IF r.first[p] = Nil THEN [r EXCEPT !.link[e] = e, !.first[p] = e]
      ELSE [r EXCEPT !.link[e] = r.link[r.first[p]], !.link[r.first[p]] = e]

add_branch ==
    /\ phase = "link" /\ linked < Len(Branch)
    /\ linked' = linked + 1
    /\ rings' = Linked(Linked(rings, <<linked', 0>>), <<linked', 1>>)
    /\ UNCHANGED <<mesh, ports, flagged, phase, enabled, todo, stack>>

compile_cleanup ==
    /\ phase = "link" /\ linked = Len(Branch)
    /\ phase' = "idle"
    /\ UNCHANGED <<mesh, rings, linked, ports, flagged, enabled, todo, stack>>

\* island_collect_node: the circle from e on.
Node(e) ==
    LET after[k \in 0..(2 * Len(Branch))] == IF k = 0 THEN e ELSE rings.link[after[k - 1]]
        size == CHOOSE k \in 1..(2 * Len(Branch)) :
                  after[k] = e /\ \A j \in 1..(k - 1) : after[j] # e
    IN  [k \in 1..size |-> after[k - 1]]

-----------------------------------------------------------------------------
(* From outside.  The island sends while it is in its output loop, and     *)
(* what it sends may come back at once.                                    *)

Receives == phase \in {"idle", "output"}

recv_vec8 ==
    /\ Receives
    /\ \E p \in Ports : \E v \in [1..Width[p] -> Drives] :
         /\ invalue[p] # v
         /\ invalue' = [invalue EXCEPT ![p] = v]
    /\ flagged' = TRUE
    /\ UNCHANGED <<mesh, rings, linked, outvalue, value, phase, enabled, todo, stack>>

recv_vec4_pv ==
    /\ Receives
    /\ \E p \in Ports : \E i \in 1..Width[p], b \in Drives :
         /\ Width[p] > 1
         /\ invalue' = [invalue EXCEPT ![p] =
              IF @ = Nil THEN part_expand(<<b>>, Width[p], i - 1) ELSE [@ EXCEPT ![i] = b]]
    /\ flagged' = TRUE
    /\ UNCHANGED <<mesh, rings, linked, outvalue, value, phase, enabled, todo, stack>>

-----------------------------------------------------------------------------
(* run_run and run_island.                                                 *)

\* run_test_enabled.
Enabled(b) ==
    LET en == Branch[b].en
        seen == IF outvalue[en] # Nil THEN outvalue[en] ELSE invalue[en]
    IN  \/ en = NoPort
        \/ seen # Nil /\ Is(seen[1], IF Branch[b].high THEN 1 ELSE 0)

run_run ==
    /\ phase = "idle" /\ flagged
    /\ flagged' = FALSE
    /\ phase' = "resolve"
    /\ enabled' = [b \in Branches |-> Enabled(b)]
    /\ todo' = EndsInOrder
    /\ UNCHANGED <<mesh, rings, linked, ports, stack>>

Frame(e) == [port |-> PortOf(e), rest |-> Node(e)]

\* run_resolution of one side: a port nothing was pushed to starts with its input.
run_resolution ==
    /\ phase = "resolve" /\ stack = <<>> /\ todo # <<>>
    /\ LET e == Head(todo)
           p == PortOf(e)
       IN  IF value[p] # Nil \/ invalue[p] = Nil THEN UNCHANGED <<value, stack>>
           ELSE /\ value' = [value EXCEPT ![p] = invalue[p]]
                /\ stack' = <<Frame(e)>>
    /\ todo' = Tail(todo)
    /\ UNCHANGED <<mesh, rings, linked, invalue, outvalue, flagged, phase, enabled>>

\* Slip: the loop goes on with the same end.
Remaining_same == stack

\* The rest of the innermost frame, then the frames around it.
Remaining == <<[stack[1] EXCEPT !.rest = Tail(@)]>> \o Tail(stack)

\* What the port at e, that val comes to, has of its own.
Present(e) == IF value[PortOf(e)] # Nil THEN value[PortOf(e)] ELSE invalue[PortOf(e)]

\* A port that never had a value takes this one, and does not pass it on.
push_value_through_branch ==
    /\ phase = "resolve" /\ stack # <<>>
    /\ stack[1].rest # <<>>
    /\ LET e == Other(stack[1].rest[1])
           dst == PortOf(e)
           tmp == Across(value[stack[1].port], e)
           new == IF Present(e) = Nil THEN tmp ELSE ResolvedVector(Present(e), tmp)
       IN  IF ~enabled[e[1]]
           THEN stack' = Remaining /\ UNCHANGED value
           ELSE /\ value' = [value EXCEPT ![dst] = new]
                /\ stack' = IF Present(e) # Nil /\ new # value[dst]
                            THEN <<Frame(e)>> \o Remaining ELSE Remaining
    /\ UNCHANGED <<mesh, rings, linked, invalue, outvalue, flagged, phase, enabled, todo>>

Return ==
    /\ phase = "resolve" /\ stack # <<>>
    /\ stack[1].rest = <<>>
    /\ stack' = Tail(stack)
    /\ UNCHANGED <<mesh, rings, linked, ports, flagged, phase, enabled, todo>>

AllResolved ==
    /\ phase = "resolve" /\ stack = <<>> /\ todo = <<>>
    /\ phase' = "output"
    /\ todo' = EndsInOrder
    /\ UNCHANGED <<mesh, rings, linked, ports, flagged, enabled, stack>>

\* run_output of one side, with island_send_value.
run_output ==
    /\ phase = "output" /\ todo # <<>>
    /\ LET p == PortOf(Head(todo)) IN
         /\ outvalue' = IF value[p] = Nil THEN outvalue ELSE [outvalue EXCEPT ![p] = value[p]]
         /\ value' = [value EXCEPT ![p] = Nil]
    /\ todo' = Tail(todo)
    /\ phase' = IF Len(todo) = 1 THEN "idle" ELSE "output"
    /\ UNCHANGED <<mesh, rings, linked, invalue, flagged, enabled, stack>>

Init ==
    /\ mesh \in DOMAIN Meshes
    /\ rings = [link |-> [e \in Ends |-> e], first |-> [p \in Ports |-> Nil]]
    /\ linked = 0
    /\ invalue = [p \in Ports |-> Nil]
    /\ outvalue = [p \in Ports |-> Nil]
    /\ value = [p \in Ports |-> Nil]
    /\ flagged = FALSE
    /\ phase = "link"
    /\ enabled = [b \in Branches |-> FALSE]
    /\ todo = <<>>
    /\ stack = <<>>

run_island ==
    \/ run_resolution \/ push_value_through_branch \/ Return \/ AllResolved \/ run_output

Next ==
    \/ add_branch \/ compile_cleanup
    \/ recv_vec8 \/ recv_vec4_pv
    \/ run_run \/ run_island

Spec == Init /\ [][Next]_vars

\* run_island is one event of the scheduler.
FairSpec == Spec /\ WF_vars(run_island)

-----------------------------------------------------------------------------
(* Properties.                                                             *)

\* The wires of the branches that are on, bit by bit.
Wires ==
    UNION {LET br == Branch[b] IN
             IF br.width = 0
             THEN {<<<<br.a, i>>, <<br.b, i>>>> : i \in 1..Width[br.a]}
             ELSE {<<<<br.a, br.offset + i>>, <<br.b, i>>>> : i \in 1..br.part}
           : b \in {c \in Branches : Enabled(c)}}

Touching(bits) ==
    bits \cup {w[1] : w \in {x \in Wires : x[2] \in bits}}
         \cup {w[2] : w \in {x \in Wires : x[1] \in bits}}

AllBits == UNION {{<<p, i>> : i \in 1..Width[p]} : p \in Ports}

Connected ==
    LET grown[bits \in SUBSET AllBits] ==
          IF Touching(bits) = bits THEN bits ELSE grown[Touching(bits)]
    IN  [bit \in AllBits |-> grown[{bit}]]

\* What all the drivers of some bits make of one wire.
Driven(bits) ==
    LET drives == {invalue[n[1]][n[2]] : n \in bits}
        strongest == CHOOSE d \in drives : \A c \in drives : d.strength >= c.strength
    IN  [strongest EXCEPT !.levels =
           UNION {d.levels : d \in {c \in drives : c.strength = strongest.strength}}]

\* When the island rests, every port has been sent what the drivers of all that
\* is connected with it make: "pushing values through the network until a stable
\* state is reached", whatever the order of the branches and of the inputs, with
\* cycles, part selects, and inputs that arrive while it sends.  (Ports that never
\* had an input do not pass a value on.)
MeshSettled ==
    phase = "idle" /\ ~flagged =>
      LET connected == Connected IN
        \A p \in {PortOf(e) : e \in Ends} :
          (\A i \in 1..Width[p] : \A n \in connected[<<p, i>>] : invalue[n[1]] # Nil) =>
            outvalue[p] = [i \in 1..Width[p] |-> Driven(connected[<<p, i>>])]

\* The recursion comes to an end, around cycles too.
Rests == phase = "resolve" ~> phase = "idle"
=============================================================================
