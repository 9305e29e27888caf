-------------------------------- MODULE VvpNet --------------------------------
(***************************************************************************)
(* The netlist of vvp: functors (vvp/logic.cc, part.cc, concat.cc,         *)
(* reduce.cc, resolv.cc, arith.cc, extend.cc) and signals (vvp_net.cc)     *)
(* linked by the fan-out chains that run through their input ports, and    *)
(* the procedural statements that set, assign and force signals and relink *)
(* the chains (vvp/vthread.cc).  Gates, multiplexers and part selects      *)
(* wait in the active queue of the scheduler once an input has changed;    *)
(* all other functors pass a value on while they receive it.               *)
(***************************************************************************)
EXTENDS Integers, Sequences, FiniteSets, SequencesExt

CONSTANTS
    Designs,        \* the netlists to run, by name
    Rebinding,      \* may a statement bind anew what is linked to a signal?
    MaxStatements   \* bound: statements executed

Bit4 == {"0", "1", "z", "x"}

NoNode == ""

\* A pointer to an input port of a node; one with no node ends a chain.
Nil == <<NoNode, 0>>

\* How a bit of a signal is bound: not, to a constant, to a signal.
Unbound == <<"no", NoNode>>
Constant(b) == <<"bit", b>>
Source(n) == <<"net", n>>

ASSUME RebindingAssumption == Rebinding \in BOOLEAN

\* A design has signals (variables and nets), functors with what they
\* compute, the drivers and constants of the inputs in the order they are
\* declared, and the statements its processes execute.  An input is declared
\* with one driver; what is linked to the other ports of a signal is up to the
\* statements.
ASSUME DesignsAssumption ==
    /\ MaxStatements \in Nat
    /\ \A d \in Range(Designs) :
         LET signals == d.vars \union d.nets
             functors == DOMAIN d.functor
             inputs == (signals \X {0}) \union (functors \X (0..3))
         IN  /\ d.vars \intersect d.nets = {}
             /\ signals \intersect functors = {} /\ NoNode \notin signals \union functors
             /\ d.links \in Seq([to : inputs, from : signals \union functors])
             /\ \A j, k \in DOMAIN d.links : d.links[j].to = d.links[k].to => j = k
             /\ d.constants \in Seq([to : inputs, val : Seq(Bit4)])
             /\ d.initial \in Seq(signals)
             /\ d.statements \subseteq
                  [do : {"set", "assign", "deassign", "force", "release"}, to : signals,
                   base : Nat, wid : Nat, val : Seq(Bit4), from : signals \union {NoNode}]

VARIABLES
    design,
    out, port,       \* the chains: the first input a node drives, the next ones
    sig, fun,        \* the state of signals and of functors
    active,          \* the scheduler's queue: values to set, functors to run
    sending,         \* the sends in progress, the innermost first
    thread,          \* the opcodes left of the statement being executed
    halted,          \* has vvp stopped?
    sent,            \* what each node sent last
    bound, held,     \* what the statements ask for: bindings, values of variables
    late,            \* bits released under an assignment and not assigned since
    statements       \* how many were executed

chains == <<out, port>>
asked == <<bound, held, late, statements>>
vars == <<design, chains, sig, fun, active, sending, thread, halted, sent, asked>>

D == Designs[design]
Signals == D.vars \union D.nets
Functors == DOMAIN D.functor
Nodes == Signals \union Functors
Width(n) == D.width[n]
X(n) == [i \in 1..Width(n) |-> "x"]

-----------------------------------------------------------------------------
(* What functors compute.  A vector is a tuple, its lowest bit first.      *)

z2x(b) == IF b = "z" THEN "x" ELSE b

Not(b) == CASE b = "0" -> "1" [] b = "1" -> "0" [] OTHER -> "x"

And == [a, b \in Bit4 |->
           CASE "0" \in {a, b} -> "0" [] a = "1" /\ b = "1" -> "1" [] OTHER -> "x"]

Or == [a, b \in Bit4 |->
          CASE "1" \in {a, b} -> "1" [] a = "0" /\ b = "0" -> "0" [] OTHER -> "x"]

Xor == [a, b \in Bit4 |->
           CASE ~({a, b} \subseteq {"0", "1"}) -> "x" [] a = b -> "0" [] OTHER -> "1"]

\* The wired gates: z leaves the other value.
Wired(op) == [a, b \in Bit4 |-> CASE a = "z" -> b [] b = "z" -> a [] OTHER -> op[a, b]]

\* Bit by bit over the four inputs, leaving out those that have no value yet.
Gate(op, in) ==
    LET present == SelectSeq(<<in[0], in[1], in[2], in[3]>>, LAMBDA v : v # <<>>)
    IN  [i \in DOMAIN present[1] |->
            FoldLeft(LAMBDA b, v : op[b, v[i]], present[1][i], Tail(present))]

Inverted(v) == [i \in DOMAIN v |-> Not(v[i])]

select(b) == IF b \in {"0", "1"} THEN b ELSE "both"

Mux(a, b, sel) ==
    CASE sel = "0" -> a
      [] sel = "1" -> b
      [] OTHER -> [i \in DOMAIN a |-> IF a[i] = b[i] THEN a[i] ELSE "x"]

\* The sum modulo 2^wid; x as soon as a bit is unknown.
Sum(a, b) ==
    LET Known(v) == \A i \in DOMAIN v : v[i] \in {"0", "1"}
        Carry[i \in 0..Len(a)] ==
            IF i = 0 THEN "0" ELSE Or[And[a[i], b[i]], And[Xor[a[i], b[i]], Carry[i - 1]]]
    IN  [i \in DOMAIN a |-> IF Known(a) /\ Known(b)
                            THEN Xor[Xor[a[i], b[i]], Carry[i - 1]] ELSE "x"]

\* Bits are compared from the lowest: one that differs decides.
Equal(a, b) ==
    LET known(i) == {a[i], b[i]} \subseteq {"0", "1"}
    IN  CASE \E i \in DOMAIN a : known(i) /\ a[i] # b[i] -> <<"0">>
          [] \A i \in DOMAIN a : known(i) /\ a[i] = b[i] -> <<"1">>
          [] OTHER -> <<"x">>

Extended(v, wid) == [i \in 1..wid |-> v[IF i <= Len(v) THEN i ELSE Len(v)]]

\* The output of a functor from its inputs.
Result(g, in) ==
    LET f == D.functor[g] IN
    CASE f.kind = "and" -> Gate(And, in)
      [] f.kind = "nor" -> Inverted(Gate(Or, in))
      [] f.kind = "xor" -> Gate(Xor, in)
      [] f.kind = "not" -> Inverted(in[0])
      [] f.kind = "buf" -> [i \in DOMAIN in[0] |-> z2x(in[0][i])]
      [] f.kind = "muxz" -> Mux(in[0], in[1], select(in[2][1]))
      [] f.kind = "part" -> in[0]
      [] f.kind = "concat" -> in[0] \o in[1] \o in[2] \o in[3]
      [] f.kind = "reduce_or" -> <<FoldLeft(LAMBDA a, b : Or[a, b], "0", in[0])>>
      [] f.kind = "triand" -> Gate(Wired(And), in)
      [] f.kind = "sum" -> Sum(in[0], in[1])
      [] f.kind = "cmp_eq" -> Equal(in[0], in[1])
      [] f.kind = "extend" -> Extended(in[0], Width(g))

scheduled_kinds == {"and", "nor", "xor", "not", "buf", "muxz", "part"}

\* What a functor keeps of a value: a part select only its part.
Kept(g, p, v) ==
    LET f == D.functor[g] IN
    IF f.kind = "part"
    THEN [i \in 1..Width(g) |-> IF f.base + i <= Len(v) THEN v[f.base + i] ELSE "x"]
    ELSE v

\* What it starts with.
StartInput(g, p) ==
    LET f == D.functor[g] IN
    CASE f.kind = "muxz" /\ p = 2 -> <<"x">>
      [] f.kind \in {"and", "nor", "xor", "sum", "muxz"} -> X(g)
      [] f.kind = "cmp_eq" -> [i \in 1..f.wid |-> "x"]
      [] f.kind = "concat" -> [i \in 1..f.wid[p + 1] |-> "x"]
      [] OTHER -> <<>>

-----------------------------------------------------------------------------
(* Signals.  A mask of no bits stands for one that is not there.           *)

Full(n) == [i \in 1..Width(n) |-> TRUE]

Masked(mask, i) == mask # <<>> /\ mask[i]

\* The value a signal shows: the forced bits over its own.
vec4_value(s) ==
    [i \in DOMAIN s.bits |-> IF Masked(s.force_mask, i) THEN s.force[i] ELSE s.bits[i]]

\* A value on its way to a pointer; a part names where it starts.
Frame(to, v) == [to |-> to, val |-> v, part |-> FALSE, base |-> 0]
PartFrame(to, v, base) == [to |-> to, val |-> v, part |-> TRUE, base |-> base]

\* In the queue of the scheduler, the run of a functor sends no value to it.
RunOf(g) == Frame(<<g, 0>>, <<>>)

Within(f, i) == i > f.base /\ i <= f.base + Len(f.val)
Written(f, old, where) ==
    [i \in DOMAIN old |-> IF i \in where THEN f.val[i - f.base] ELSE old[i]]
Masking(f, mask, n) ==
    IF ~f.part THEN Full(n)
    ELSE [i \in 1..Width(n) |-> Masked(mask, i) \/ Within(f, i)]

\* What a signal becomes when it receives f, and whether it sends its value:
\* on port 0 if there is a change or a part was written, on port 1 (assign)
\* and port 2 (force) always.
Received(n, f) ==
    LET s == sig[n]
        where == {i \in DOMAIN s.bits : Within(f, i)}
        open == {i \in where : ~Masked(s.assign_mask, i)}
        changed == IF s.assign_mask # <<>> THEN open # {}
                   ELSE f.part \/ s.needs_init \/ s.bits # f.val
        z == IF s.force = <<>> THEN [i \in DOMAIN s.bits |-> "z"] ELSE s.force
    IN  CASE f.to[2] = 0 ->
               [state |-> IF changed THEN [s EXCEPT !.bits = Written(f, @, open),
                                                    !.needs_init = FALSE]
                          ELSE s,
                sends |-> changed]
          [] f.to[2] = 1 ->
               [state |-> [s EXCEPT !.bits = Written(f, @, where),
                                    !.assign_mask = Masking(f, @, n)],
                sends |-> TRUE]
          [] f.to[2] = 2 ->
               [state |-> [s EXCEPT !.force = Written(f, z, where),
                                    !.force_mask = Masking(f, @, n)],
                sends |-> TRUE]

-----------------------------------------------------------------------------
(* Fan-out chains.                                                         *)

\* Put pointer p first in the chain of node n; linking does so for every
\* input, in the order in which they are declared.
Linked(c, p, n) ==
    [out |-> [c.out EXCEPT ![n] = p], port |-> [c.port EXCEPT ![p] = c.out[n]]]

\* Slip: what follows p is dropped with it.
Unlinked_cuts(c, p, n) ==
    LET before == {q \in DOMAIN c.port : c.port[q] = p}
        cut == IF c.out[n] = p THEN [c EXCEPT !.out[n] = Nil]
               ELSE [c EXCEPT !.port[CHOOSE q \in before : TRUE] = Nil]
    IN  [cut EXCEPT !.port[p] = Nil]

\* Take p out of the chain of n (unlink_from_driver, unlink_force).
Unlinked(c, p, n) ==
    LET rest == c.port[p]
        before == {q \in DOMAIN c.port : c.port[q] = p}
        cut == IF c.out[n] = p
               THEN [c EXCEPT !.out[n] = rest]
               ELSE [c EXCEPT !.port[CHOOSE q \in before : TRUE] = rest]
    IN  [cut EXCEPT !.port[p] = Nil]

Chains == [out |-> out, port |-> port]

\* Node n sends v: its chain is the next to be served.
Send(n, v, rest) ==
    /\ sent' = [sent EXCEPT ![n] = v]
    /\ sending' = (IF out[n] = Nil THEN <<>> ELSE <<Frame(out[n], v)>>) \o rest

-----------------------------------------------------------------------------
(* Sending (vvp_send_vec4): the next pointer is read before the value is   *)
(* received, and what receives may send in its turn.                       *)

Rest ==
    LET f == Head(sending) IN
    IF port[f.to] = Nil THEN Tail(sending)
    ELSE <<[f EXCEPT !.to = port[f.to]]>> \o Tail(sending)

ReceiveSignal ==
    /\ sending # <<>>
    /\ LET f == Head(sending)
           n == f.to[1]
           r == Received(n, f)
       IN  /\ n \in Signals
           /\ sig' = [sig EXCEPT ![n] = r.state]
           /\ IF r.sends THEN Send(n, vec4_value(r.state), Rest)
              ELSE sending' = Rest /\ UNCHANGED sent
           /\ late' = IF f.to[2] = 1 THEN {b \in late : b[1] # n} ELSE late
    /\ UNCHANGED <<design, chains, fun, active, thread, halted, bound, held, statements>>

\* Slip: a multiplexer takes every value.
Takes_always(g, p, v) ==
    D.functor[g].kind \in scheduled_kinds \ {"muxz"} => fun[g].in[p] # Kept(g, p, v)

\* Does a functor take a value it received, and does it run then?  Gates and
\* wired gates pass over a value they have; a multiplexer takes any until it
\* has run, and does not run for the input that is not selected.
Takes(g, p, v) ==
    LET k == D.functor[g].kind
        old == fun[g].in[p]
    IN  CASE k = "muxz" /\ p < 2 -> old # v \/ ~fun[g].has_run
          [] k = "muxz" /\ p = 2 ->
               \/ select(old[1]) # select(v[1])
               \/ select(v[1]) = "both" /\ ~fun[g].has_run
          [] k \in scheduled_kinds \ {"muxz"} \/ k = "triand" -> old # Kept(g, p, v)
          [] OTHER -> TRUE

Runs(g, p) ==
    LET sel == select(fun[g].in[2][1]) IN
    D.functor[g].kind = "muxz" =>
        ~(p = 0 /\ sel = "1") /\ ~(p = 1 /\ sel = "0")

ReceiveFunctor ==
    /\ sending # <<>>
    /\ LET f == Head(sending)
           g == f.to[1]
           p == f.to[2]
           in == [fun[g].in EXCEPT ![p] = Kept(g, p, f.val)]
       IN  /\ g \in Functors
           /\ IF ~Takes(g, p, f.val)
              THEN sending' = Rest /\ UNCHANGED <<fun, active, sent>>
              ELSE IF D.functor[g].kind \in scheduled_kinds
              THEN /\ sending' = Rest
                   /\ IF Runs(g, p) /\ ~fun[g].net
                      THEN /\ fun' = [fun EXCEPT ![g].in = in, ![g].net = TRUE]
                           /\ active' = Append(active, RunOf(g))
                      ELSE fun' = [fun EXCEPT ![g].in = in] /\ UNCHANGED active
                   /\ UNCHANGED sent
              ELSE /\ fun' = [fun EXCEPT ![g].in = in]
                   /\ Send(g, Result(g, in), Rest)
                   /\ UNCHANGED active
    /\ UNCHANGED <<design, chains, sig, thread, halted, asked>>

\* The scheduler takes the next event once no process is executing: it sets a
\* value (the initial values of variables and the constants) or runs a functor,
\* which may be scheduled again from here on.
RunEvent ==
    /\ sending = <<>> /\ thread = <<>> /\ active # <<>> /\ ~halted
    /\ LET e == Head(active)
           g == e.to[1]
       IN  IF e.val # <<>>
           THEN sending' = <<e>> /\ UNCHANGED <<fun, sent>>
           ELSE /\ fun' = [fun EXCEPT ![g].net = FALSE, ![g].has_run = TRUE]
                /\ Send(g, Result(g, fun[g].in), <<>>)
    /\ active' = Tail(active)
    /\ UNCHANGED <<design, chains, sig, thread, halted, asked>>

-----------------------------------------------------------------------------
(* Statements and the opcodes the code generator emits for them.           *)

Part(st) == (st.base + 1)..(st.base + st.wid)
Whole(st) == st.base = 0 /\ st.wid = Width(st.to)
Port(st) == CASE st.do = "set" -> 0
              [] st.do \in {"assign", "deassign"} -> 1
              [] st.do \in {"force", "release"} -> 2

\* A signal that is linked to a source is bound to something else: the value
\* is written to the port by which the signal is linked in the chain of that
\* source.
Rebinds(st) ==
    st.do \in {"assign", "force"} /\ sig[st.to].link[Port(st)] \notin {NoNode, st.from}

\* All of a variable is released of which only a part is forced: it takes over
\* the other bits of the force, too.
ReleasesAll(st) ==
    LET mask == sig[st.to].force_mask IN
    /\ st.do = "release" /\ Whole(st) /\ st.to \in D.vars
    /\ mask # <<>> /\ mask # Full(st.to)

\* A part is deassigned of what is not assigned: an assertion fails.
DeassignsPart(st) ==
    st.do = "deassign" /\ ~Whole(st) /\ sig[st.to].assign_mask = <<>>

\* The statements that vvp does not carry out as it should are left out.
Executable(st) ==
    /\ Rebinds(st) => Rebinding
    /\ ~ReleasesAll(st)
    /\ ~DeassignsPart(st)

\* The value assigned: a constant, or what the source shows.
ValueOf(st) == IF st.from = NoNode THEN st.val ELSE vec4_value(sig[st.from])

Opcodes(st) ==
    CASE st.do = "set" -> <<"write">>
      [] st.do \in {"assign", "force"} ->
           IF st.from = NoNode THEN <<"write">> ELSE <<"write", "link">>
      [] st.do \in {"deassign", "release"} -> <<"clear">>

\* What the statement asks for: bits are bound or no longer bound, and the
\* unbound bits of a variable are set or keep what they show.
Asks(st) ==
    LET n == st.to
        v == ValueOf(st)
        shown == vec4_value(sig[n])
        b == bound[n]
        Binding(i) == IF st.from = NoNode THEN Constant(v[i - st.base]) ELSE Source(st.from)
        Bind(old) == [i \in DOMAIN old |-> IF i \in Part(st) THEN Binding(i) ELSE old[i]]
        Unbind(old) == [i \in DOMAIN old |-> IF i \in Part(st) THEN Unbound ELSE old[i]]
        freed == {i \in Part(st) : b[Port(st)][i] # Unbound}
        Hold(bits, w) == [held EXCEPT ![n] = [i \in DOMAIN @ |-> IF i \in bits THEN w[i] ELSE @[i]]]
        bitsLate == {<<n, i>> : i \in Part(st)}
    IN  CASE st.do = "set" ->
               /\ held' = Hold({i \in Part(st) : b[1][i] = Unbound},
                               [i \in Part(st) |-> v[i - st.base]])
               /\ UNCHANGED <<bound, late>>
          [] st.do \in {"assign", "force"} ->
               /\ bound' = [bound EXCEPT ![n][Port(st)] = Bind(@)]
               /\ late' = IF st.do = "assign" THEN late \ bitsLate ELSE late
               /\ UNCHANGED held
          [] st.do \in {"deassign", "release"} ->
               /\ bound' = [bound EXCEPT ![n][Port(st)] = Unbind(@)]
               /\ held' = IF n \in D.vars THEN Hold(freed, shown) ELSE held
               /\ late' = CASE st.do = "deassign" -> late \ bitsLate
                           [] st.do = "release" ->
                                late \union {<<n, i>> : i \in {j \in freed : b[1][j] # Unbound}}

\* A process reaches a statement; variables have their first values by then.
BeginStatement ==
    /\ sending = <<>> /\ thread = <<>> /\ ~halted
    /\ \A n \in D.vars : ~sig[n].needs_init
    /\ statements < MaxStatements
    /\ \E st \in D.statements :
         /\ Executable(st)
         /\ LET ops == Opcodes(st)
                now == [st EXCEPT !.val = ValueOf(st)]
            IN  thread' = [k \in DOMAIN ops |-> [op |-> ops[k], st |-> now]]
         /\ Asks(st)
    /\ statements' = statements + 1
    /\ UNCHANGED <<design, chains, sig, fun, active, sending, halted, sent>>

Executes(op) ==
    /\ sending = <<>> /\ thread # <<>> /\ ~halted
    /\ Head(thread).op = op
    /\ thread' = Tail(thread)

\* %set/v, %cassign/v, %force/v and their /x0 forms send the value to the
\* port, and along what is linked behind it.
Write ==
    /\ Executes("write")
    /\ LET st == Head(thread).st
           to == <<st.to, Port(st)>>
       IN  sending' = <<IF Whole(st) THEN Frame(to, st.val) ELSE PartFrame(to, st.val, st.base)>>
    /\ UNCHANGED <<design, chains, sig, fun, active, halted, sent, asked>>

\* %cassign/link and %force/link.
Link ==
    /\ Executes("link")
    /\ LET st == Head(thread).st
           p == <<st.to, Port(st)>>
           old == sig[st.to].link[Port(st)]
           c == IF old = NoNode THEN Chains ELSE Unlinked(Chains, p, old)
           d == Linked(c, p, st.from)
       IN  IF old = st.from THEN UNCHANGED <<chains, sig>>
           ELSE /\ out' = d.out /\ port' = d.port
                /\ sig' = [sig EXCEPT ![st.to].link[Port(st)] = st.from]
    /\ UNCHANGED <<design, fun, active, sending, halted, sent, asked>>

\* A mask without the bits of a part; one without bits is dropped.
Without(mask, where) ==
    LET left == [i \in DOMAIN mask |-> mask[i] /\ i \notin where]
    IN  IF \E i \in DOMAIN left : left[i] THEN left ELSE <<>>

\* The deassign command on port 3.
Deassigned(s, st) ==
    [s EXCEPT !.assign_mask = IF Whole(st) THEN <<>> ELSE Without(@, Part(st))]

\* Slip: a variable gives up the forced bits as a net does.
Released_asNet(s, st) ==
    IF s.force_mask = <<>> THEN s
    ELSE [s EXCEPT !.force_mask = IF Whole(st) THEN <<>> ELSE Without(@, Part(st))]

\* The release commands: a variable keeps the forced bits, a net gives them up.
Released(s, st) ==
    LET freed == {i \in Part(st) : Masked(s.force_mask, i)}
        kept == IF st.to \in D.nets THEN {} ELSE IF Whole(st) THEN Part(st) ELSE freed
    IN  IF s.force_mask = <<>> THEN s
        ELSE [s EXCEPT !.force_mask = IF Whole(st) THEN <<>> ELSE Without(@, freed),
                       !.bits = [i \in DOMAIN @ |-> IF i \in kept THEN s.force[i] ELSE @[i]]]

\* %deassign, %release/net and %release/reg: the link goes first, unless only a
\* part is asked for, which ends vvp with "sorry".
Clear ==
    /\ Executes("clear")
    /\ LET st == Head(thread).st
           n == st.to
           k == Port(st)
           link == sig[n].link[k]
           c == IF link = NoNode THEN Chains ELSE Unlinked(Chains, <<n, k>>, link)
           s == [sig[n] EXCEPT !.link[k] = NoNode]
           cleared == IF st.do = "deassign" THEN Deassigned(s, st) ELSE Released(s, st)
       IN  IF link # NoNode /\ ~Whole(st)
           THEN halted' = TRUE /\ UNCHANGED <<chains, sig, sending, sent>>
           ELSE /\ out' = c.out /\ port' = c.port
                /\ sig' = [sig EXCEPT ![n] = cleared]
                /\ IF st.do = "release" /\ n \in D.nets /\ s.force_mask # <<>>
                   THEN Send(n, vec4_value(cleared), <<>>)
                   ELSE UNCHANGED <<sending, sent>>
                /\ UNCHANGED halted
    /\ UNCHANGED <<design, fun, active, asked>>

-----------------------------------------------------------------------------
(* The netlist is linked, its variables send x, its constants their values. *)

Pointers(d) == {<<n, p>> : n \in d.vars \union d.nets \union DOMAIN d.functor, p \in 0..3}

\* What its first declarations link, by their number.
LinkedUpTo(d) ==
    LET upTo[k \in 0..Len(d.links)] ==
          IF k = 0
          THEN [out |-> [n \in d.vars \union d.nets \union DOMAIN d.functor |-> Nil],
                port |-> [p \in Pointers(d) |-> Nil]]
          ELSE Linked(upTo[k - 1], d.links[k].to, d.links[k].from)
    IN  upTo

LinkedDesign(d) == LinkedUpTo(d)[Len(d.links)]

Init ==
    /\ design \in DOMAIN Designs
    /\ out = LinkedDesign(D).out
    /\ port = LinkedDesign(D).port
    /\ sig = [n \in Signals |->
                [bits |-> [i \in 1..Width(n) |-> IF n \in D.nets THEN "z" ELSE "x"],
                 assign_mask |-> <<>>, force_mask |-> <<>>, force |-> <<>>,
                 needs_init |-> TRUE, link |-> <<NoNode, NoNode>>]]
    /\ fun = [g \in Functors |->
                [in |-> [p \in 0..3 |-> StartInput(g, p)], net |-> FALSE, has_run |-> FALSE]]
    /\ active = [k \in DOMAIN D.initial |-> Frame(<<D.initial[k], 0>>, X(D.initial[k]))]
                \o [k \in DOMAIN D.constants |->
                       Frame(D.constants[k].to, D.constants[k].val)]
    /\ sending = <<>> /\ thread = <<>> /\ halted = FALSE
    /\ sent = [n \in Nodes |-> <<>>]
    /\ bound = [n \in Signals |-> [k \in 1..2 |-> [i \in 1..Width(n) |-> Unbound]]]
    /\ held = [n \in D.vars |-> X(n)]
    /\ late = {}
    /\ statements = 0

Propagate == ReceiveSignal \/ ReceiveFunctor \/ RunEvent

Execute == Write \/ Link \/ Clear

Next == BeginStatement \/ Execute \/ Propagate

Spec == Init /\ [][Next]_vars

\* vvp goes on with what it has begun: it returns from a send, executes the
\* opcodes of a thread, and takes the events of the present time.
FairSpec == Spec /\ WF_vars(Propagate \/ Execute)

-----------------------------------------------------------------------------
(* Properties.                                                             *)

\* The inputs in the chain of a node: those declared with it, those linked to it.
Driven(n) ==
    {l.to : l \in {k \in Range(D.links) : k.from = n}}
        \union {p \in Signals \X {1, 2} : sig[p[1]].link[p[2]] = n}

\* The pointers reached from node n in so many steps at most, in the chains of o and r.
Reached(o, r, n, steps) ==
    LET upTo[k \in 0..steps] ==
            IF k = 0 THEN IF o[n] = Nil THEN <<>> ELSE <<o[n]>>
            ELSE LET c == upTo[k - 1] IN
                 IF c = <<>> \/ r[Last(c)] = Nil THEN c ELSE Append(c, r[Last(c)])
    IN  upTo

\* The chain of a node, followed as far as to one pointer too many.
Chain(n) ==
    LET many == Cardinality(Driven(n)) IN Reached(out, port, n, many)[many]

\* However often assignments and forces are linked, relinked and removed, the
\* chain of a node ends, and passes through the inputs declared with it and
\* those linked to it, each once; an input that is in no chain leads nowhere.
FanoutExact ==
    /\ \A n \in Nodes :
         LET c == Chain(n) IN
         /\ IsInjective(c) /\ Range(c) = Driven(n)
    /\ \A p \in DOMAIN port :
         p \notin UNION {Driven(n) : n \in Nodes} => port[p] = Nil

\* Nothing is left to deliver, to run or to execute.
Quiet == sending = <<>> /\ active = <<>>
Idle == Quiet /\ thread = <<>> /\ ~halted

Drivers(p) == {l.from : l \in {k \in Range(D.links) : k.to = p}}

\* What is present at an input: what its driver sent last, or a constant.
Present(p) ==
    LET constants == {c.val : c \in {k \in Range(D.constants) : k.to = p}}
        values == constants \union {sent[n] : n \in Drivers(p)}
    IN  IF values = {} THEN <<>> ELSE CHOOSE v \in values : TRUE

OutputsCurrent ==
    \A g \in Functors : sent[g] = Result(g, [p \in 0..3 |-> Kept(g, p, Present(<<g, p>>))])

\* What a bit of a signal must show.
MustShow(n, i) ==
    LET Bit(b) == IF b[1] = "bit" THEN b[2] ELSE vec4_value(sig[b[2]])[i]
        force == bound[n][2][i]
        assign == bound[n][1][i]
    IN  CASE force # Unbound -> Bit(force)
          [] force = Unbound /\ n \in D.nets -> Present(<<n, 0>>)[i]
          [] force = Unbound /\ n \in D.vars /\ assign # Unbound /\ <<n, i>> \notin late ->
               Bit(assign)
          [] OTHER -> held[n][i]

BindingsShown ==
    \A n \in Signals :
       /\ sent[n] = vec4_value(sig[n])
       /\ \A i \in 1..Width(n) : vec4_value(sig[n])[i] = MustShow(n, i)

\* Whenever the present time has nothing left to do, the last value each
\* functor sent is its function of what its inputs are driven to, whatever
\* the order in which the inputs changed and whatever was forced on the way;
\* and each bit of a signal shows what it is bound to: the force, else the
\* assignment, constant or linked, else its driver or, in a variable, the
\* value last set or kept when a binding ended.
NetSettled == Idle => OutputsCurrent /\ BindingsShown

\* Every change comes to rest, also where functors feed themselves, unless vvp
\* has stopped.
Quiets == ~Quiet ~> (Quiet \/ halted)

=============================================================================
