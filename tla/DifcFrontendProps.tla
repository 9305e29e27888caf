--------------------------- MODULE DifcFrontendProps ---------------------------
(***************************************************************************)
(* What the walk of DifcFrontend should have written when it is done: the  *)
(* instances, signals and flows of the design, defined on the hierarchy    *)
(* and the statement trees and not on the order of the walk.               *)
(***************************************************************************)
EXTENDS DifcFrontend

-----------------------------------------------------------------------------
(* The hierarchy.                                                          *)

RECURSIVE SchemesWithin(_)
SchemesWithin(schemes) ==
    Range(schemes) \cup UNION {SchemesWithin(s.schemes) : s \in Range(schemes)}

\* Everything in a module, in a generate scheme or not.
Gates(m) ==
    Range(m.gates) \cup UNION {Range(s.gates) : s \in SchemesWithin(m.schemes)}

Processes(m) ==
    {b \in Range(m.behaviors)
             \cup UNION {Range(s.behaviors) : s \in SchemesWithin(m.schemes)} :
        b.do = "process" /\ ~b.initial}

ChildrenOf(t) ==
    {Task(g.type, t.path \o g.name) :
        g \in {h \in Gates(design.modules[t.type]) : h.do = "instance" /\ h.type \in Modules}}

RECURSIVE Below(_)
Below(t) == {t} \cup UNION {Below(c) : c \in ChildrenOf(t)}

Instances ==
    UNION {Below(Task(r, <<r>>)) : r \in Range(design.roots) \cap Modules}

-----------------------------------------------------------------------------
(* The flows.  must: the conditions from the innermost if inward; may: all *)
(* the conditions around the assignment.                                   *)

Flow(from, to, must, may) == [from |-> from, to |-> to, must |-> must, may |-> may]

RECURSIVE AssignmentFlows(_, _, _, _)
AssignmentFlows(lhs, rhs, must, may) ==
    IF IsTernary(rhs)
    THEN AssignmentFlows(lhs, rhs.tru, rhs.test.names, may \cup rhs.test.names)
         \cup AssignmentFlows(lhs, rhs.fal, rhs.test.names, may \cup rhs.test.names)
    ELSE {Flow(r, l, must, may) : r \in Range(rhs.tokens), l \in Range(lhs)}

RECURSIVE StatementFlows(_, _, _)
StatementFlows(s, must, may) ==
    CASE s.do = "assignment" -> AssignmentFlows(s.lhs, s.rhs, must, may)
      [] s.do = "block" ->
           UNION {StatementFlows(b, must, may) : b \in Range(s.list)}
      [] s.do = "if" ->
           UNION {StatementFlows(b, s.cond.names, may \cup s.cond.names) :
                    b \in Range(s.branches)}
      [] s.do = "case" ->
           UNION {StatementFlows(b, must \cup s.cond.names, may \cup s.cond.names) :
                    b \in Range(s.branches)}
      [] s.do = "event" ->
           LET names == UNION {e.names : e \in Range(s.exprs)}
           IN  UNION {StatementFlows(b, must \cup names, may \cup names) :
                        b \in Range(s.branches)}
      [] OTHER -> {}

RECURSIVE Implemented(_)
Implemented(s) ==
    CASE s.do = "unsupported" -> FALSE
      [] s.do = "block" -> \A b \in Range(s.list) : Implemented(b)
      [] s.do \in {"if", "case", "event"} -> \A b \in Range(s.branches) : Implemented(b)
      [] OTHER -> TRUE

\* Within an instance.
ProcessFlows(t) ==
    UNION {StatementFlows(p.statement, {}, {}) : p \in Processes(design.modules[t.type])}

AssignFlows(t) ==
    UNION {StatementFlows(g.assignment, {}, {}) :
             g \in {h \in Gates(design.modules[t.type]) : h.do = "assign"}}

In(t, f) == Flow(t.path \o f.from, t.path \o f.to,
                 {t.path \o v : v \in f.must}, {t.path \o v : v \in f.may})

\* Between an instance and one in it: an actual is read by an input port, its
\* first name is written by an output port.
PortFlows(t) ==
    UNION {LET child == t.path \o g.name
               port(p) == design.modules[g.type].wires[p.name].port
           IN  UNION {IF port(p) = "output"
                      THEN {Flow(child \o p.name, t.path \o p.actual[1], {}, {})}
                      ELSE {Flow(t.path \o a, child \o p.name, {}, {}) : a \in Range(p.actual)} :
                        p \in {q \in Range(g.pins) : q.actual # <<>>}} :
             g \in {h \in Gates(design.modules[t.type]) : h.do = "instance" /\ h.type \in Modules}}

Flows(t) ==
    {In(t, f) : f \in ProcessFlows(t) \cup AssignFlows(t)} \cup PortFlows(t)

AllImplemented(t) ==
    LET m == design.modules[t.type]
    IN  ~m.unsupported /\ \A p \in Processes(m) : Implemented(p.statement)

-----------------------------------------------------------------------------
(* Properties.                                                             *)

\* What the node file should say of an instance.
SignalLines(t) ==
    LET m == design.modules[t.type]
        Line(v, wire) ==
            LET label == design.basic[wire.sectype] IN
            IF label = {} THEN NodeLine(t.path \o v, {}, {}, {})
            ELSE NodeLine(t.path \o v, label, m.positive, wire.negative)
    IN  UNION {{Line(v, s.wires[v]) : v \in DOMAIN s.wires} :
                 s \in {m} \cup SchemesWithin(m.schemes)}

\* When all is done the node file lists each signal of each instance exactly
\* once, under a label that has its declared one, and nothing else but the
\* instances that have a capability.
NodesListed ==
    Done =>
      LET listed == {t \in Instances : ~design.modules[t.type].unsupported}
          able == {t \in listed : design.modules[t.type].positive # {}}
          signals == UNION {SignalLines(t) : t \in listed}
      IN  /\ Range([i \in DOMAIN nodes |-> nodes[i].name])
               = {l.name : l \in signals} \cup {t.path : t \in able}
          /\ IsInjective([i \in DOMAIN nodes |-> nodes[i].name])
          /\ \A l \in signals : \E i \in DOMAIN nodes :
               nodes[i].name = l.name /\ l.basic \subseteq nodes[i].basic

\* "recorded flow edges" (README.md): when all is done, every flow of every
\* instance whose module is implemented is in the step file, with at least the
\* conditions from the innermost if inward.
FlowsRecorded ==
    Done => \A t \in Instances : AllImplemented(t) => \A f \in Flows(t) :
              \E s \in steps : s.from = f.from /\ s.to = f.to /\ f.must \subseteq s.pc_p

\* A recorded step is a flow of the design under no condition that is not
\* around it: none is left over from a statement that came before.
StepsJustified ==
    \A s \in steps : \E t \in Instances : \E f \in Flows(t) :
        s.from = f.from /\ s.to = f.to /\ s.pc_p \subseteq f.may
=============================================================================
