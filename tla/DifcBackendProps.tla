-------------------------- MODULE DifcBackendProps --------------------------
(***************************************************************************)
(* What the backend promises, stated from its two input files alone:       *)
(* least closures of declared labels over the recorded edges, against      *)
(* which the labels, taints and verdicts that the imperative rescans       *)
(* compute are compared.                                                   *)
(***************************************************************************)
EXTENDS DifcBackend

NodeLines == {i \in DOMAIN nodeFile : nodeFile[i] # Malformed}
StepLines == {i \in DOMAIN stepFile : stepFile[i] # Malformed}

Declared(n) == \E i \in NodeLines : nodeFile[i].name = n

DeclaredBasic(n) ==
    UNION {nodeFile[i].basic : i \in {j \in NodeLines : nodeFile[j].name = n}}

DeclaredPos(n) ==
    UNION {nodeFile[i].pos : i \in {j \in NodeLines : nodeFile[j].name = n}}

\* No name is listed twice: flattening with underscores may break this.
UniqueNames ==
    \A i, j \in NodeLines : nodeFile[i].name = nodeFile[j].name => i = j

\* The least set that holds src and is closed under the relation edges.
Closure(src, edges) ==
    {n \in Names : \A S \in SUBSET Names :
        (/\ src \subseteq S
         /\ \A e \in edges : e[1] \in S => e[2] \in S) => n \in S}

NamePairs == {<<a, b>> : a \in Names, b \in Names}
LabelPairs == {<<n, l>> : n \in Names, l \in Labels}

\* A set of <<name, label>> pairs says which labels each name holds.
LabelsOf(holds, n) == {l \in Labels : <<n, l>> \in holds}

\* holds, with every label carried along the edges.
Carried(holds, edges) ==
    {p \in LabelPairs :
        p[1] \in Closure({n \in Names : <<n, p[2]>> \in holds}, edges)}

\* The flow enters a scope whose boundary node has a capability.
BlockedByBoundary(from, to) ==
    \E b \in Names \ {to} : /\ DeclaredPos(b) # {}
                            /\ inside_scope(to, b)
                            /\ ~inside_scope(from, b)

\* What the code blocks beyond the comment on the pre-pass, which says that
\* "internal-variable capabilities are not boundary blockers".
BlockedByOwn(from, to) == DeclaredPos(to) # {} /\ ~inside_scope(from, to)

Recorded(from, to) ==
    \E i \in StepLines : stepFile[i].from = from /\ stepFile[i].to = to

\* The edges of the comment, and those of the code.
StatedEdges ==
    {e \in NamePairs : Recorded(e[1], e[2]) /\ ~BlockedByBoundary(e[1], e[2])}

InferEdges == {e \in StatedEdges : ~BlockedByOwn(e[1], e[2])}

FlowEdges ==
    {e \in NamePairs :
        \E i \in StepLines :
            /\ stepFile[i].from # NL
            /\ stepFile[i].to = e[2]
            /\ \/ stepFile[i].from = e[1]
               \/ e[1] \in parse_pc_tokens(stepFile[i].pc)}

DeclaredLabels == {p \in LabelPairs : p[2] \in DeclaredBasic(p[1])}

Inherited == Carried(DeclaredLabels, InferEdges)
StatedInherited == Carried(DeclaredLabels, StatedEdges)

\* The basic labels propagation works with; Public for a name nothing labels.
BaseLabel ==
    LET inherited == Inherited
    IN  inherited \cup
          {p \in LabelPairs : /\ p[2] = Public
                           /\ ~Declared(p[1])
                           /\ LabelsOf(inherited, p[1]) = {}}

ReachingTaint == Carried(BaseLabel, FlowEdges)

Reported(n) == \E v \in violations : Head(v.path) = n

-----------------------------------------------------------------------------
Report == [step: Nat, path: Seq(Names)]

Reason == [name: Names, mask: SUBSET Labels, from: Names]

\* The variables have their types; a clause is what an assertz may store.
TypeOK ==
    /\ nodeFile \in NodeFiles
    /\ stepFile \in StepFiles
    /\ node_state \in [Names -> Seq(Clause)]
    /\ inferred_label_reason \subseteq Reason
    /\ phase \in {"load", "infer", "propagate", "done"}
    /\ pos \in Nat \ {0}
    /\ changed \in BOOLEAN
    /\ violations \subseteq Report

\* "The pass never invents capability labels": a clause has the positive and
\* negative capabilities of one node line of its name, or none, all run long,
\* whatever merge_inferred_basic and update_node rewrite.
CapabilitiesDeclared ==
    \A n \in Names : \A k \in DOMAIN node_state[n] :
        LET c == node_state[n][k] IN
        \/ c.pos = {} /\ c.neg = {}
        \/ \E i \in NodeLines : /\ nodeFile[i].name = n
                                /\ nodeFile[i].pos = c.pos
                                /\ nodeFile[i].neg = c.neg

\* When propagation starts, the basic label of every name is the least one
\* closed under the edges no capability blocks: restarting from the first
\* edge after each merge loses nothing and adds nothing.  The comment on the
\* pre-pass, by which "internal-variable capabilities are not boundary blockers",
\* promises more: a listed name never has a label beyond it, but has all of it
\* only where no flow is stopped by the capability of its own target.
InferenceExact ==
    phase \in {"propagate", "done"} /\ UniqueNames =>
        LET base == BaseLabel
            stated == StatedInherited
        IN  \A n \in Names :
              /\ get_node(n).basic = LabelsOf(base, n)
              /\ Declared(n) =>
                   /\ get_node(n).basic \subseteq LabelsOf(stated, n)
                   /\ (\A e \in StatedEdges : ~BlockedByOwn(e[1], e[2])) =>
                        get_node(n).basic = LabelsOf(stated, n)

\* When the scans stop, the taint of every name is exactly what the flows
\* carry to it, in whatever order the step file lists them.
TaintExact ==
    phase = "done" /\ UniqueNames =>
        LET reaching == ReachingTaint
        IN  \A n \in Names : get_node(n).taint = LabelsOf(reaching, n)

\* A scan that changed nothing leaves the taints closed under every flow, even
\* when several clauses share a name.
ClosedAtEnd ==
    phase = "done" =>
        \A e \in FlowEdges : get_node(e[1]).taint \subseteq get_node(e[2]).taint

\* A name whose taint leaves its allowance has been reported, although the
\* check is made only by the step that changed the taint.
ExcessReported ==
    \A n \in Names : \A k \in DOMAIN node_state[n] :
        LET c == node_state[n][k] IN
        ~(c.taint \subseteq c.basic \cup c.pos) => Reported(n)

\* The verdict: at the end a name is reported if and only if a label reaches
\* it that neither its declared or inherited label nor its positive
\* capability allows.
VerdictExact ==
    phase = "done" /\ UniqueNames =>
        LET base == BaseLabel
            reaching == ReachingTaint
        IN  \A n \in Names :
                Reported(n) <=>
                    ~(LabelsOf(reaching, n) \subseteq LabelsOf(base, n) \cup DeclaredPos(n))

\* Each path printed with a report is a chain of recorded flows, last name
\* first: every name on it feeds the one before it.
ReportedPathsFlow ==
    \A v \in violations :
        \A k \in 1..(Len(v.path) - 1) :
            \E i \in StepLines : /\ stepFile[i].from = v.path[k + 1]
                                 /\ stepFile[i].to = v.path[k]

\* The rescans come to an end, cycles of flows included.
Terminates == <>(phase = "done")
=============================================================================
