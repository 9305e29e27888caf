------------------------------ MODULE DifcPipeline ------------------------------
(***************************************************************************)
(* iverilog -z and then the backend on the two files it wrote.  The front  *)
(* end runs to its end; the files are handed over; the backend runs to     *)
(* its.  The properties compare the reports with the parsed design.        *)
(***************************************************************************)
EXTENDS DifcFrontendProps, Naturals, FiniteSetsExt

CONSTANTS
    FlatNames,   \* the names of the designs' instances and signals
    Malformed    \* a line to skip: the front end writes none

VARIABLES
    nodeFile, stepFile, node_state, inferred_label_reason,
    phase, pos, changed, violations   \* of DifcBackend

backendVars == <<nodeFile, stepFile, node_state, inferred_label_reason, phase,
                 pos, changed, violations>>

Backend == INSTANCE DifcBackendProps WITH
    Names <- FlatNames, Labels <- {1, 2}, Public <- 1,
    NodeFiles <- {}, StepFiles <- {}

-----------------------------------------------------------------------------
(* The files.                                                              *)

\* Slip: the columns of the capabilities change places.
WrittenNode_swapped(l) ==
    [name |-> l.name, basic |-> l.basic, pos |-> l.negative, neg |-> l.positive]

\* What the backend reads of the line printed for l.  Columns are separated by
\* blanks, and split_string, whose separator is also its padding, takes two
\* blanks for one: behind an empty column the next one moves up.
WrittenNode(l) ==
    LET columns == SelectSeq(<<l.positive, l.negative>>, LAMBDA c : c # {})
        Column(i) == IF i \in DOMAIN columns THEN columns[i] ELSE {}
    IN  [name |-> l.name, basic |-> l.basic, pos |-> Column(1), neg |-> Column(2)]

\* The text of the conditions stands in quotation marks.
WrittenStep(s) ==
    [from |-> s.from, to |-> s.to,
     pc |-> <<[quoted |-> TRUE, names |-> SetToSeq(s.pc_p)]>>]

\* Slip: the backend is started with the step file of the run before.
HandOver_oldSteps ==
    /\ Done
    /\ phase = "front end"
    /\ nodeFile' = [i \in DOMAIN nodes |-> WrittenNode(nodes[i])]
    /\ stepFile' = <<>>
    /\ phase' = "load"
    /\ UNCHANGED <<vars, node_state, inferred_label_reason, pos, changed, violations>>

HandOver ==
    /\ Done
    /\ phase = "front end"
    /\ nodeFile' = [i \in DOMAIN nodes |-> WrittenNode(nodes[i])]
    /\ stepFile' = FoldSet(LAMBDA s, file : Append(file, WrittenStep(s)), <<>>, steps)
    /\ phase' = "load"
    /\ UNCHANGED <<vars, node_state, inferred_label_reason, pos, changed, violations>>

PipelineInit ==
    /\ Init
    /\ nodeFile = <<>> /\ stepFile = <<>>
    /\ node_state = [n \in FlatNames |-> <<>>]
    /\ inferred_label_reason = {}
    /\ phase = "front end" /\ pos = 1 /\ changed = FALSE
    /\ violations = {}

PipelineNext ==
    \/ Walk /\ UNCHANGED backendVars
    \/ HandOver
    \/ Backend!Next /\ UNCHANGED vars

PipelineSpec ==
    /\ PipelineInit
    /\ [][PipelineNext]_<<vars, backendVars>>
    /\ WF_<<vars, backendVars>>(PipelineNext)

-----------------------------------------------------------------------------
(* The design's own labels and flows.                                      *)

DesignLines ==
    UNION {SignalLines(t) :
             t \in {u \in Instances : ~design.modules[u.type].unsupported}}

DesignEdges == {<<f.from, f.to>> : f \in UNION {Flows(t) : t \in Instances}}

\* <<name, label>> pairs of the declarations; one without a label is public.
DeclaredLabels ==
    {<<l.name, k>> : l \in DesignLines, k \in {1, 2}}
      \cap UNION {{<<l.name, k>> : k \in IF l.basic = {} THEN Public ELSE l.basic} :
                    l \in DesignLines}

\* The modules with a capability: by the comment on the pre-pass, nothing else
\* stops inheritance from outside.
StatedBoundaries ==
    {t.path : t \in {u \in Instances : design.modules[u.type].positive # {}}}

\* In the code each of their labelled signals does, too.
Boundaries ==
    StatedBoundaries \cup {l.name : l \in {k \in DesignLines : k.positive # {}}}

OpenEdges(boundaries) ==
    {e \in DesignEdges :
        \A b \in boundaries : IsPrefix(b, e[2]) => IsPrefix(b, e[1])}

RECURSIVE CarriedAlong(_, _)
CarriedAlong(holds, edges) ==
    LET more == holds \cup UNION {{<<e[2], h[2]>> : h \in {g \in holds : g[1] = e[1]}} :
                                    e \in edges}
    IN  IF more = holds THEN holds ELSE CarriedAlong(more, edges)

\* The labels of a name, with those it inherits; public when there are none.
OwnLabels(boundaries) ==
    LET inherited == CarriedAlong(DeclaredLabels, OpenEdges(boundaries))
    IN  inherited \cup {<<n, 1>> : n \in FlatNames \ {h[1] : h \in inherited}}

Granted == UNION {{<<l.name, k>> : k \in l.positive} : l \in DesignLines}

\* The names the design carries a label to that is neither their own nor granted.
ExcessNames(boundaries) ==
    LET own == OwnLabels(boundaries)
    IN  {h[1] : h \in CarriedAlong(own, DesignEdges) \ (own \cup Granted)}

-----------------------------------------------------------------------------
(* Properties.                                                             *)

Complete == \A t \in Instances : AllImplemented(t)

\* The front end has not changed the label of a declaration while it joined
\* those of conditions (see README.md).
LabelsKept == basic = design.basic

\* No line has its negative column read as the positive one.
ColumnsKept == \A l \in DesignLines : l.negative # {} => l.positive # {}

\* From the declarations to the end of the backend: each signal is tainted with
\* its own label, and every flow of an implemented module, port connections
\* included, passes on the whole taint of its source.
ExplicitFlowsTaint ==
    phase = "done" =>
        /\ \A l \in DesignLines : l.basic \subseteq Backend!get_node(l.name).taint
        /\ \A t \in {u \in Instances : AllImplemented(u)} : \A f \in Flows(t) :
             Backend!get_node(f.from).taint \subseteq Backend!get_node(f.to).taint

\* The tool's answer about a design it handles whole: a name is reported if and
\* only if the assignments and connections of the design carry a label to it
\* that is neither declared, nor inherited across no boundary, nor granted.
\* Boundaries are those of the code.  Where the comment on the pre-pass would let
\* more be inherited ("internal-variable capabilities are not boundary
\* blockers"), the code reports more: it never leaves out a name the comment's
\* rule would report.
VerdictOnDesign ==
    phase = "done" /\ Complete /\ LabelsKept /\ ColumnsKept =>
        LET reported == {n \in FlatNames : Backend!Reported(n)}
        IN  /\ reported = ExcessNames(Boundaries)
            /\ ExcessNames(StatedBoundaries) \subseteq reported

\* Both programs come to their end.
Completes == <>(phase = "done")
=============================================================================
