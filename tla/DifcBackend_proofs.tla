------------------------- MODULE DifcBackend_proofs -------------------------
(***************************************************************************)
(* Proofs about the backend for every set of names, labels and files.      *)
(* Where no name is listed twice, the labels, the taints and the verdicts  *)
(* of the backend are exactly the least closures of the input files.       *)
(***************************************************************************)
EXTENDS DifcBackendProps, SequenceTheorems, TLAPS

LEMMA GetNodeType ==
    ASSUME TypeOK, NEW n \in Names
    PROVE  get_node(n) \in Clause
<1>1. node_state[n] \in Seq(Clause)
  BY DEF TypeOK
<1>2. CASE Listed(n)
  BY <1>1, <1>2 DEF get_node, Listed
<1>3. CASE ~Listed(n)
  <2>1. <<>> \in Seq(Names)
    OBVIOUS
  <2>. QED  BY <1>3, <2>1, PublicAssumption DEF get_node, Clause
<1>. QED  BY <1>2, <1>3

LEMMA ReplaceType ==
    ASSUME TypeOK, NEW n \in Names, NEW c \in Clause
    PROVE  Replace(n, c) \in [Names -> Seq(Clause)]
<1>1. node_state[n] \in Seq(Clause)
  BY DEF TypeOK
<1>2. (IF node_state[n] = <<>> THEN <<>> ELSE Tail(node_state[n])) \in Seq(Clause)
  BY <1>1
<1>3. Append(IF node_state[n] = <<>> THEN <<>> ELSE Tail(node_state[n]), c)
        \in Seq(Clause)
  BY <1>2
<1>. QED  BY <1>3 DEF Replace, TypeOK

LEMMA StepLineType ==
    ASSUME TypeOK, pos <= Len(stepFile), stepFile[pos] # Malformed
    PROVE  stepFile[pos] \in StepLine
  BY StepFilesAssumption DEF TypeOK

LEMMA PcTaintType ==
    ASSUME TypeOK, NEW step \in StepLine
    PROVE  calculate_pc_taint(step) \subseteq Labels
<1>1. ASSUME NEW n \in Names PROVE get_node(n).taint \subseteq Labels
  BY GetNodeType DEF Clause
<1>. QED  BY <1>1 DEF calculate_pc_taint, parse_pc_tokens

\* Every reachable state has the types of TypeOK.
THEOREM TypeCorrect == Spec => []TypeOK
<1>1. Init => TypeOK
  <2>. SUFFICES ASSUME Init PROVE TypeOK
    OBVIOUS
  <2>1. <<>> \in Seq(Clause)
    OBVIOUS
  <2>2. node_state \in [Names -> Seq(Clause)]
    BY <2>1 DEF Init
  <2>3. inferred_label_reason \subseteq Reason /\ violations \subseteq Report
    BY DEF Init
  <2>4. pos \in Nat \ {0}
    BY DEF Init
  <2>6. changed \in BOOLEAN
    BY DEF Init
  <2>5. /\ nodeFile \in NodeFiles
        /\ stepFile \in StepFiles
        /\ phase \in {"load", "infer", "propagate", "done"}
    BY DEF Init
  <2>. QED  BY <2>2, <2>3, <2>4, <2>5, <2>6 DEF TypeOK
<1>2. TypeOK /\ [Next]_vars => TypeOK'
  <2>. SUFFICES ASSUME TypeOK, [Next]_vars PROVE TypeOK'
    OBVIOUS
  <2>1. CASE LoadLine
    <3>1. nodeFile[pos] # Malformed => nodeFile[pos] \in NodeLine
      BY <2>1, NodeFilesAssumption DEF TypeOK, LoadLine
    <3>2. node_state' \in [Names -> Seq(Clause)]
      <4>. DEFINE line == nodeFile[pos]
                  c == [basic |-> line.basic, pos |-> line.pos,
                        neg |-> line.neg, taint |-> line.basic, path |-> <<>>]
      <4>1. CASE line = Malformed
        BY <2>1, <4>1 DEF TypeOK, LoadLine
      <4>2. CASE line # Malformed
        <5>1. line.name \in Names /\ c \in Clause
          BY <3>1, <4>2 DEF NodeLine, Clause
        <5>2. node_state' = [node_state EXCEPT ![line.name] = Append(@, c)]
          BY <2>1, <4>2 DEF LoadLine
        <5>. HIDE DEF line, c
        <5>3. Append(node_state[line.name], c) \in Seq(Clause)
          BY <5>1 DEF TypeOK
        <5>. QED  BY <5>1, <5>2, <5>3 DEF TypeOK
      <4>. QED  BY <4>1, <4>2
    <3>3. pos' \in Nat \ {0}
      BY <2>1 DEF TypeOK, LoadLine
    <3>. QED  BY <2>1, <3>2, <3>3 DEF TypeOK, LoadLine
  <2>2. CASE InferEdge
    <3>. DEFINE from == stepFile[pos].from
                to == stepFile[pos].to
                mask == node_basic_mask(from)
    <3>1. stepFile[pos] \in StepLine
      BY <2>2, StepLineType DEF InferEdge
    <3>2. from \in Names /\ to \in Names
      BY <3>1 DEF StepLine
    <3>3. mask \subseteq Labels
      <4>1. get_node(from) \in Clause
        BY <3>2, GetNodeType
      <4>. QED  BY <4>1 DEF node_basic_mask, get_node, Clause
    <3>4. merge_inferred_basic(to, mask) \in [Names -> Seq(Clause)]
      <4>1. [get_node(to) EXCEPT !.basic = @ \cup mask, !.taint = @ \cup mask]
              \in Clause
        BY <3>2, <3>3, GetNodeType DEF Clause
      <4>2. [basic |-> mask, pos |-> {}, neg |-> {}, taint |-> mask,
             path |-> <<>>] \in Clause
        BY <3>3 DEF Clause
      <4>. HIDE DEF to, mask
      <4>. QED  BY <3>2, <4>1, <4>2, ReplaceType DEF merge_inferred_basic, to
    <3>5. [name |-> to, mask |-> mask, from |-> from] \in Reason
      BY <3>2, <3>3 DEF Reason
    <3>. QED  BY <2>2, <3>4, <3>5 DEF TypeOK, InferEdge
  <2>3. CASE propagate_logic
    <3>. DEFINE step == stepFile[pos]
                taint == get_node(step.to).taint \cup Combined(step)
                newPath == NewPath(step)
    <3>1. step \in StepLine
      BY <2>3, StepLineType DEF propagate_logic
    <3>2. step.from \in Names /\ step.to \in Names
      BY <3>1 DEF StepLine
    <3>3. get_node(step.from) \in Clause /\ get_node(step.to) \in Clause
      BY <3>2, GetNodeType
    <3>4. newPath \in Seq(Names)
      BY <3>2, <3>3 DEF Clause, NewPath
    <3>5. taint \subseteq Labels
      BY <3>1, <3>3, PcTaintType DEF Combined, Clause
    <3>6. [get_node(step.to) EXCEPT !.taint = taint, !.path = newPath] \in Clause
      BY <3>3, <3>4, <3>5 DEF Clause
    <3>7. node_state' \in [Names -> Seq(Clause)]
      <4>1. node_state' = Replace(step.to, [get_node(step.to) EXCEPT
                                              !.taint = taint, !.path = newPath])
        BY <2>3 DEF propagate_logic, update_node
      <4>. QED  BY <3>2, <3>6, <4>1, ReplaceType
    <3>8. [step |-> pos, path |-> <<step.to>> \o newPath] \in Report
      <4>1. <<step.to>> \o newPath \in Seq(Names)
        BY <3>2, <3>4
      <4>. QED  BY <4>1 DEF Report, TypeOK
    <3>9. violations' \subseteq Report
      BY <2>3, <3>8 DEF propagate_logic, TypeOK
    <3>10. pos' \in Nat \ {0} /\ changed' \in BOOLEAN
      BY <2>3 DEF propagate_logic, TypeOK
    <3>11. UNCHANGED <<nodeFile, stepFile, inferred_label_reason, phase>>
      BY <2>3 DEF propagate_logic
    <3>. QED  BY <3>7, <3>9, <3>10, <3>11 DEF TypeOK
  <2>4. CASE LoadEnd \/ InferSkip \/ InferEnd \/ ScanQuiet \/ Rescan
             \/ PropagationComplete
    <3>1. UNCHANGED <<nodeFile, stepFile, node_state, inferred_label_reason,
                      violations>>
      BY <2>4 DEF LoadEnd, InferSkip, InferEnd, ScanQuiet, Rescan,
                  PropagationComplete
    <3>2. pos' \in Nat \ {0}
      BY <2>4 DEF TypeOK, LoadEnd, InferSkip, InferEnd, ScanQuiet, Rescan,
                  PropagationComplete
    <3>3. phase' \in {"load", "infer", "propagate", "done"}
      BY <2>4 DEF TypeOK, LoadEnd, InferSkip, InferEnd, ScanQuiet, Rescan,
                  PropagationComplete
    <3>4. changed' \in BOOLEAN
      BY <2>4 DEF TypeOK, LoadEnd, InferSkip, InferEnd, ScanQuiet, Rescan,
                  PropagationComplete
    <3>. QED  BY <3>1, <3>2, <3>3, <3>4 DEF TypeOK
  <2>5. CASE Halted \/ UNCHANGED vars
    BY <2>5 DEF TypeOK, Halted, vars
  <2>. QED  BY <2>1, <2>2, <2>3, <2>4, <2>5 DEF Next, Load, Infer, Propagate
<1>. QED  BY <1>1, <1>2, PTL DEF Spec

-----------------------------------------------------------------------------
(* What a step may put into the database.                                  *)

\* Replace leaves every other name alone and keeps the later clauses of n.
LEMMA ReplaceClauses ==
    ASSUME TypeOK, NEW n \in Names, NEW c \in Clause,
           NEW x \in Names, NEW k \in DOMAIN Replace(n, c)[x]
    PROVE  \/ x = n /\ Replace(n, c)[x][k] = c
           \/ \E j \in DOMAIN node_state[x] :
                 Replace(n, c)[x][k] = node_state[x][j]
<1>. DEFINE s == node_state[n]
            t == IF s = <<>> THEN <<>> ELSE Tail(s)
<1>1. s \in Seq(Clause)
  BY DEF TypeOK
<1>2. CASE x # n
  BY <1>2 DEF Replace, TypeOK
<1>3. CASE x = n
  <2>1. Replace(n, c)[x] = Append(t, c)
    BY <1>3 DEF Replace, TypeOK
  <2>2. t \in Seq(Clause) /\ \A i \in 1..Len(t) : i + 1 \in 1..Len(s) /\ t[i] = s[i + 1]
    BY <1>1
  <2>. HIDE DEF t, s
  <2>3. k \in 1..(Len(t) + 1)
    BY <2>1, <2>2
  <2>4. CASE k = Len(t) + 1
    BY <2>1, <2>2, <2>4, <1>3
  <2>5. CASE k \in 1..Len(t)
    <3>1. Replace(n, c)[x][k] = s[k + 1]
      BY <2>1, <2>2, <2>5
    <3>2. k + 1 \in DOMAIN s
      BY <1>1, <2>2, <2>5
    <3>. QED  BY <1>3, <3>1, <3>2 DEF s
  <2>. QED  BY <2>2, <2>3, <2>4, <2>5
<1>. QED  BY <1>2, <1>3

\* The clause get_node reads is one of the name's, or the default.
LEMMA GetNodeClause ==
    ASSUME TypeOK, NEW n \in Names
    PROVE  \/ \E j \in DOMAIN node_state[n] : get_node(n) = node_state[n][j]
           \/ get_node(n) = [basic |-> {Public}, pos |-> {}, neg |-> {},
                             taint |-> {Public}, path |-> <<>>]
<1>1. node_state[n] \in Seq(Clause)
  BY DEF TypeOK
<1>2. CASE Listed(n)
  <2>1. 1 \in DOMAIN node_state[n] /\ Head(node_state[n]) = node_state[n][1]
    BY <1>1, <1>2 DEF Listed
  <2>. QED  BY <1>2, <2>1 DEF get_node
<1>3. CASE ~Listed(n)
  BY <1>3 DEF get_node
<1>. QED  BY <1>2, <1>3

\* load_nodes stores the line it read, behind the clauses already there.
LEMMA LoadLineClauses ==
    ASSUME TypeOK, LoadLine, NEW x \in Names, NEW k \in DOMAIN node_state'[x]
    PROVE  \/ \E j \in DOMAIN node_state[x] : node_state'[x][k] = node_state[x][j]
           \/ /\ pos \in NodeLines /\ nodeFile[pos].name = x
              /\ node_state'[x][k] =
                   [basic |-> nodeFile[pos].basic, pos |-> nodeFile[pos].pos,
                    neg |-> nodeFile[pos].neg, taint |-> nodeFile[pos].basic,
                    path |-> <<>>]
<1>. DEFINE line == nodeFile[pos]
            c == [basic |-> line.basic, pos |-> line.pos,
                  neg |-> line.neg, taint |-> line.basic, path |-> <<>>]
<1>1. node_state[x] \in Seq(Clause)
  BY DEF TypeOK
<1>2. pos \in DOMAIN nodeFile
  BY NodeFilesAssumption DEF TypeOK, LoadLine
<1>3. CASE line = Malformed
  BY <1>3 DEF LoadLine
<1>4. CASE line # Malformed /\ line.name # x
  BY <1>4 DEF LoadLine, TypeOK
<1>5. CASE line # Malformed /\ line.name = x
  <2>1. node_state'[x] = Append(node_state[x], c)
    BY <1>5 DEF LoadLine, TypeOK
  <2>. HIDE DEF c
  <2>2. k \in 1..(Len(node_state[x]) + 1)
    BY <1>1, <2>1
  <2>3. CASE k = Len(node_state[x]) + 1
    <3>1. node_state'[x][k] = c
      BY <1>1, <2>1, <2>3
    <3>. QED  BY <1>2, <1>5, <3>1 DEF NodeLines, c
  <2>4. CASE k \in 1..Len(node_state[x])
    BY <1>1, <2>1, <2>4
  <2>. QED  BY <1>1, <2>2, <2>3, <2>4
<1>. QED  BY <1>3, <1>4, <1>5

\* An inferred edge stores one clause for its target: the old labels and the
\* source's, the old capabilities.
LEMMA InferEdgeClause ==
    ASSUME TypeOK, InferEdge
    PROVE  \E n \in Names, mask \in SUBSET Labels, c \in Clause :
             /\ node_state' = Replace(n, c)
             /\ \/ /\ ~Listed(n)
                   /\ c = [basic |-> mask, pos |-> {}, neg |-> {},
                           taint |-> mask, path |-> <<>>]
                \/ /\ Listed(n)
                   /\ c = [get_node(n) EXCEPT !.basic = @ \cup mask,
                                              !.taint = @ \cup mask]
<1>. DEFINE from == stepFile[pos].from
            to == stepFile[pos].to
            mask == node_basic_mask(from)
            new == IF Listed(to)
                   THEN [get_node(to) EXCEPT !.basic = @ \cup mask,
                                             !.taint = @ \cup mask]
                   ELSE [basic |-> mask, pos |-> {}, neg |-> {},
                         taint |-> mask, path |-> <<>>]
<1>1. stepFile[pos] \in StepLine
  BY StepLineType DEF InferEdge
<1>2. from \in Names /\ to \in Names
  BY <1>1 DEF StepLine
<1>3. mask \in SUBSET Labels
  <2>1. get_node(from) \in Clause
    BY <1>2, GetNodeType
  <2>. QED  BY <2>1 DEF node_basic_mask, get_node, Clause
<1>4. new \in Clause
  <2>1. CASE Listed(to)
    BY <1>2, <1>3, <2>1, GetNodeType DEF Clause
  <2>2. CASE ~Listed(to)
    BY <1>3, <2>2 DEF Clause
  <2>. QED  BY <2>1, <2>2
<1>5. node_state' = Replace(to, new)
  BY DEF InferEdge, merge_inferred_basic
<1>. HIDE DEF to, mask
<1>. QED  BY <1>2, <1>3, <1>4, <1>5

\* A flow stores one clause for its target: the old labels, capabilities and
\* taint with the combined taint added.
LEMMA FlowClause ==
    ASSUME TypeOK, propagate_logic
    PROVE  LET step == stepFile[pos]
               new == [get_node(step.to) EXCEPT
                         !.taint = get_node(step.to).taint \cup Combined(step),
                         !.path = NewPath(step)]
           IN /\ step \in StepLine
              /\ new \in Clause
              /\ node_state' = Replace(step.to, new)
<1>. DEFINE step == stepFile[pos]
            taint == get_node(step.to).taint \cup Combined(step)
            newPath == NewPath(step)
<1>1. step \in StepLine
  BY StepLineType DEF propagate_logic
<1>2. step.from \in Names /\ step.to \in Names
  BY <1>1 DEF StepLine
<1>3. get_node(step.from) \in Clause /\ get_node(step.to) \in Clause
  BY <1>2, GetNodeType
<1>4. newPath \in Seq(Names)
  BY <1>2, <1>3 DEF Clause, NewPath
<1>5. taint \subseteq Labels
  BY <1>1, <1>3, PcTaintType DEF Combined, Clause
<1>6. [get_node(step.to) EXCEPT !.taint = taint, !.path = newPath] \in Clause
  BY <1>3, <1>4, <1>5 DEF Clause
<1>7. node_state' = Replace(step.to, [get_node(step.to) EXCEPT
                                        !.taint = taint, !.path = newPath])
  BY DEF propagate_logic, update_node
<1>. QED  BY <1>1, <1>6, <1>7

\* The remaining steps leave the database alone.
LEMMA QuietSteps ==
    ASSUME [Next]_vars, ~LoadLine, ~InferEdge, ~propagate_logic
    PROVE  UNCHANGED <<nodeFile, stepFile, node_state, violations>>
<1>1. CASE LoadEnd \/ InferSkip \/ InferEnd \/ ScanQuiet \/ Rescan
           \/ PropagationComplete
  BY <1>1 DEF LoadEnd, InferSkip, InferEnd, ScanQuiet, Rescan,
              PropagationComplete
<1>2. CASE Halted \/ UNCHANGED vars
  BY <1>2 DEF Halted, vars
<1>. QED  BY <1>1, <1>2 DEF Next, Load, Infer, Propagate

-----------------------------------------------------------------------------
(* Safety.                                                                 *)

\* The pre-pass and the scans rewrite clauses but never invent a capability.
THEOREM CapabilitiesNeverInvented == Spec => []CapabilitiesDeclared
<1>1. Init => CapabilitiesDeclared
  BY DEF Init, CapabilitiesDeclared
<1>2. TypeOK /\ CapabilitiesDeclared /\ [Next]_vars => CapabilitiesDeclared'
  <2>. SUFFICES ASSUME TypeOK, CapabilitiesDeclared, [Next]_vars,
                       NEW x \in Names, NEW k \in DOMAIN node_state'[x]
                PROVE  LET c == node_state'[x][k] IN
                         \/ c.pos = {} /\ c.neg = {}
                         \/ \E i \in NodeLines' : /\ nodeFile'[i].name = x
                                                  /\ nodeFile'[i].pos = c.pos
                                                  /\ nodeFile'[i].neg = c.neg
    BY DEF CapabilitiesDeclared
  <2>. DEFINE Declares(c) ==
                \/ c.pos = {} /\ c.neg = {}
                \/ \E i \in NodeLines : /\ nodeFile[i].name = x
                                        /\ nodeFile[i].pos = c.pos
                                        /\ nodeFile[i].neg = c.neg
  <2>1. \A j \in DOMAIN node_state[x] : Declares(node_state[x][j])
    BY DEF CapabilitiesDeclared
  <2>2. nodeFile' = nodeFile
    BY DEF Next, Load, Infer, Propagate, LoadLine, LoadEnd, InferEdge,
           InferSkip, InferEnd, propagate_logic, ScanQuiet, Rescan,
           PropagationComplete, Halted, vars
  <2>3. NodeLines' = NodeLines
    BY <2>2 DEF NodeLines
  <2>4. Declares(get_node(x))
    BY <2>1, GetNodeClause
  <2>5. Declares(node_state'[x][k])
    <3>1. CASE LoadLine
      <4>1. pos \in NodeLines /\ nodeFile[pos].name = x
              => Declares([basic |-> nodeFile[pos].basic,
                           pos |-> nodeFile[pos].pos, neg |-> nodeFile[pos].neg,
                           taint |-> nodeFile[pos].basic, path |-> <<>>])
        OBVIOUS
      <4>. HIDE DEF Declares
      <4>. QED  BY <2>1, <3>1, <4>1, LoadLineClauses
    <3>2. CASE InferEdge
      <4>1. PICK n \in Names, mask \in SUBSET Labels, c \in Clause :
               /\ node_state' = Replace(n, c)
               /\ \/ /\ ~Listed(n)
                     /\ c = [basic |-> mask, pos |-> {}, neg |-> {},
                             taint |-> mask, path |-> <<>>]
                  \/ /\ Listed(n)
                     /\ c = [get_node(n) EXCEPT !.basic = @ \cup mask,
                                                !.taint = @ \cup mask]
        BY <3>2, InferEdgeClause
      <4>2. get_node(n) \in Clause
        BY GetNodeType
      <4>3. x = n => Declares(c)
        <5>1. CASE ~Listed(n)
          BY <4>1, <5>1
        <5>2. CASE Listed(n)
          <6>1. c.pos = get_node(n).pos /\ c.neg = get_node(n).neg
            BY <4>1, <4>2, <5>2 DEF Clause
          <6>. QED  BY <2>4, <6>1
        <5>. QED  BY <5>1, <5>2
      <4>. HIDE DEF Declares
      <4>. QED  BY <2>1, <4>1, <4>3, ReplaceClauses
    <3>3. CASE propagate_logic
      <4>. DEFINE step == stepFile[pos]
                  c == [get_node(step.to) EXCEPT
                          !.taint = get_node(step.to).taint \cup Combined(step),
                          !.path = NewPath(step)]
      <4>1. step \in StepLine /\ c \in Clause /\ node_state' = Replace(step.to, c)
        BY <3>3, FlowClause
      <4>2. step.to \in Names
        BY <4>1 DEF StepLine
      <4>3. get_node(step.to) \in Clause
        BY <4>2, GetNodeType
      <4>4. x = step.to => Declares(c)
        <5>1. c.pos = get_node(step.to).pos /\ c.neg = get_node(step.to).neg
          BY <4>3 DEF Clause
        <5>. QED  BY <2>4, <5>1
      <4>. HIDE DEF Declares, step, c
      <4>. QED  BY <2>1, <4>1, <4>2, <4>4, ReplaceClauses
    <3>4. CASE ~LoadLine /\ ~InferEdge /\ ~propagate_logic
      <4>1. node_state' = node_state
        BY <3>4, QuietSteps
      <4>. QED  BY <2>1, <4>1
    <3>. QED  BY <3>1, <3>2, <3>3, <3>4
  <2>. QED  BY <2>2, <2>3, <2>5
<1>. QED  BY <1>1, <1>2, TypeCorrect, PTL DEF Spec

\* Checking only the step that changes a taint misses no excess: whenever a
\* clause's taint leaves its allowance, its name has been reported.
THEOREM NoExcessUnreported == Spec => []ExcessReported
<1>. DEFINE Fits(x, c) == ~(c.taint \subseteq c.basic \cup c.pos) => Reported(x)
<1>1. Init => ExcessReported
  BY DEF Init, ExcessReported
<1>2. TypeOK /\ ExcessReported /\ [Next]_vars => ExcessReported'
  <2>. SUFFICES ASSUME TypeOK, ExcessReported, [Next]_vars,
                       NEW x \in Names, NEW k \in DOMAIN node_state'[x],
                       ~(node_state'[x][k].taint \subseteq
                           node_state'[x][k].basic \cup node_state'[x][k].pos)
                PROVE  Reported(x)'
    BY DEF ExcessReported
  <2>1. \A j \in DOMAIN node_state[x] : Fits(x, node_state[x][j])
    BY DEF ExcessReported
  <2>2. Fits(x, get_node(x))
    BY <2>1, GetNodeClause
  <2>3. violations \subseteq violations'
    BY DEF Next, Load, Infer, Propagate, LoadLine, LoadEnd, InferEdge,
           InferSkip, InferEnd, propagate_logic, ScanQuiet, Rescan,
           PropagationComplete, Halted, vars
  <2>4. Reported(x) => Reported(x)'
    BY <2>3 DEF Reported
  <2>5. CASE LoadLine
    <3>1. Fits(x, node_state'[x][k])
      <4>. HIDE DEF Fits
      <4>1. Fits(x, [basic |-> nodeFile[pos].basic, pos |-> nodeFile[pos].pos,
                     neg |-> nodeFile[pos].neg, taint |-> nodeFile[pos].basic,
                     path |-> <<>>])
        BY DEF Fits
      <4>. QED  BY <2>1, <2>5, <4>1, LoadLineClauses
    <3>. QED  BY <2>4, <3>1
  <2>6. CASE InferEdge
    <3>1. PICK n \in Names, mask \in SUBSET Labels, c \in Clause :
             /\ node_state' = Replace(n, c)
             /\ \/ /\ ~Listed(n)
                   /\ c = [basic |-> mask, pos |-> {}, neg |-> {},
                           taint |-> mask, path |-> <<>>]
                \/ /\ Listed(n)
                   /\ c = [get_node(n) EXCEPT !.basic = @ \cup mask,
                                              !.taint = @ \cup mask]
      BY <2>6, InferEdgeClause
    <3>2. x = n => Fits(x, c)
      <4>1. CASE ~Listed(n)
        BY <3>1, <4>1
      <4>2. CASE Listed(n)
        <5>1. get_node(n) \in Clause
          BY GetNodeType
        <5>2. /\ c.basic = get_node(n).basic \cup mask
              /\ c.taint = get_node(n).taint \cup mask
              /\ c.pos = get_node(n).pos
          BY <3>1, <4>2, <5>1 DEF Clause
        <5>. QED  BY <2>2, <5>2
      <4>. QED  BY <4>1, <4>2
    <3>3. Fits(x, node_state'[x][k])
      <4>. HIDE DEF Fits
      <4>. QED  BY <2>1, <3>1, <3>2, ReplaceClauses
    <3>. QED  BY <2>4, <3>3
  <2>7. CASE propagate_logic
    <3>. DEFINE step == stepFile[pos]
                newPath == NewPath(step)
                c == [get_node(step.to) EXCEPT
                        !.taint = get_node(step.to).taint \cup Combined(step),
                        !.path = newPath]
    <3>1. step \in StepLine /\ c \in Clause /\ node_state' = Replace(step.to, c)
      BY <2>7, FlowClause
    <3>2. step.from \in Names /\ step.to \in Names
      BY <3>1 DEF StepLine
    <3>3. CASE x = step.to /\ ~(Combined(step) \subseteq Allow(step.to))
      <4>1. newPath \in Seq(Names)
        BY <3>2, GetNodeType DEF Clause, NewPath
      <4>2. Head(<<step.to>> \o newPath) = step.to
        BY <3>2, <4>1
      <4>3. [step |-> pos, path |-> <<step.to>> \o newPath] \in violations'
        BY <2>7, <3>3 DEF propagate_logic
      <4>. HIDE DEF newPath
      <4>. QED  BY <3>3, <4>2, <4>3 DEF Reported
    <3>4. CASE x = step.to /\ Combined(step) \subseteq Allow(step.to)
      <4>1. get_node(step.to) \in Clause
        BY <3>2, GetNodeType
      <4>2. /\ c.basic = get_node(x).basic
            /\ c.taint = get_node(x).taint \cup Combined(step)
            /\ c.pos = get_node(x).pos
        BY <3>4, <4>1 DEF Clause
      <4>3. Fits(x, c)
        BY <2>2, <3>4, <4>2 DEF Allow
      <4>4. Fits(x, node_state'[x][k])
        <5>. HIDE DEF Fits, c, step
        <5>. QED  BY <2>1, <3>1, <3>2, <4>3, ReplaceClauses
      <4>. QED  BY <2>4, <4>4
    <3>5. CASE x # step.to
      <4>1. Fits(x, node_state'[x][k])
        <5>. HIDE DEF Fits, c, step
        <5>. QED  BY <2>1, <3>1, <3>2, <3>5, ReplaceClauses
      <4>. QED  BY <2>4, <4>1
    <3>. QED  BY <3>3, <3>4, <3>5
  <2>8. CASE ~LoadLine /\ ~InferEdge /\ ~propagate_logic
    <3>1. node_state' = node_state
      BY <2>8, QuietSteps
    <3>. QED  BY <2>1, <2>4, <3>1
  <2>. QED  BY <2>5, <2>6, <2>7, <2>8
<1>. QED  BY <1>1, <1>2, TypeCorrect, PTL DEF Spec

-----------------------------------------------------------------------------
(* A scan that changed nothing.                                            *)

Quiet(i) == stepFile[i] # Malformed => ~Flows(stepFile[i])

\* A scan without a change so far has been quiet on every line it passed, and
\* the last one on all of them.
ScanInv ==
    /\ phase = "propagate" /\ ~changed =>
         \A i \in DOMAIN stepFile : i < pos => Quiet(i)
    /\ phase = "done" => \A i \in DOMAIN stepFile : Quiet(i)

\* Lines are quiet or not by the database alone.
LEMMA QuietKept ==
    ASSUME UNCHANGED <<stepFile, node_state>>, NEW i \in DOMAIN stepFile
    PROVE  Quiet(i)' <=> Quiet(i)
<1>1. \A n \in Names : get_node(n)' = get_node(n)
  BY DEF get_node, Listed
<1>. QED
  BY <1>1 DEF Quiet, Flows, Combined, calculate_pc_taint, parse_pc_tokens,
              get_node, Listed

\* When the scans stop, the taints are closed under every recorded flow, for
\* all files, with cycles and with several clauses for one name: the last scan
\* looked at every line while the database stayed the same.
THEOREM FixpointReached == Spec => []ClosedAtEnd
<1>1. Init => ScanInv
  BY DEF Init, ScanInv
<1>2. TypeOK /\ ScanInv /\ [Next]_vars => ScanInv'
  <2>. SUFFICES ASSUME TypeOK, ScanInv, [Next]_vars PROVE ScanInv'
    OBVIOUS
  <2>1. CASE Load \/ InferEdge \/ InferSkip
    BY <2>1 DEF Load, LoadLine, LoadEnd, InferEdge, InferSkip, ScanInv
  <2>2. CASE InferEnd
    <3>1. \A i \in DOMAIN stepFile' : ~(i < pos')
      BY <2>2, StepFilesAssumption DEF InferEnd, TypeOK
    <3>. QED  BY <2>2, <3>1 DEF InferEnd, ScanInv
  <2>3. CASE propagate_logic
    BY <2>3 DEF propagate_logic, ScanInv
  <2>4. CASE ScanQuiet
    <3>1. UNCHANGED <<stepFile, node_state>> /\ phase' = "propagate"
      BY <2>4 DEF ScanQuiet
    <3>2. ASSUME ~changed', NEW i \in DOMAIN stepFile', i < pos'
          PROVE  Quiet(i)'
      <4>1. i \in DOMAIN stepFile /\ i \in Nat
        BY <3>1, StepFilesAssumption DEF TypeOK
      <4>2. i < pos \/ i = pos
        BY <2>4, <3>2, <4>1 DEF ScanQuiet, TypeOK
      <4>3. Quiet(i)
        BY <2>4, <3>2, <4>1, <4>2 DEF ScanQuiet, ScanInv, Quiet
      <4>. QED  BY <3>1, <4>1, <4>3, QuietKept
    <3>. QED  BY <3>1, <3>2 DEF ScanInv
  <2>5. CASE Rescan
    <3>1. \A i \in DOMAIN stepFile' : ~(i < pos')
      BY <2>5, StepFilesAssumption DEF Rescan, TypeOK
    <3>. QED  BY <2>5, <3>1 DEF Rescan, ScanInv
  <2>6. CASE PropagationComplete
    <3>1. UNCHANGED <<stepFile, node_state>> /\ phase' = "done"
      BY <2>6 DEF PropagationComplete
    <3>2. \A i \in DOMAIN stepFile : i < pos
      BY <2>6, StepFilesAssumption DEF PropagationComplete, TypeOK
    <3>3. \A i \in DOMAIN stepFile : Quiet(i)
      BY <2>6, <3>2 DEF PropagationComplete, ScanInv
    <3>4. \A i \in DOMAIN stepFile : Quiet(i)'
      BY <3>1, <3>3, QuietKept
    <3>. QED  BY <3>1, <3>4 DEF ScanInv
  <2>7. CASE Halted \/ UNCHANGED vars
    <3>1. UNCHANGED vars
      BY <2>7 DEF Halted
    <3>2. \A i \in DOMAIN stepFile : Quiet(i)' <=> Quiet(i)
      BY <3>1, QuietKept DEF vars
    <3>. QED  BY <3>1, <3>2 DEF ScanInv, vars
  <2>. QED
    BY <2>1, <2>2, <2>3, <2>4, <2>5, <2>6, <2>7 DEF Next, Infer, Propagate
<1>3. ScanInv => ClosedAtEnd
  <2>. SUFFICES ASSUME ScanInv, phase = "done", NEW e \in FlowEdges
                PROVE  get_node(e[1]).taint \subseteq get_node(e[2]).taint
    BY DEF ClosedAtEnd
  <2>1. PICK i \in StepLines :
           /\ stepFile[i].from # NL
           /\ stepFile[i].to = e[2]
           /\ \/ stepFile[i].from = e[1]
              \/ e[1] \in parse_pc_tokens(stepFile[i].pc)
    BY DEF FlowEdges
  <2>2. Combined(stepFile[i]) \subseteq get_node(e[2]).taint
    BY <2>1 DEF ScanInv, Quiet, Flows, StepLines
  <2>3. get_node(e[1]).taint \subseteq Combined(stepFile[i])
    BY <2>1 DEF Combined, calculate_pc_taint
  <2>. QED  BY <2>2, <2>3
<1>. QED  BY <1>1, <1>2, <1>3, TypeCorrect, PTL DEF Spec

-----------------------------------------------------------------------------
(* The paths of the reports.                                               *)

Chain(path) ==
    \A k \in 1..(Len(path) - 1) : Recorded(path[k + 1], path[k])

\* Every clause remembers a chain that ends at its name.
PathInv ==
    /\ \A n \in Names : \A k \in DOMAIN node_state[n] :
          Chain(<<n>> \o node_state[n][k].path)
    /\ \A v \in violations : Chain(v.path)

\* A recorded step in front of a chain makes a chain.
LEMMA ChainExtended ==
    ASSUME NEW from \in Names, NEW to \in Names, NEW path \in Seq(Names),
           Recorded(from, to), Chain(<<from>> \o path)
    PROVE  Chain(<<to>> \o (<<from>> \o path))
<1>. DEFINE old == <<from>> \o path
            new == <<to>> \o old
<1>1. old \in Seq(Names) /\ Len(old) = Len(path) + 1 /\ old[1] = from
  OBVIOUS
<1>2. /\ new \in Seq(Names)
      /\ Len(new) = Len(old) + 1
      /\ new[1] = to
      /\ \A k \in 1..Len(old) : new[k + 1] = old[k]
  <2>. HIDE DEF old
  <2>. QED  BY <1>1
<1>3. ASSUME NEW k \in 1..(Len(new) - 1) PROVE Recorded(new[k + 1], new[k])
  <2>1. CASE k = 1
    <3>1. new[2] = from
      <4>. HIDE DEF new, old
      <4>. QED  BY <1>1, <1>2
    <3>. HIDE DEF new, old
    <3>. QED  BY <1>2, <2>1, <3>1
  <2>2. CASE k # 1
    <3>. HIDE DEF new
    <3>1. k - 1 \in 1..(Len(old) - 1) /\ k \in 1..Len(old)
      <4>. HIDE DEF old
      <4>. QED  BY <1>1, <1>2, <1>3, <2>2
    <3>2. new[k + 1] = old[k]
      BY <1>2, <3>1
    <3>3. new[k] = old[k - 1]
      <4>. HIDE DEF old
      <4>. QED  BY <1>1, <1>2, <3>1
    <3>4. Recorded(old[(k - 1) + 1], old[k - 1])
      BY <3>1 DEF Chain
    <3>5. (k - 1) + 1 = k
      BY <1>3
    <3>. HIDE DEF old
    <3>. QED  BY <3>2, <3>3, <3>4, <3>5
  <2>. QED  BY <2>1, <2>2
<1>. HIDE DEF new, old
<1>4. Chain(new)
  BY <1>3 DEF Chain
<1>. QED  BY <1>4 DEF new, old

\* A name alone is a chain.
LEMMA ChainOfOne ==
    ASSUME NEW n \in Names PROVE Chain(<<n>> \o <<>>)
<1>1. Len(<<n>> \o <<>>) = 1
  OBVIOUS
<1>. QED  BY <1>1 DEF Chain

\* Every path printed with a report is a chain of recorded steps that ends at
\* the reported name, although a path is put together from what other lines,
\* read in other scans, have left in the database.
THEOREM PathsAreRecorded == Spec => []ReportedPathsFlow
<1>1. Init => PathInv
  BY DEF Init, PathInv
<1>2. TypeOK /\ PathInv /\ [Next]_vars => PathInv'
  <2>. SUFFICES ASSUME TypeOK, PathInv, [Next]_vars PROVE PathInv'
    OBVIOUS
  <2>0. stepFile' = stepFile
    BY DEF Next, Load, Infer, Propagate, LoadLine, LoadEnd, InferEdge,
           InferSkip, InferEnd, propagate_logic, ScanQuiet, Rescan,
           PropagationComplete, Halted, vars
  <2>1. \A path : Chain(path)' <=> Chain(path)
    BY <2>0 DEF Chain, Recorded, StepLines
  <2>2. \A n \in Names : Chain(<<n>> \o get_node(n).path)
    <3>. SUFFICES ASSUME NEW n \in Names
                  PROVE  Chain(<<n>> \o get_node(n).path)
      OBVIOUS
    <3>1. CASE \E j \in DOMAIN node_state[n] : get_node(n) = node_state[n][j]
      BY <3>1 DEF PathInv
    <3>2. CASE get_node(n) = [basic |-> {Public}, pos |-> {}, neg |-> {},
                              taint |-> {Public}, path |-> <<>>]
      BY <3>2, ChainOfOne
    <3>. QED  BY <3>1, <3>2, GetNodeClause
  <2>3. SUFFICES /\ \A x \in Names : \A k \in DOMAIN node_state'[x] :
                       Chain(<<x>> \o node_state'[x][k].path)
                 /\ \A v \in violations' : Chain(v.path)
    BY <2>1 DEF PathInv
  <2>4. CASE LoadLine
    <3>1. violations' = violations
      BY <2>4 DEF LoadLine
    <3>2. ASSUME NEW x \in Names, NEW k \in DOMAIN node_state'[x]
          PROVE  Chain(<<x>> \o node_state'[x][k].path)
      <4>1. CASE \E j \in DOMAIN node_state[x] :
                    node_state'[x][k] = node_state[x][j]
        BY <4>1 DEF PathInv
      <4>2. CASE node_state'[x][k].path = <<>>
        BY <4>2, ChainOfOne
      <4>. QED  BY <2>4, <3>2, <4>1, <4>2, LoadLineClauses
    <3>. QED  BY <3>1, <3>2 DEF PathInv
  <2>5. CASE InferEdge
    <3>1. violations' = violations
      BY <2>5 DEF InferEdge
    <3>2. PICK n \in Names, mask \in SUBSET Labels, c \in Clause :
             /\ node_state' = Replace(n, c)
             /\ \/ /\ ~Listed(n)
                   /\ c = [basic |-> mask, pos |-> {}, neg |-> {},
                           taint |-> mask, path |-> <<>>]
                \/ /\ Listed(n)
                   /\ c = [get_node(n) EXCEPT !.basic = @ \cup mask,
                                              !.taint = @ \cup mask]
      BY <2>5, InferEdgeClause
    <3>3. Chain(<<n>> \o c.path)
      <4>1. CASE ~Listed(n)
        <5>1. c.path = <<>>
          BY <3>2, <4>1
        <5>. QED  BY <5>1, ChainOfOne
      <4>2. CASE Listed(n)
        <5>1. get_node(n) \in Clause
          BY GetNodeType
        <5>2. c.path = get_node(n).path
          BY <3>2, <4>2, <5>1 DEF Clause
        <5>. QED  BY <2>2, <5>2
      <4>. QED  BY <4>1, <4>2
    <3>4. ASSUME NEW x \in Names, NEW k \in DOMAIN node_state'[x]
          PROVE  Chain(<<x>> \o node_state'[x][k].path)
      <4>1. \/ x = n /\ node_state'[x][k] = c
            \/ \E j \in DOMAIN node_state[x] :
                  node_state'[x][k] = node_state[x][j]
        BY <3>2, <3>4, ReplaceClauses
      <4>. QED  BY <3>3, <4>1 DEF PathInv
    <3>. QED  BY <3>1, <3>4 DEF PathInv
  <2>6. CASE propagate_logic
    <3>. DEFINE step == stepFile[pos]
                path == get_node(step.from).path
                c == [get_node(step.to) EXCEPT
                        !.taint = get_node(step.to).taint \cup Combined(step),
                        !.path = NewPath(step)]
    <3>1. step \in StepLine /\ c \in Clause /\ node_state' = Replace(step.to, c)
      BY <2>6, FlowClause
    <3>2. step.from \in Names /\ step.to \in Names
      BY <3>1 DEF StepLine
    <3>3. /\ path \in Seq(Names)
          /\ get_node(step.to) \in Clause
      BY <3>2, GetNodeType DEF Clause
    <3>4. Recorded(step.from, step.to)
      <4>1. pos \in DOMAIN stepFile
        BY <2>6, StepFilesAssumption DEF TypeOK, propagate_logic
      <4>. QED  BY <2>6, <4>1 DEF propagate_logic, Recorded, StepLines
    <3>5. Chain(<<step.to>> \o NewPath(step))
      <4>1. Chain(<<step.from>> \o path)
        BY <2>2, <3>2
      <4>2. Chain(<<step.to>> \o (<<step.from>> \o path))
        <5>. HIDE DEF step, path
        <5>. QED  BY <3>2, <3>3, <3>4, <4>1, ChainExtended
      <4>. QED  BY <4>2 DEF NewPath
    <3>6. c.path = NewPath(step)
      BY <3>3 DEF Clause
    <3>7. ASSUME NEW v \in violations' PROVE Chain(v.path)
      <4>1. \/ v \in violations
            \/ v = [step |-> pos, path |-> <<step.to>> \o NewPath(step)]
        BY <2>6, <3>7 DEF propagate_logic
      <4>2. v \notin violations => v.path = <<step.to>> \o NewPath(step)
        BY <4>1
      <4>. HIDE DEF step
      <4>. QED  BY <3>5, <4>2 DEF PathInv
    <3>8. ASSUME NEW x \in Names, NEW k \in DOMAIN node_state'[x]
          PROVE  Chain(<<x>> \o node_state'[x][k].path)
      <4>. HIDE DEF step, c
      <4>1. \/ x = step.to /\ node_state'[x][k] = c
            \/ \E j \in DOMAIN node_state[x] :
                  node_state'[x][k] = node_state[x][j]
        BY <3>1, <3>2, <3>8, ReplaceClauses
      <4>. QED  BY <3>5, <3>6, <4>1 DEF PathInv
    <3>. QED  BY <3>7, <3>8
  <2>7. CASE ~LoadLine /\ ~InferEdge /\ ~propagate_logic
    <3>1. node_state' = node_state /\ violations' = violations
      BY <2>7, QuietSteps
    <3>. QED  BY <3>1 DEF PathInv
  <2>. QED  BY <2>4, <2>5, <2>6, <2>7
<1>3. PathInv => ReportedPathsFlow
  BY DEF PathInv, ReportedPathsFlow, Chain, Recorded
<1>. QED  BY <1>1, <1>2, <1>3, TypeCorrect, PTL DEF Spec

-----------------------------------------------------------------------------
(* Closures.                                                               *)

\* A set that holds the labels and is closed holds all that is carried.
LEMMA CarriedLeast ==
    ASSUME NEW holds, NEW edges, NEW all \in SUBSET LabelPairs, holds \subseteq all,
           \A e \in edges, l \in Labels : <<e[1], l>> \in all => <<e[2], l>> \in all
    PROVE  Carried(holds, edges) \subseteq all
<1>. SUFFICES ASSUME NEW p \in Carried(holds, edges) PROVE p \in all
  OBVIOUS
<1>1. PICK n \in Names, l \in Labels : p = <<n, l>>
  BY DEF Carried, LabelPairs
<1>. DEFINE S == {m \in Names : <<m, l>> \in all}
            src == {m \in Names : <<m, l>> \in holds}
<1>2. n \in Closure(src, edges)
  BY <1>1 DEF Carried
<1>3. \A m, k : <<m, k>> \in all => m \in Names
  BY DEF LabelPairs
<1>4. src \subseteq S /\ \A e \in edges : e[1] \in S => e[2] \in S
  BY <1>3
<1>5. S \in SUBSET Names
  OBVIOUS
<1>6. n \in S
  BY <1>2, <1>4, <1>5 DEF Closure
<1>. QED  BY <1>1, <1>6

\* What is held is carried.
LEMMA CarriedBase ==
    ASSUME NEW holds, NEW edges, NEW n \in Names, NEW l \in Labels, <<n, l>> \in holds
    PROVE  <<n, l>> \in Carried(holds, edges)
<1>1. <<n, l>> \in LabelPairs
  BY DEF LabelPairs
<1>2. n \in Closure({m \in Names : <<m, l>> \in holds}, edges)
  BY DEF Closure
<1>. QED  BY <1>1, <1>2 DEF Carried

\* An edge carries a label on.
LEMMA CarriedStep ==
    ASSUME NEW holds, NEW edges, NEW a \in Names, NEW b \in Names, NEW l \in Labels,
           <<a, b>> \in edges, <<a, l>> \in Carried(holds, edges)
    PROVE  <<b, l>> \in Carried(holds, edges)
<1>. DEFINE src == {m \in Names : <<m, l>> \in holds}
<1>1. <<b, l>> \in LabelPairs
  BY DEF LabelPairs
<1>2. a \in Closure(src, edges)
  BY DEF Carried
<1>3. b \in Closure(src, edges)
  <2>. SUFFICES ASSUME NEW S \in SUBSET Names, src \subseteq S,
                       \A e \in edges : e[1] \in S => e[2] \in S
                PROVE  b \in S
    BY DEF Closure
  <2>1. a \in S
    BY <1>2 DEF Closure
  <2>. QED  BY <2>1
<1>. QED  BY <1>1, <1>3 DEF Carried

\* More edges carry no less.
LEMMA CarriedMore ==
    ASSUME NEW holds, NEW few, NEW many, few \subseteq many
    PROVE  Carried(holds, few) \subseteq Carried(holds, many)
<1>. SUFFICES ASSUME NEW p \in Carried(holds, few) PROVE p \in Carried(holds, many)
  OBVIOUS
<1>1. \A src : Closure(src, few) \subseteq Closure(src, many)
  BY DEF Closure
<1>. QED  BY <1>1 DEF Carried

\* The closures depend on the input files alone.
LEMMA InputsFixed ==
    ASSUME UNCHANGED <<nodeFile, stepFile>>
    PROVE  /\ NodeLines' = NodeLines /\ StepLines' = StepLines
           /\ UniqueNames' <=> UniqueNames
           /\ \A n \in Names : /\ Declared(n)' <=> Declared(n)
                               /\ DeclaredBasic(n)' = DeclaredBasic(n)
                               /\ DeclaredPos(n)' = DeclaredPos(n)
           /\ Inherited' = Inherited /\ BaseLabel' = BaseLabel
           /\ FlowEdges' = FlowEdges /\ ReachingTaint' = ReachingTaint
<1>1. NodeLines' = NodeLines /\ StepLines' = StepLines
  BY DEF NodeLines, StepLines
<1>2. UniqueNames' <=> UniqueNames
  BY <1>1 DEF UniqueNames
<1>3. \A n : Declared(n)' <=> Declared(n)
  BY <1>1 DEF Declared
<1>4. \A n : DeclaredBasic(n)' = DeclaredBasic(n) /\ DeclaredPos(n)' = DeclaredPos(n)
  BY <1>1 DEF DeclaredBasic, DeclaredPos
<1>5. /\ \A a, b : BlockedByBoundary(a, b)' <=> BlockedByBoundary(a, b)
      /\ \A a, b : BlockedByOwn(a, b)' <=> BlockedByOwn(a, b)
      /\ \A a, b : Recorded(a, b)' <=> Recorded(a, b)
  <2>1. ASSUME NEW a, NEW b PROVE BlockedByBoundary(a, b)' <=> BlockedByBoundary(a, b)
    BY <1>4 DEF BlockedByBoundary
  <2>2. ASSUME NEW a, NEW b PROVE BlockedByOwn(a, b)' <=> BlockedByOwn(a, b)
    BY <1>4 DEF BlockedByOwn
  <2>3. ASSUME NEW a, NEW b PROVE Recorded(a, b)' <=> Recorded(a, b)
    BY <1>1 DEF Recorded
  <2>. QED  BY <2>1, <2>2, <2>3
<1>6. InferEdges' = InferEdges
  <2>1. StatedEdges' = StatedEdges
    BY <1>5 DEF StatedEdges
  <2>. QED  BY <1>5, <2>1 DEF InferEdges
<1>7. Inherited' = Inherited
  BY <1>4, <1>6 DEF Inherited, DeclaredLabels, Carried, Closure
<1>8. BaseLabel' = BaseLabel
  BY <1>3, <1>7 DEF BaseLabel, LabelsOf
<1>9. FlowEdges' = FlowEdges
  BY <1>1 DEF FlowEdges
<1>10. ReachingTaint' = ReachingTaint
  BY <1>8, <1>9 DEF ReachingTaint, Carried, Closure
<1>. QED  BY <1>1, <1>2, <1>3, <1>4, <1>7, <1>8, <1>9, <1>10

-----------------------------------------------------------------------------
(* The database while no name has two clauses.                             *)

One ==
    \A n \in Names : node_state[n] = <<>> \/ \E c \in Clause : node_state[n] = <<c>>

\* A name that is looked up has the clause that is there, or the default.
LEMMA OneClause ==
    ASSUME TypeOK, One, NEW n \in Names
    PROVE  /\ Listed(n) => node_state[n] = <<get_node(n)>>
           /\ ~Listed(n) => /\ node_state[n] = <<>>
                            /\ get_node(n) = [basic |-> {Public}, pos |-> {},
                                              neg |-> {}, taint |-> {Public},
                                              path |-> <<>>]
<1>1. CASE Listed(n)
  <2>1. PICK c \in Clause : node_state[n] = <<c>>
    BY <1>1 DEF One, Listed
  <2>2. get_node(n) = c
    BY <1>1, <2>1 DEF get_node
  <2>. QED  BY <1>1, <2>1, <2>2
<1>2. CASE ~Listed(n)
  BY <1>2 DEF Listed, get_node
<1>. QED  BY <1>1, <1>2

\* Replace then leaves exactly its clause.
LEMMA OneReplaced ==
    ASSUME TypeOK, One, NEW n \in Names, NEW c \in Clause,
           node_state' = Replace(n, c)
    PROVE  /\ One'
           /\ Listed(n)' /\ get_node(n)' = c
           /\ \A x \in Names \ {n} : /\ get_node(x)' = get_node(x)
                                     /\ Listed(x)' <=> Listed(x)
<1>1. node_state'[n] = <<c>>
  <2>1. node_state'[n] =
          Append(IF node_state[n] = <<>> THEN <<>> ELSE Tail(node_state[n]), c)
    BY DEF Replace, TypeOK
  <2>2. CASE node_state[n] = <<>>
    BY <2>1, <2>2
  <2>3. CASE \E d \in Clause : node_state[n] = <<d>>
    BY <2>1, <2>3
  <2>. QED  BY <2>2, <2>3 DEF One
<1>2. \A x \in Names \ {n} : node_state'[x] = node_state[x]
  BY DEF Replace, TypeOK
<1>3. One'
  BY <1>1, <1>2 DEF One
<1>4. Listed(n)' /\ get_node(n)' = c
  BY <1>1 DEF Listed, get_node
<1>5. \A x \in Names \ {n} : get_node(x)' = get_node(x) /\ (Listed(x)' <=> Listed(x))
  BY <1>2 DEF Listed, get_node
<1>. QED  BY <1>3, <1>4, <1>5

\* What the code takes for a boundary: the comment's, and the target itself.
Blocked(from, to) == BlockedByBoundary(from, to) \/ BlockedByOwn(from, to)

\* The boundary test on the database is the one on the declarations.
LEMMA BlocksDeclared ==
    ASSUME TypeOK, One, \A n \in Names : get_node(n).pos = DeclaredPos(n),
           NEW from \in Names, NEW to \in Names
    PROVE  hierarchy_boundary_blocks(from, to) <=> Blocked(from, to)
<1>1. ASSUME NEW b \in Names
      PROVE  module_boundary_with_capability(b) <=> DeclaredPos(b) # {}
  <2>1. CASE Listed(b)
    <3>1. node_state[b] = <<get_node(b)>>
      BY <2>1, OneClause
    <3>2. DOMAIN node_state[b] = {1} /\ node_state[b][1] = get_node(b)
      BY <3>1
    <3>. QED  BY <3>2 DEF module_boundary_with_capability
  <2>2. CASE ~Listed(b)
    <3>1. node_state[b] = <<>> /\ get_node(b).pos = {}
      BY <2>2, OneClause
    <3>2. DOMAIN node_state[b] = {}
      BY <3>1
    <3>. QED  BY <3>1, <3>2 DEF module_boundary_with_capability
  <2>. QED  BY <2>1, <2>2
<1>2. hierarchy_boundary_blocks(from, to) <=>
        \E b \in Names : DeclaredPos(b) # {} /\ inside_scope(to, b) /\ ~inside_scope(from, b)
  BY <1>1 DEF hierarchy_boundary_blocks
<1>3. inside_scope(to, to)
  BY NamesAssumption DEF inside_scope, IsPrefix
<1>. QED  BY <1>2, <1>3 DEF Blocked, BlockedByBoundary, BlockedByOwn

\* What is looked up depends on the database alone.
LEMMA LookupKept ==
    ASSUME UNCHANGED node_state
    PROVE  /\ One' <=> One
           /\ \A n : get_node(n)' = get_node(n) /\ (Listed(n)' <=> Listed(n))
           /\ \A a, b : CanInfer(a, b)' <=> CanInfer(a, b)
<1>1. \A n : get_node(n)' = get_node(n) /\ (Listed(n)' <=> Listed(n))
  BY DEF get_node, Listed
<1>2. One' <=> One
  BY DEF One
<1>3. \A n : node_basic_mask(n)' = node_basic_mask(n)
  BY <1>1 DEF node_basic_mask, Listed
<1>4. \A a, b : hierarchy_boundary_blocks(a, b)' <=> hierarchy_boundary_blocks(a, b)
  BY DEF hierarchy_boundary_blocks, module_boundary_with_capability
<1>5. \A a, b : CanInfer(a, b)' <=> CanInfer(a, b)
  BY <1>1, <1>3, <1>4 DEF CanInfer, NothingToMerge
<1>. QED  BY <1>1, <1>2, <1>5

-----------------------------------------------------------------------------
(* The invariant, phase by phase.                                          *)

LineClause(i) ==
    [basic |-> nodeFile[i].basic, pos |-> nodeFile[i].pos,
     neg |-> nodeFile[i].neg, taint |-> nodeFile[i].basic, path |-> <<>>]

Awaited(n) == /\ node_state[n] = <<>>
              /\ \A i \in NodeLines : nodeFile[i].name = n => i >= pos

Read(n) == \E i \in NodeLines : /\ i < pos
                                /\ nodeFile[i].name = n
                                /\ node_state[n] = <<LineClause(i)>>

LoadInv == \A n \in Names : Awaited(n) \/ Read(n)

\* A label is held where it is declared and only where edges carry it.
Holds(n) ==
    /\ Declared(n) => Listed(n)
    /\ Listed(n) => /\ DeclaredBasic(n) \subseteq get_node(n).basic
                    /\ \A l \in get_node(n).basic : <<n, l>> \in Inherited
    /\ Listed(n) /\ ~Declared(n) => get_node(n).basic # {}
    /\ get_node(n).pos = DeclaredPos(n)
    /\ get_node(n).taint = get_node(n).basic

InferInv ==
    /\ One
    /\ \A n \in Names : Holds(n)
    /\ \A i \in StepLines : i < pos => ~CanInfer(stepFile[i].from, stepFile[i].to)

Bounded(n) ==
    /\ get_node(n).basic = LabelsOf(BaseLabel, n)
    /\ get_node(n).pos = DeclaredPos(n)
    /\ get_node(n).basic \subseteq get_node(n).taint
    /\ get_node(n).taint \subseteq LabelsOf(ReachingTaint, n)

Exceeds(n) == ~(get_node(n).taint \subseteq Allow(n))

PropInv ==
    /\ One
    /\ \A n \in Names : Bounded(n)
    /\ \A v \in violations : Head(v.path) \in Names /\ Exceeds(Head(v.path))

ExactInv ==
    UniqueNames =>
        /\ phase = "load" => LoadInv
        /\ phase = "infer" => InferInv
        /\ phase \in {"load", "infer"} => violations = {}
        /\ phase \in {"propagate", "done"} => PropInv
-----------------------------------------------------------------------------
(* Loading.                                                                *)

\* The one line of a name declares all its labels and capabilities.
LEMMA OneLineDeclares ==
    ASSUME UniqueNames, NEW i \in NodeLines
    PROVE  LET n == nodeFile[i].name IN
             /\ Declared(n)
             /\ DeclaredBasic(n) = nodeFile[i].basic
             /\ DeclaredPos(n) = nodeFile[i].pos
<1>. DEFINE n == nodeFile[i].name
<1>1. {j \in NodeLines : nodeFile[j].name = n} = {i}
  BY DEF UniqueNames
<1>2. Declared(n)
  BY DEF Declared
<1>. QED  BY <1>1, <1>2 DEF DeclaredBasic, DeclaredPos

\* Reading a line gives its name the clause of that line and no other.
LEMMA LoadLineKeeps ==
    ASSUME TypeOK, UniqueNames, LoadInv, LoadLine
    PROVE  LoadInv'
<1>0. /\ nodeFile' = nodeFile /\ NodeLines' = NodeLines /\ pos' = pos + 1
      /\ pos \in Nat /\ \A i \in NodeLines : i \in Nat
      /\ \A i : LineClause(i)' = LineClause(i)
  BY NodeFilesAssumption DEF LoadLine, NodeLines, LineClause, TypeOK
<1>1. CASE nodeFile[pos] = Malformed
  <2>1. node_state' = node_state
    BY <1>1 DEF LoadLine
  <2>2. pos \notin NodeLines
    BY <1>1 DEF NodeLines
  <2>3. ASSUME NEW n \in Names PROVE Awaited(n)' \/ Read(n)'
    <3>1. CASE Awaited(n)
      <4>1. \A i \in NodeLines : nodeFile[i].name = n => i >= pos + 1
        BY <1>0, <2>2, <3>1 DEF Awaited
      <4>. QED  BY <1>0, <2>1, <3>1, <4>1 DEF Awaited
    <3>2. CASE Read(n)
      BY <1>0, <2>1, <3>2 DEF Read
    <3>. QED  BY <3>1, <3>2 DEF LoadInv
  <2>. QED  BY <2>3 DEF LoadInv
<1>2. CASE nodeFile[pos] # Malformed
  <2>1. pos \in NodeLines
    BY <1>2, NodeFilesAssumption DEF LoadLine, NodeLines, TypeOK
  <2>2. PICK m \in Names : m = nodeFile[pos].name
    BY <1>2, NodeFilesAssumption DEF LoadLine, TypeOK, NodeLine
  <2>3. node_state' = [node_state EXCEPT ![m] = Append(@, LineClause(pos))]
    BY <1>2, <2>2 DEF LoadLine, LineClause
  <2>4. Read(m)'
    <3>1. ~Read(m)
      BY <1>0, <2>1, <2>2 DEF Read, UniqueNames
    <3>2. node_state[m] = <<>>
      BY <2>2, <3>1 DEF LoadInv, Awaited
    <3>3. node_state'[m] = <<LineClause(pos)>>
      BY <2>2, <2>3, <3>2 DEF TypeOK
    <3>. QED  BY <1>0, <2>1, <2>2, <3>3 DEF Read
  <2>5. ASSUME NEW n \in Names, n # m PROVE Awaited(n)' \/ Read(n)'
    <3>1. node_state'[n] = node_state[n]
      BY <2>3, <2>5 DEF TypeOK
    <3>2. CASE Awaited(n)
      <4>1. \A i \in NodeLines : nodeFile[i].name = n => i >= pos + 1
        BY <1>0, <2>2, <2>5, <3>2 DEF Awaited
      <4>. QED  BY <1>0, <3>1, <3>2, <4>1 DEF Awaited
    <3>3. CASE Read(n)
      BY <1>0, <3>1, <3>3 DEF Read
    <3>. QED  BY <3>2, <3>3 DEF LoadInv
  <2>. QED  BY <2>4, <2>5 DEF LoadInv
<1>. QED  BY <1>1, <1>2

\* What is loaded is what is declared.
LEMMA LoadEndHolds ==
    ASSUME TypeOK, UniqueNames, LoadInv, LoadEnd
    PROVE  One /\ \A n \in Names : Holds(n)
<1>1. \A i \in NodeLines : i \in Nat /\ i < pos /\ nodeFile[i] \in NodeLine
  BY NodeFilesAssumption DEF LoadEnd, NodeLines, TypeOK
<1>2. \A i \in NodeLines : LineClause(i) \in Clause
  <2>. SUFFICES ASSUME NEW i \in NodeLines PROVE LineClause(i) \in Clause
    OBVIOUS
  <2>1. <<>> \in Seq(Names)
    OBVIOUS
  <2>. QED  BY <1>1, <2>1 DEF LineClause, Clause, NodeLine
<1>3. One
  BY <1>2 DEF One, LoadInv, Awaited, Read
<1>4. ASSUME NEW n \in Names PROVE Holds(n)
  <2>1. CASE Awaited(n)
    <3>1. \A i \in NodeLines : nodeFile[i].name # n
      BY <1>1, <2>1 DEF Awaited, TypeOK
    <3>2. ~Declared(n) /\ DeclaredPos(n) = {}
      BY <3>1 DEF Declared, DeclaredPos
    <3>3. /\ ~Listed(n)
          /\ get_node(n) = [basic |-> {Public}, pos |-> {}, neg |-> {},
                            taint |-> {Public}, path |-> <<>>]
      BY <2>1 DEF Awaited, Listed, get_node
    <3>. QED  BY <3>2, <3>3 DEF Holds
  <2>2. CASE Read(n)
    <3>1. PICK i \in NodeLines : nodeFile[i].name = n /\ node_state[n] = <<LineClause(i)>>
      BY <2>2 DEF Read
    <3>2. Listed(n) /\ get_node(n) = LineClause(i)
      BY <3>1 DEF Listed, get_node
    <3>3. /\ Declared(n)
          /\ DeclaredBasic(n) = nodeFile[i].basic
          /\ DeclaredPos(n) = nodeFile[i].pos
      BY <3>1, OneLineDeclares
    <3>4. /\ get_node(n).basic = nodeFile[i].basic
          /\ get_node(n).pos = nodeFile[i].pos
          /\ get_node(n).taint = nodeFile[i].basic
      BY <3>2 DEF LineClause
    <3>5. \A l \in get_node(n).basic : <<n, l>> \in Inherited
      <4>. SUFFICES ASSUME NEW l \in get_node(n).basic PROVE <<n, l>> \in Inherited
        OBVIOUS
      <4>1. l \in Labels
        BY <1>1, <3>4 DEF NodeLine
      <4>2. <<n, l>> \in DeclaredLabels
        BY <3>3, <3>4, <4>1 DEF DeclaredLabels, LabelPairs
      <4>. QED  BY <4>1, <4>2, CarriedBase DEF Inherited
    <3>. QED  BY <3>2, <3>3, <3>4, <3>5 DEF Holds
  <2>. QED  BY <2>1, <2>2 DEF LoadInv
<1>. QED  BY <1>3, <1>4
-----------------------------------------------------------------------------
(* Inheriting.                                                             *)

\* A name's mask is its basic labels, and none for a name that is not listed.
LEMMA MaskIsBasic ==
    ASSUME NEW n \in Names
    PROVE  /\ Listed(n) => node_basic_mask(n) = get_node(n).basic
           /\ ~Listed(n) => node_basic_mask(n) = {}
  BY DEF node_basic_mask, get_node

\* An edge that passes labels on is one of those Inherited is closed under,
\* and what it passes on was inherited or declared.
LEMMA InferEdgeKeeps ==
    ASSUME TypeOK, UniqueNames, One, \A n \in Names : Holds(n), InferEdge
    PROVE  One' /\ \A n \in Names : Holds(n)'
<1>1. stepFile[pos] \in StepLine
  BY StepLineType DEF InferEdge
<1>2. PICK from \in Names, to \in Names :
         from = stepFile[pos].from /\ to = stepFile[pos].to
  BY <1>1 DEF StepLine
<1>3. PICK mask : mask = node_basic_mask(from)
  OBVIOUS
<1>4. /\ CanInfer(from, to)
      /\ node_state' = merge_inferred_basic(to, mask)
      /\ UNCHANGED <<nodeFile, stepFile>>
  BY <1>2, <1>3 DEF InferEdge
<1>5. mask # {} /\ Listed(from) /\ mask = get_node(from).basic
  BY <1>3, <1>4, MaskIsBasic DEF CanInfer
<1>6. mask \subseteq Labels
  BY <1>5, GetNodeType DEF Clause
<1>7. <<from, to>> \in InferEdges
  <2>1. ~Blocked(from, to)
    BY <1>4, BlocksDeclared DEF CanInfer, Holds
  <2>2. pos \in StepLines
    BY StepFilesAssumption DEF InferEdge, TypeOK, StepLines
  <2>3. Recorded(from, to)
    BY <1>2, <2>2 DEF Recorded
  <2>. QED  BY <2>1, <2>3 DEF InferEdges, StatedEdges, NamePairs, Blocked
<1>8. \A l \in mask : <<to, l>> \in Inherited
  <2>. SUFFICES ASSUME NEW l \in mask PROVE <<to, l>> \in Inherited
    OBVIOUS
  <2>1. <<from, l>> \in Inherited /\ l \in Labels
    BY <1>5, <1>6 DEF Holds
  <2>. HIDE DEF InferEdges
  <2>. QED  BY <1>7, <2>1, CarriedStep DEF Inherited
<1>9. PICK c \in Clause :
         /\ node_state' = Replace(to, c)
         /\ c.basic = (IF Listed(to) THEN get_node(to).basic ELSE {}) \cup mask
         /\ c.taint = c.basic
         /\ c.pos = get_node(to).pos
  <2>1. CASE Listed(to)
    <3>. DEFINE d == [get_node(to) EXCEPT !.basic = @ \cup mask,
                                          !.taint = @ \cup mask]
    <3>1. get_node(to) \in Clause /\ get_node(to).taint = get_node(to).basic
      BY GetNodeType DEF Holds
    <3>2. /\ d \in Clause
          /\ d.basic = get_node(to).basic \cup mask
          /\ d.taint = d.basic
          /\ d.pos = get_node(to).pos
      BY <1>6, <3>1 DEF Clause
    <3>3. node_state' = Replace(to, d)
      BY <1>4, <2>1 DEF merge_inferred_basic
    <3>. HIDE DEF d
    <3>. QED  BY <2>1, <3>2, <3>3
  <2>2. CASE ~Listed(to)
    <3>. DEFINE d == [basic |-> mask, pos |-> {}, neg |-> {}, taint |-> mask,
                      path |-> <<>>]
    <3>1. d \in Clause
      BY <1>6 DEF Clause
    <3>2. get_node(to).pos = {}
      BY <2>2 DEF get_node
    <3>3. node_state' = Replace(to, d)
      BY <1>4, <2>2 DEF merge_inferred_basic
    <3>. QED  BY <2>2, <3>1, <3>2, <3>3
  <2>. QED  BY <2>1, <2>2
<1>10. /\ One'
       /\ Listed(to)' /\ get_node(to)' = c
       /\ \A x \in Names \ {to} : /\ get_node(x)' = get_node(x)
                                  /\ Listed(x)' <=> Listed(x)
  BY <1>9, OneReplaced
<1>11. /\ Inherited' = Inherited
       /\ \A n \in Names : /\ Declared(n)' <=> Declared(n)
                           /\ DeclaredBasic(n)' = DeclaredBasic(n)
                           /\ DeclaredPos(n)' = DeclaredPos(n)
  BY <1>4, InputsFixed
<1>12. ASSUME NEW n \in Names PROVE Holds(n)'
  <2>1. CASE n # to
    BY <1>10, <1>11, <2>1 DEF Holds
  <2>2. CASE n = to
    <3>1. DeclaredBasic(to) \subseteq c.basic
      <4>1. CASE Listed(to)
        BY <1>9, <4>1 DEF Holds
      <4>2. CASE ~Listed(to)
        BY <4>2 DEF Holds, Declared, DeclaredBasic
      <4>. QED  BY <4>1, <4>2
    <3>2. \A l \in c.basic : <<to, l>> \in Inherited
      BY <1>8, <1>9 DEF Holds
    <3>3. c.basic # {} /\ c.taint = c.basic /\ c.pos = DeclaredPos(to)
      BY <1>5, <1>9 DEF Holds
    <3>. QED  BY <1>10, <1>11, <2>2, <3>1, <3>2, <3>3 DEF Holds
  <2>. QED  BY <2>1, <2>2
<1>. QED  BY <1>10, <1>12

\* When no edge can pass a label on, the basic labels are the least closure.
LEMMA NothingLeftToInfer ==
    ASSUME TypeOK, UniqueNames, One, \A n \in Names : Holds(n),
           \A i \in StepLines : ~CanInfer(stepFile[i].from, stepFile[i].to),
           NEW n \in Names
    PROVE  get_node(n).basic = LabelsOf(BaseLabel, n)
<1>. DEFINE all == {p \in LabelPairs : p[2] \in node_basic_mask(p[1])}
<1>1. \A m, l : <<m, l>> \in all <=>
                  m \in Names /\ l \in Labels /\ l \in node_basic_mask(m)
  BY DEF LabelPairs
<1>2. DeclaredLabels \subseteq all
  <2>. SUFFICES ASSUME NEW m \in Names, NEW l \in Labels, l \in DeclaredBasic(m)
                PROVE  l \in node_basic_mask(m)
    BY DEF DeclaredLabels, LabelPairs
  <2>1. Declared(m)
    BY DEF Declared, DeclaredBasic
  <2>. QED  BY <2>1, MaskIsBasic DEF Holds
<1>3. ASSUME NEW e \in InferEdges, NEW l \in Labels, <<e[1], l>> \in all
      PROVE  <<e[2], l>> \in all
  <2>1. PICK from \in Names, to \in Names : e = <<from, to>>
    BY DEF InferEdges, StatedEdges, NamePairs
  <2>2. /\ ~Blocked(from, to)
        /\ \E i \in StepLines : stepFile[i].from = from /\ stepFile[i].to = to
    BY <2>1 DEF InferEdges, StatedEdges, Blocked, Recorded
  <2>3. ~CanInfer(from, to) /\ l \in node_basic_mask(from)
    BY <1>1, <1>3, <2>1, <2>2
  <2>4. ~hierarchy_boundary_blocks(from, to)
    BY <2>2, BlocksDeclared DEF Holds
  <2>5. Listed(to) /\ node_basic_mask(from) \subseteq get_node(to).basic
    BY <2>3, <2>4 DEF CanInfer, NothingToMerge
  <2>6. l \in node_basic_mask(to)
    BY <2>3, <2>5, MaskIsBasic
  <2>7. <<to, l>> \in all
    BY <1>1, <2>6
  <2>. QED  BY <2>1, <2>7
<1>4. all \in SUBSET LabelPairs
  OBVIOUS
<1>5. Inherited \subseteq all
  <2>. HIDE DEF all
  <2>. QED  BY <1>2, <1>3, <1>4, CarriedLeast DEF Inherited
<1>6. LabelsOf(Inherited, n) = node_basic_mask(n)
  <2>1. ASSUME NEW l \in node_basic_mask(n) PROVE l \in Labels /\ <<n, l>> \in Inherited
    <3>1. Listed(n) /\ l \in get_node(n).basic
      BY <2>1, MaskIsBasic
    <3>. QED  BY <3>1, GetNodeType DEF Holds, Clause
  <2>2. \A l : <<n, l>> \in Inherited => l \in node_basic_mask(n)
    BY <1>1, <1>5
  <2>. QED  BY <2>1, <2>2 DEF LabelsOf
<1>7. \A l \in Labels : <<n, l>> \in BaseLabel <=>
         \/ <<n, l>> \in Inherited
         \/ l = Public /\ ~Declared(n) /\ LabelsOf(Inherited, n) = {}
  BY DEF BaseLabel, LabelPairs
<1>8. CASE Listed(n)
  <2>1. node_basic_mask(n) = get_node(n).basic
    BY <1>8, MaskIsBasic
  <2>2. ~(~Declared(n) /\ LabelsOf(Inherited, n) = {})
    BY <1>6, <1>8, <2>1 DEF Holds
  <2>3. LabelsOf(BaseLabel, n) = LabelsOf(Inherited, n)
    BY <1>7, <2>2 DEF LabelsOf
  <2>. QED  BY <1>6, <2>1, <2>3
<1>9. CASE ~Listed(n)
  <2>1. ~Declared(n) /\ node_basic_mask(n) = {} /\ get_node(n).basic = {Public}
    BY <1>9, MaskIsBasic DEF Holds, get_node
  <2>2. \A l \in Labels : <<n, l>> \notin Inherited
    BY <1>6, <2>1 DEF LabelsOf
  <2>3. \A l \in Labels : <<n, l>> \in BaseLabel <=> l = Public
    BY <1>6, <1>7, <2>1, <2>2
  <2>. QED  BY <2>1, <2>3, PublicAssumption DEF LabelsOf
<1>. QED  BY <1>8, <1>9
-----------------------------------------------------------------------------
(* Propagating.                                                            *)

\* A flow adds only labels that reach its target, and reports what exceeds.
LEMMA FlowKeeps ==
    ASSUME TypeOK, PropInv, propagate_logic
    PROVE  PropInv'
<1>1. stepFile[pos] \in StepLine /\ pos \in StepLines
  BY StepLineType, StepFilesAssumption DEF propagate_logic, TypeOK, StepLines
<1>2. PICK from \in Names, to \in Names :
         from = stepFile[pos].from /\ to = stepFile[pos].to
  BY <1>1 DEF StepLine
<1>3. PICK added : added = Combined(stepFile[pos])
  OBVIOUS
<1>4. PICK path : path = NewPath(stepFile[pos])
  OBVIOUS
<1>5. PICK c \in Clause :
         /\ node_state' = Replace(to, c)
         /\ c.basic = get_node(to).basic
         /\ c.pos = get_node(to).pos
         /\ c.taint = get_node(to).taint \cup added
  <2>. DEFINE d == [get_node(to) EXCEPT
                      !.taint = get_node(to).taint \cup added, !.path = path]
  <2>1. d \in Clause /\ node_state' = Replace(to, d)
    BY <1>2, <1>3, <1>4, FlowClause
  <2>2. get_node(to) \in Clause
    BY GetNodeType
  <2>3. /\ d.basic = get_node(to).basic
        /\ d.pos = get_node(to).pos
        /\ d.taint = get_node(to).taint \cup added
    BY <2>2 DEF Clause
  <2>. HIDE DEF d
  <2>. QED  BY <2>1, <2>3
<1>6. added \subseteq LabelsOf(ReachingTaint, to)
  <2>. SUFFICES ASSUME NEW l \in added PROVE l \in LabelsOf(ReachingTaint, to)
    OBVIOUS
  <2>1. PICK n \in Names : /\ l \in get_node(n).taint
                           /\ n = from \/ n \in parse_pc_tokens(stepFile[pos].pc)
    BY <1>2, <1>3 DEF Combined, calculate_pc_taint, parse_pc_tokens
  <2>2. l \in Labels /\ <<n, l>> \in ReachingTaint
    BY <2>1 DEF PropInv, Bounded, LabelsOf
  <2>3. <<n, to>> \in FlowEdges
    <3>1. stepFile[pos].from # NL
      BY DEF propagate_logic, Flows
    <3>. QED  BY <1>1, <1>2, <2>1, <3>1 DEF FlowEdges, NamePairs
  <2>4. <<to, l>> \in ReachingTaint
    <3>. HIDE DEF FlowEdges
    <3>. QED  BY <2>2, <2>3, CarriedStep DEF ReachingTaint
  <2>. QED  BY <2>2, <2>4 DEF LabelsOf
<1>7. /\ One'
      /\ get_node(to)' = c
      /\ \A x \in Names \ {to} : get_node(x)' = get_node(x)
  BY <1>5, OneReplaced DEF PropInv
<1>8. UNCHANGED <<nodeFile, stepFile>>
  BY DEF propagate_logic
<1>9. /\ BaseLabel' = BaseLabel /\ ReachingTaint' = ReachingTaint
      /\ \A n \in Names : DeclaredPos(n)' = DeclaredPos(n)
  BY <1>8, InputsFixed
<1>10. ASSUME NEW n \in Names PROVE Bounded(n)'
  <2>1. CASE n # to
    BY <1>7, <1>9, <2>1 DEF PropInv, Bounded, LabelsOf
  <2>2. CASE n = to
    <3>1. Bounded(to)
      BY DEF PropInv
    <3>2. /\ c.basic = LabelsOf(BaseLabel, to)
          /\ c.pos = DeclaredPos(to)
          /\ c.basic \subseteq c.taint
          /\ c.taint \subseteq LabelsOf(ReachingTaint, to)
      BY <1>5, <1>6, <3>1 DEF Bounded
    <3>3. /\ LabelsOf(BaseLabel, to)' = LabelsOf(BaseLabel, to)
          /\ LabelsOf(ReachingTaint, to)' = LabelsOf(ReachingTaint, to)
      BY <1>9 DEF LabelsOf
    <3>. QED  BY <1>7, <1>9, <2>2, <3>2, <3>3 DEF Bounded
  <2>. QED  BY <2>1, <2>2
<1>11. ASSUME NEW n \in Names, Exceeds(n) PROVE Exceeds(n)'
  <2>1. CASE n # to
    BY <1>7, <1>11, <2>1 DEF Exceeds, Allow
  <2>2. CASE n = to
    BY <1>5, <1>7, <1>11, <2>2 DEF Exceeds, Allow
  <2>. QED  BY <2>1, <2>2
<1>12. ASSUME NEW v \in violations'
       PROVE  Head(v.path) \in Names /\ Exceeds(Head(v.path))'
  <2>1. CASE v \in violations
    <3>1. PICK n \in Names : n = Head(v.path) /\ Exceeds(n)
      BY <2>1 DEF PropInv
    <3>. QED  BY <1>11, <3>1
  <2>2. CASE v \notin violations
    <3>1. /\ ~(added \subseteq Allow(to))
          /\ v = [step |-> pos, path |-> <<to>> \o path]
      BY <1>2, <1>3, <1>4, <1>12, <2>2 DEF propagate_logic
    <3>2. path \in Seq(Names)
      BY <1>2, <1>4, GetNodeType DEF NewPath, Clause
    <3>3. Head(v.path) = to
      BY <3>1, <3>2
    <3>4. Exceeds(to)'
      BY <1>5, <1>7, <3>1 DEF Exceeds, Allow
    <3>. QED  BY <3>3, <3>4
  <2>. QED  BY <2>1, <2>2
<1>. QED  BY <1>7, <1>10, <1>12 DEF PropInv

\* Steps that leave the database alone keep what is said of it.
LEMMA QuietKeeps ==
    ASSUME UNCHANGED <<nodeFile, stepFile, node_state, violations>>
    PROVE  /\ PropInv' <=> PropInv
           /\ \A n \in Names : Holds(n)' <=> Holds(n)
<1>1. /\ One' <=> One
      /\ \A n : get_node(n)' = get_node(n) /\ (Listed(n)' <=> Listed(n))
  BY LookupKept
<1>2. /\ BaseLabel' = BaseLabel /\ ReachingTaint' = ReachingTaint
      /\ Inherited' = Inherited
      /\ \A n \in Names : /\ Declared(n)' <=> Declared(n)
                          /\ DeclaredBasic(n)' = DeclaredBasic(n)
                          /\ DeclaredPos(n)' = DeclaredPos(n)
  BY InputsFixed
<1>3. \A n \in Names : Bounded(n)' <=> Bounded(n)
  BY <1>1, <1>2 DEF Bounded, LabelsOf
<1>4. \A n : Exceeds(n)' <=> Exceeds(n)
  BY <1>1 DEF Exceeds, Allow
<1>5. \A n \in Names : Holds(n)' <=> Holds(n)
  BY <1>1, <1>2 DEF Holds
<1>6. PropInv' <=> PropInv
  BY <1>1, <1>3, <1>4 DEF PropInv
<1>. QED  BY <1>5, <1>6

-----------------------------------------------------------------------------
(* Every step.                                                             *)

\* Each step keeps the conjunct of its phase, or makes the one of the next.
LEMMA ExactStep ==
    ASSUME TypeOK, ExactInv, [Next]_vars
    PROVE  ExactInv'
<1>1. UNCHANGED <<nodeFile, stepFile>>
  BY DEF Next, Load, Infer, Propagate, LoadLine, LoadEnd, InferEdge, InferSkip,
         InferEnd, propagate_logic, ScanQuiet, Rescan, PropagationComplete,
         Halted, vars
<1>2. /\ UniqueNames' <=> UniqueNames
      /\ NodeLines' = NodeLines /\ StepLines' = StepLines
      /\ BaseLabel' = BaseLabel /\ ReachingTaint' = ReachingTaint
  BY <1>1, InputsFixed
<1>3. SUFFICES ASSUME UniqueNames
               PROVE  /\ phase' = "load" => LoadInv'
                      /\ phase' = "infer" => InferInv'
                      /\ phase' \in {"load", "infer"} => violations' = {}
                      /\ phase' \in {"propagate", "done"} => PropInv'
  BY <1>2 DEF ExactInv
<1>4. /\ phase = "load" => LoadInv
      /\ phase = "infer" => InferInv
      /\ phase \in {"load", "infer"} => violations = {}
      /\ phase \in {"propagate", "done"} => PropInv
  BY <1>3 DEF ExactInv
<1>5. CASE LoadLine
  <2>1. phase = "load" /\ phase' = "load" /\ violations' = violations
    BY <1>5 DEF LoadLine
  <2>2. LoadInv'
    BY <1>3, <1>4, <1>5, <2>1, LoadLineKeeps
  <2>. QED  BY <1>4, <2>1, <2>2
<1>6. CASE LoadEnd
  <2>1. /\ phase = "load" /\ phase' = "infer" /\ pos' = 1
        /\ UNCHANGED <<node_state, violations>>
    BY <1>6 DEF LoadEnd
  <2>2. One /\ \A n \in Names : Holds(n)
    BY <1>3, <1>4, <1>6, <2>1, LoadEndHolds
  <2>3. One' /\ \A n \in Names : Holds(n)'
    BY <1>1, <2>1, <2>2, QuietKeeps, LookupKept
  <2>4. \A i \in StepLines' : ~(i < pos')
    BY <1>2, <2>1, StepFilesAssumption DEF StepLines, TypeOK
  <2>. QED  BY <1>4, <2>1, <2>3, <2>4 DEF InferInv
<1>7. CASE InferEdge
  <2>1. /\ phase = "infer" /\ phase' = "infer" /\ pos' = 1
        /\ violations' = violations
    BY <1>7 DEF InferEdge
  <2>2. One' /\ \A n \in Names : Holds(n)'
    BY <1>3, <1>4, <1>7, <2>1, InferEdgeKeeps DEF InferInv
  <2>3. \A i \in StepLines' : ~(i < pos')
    BY <1>2, <2>1, StepFilesAssumption DEF StepLines, TypeOK
  <2>. QED  BY <1>4, <2>1, <2>2, <2>3 DEF InferInv
<1>8. CASE InferSkip
  <2>1. /\ phase = "infer" /\ phase' = "infer" /\ pos' = pos + 1
        /\ UNCHANGED <<node_state, violations>>
        /\ pos \in StepLines => ~CanInfer(stepFile[pos].from, stepFile[pos].to)
    BY <1>8 DEF InferSkip, StepLines
  <2>2. One' /\ \A n \in Names : Holds(n)'
    BY <1>1, <1>4, <2>1, QuietKeeps, LookupKept DEF InferInv
  <2>3. ASSUME NEW i \in StepLines, i < pos + 1
        PROVE  ~CanInfer(stepFile[i].from, stepFile[i].to)
    <3>1. i \in Nat /\ pos \in Nat
      BY StepFilesAssumption DEF StepLines, TypeOK
    <3>2. i < pos \/ i = pos
      BY <2>3, <3>1
    <3>. QED  BY <1>4, <2>1, <3>2 DEF InferInv
  <2>4. \A i \in StepLines :
           CanInfer(stepFile[i].from, stepFile[i].to)' <=>
             CanInfer(stepFile[i].from, stepFile[i].to)
    BY <1>1, <2>1, LookupKept
  <2>5. InferInv'
    BY <1>2, <2>1, <2>2, <2>3, <2>4 DEF InferInv
  <2>. QED  BY <1>4, <2>1, <2>5
<1>9. CASE InferEnd
  <2>1. /\ phase = "infer" /\ phase' = "propagate"
        /\ UNCHANGED <<node_state, violations>>
    BY <1>9 DEF InferEnd
  <2>2. \A i \in StepLines : ~CanInfer(stepFile[i].from, stepFile[i].to)
    <3>1. \A i \in StepLines : i < pos
      BY <1>9, StepFilesAssumption DEF InferEnd, StepLines, TypeOK
    <3>. QED  BY <1>4, <2>1, <3>1 DEF InferInv
  <2>3. One /\ \A n \in Names : Holds(n)
    BY <1>4, <2>1 DEF InferInv
  <2>4. ASSUME NEW n \in Names PROVE Bounded(n)
    <3>1. get_node(n).basic = LabelsOf(BaseLabel, n)
      BY <1>3, <2>2, <2>3, NothingLeftToInfer
    <3>2. get_node(n).pos = DeclaredPos(n) /\ get_node(n).taint = get_node(n).basic
      BY <2>3 DEF Holds
    <3>3. \A l \in Labels : <<n, l>> \in BaseLabel => <<n, l>> \in ReachingTaint
      BY CarriedBase DEF ReachingTaint
    <3>4. LabelsOf(BaseLabel, n) \subseteq LabelsOf(ReachingTaint, n)
      BY <3>3 DEF LabelsOf
    <3>. QED  BY <3>1, <3>2, <3>4 DEF Bounded
  <2>5. PropInv
    BY <1>4, <2>1, <2>3, <2>4 DEF PropInv
  <2>6. PropInv'
    BY <1>1, <2>1, <2>5, QuietKeeps
  <2>. QED  BY <2>1, <2>6
<1>10. CASE propagate_logic
  <2>1. phase = "propagate" /\ phase' = "propagate"
    BY <1>10 DEF propagate_logic
  <2>2. PropInv'
    BY <1>4, <1>10, <2>1, FlowKeeps
  <2>. QED  BY <2>1, <2>2
<1>11. CASE ScanQuiet \/ Rescan \/ PropagationComplete
  <2>1. /\ phase \in {"propagate", "done"} /\ phase' \in {"propagate", "done"}
        /\ UNCHANGED <<node_state, violations>>
    BY <1>11 DEF ScanQuiet, Rescan, PropagationComplete
  <2>2. PropInv'
    BY <1>1, <1>4, <2>1, QuietKeeps
  <2>. QED  BY <2>1, <2>2
<1>12. CASE Halted \/ UNCHANGED vars
  <2>1. UNCHANGED vars
    BY <1>12 DEF Halted
  <2>2. /\ LoadInv' <=> LoadInv
        /\ InferInv' <=> InferInv
    <3>1. /\ One' <=> One
          /\ \A n \in Names : Holds(n)' <=> Holds(n)
          /\ \A a, b : CanInfer(a, b)' <=> CanInfer(a, b)
      BY <2>1, QuietKeeps, LookupKept DEF vars
    <3>2. InferInv' <=> InferInv
      BY <1>2, <2>1, <3>1 DEF InferInv, vars
    <3>3. \A n \in Names : (Awaited(n)' <=> Awaited(n)) /\ (Read(n)' <=> Read(n))
      BY <1>2, <2>1 DEF Awaited, Read, LineClause, vars
    <3>. QED  BY <3>2, <3>3 DEF LoadInv
  <2>3. PropInv' <=> PropInv
    BY <2>1, QuietKeeps DEF vars
  <2>. QED  BY <1>4, <2>1, <2>2, <2>3 DEF vars
<1>. QED
  BY <1>5, <1>6, <1>7, <1>8, <1>9, <1>10, <1>11, <1>12
     DEF Next, Load, Infer, Propagate

\* The invariant holds throughout every run of the backend.
LEMMA ExactAlways == Spec => []ExactInv
<1>1. Init => ExactInv
  <2>. SUFFICES ASSUME Init PROVE ExactInv
    OBVIOUS
  <2>1. LoadInv
    BY NodeFilesAssumption DEF Init, LoadInv, Awaited, NodeLines
  <2>. QED  BY <2>1 DEF Init, ExactInv
<1>2. TypeOK /\ ExactInv /\ [Next]_vars => ExactInv'
  BY ExactStep
<1>. QED  BY <1>1, <1>2, TypeCorrect, PTL DEF Spec

-----------------------------------------------------------------------------
(* The promises.                                                           *)

\* The labels of the code and those of the comment on the pre-pass: never
\* more, and the same if no flow is stopped by the capability of its target.
LEMMA InheritedStated ==
    /\ Inherited \subseteq StatedInherited
    /\ (\A e \in StatedEdges : ~BlockedByOwn(e[1], e[2])) =>
         Inherited = StatedInherited
<1>1. InferEdges \subseteq StatedEdges
  BY DEF InferEdges
<1>2. Inherited \subseteq StatedInherited
  <2>. HIDE DEF InferEdges, StatedEdges
  <2>. QED  BY <1>1, CarriedMore DEF Inherited, StatedInherited
<1>3. ASSUME \A e \in StatedEdges : ~BlockedByOwn(e[1], e[2])
      PROVE  Inherited = StatedInherited
  <2>1. InferEdges = StatedEdges
    BY <1>3 DEF InferEdges
  <2>. QED  BY <2>1 DEF Inherited, StatedInherited
<1>. QED  BY <1>2, <1>3

\* For every design in which no name is listed twice, the basic labels that
\* propagation starts from are the least ones closed under the edges the code
\* does not block: restarting from the first edge after each merge, and
\* stopping when no edge has anything to add, misses and invents nothing.  Of
\* a listed name they are among those the comment on the pre-pass promises,
\* and all of them if no flow is stopped by the capability of its own target.
THEOREM LabelsAreLeast == Spec => []InferenceExact
<1>1. ASSUME ExactInv, phase \in {"propagate", "done"}, UniqueNames, NEW n \in Names
      PROVE  get_node(n).basic = LabelsOf(BaseLabel, n)
  BY <1>1 DEF ExactInv, PropInv, Bounded
<1>2. ASSUME NEW n \in Names, Declared(n)
      PROVE  LabelsOf(BaseLabel, n) = LabelsOf(Inherited, n)
  BY <1>2 DEF BaseLabel, LabelPairs, LabelsOf
<1>3. ASSUME NEW n \in Names
      PROVE  /\ LabelsOf(Inherited, n) \subseteq LabelsOf(StatedInherited, n)
             /\ (\A e \in StatedEdges : ~BlockedByOwn(e[1], e[2])) =>
                  LabelsOf(Inherited, n) = LabelsOf(StatedInherited, n)
  BY InheritedStated DEF LabelsOf
<1>4. ExactInv => InferenceExact
  BY <1>1, <1>2, <1>3 DEF InferenceExact
<1>. QED  BY <1>4, ExactAlways, PTL

\* A closed database holds all the taint that can reach a name.
LEMMA TaintsComplete ==
    ASSUME TypeOK, PropInv, ClosedAtEnd, phase = "done", NEW n \in Names
    PROVE  get_node(n).taint = LabelsOf(ReachingTaint, n)
<1>. DEFINE all == {p \in LabelPairs : p[2] \in get_node(p[1]).taint}
<1>1. \A m, l : <<m, l>> \in all <=>
                  m \in Names /\ l \in Labels /\ l \in get_node(m).taint
  BY DEF LabelPairs
<1>2. BaseLabel \subseteq all
  <2>1. BaseLabel \subseteq LabelPairs
    BY DEF BaseLabel, Inherited, DeclaredLabels, Carried
  <2>2. ASSUME NEW m \in Names, NEW l \in Labels, <<m, l>> \in BaseLabel
        PROVE  l \in get_node(m).taint
    BY <2>2 DEF PropInv, Bounded, LabelsOf
  <2>. QED  BY <1>1, <2>1, <2>2 DEF LabelPairs
<1>3. ASSUME NEW e \in FlowEdges, NEW l \in Labels, <<e[1], l>> \in all
      PROVE  <<e[2], l>> \in all
  <2>1. get_node(e[1]).taint \subseteq get_node(e[2]).taint
    BY DEF ClosedAtEnd
  <2>2. e[2] \in Names
    BY DEF FlowEdges, NamePairs
  <2>. QED  BY <1>1, <1>3, <2>1, <2>2
<1>4. all \in SUBSET LabelPairs
  OBVIOUS
<1>5. ReachingTaint \subseteq all
  <2>. HIDE DEF all
  <2>. QED  BY <1>2, <1>3, <1>4, CarriedLeast DEF ReachingTaint
<1>6. LabelsOf(ReachingTaint, n) \subseteq get_node(n).taint
  BY <1>1, <1>5 DEF LabelsOf
<1>. QED  BY <1>6 DEF PropInv, Bounded

\* When the scans stop, every taint is exactly what the recorded flows carry
\* there, for every order of the step file and every cycle in it.
THEOREM TaintsAreExact == Spec => []TaintExact
<1>1. TypeOK /\ ExactInv /\ ClosedAtEnd => TaintExact
  BY TaintsComplete DEF ExactInv, TaintExact
<1>. QED  BY <1>1, ExactAlways, TypeCorrect, FixpointReached, PTL

\* The verdict: a name is reported if and only if a label reaches it that
\* neither its label nor its positive capability allows, for every input in
\* which no name is listed twice.
THEOREM VerdictsAreExact == Spec => []VerdictExact
<1>1. TypeOK /\ ExactInv /\ ClosedAtEnd /\ ExcessReported => VerdictExact
  <2>. SUFFICES ASSUME TypeOK, ExactInv, ClosedAtEnd, ExcessReported,
                       phase = "done", UniqueNames, NEW n \in Names
                PROVE  Reported(n) <=>
                         ~(LabelsOf(ReachingTaint, n) \subseteq
                             LabelsOf(BaseLabel, n) \cup DeclaredPos(n))
    BY DEF VerdictExact
  <2>1. PropInv
    BY DEF ExactInv
  <2>2. get_node(n).taint = LabelsOf(ReachingTaint, n)
    BY <2>1, TaintsComplete
  <2>3. Allow(n) = LabelsOf(BaseLabel, n) \cup DeclaredPos(n)
    BY <2>1 DEF PropInv, Bounded, Allow
  <2>4. Reported(n) => Exceeds(n)
    BY <2>1 DEF PropInv, Reported
  <2>5. Exceeds(n) => Reported(n)
    <3>. SUFFICES ASSUME Exceeds(n) PROVE Reported(n)
      OBVIOUS
    <3>1. Listed(n)
      <4>. SUFFICES ASSUME ~Listed(n) PROVE FALSE
        OBVIOUS
      <4>1. get_node(n).taint = {Public} /\ get_node(n).basic = {Public}
        BY DEF get_node
      <4>. QED  BY <4>1 DEF Exceeds, Allow
    <3>2. node_state[n] = <<get_node(n)>>
      BY <2>1, <3>1, OneClause DEF PropInv
    <3>3. 1 \in DOMAIN node_state[n] /\ node_state[n][1] = get_node(n)
      BY <3>2
    <3>. QED  BY <3>3 DEF Exceeds, Allow, ExcessReported
  <2>. QED  BY <2>2, <2>3, <2>4, <2>5 DEF Exceeds
<1>. QED
  BY <1>1, ExactAlways, TypeCorrect, FixpointReached, NoExcessUnreported, PTL
=============================================================================
