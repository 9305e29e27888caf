---------------------------- MODULE DifcBackend ----------------------------
(***************************************************************************)
(* The DIFC backend, difc_backend.pl: it loads the nodes the front end     *)
(* listed, lets basic labels be inherited along the recorded flow edges    *)
(* (the hierarchical pre-pass), then rescans the step file, unioning       *)
(* taints, until one whole scan changes nothing.                           *)
(*                                                                         *)
(* A bit mask over labels is the set of its labels.  A flattened name is   *)
(* the sequence of its parts between underscores, so that "Scope_ is a     *)
(* prefix of Name" is IsPrefix.  The Prolog database is kept per name, as  *)
(* the sequence of the name's node_state clauses in database order: every  *)
(* lookup takes the first clause, retract drops it, assertz appends.       *)
(***************************************************************************)
EXTENDS Naturals, Sequences, SequencesExt

CONSTANTS
    Names,      \* flattened signal and instance names, sequences of parts
    Labels,     \* label numbers that have a bit in a mask
    Public,     \* the label of mask 1, given to names no node line lists
    Malformed,  \* a blank, comment or unparsable line
    NodeFiles,  \* the node files a run may be given
    StepFiles   \* the step files a run may be given

NodeLine == [name: Names, basic: SUBSET Labels,
             pos: SUBSET Labels, neg: SUBSET Labels]

\* A token after the two names of a step line.
PcToken == [quoted: BOOLEAN, names: Seq(Names)]

StepLine == [from: Names, to: Names, pc: Seq(PcToken)]

ASSUME NamesAssumption == \A n \in Names : Len(n) \in Nat
ASSUME PublicAssumption == Public \in Labels
ASSUME MalformedAssumption == Malformed \notin NodeLine \cup StepLine
ASSUME NodeFilesAssumption == NodeFiles \subseteq Seq(NodeLine \cup {Malformed})
ASSUME StepFilesAssumption == StepFiles \subseteq Seq(StepLine \cup {Malformed})

VARIABLES
    nodeFile, stepFile,     \* the inputs of the run, never written
    node_state,             \* name -> its clauses
    inferred_label_reason,  \* who inherited which labels from whom
    phase,                  \* the goal of main being solved
    pos,                    \* next line (or edge) of the file being read
    changed,                \* AnyChanged of the current scan
    violations              \* the "no (violation)" reports written to OutFile

vars == <<nodeFile, stepFile, node_state, inferred_label_reason, phase, pos,
          changed, violations>>

Clause == [basic: SUBSET Labels, pos: SUBSET Labels, neg: SUBSET Labels,
           taint: SUBSET Labels, path: Seq(Names)]

-----------------------------------------------------------------------------
(* Helpers of the Prolog program.                                          *)

NL == <<"N", "L">>

Listed(n) == node_state[n] # <<>>

get_node(n) ==
    IF Listed(n) THEN Head(node_state[n])
    ELSE [basic |-> {Public}, pos |-> {}, neg |-> {}, taint |-> {Public},
          path |-> <<>>]

node_basic_mask(n) == IF Listed(n) THEN Head(node_state[n]).basic ELSE {}

\* retract of the clause that was read, assertz of its replacement.
Replace(n, c) ==
    [node_state EXCEPT ![n] = Append(IF @ = <<>> THEN <<>> ELSE Tail(@), c)]

inside_scope(n, scope) == IsPrefix(scope, n)

module_boundary_with_capability(b) ==
    \E i \in DOMAIN node_state[b] : node_state[b][i].pos # {}

hierarchy_boundary_blocks(from, to) ==
    \E b \in Names : /\ module_boundary_with_capability(b)
                     /\ inside_scope(to, b)
                     /\ ~inside_scope(from, b)

\* Only a token that starts with pc_p= counts; a quoted one does not.
parse_pc_tokens(tokens) ==
    {n \in Names : \E i \in DOMAIN tokens :
                      /\ ~tokens[i].quoted
                      /\ \E j \in DOMAIN tokens[i].names : tokens[i].names[j] = n}

calculate_pc_taint(step) ==
    UNION {get_node(n).taint : n \in parse_pc_tokens(step.pc)}

-----------------------------------------------------------------------------
(* load_nodes.                                                             *)

Init ==
    /\ nodeFile \in NodeFiles
    /\ stepFile \in StepFiles
    /\ node_state = [n \in Names |-> <<>>]
    /\ inferred_label_reason = {}
    /\ phase = "load"
    /\ pos = 1
    /\ changed = FALSE
    /\ violations = {}

LoadLine ==
    /\ phase = "load"
    /\ pos <= Len(nodeFile)
    /\ LET line == nodeFile[pos] IN
         node_state' =
           IF line = Malformed THEN node_state
           ELSE [node_state EXCEPT ![line.name] =
                   Append(@, [basic |-> line.basic, pos |-> line.pos,
                              neg |-> line.neg, taint |-> line.basic,
                              path |-> <<>>])]
    /\ pos' = pos + 1
    /\ UNCHANGED <<nodeFile, stepFile, inferred_label_reason, phase, changed,
                   violations>>

LoadEnd ==
    /\ phase = "load"
    /\ pos > Len(nodeFile)
    /\ phase' = "infer"
    /\ pos' = 1
    /\ UNCHANGED <<nodeFile, stepFile, node_state, inferred_label_reason,
                   changed, violations>>

-----------------------------------------------------------------------------
(* apply_hierarchical_edges_until_stable: the first edge that can pass on  *)
(* a label does so and the search restarts from the first edge.            *)

\* Slips: any common label taken for "nothing new"; the test left out.
NothingToMerge_overlap(to, mask) ==
    Listed(to) /\ mask \cap get_node(to).basic # {}
NothingToMerge_never(to, mask) == FALSE

NothingToMerge(to, mask) ==
    /\ Listed(to)
    /\ mask \subseteq get_node(to).basic
    /\ mask \subseteq get_node(to).taint

CanInfer(from, to) ==
    /\ ~hierarchy_boundary_blocks(from, to)
    /\ node_basic_mask(from) # {}
    /\ ~NothingToMerge(to, node_basic_mask(from))

\* Slip: the inherited labels granted as capabilities too.
merge_inferred_basic_caps(n, mask) ==
    IF Listed(n)
    THEN Replace(n, [get_node(n) EXCEPT !.basic = @ \cup mask,
                                        !.pos = @ \cup mask,
                                        !.taint = @ \cup mask])
    ELSE Replace(n, [basic |-> mask, pos |-> {}, neg |-> {}, taint |-> mask,
                     path |-> <<>>])

merge_inferred_basic(n, mask) ==
    IF Listed(n)
    THEN Replace(n, [get_node(n) EXCEPT !.basic = @ \cup mask,
                                        !.taint = @ \cup mask])
    ELSE Replace(n, [basic |-> mask, pos |-> {}, neg |-> {}, taint |-> mask,
                     path |-> <<>>])

InferEdge ==
    /\ phase = "infer"
    /\ pos <= Len(stepFile)
    /\ stepFile[pos] # Malformed
    /\ LET from == stepFile[pos].from
           to == stepFile[pos].to
       IN /\ CanInfer(from, to)
          /\ node_state' = merge_inferred_basic(to, node_basic_mask(from))
          /\ inferred_label_reason' = inferred_label_reason \cup
               {[name |-> to, mask |-> node_basic_mask(from), from |-> from]}
    /\ pos' = 1
    /\ UNCHANGED <<nodeFile, stepFile, phase, changed, violations>>

InferSkip ==
    /\ phase = "infer"
    /\ pos <= Len(stepFile)
    /\ stepFile[pos] # Malformed =>
         ~CanInfer(stepFile[pos].from, stepFile[pos].to)
    /\ pos' = pos + 1
    /\ UNCHANGED <<nodeFile, stepFile, node_state, inferred_label_reason,
                   phase, changed, violations>>

InferEnd ==
    /\ phase = "infer"
    /\ pos > Len(stepFile)
    /\ phase' = "propagate"
    /\ pos' = 1
    /\ changed' = FALSE
    /\ UNCHANGED <<nodeFile, stepFile, node_state, inferred_label_reason,
                   violations>>

-----------------------------------------------------------------------------
(* propagate_until_stable: one action per line of scan_steps_file.         *)

\* Slip: a capability of the source counted as taint.
Combined_withCaps(step) ==
    get_node(step.from).taint \cup get_node(step.from).pos
      \cup calculate_pc_taint(step)

Combined(step) == get_node(step.from).taint \cup calculate_pc_taint(step)

\* Slips: capabilities forgotten; negative ones counted as permission.
Allow_basicOnly(n) == get_node(n).basic
Allow_withNeg(n) == get_node(n).basic \cup get_node(n).pos \cup get_node(n).neg

Allow(n) == get_node(n).basic \cup get_node(n).pos

\* Slip: any common label taken for "nothing new".
Flows_disjoint(step) ==
    /\ step.from # NL
    /\ Combined(step) \cap get_node(step.to).taint = {}

Flows(step) ==
    /\ step.from # NL
    /\ ~(Combined(step) \subseteq get_node(step.to).taint)

\* The path kept for the target, last name first; the slip turns it round.
NewPath_oldestFirst(step) == get_node(step.from).path \o <<step.from>>
NewPath(step) == <<step.from>> \o get_node(step.from).path

update_node(n, taint, path) ==
    Replace(n, [get_node(n) EXCEPT !.taint = taint, !.path = path])

propagate_logic ==
    /\ phase = "propagate"
    /\ pos <= Len(stepFile)
    /\ stepFile[pos] # Malformed
    /\ Flows(stepFile[pos])
    /\ LET step == stepFile[pos]
       IN /\ node_state' =
               update_node(step.to, get_node(step.to).taint \cup Combined(step),
                           NewPath(step))
          /\ violations' =
               IF Combined(step) \subseteq Allow(step.to) THEN violations
               ELSE violations \cup
                      {[step |-> pos, path |-> <<step.to>> \o NewPath(step)]}
    /\ changed' = TRUE
    /\ pos' = pos + 1
    /\ UNCHANGED <<nodeFile, stepFile, inferred_label_reason, phase>>

ScanQuiet ==
    /\ phase = "propagate"
    /\ pos <= Len(stepFile)
    /\ stepFile[pos] # Malformed => ~Flows(stepFile[pos])
    /\ pos' = pos + 1
    /\ UNCHANGED <<nodeFile, stepFile, node_state, inferred_label_reason,
                   phase, changed, violations>>

Rescan ==
    /\ phase = "propagate"
    /\ pos > Len(stepFile)
    /\ changed
    /\ changed' = FALSE
    /\ pos' = 1
    /\ UNCHANGED <<nodeFile, stepFile, node_state, inferred_label_reason,
                   phase, violations>>

PropagationComplete ==
    /\ phase = "propagate"
    /\ pos > Len(stepFile)
    /\ ~changed
    /\ phase' = "done"
    /\ UNCHANGED <<nodeFile, stepFile, node_state, inferred_label_reason, pos,
                   changed, violations>>

Halted == phase = "done" /\ UNCHANGED vars

Load == LoadLine \/ LoadEnd
Infer == InferEdge \/ InferSkip \/ InferEnd
Propagate == propagate_logic \/ ScanQuiet \/ Rescan \/ PropagationComplete

Next == Load \/ Infer \/ Propagate \/ Halted

Spec == Init /\ [][Next]_vars

\* One Prolog thread that nothing suspends: it keeps taking its next step.
FairSpec == Spec /\ WF_vars(Next)
=============================================================================
