------------------------------ MODULE DifcFrontend ------------------------------
(***************************************************************************)
(* typecheck.cc: iverilog -z walks the module hierarchy from the roots,    *)
(* level by level, and writes the signals of every instance and the flows  *)
(* between them.  A module's typecheck, with the recursion through its     *)
(* generate schemes, gates and statements, is a list of things to do: each *)
(* step does the first, which may put others in its place.                 *)
(*                                                                         *)
(* A name is a sequence of segments: the code joins them with underscores, *)
(* so what an instance name with an underscore in it runs into shows here. *)
(* The security type of a signal is an object of the parsed module, which  *)
(* all instances of the module share and a condition may change.           *)
(***************************************************************************)
EXTENDS Sequences, SequencesExt, TLC

CONSTANTS
    Designs   \* the parsed designs, see Body for what is in a module

VARIABLES
    design,
    current_level, next_level,  \* tasks: the instances of this level and the next
    env,                        \* the task whose module is checked, or NoTask
    varsToType,                 \* its names
    pc, pcstring,               \* type and text of the conditions around a statement
    basic,                      \* the basic labels of the SecType objects
    todo,                       \* what is left of it
    child_modules,              \* the instances found in it
    seen_modules,               \* the static sets of three functions
    checked,                    \* the PGAssigns marked
    nodes, steps                \* the node file; the step file, as a set

vars == <<design, current_level, next_level, env, varsToType, pc, pcstring,
          basic, todo, child_modules, seen_modules, checked, nodes, steps>>

conditions == <<pc, pcstring, basic>>

Modules == DOMAIN design.modules

Task(type, path) == [type |-> type, path |-> path]
NoTask == Task("", <<>>)

NoNames == [v \in {} |-> {}]

-----------------------------------------------------------------------------
(* Security types.                                                         *)

\* The types without a label; every other object belongs to a declaration.
BOT == <<"BOT">>
TOP == <<"TOP">>

\* A type is an object, or a join: then joins lists what simplify does to it,
\* innermost join first, and first is the object it returns.
ConstType(o) == [first |-> o, joins |-> <<>>]

JoinType(t1, t2) ==
    [first |-> t1.first,
     joins |-> t1.joins \o t2.joins \o << <<t1.first, t2.first>> >>]

\* In each join the object on the left takes the labels of the right one.
simplify(t) ==
    FoldLeft(LAMBDA b, j : [b EXCEPT ![j[1]] = @ \cup b[j[2]]], basic, t.joins)

\* A simplified join has no joins inside any more.
Collapsed(t) ==
    [t EXCEPT !.joins = IF @ = <<>> THEN @ ELSE <<Last(@)>>]

\* The type of a condition: that of a name is the object it was declared with.
ObjectOf(v) ==
    CASE v \in DOMAIN varsToType -> varsToType[v].sectype
      [] v = BOT -> BOT
      [] OTHER -> TOP

TypeOf(e) ==
    [first |-> ObjectOf(e.first),
     joins |-> [i \in DOMAIN e.joins |->
                  <<ObjectOf(e.joins[i][1]), ObjectOf(e.joins[i][2])>>]]

-----------------------------------------------------------------------------
(* The parts of a module, in the order its typecheck takes them.           *)

\* The ports are put out when the generate schemes have added their names.
\* Slip: before.
Body_portsFirst(m) ==
    <<[do |-> "ports"]>> \o m.schemes \o m.gates \o m.behaviors

Body(m) == m.schemes \o <<[do |-> "ports"]>> \o m.gates \o m.behaviors

\* The scheme's own genvars are not implemented, and stop it when all but its
\* nested schemes is done.
SchemeBody(s) ==
    s.gates \o s.behaviors
    \o (IF s.genvars THEN <<[do |-> "unsupported"]>> ELSE <<>>) \o s.schemes

\* An assignment whose right side is a ternary is checked as an if statement.
IsTernary(rhs) == "test" \in DOMAIN rhs

translate(lhs, t) ==
    [do |-> "if", cond |-> t.test,
     branches |-> << [do |-> "assignment", lhs |-> lhs, rhs |-> t.tru],
                     [do |-> "assignment", lhs |-> lhs, rhs |-> t.fal] >>]

-----------------------------------------------------------------------------
(* What is written.                                                        *)

Public == {1}

NodeLine(name, label, positive, negative) ==
    [name |-> name, basic |-> label, positive |-> positive, negative |-> negative]

\* The instance, when its module has a capability; then each name, one without
\* a label as public and without capabilities.
NodeLines(path, m) ==
    LET Line(v) == LET label == basic[varsToType[v].sectype] IN
                   IF label = {} THEN NodeLine(path \o v, Public, {}, {})
                   ELSE NodeLine(path \o v, label, m.positive, varsToType[v].negative)
    IN  (IF m.positive = {} THEN <<>>
         ELSE <<NodeLine(path, Public, m.positive, {})>>)
        \o SetToSeq({Line(v) : v \in DOMAIN varsToType})

\* The names of the instance that the condition text mentions.
formatStringByMap(path) ==
    {path \o v : v \in pcstring \cap DOMAIN varsToType}

Step(from, to, pc_p) == [from |-> from, to |-> to, pc_p |-> pc_p]

\* Every name on the right to every name on the left.
AssignmentSteps(s) ==
    {Step(env.path \o r, env.path \o l, formatStringByMap(env.path)) :
        r \in Range(s.rhs.tokens), l \in Range(s.lhs)}

\* Every name of the actual to an input or inout port; an output port to the
\* first name of its actual.
PortSteps(child, pin) ==
    LET text == formatStringByMap(child.path)
        port == child.path \o pin.name
        wires == design.modules[child.type].wires
    IN  CASE pin.name \notin DOMAIN wires \/ pin.actual = <<>> -> {}
          [] wires[pin.name].port \in {"input", "inout"} ->
               {Step(env.path \o a, port, text) : a \in Range(pin.actual)}
          [] wires[pin.name].port = "output" ->
               {Step(port, env.path \o Head(pin.actual), text)}
          [] OTHER -> {}

-----------------------------------------------------------------------------
(* The loop over the levels.                                               *)

\* Slip: by the name of the instance, without that of its parent.
Seen_byInstance(t) == \E p \in seen_modules.module : Last(p) = Last(t.path)

Seen(t) == t.path \in seen_modules.module

NextTask ==
    /\ env = NoTask /\ current_level # <<>>
    /\ env' = Head(current_level)
    /\ current_level' = Tail(current_level)
    /\ pc' = ConstType(BOT)
    /\ IF Seen(env')
       THEN UNCHANGED <<varsToType, todo, seen_modules>>
       ELSE LET m == design.modules[env'.type] IN
              /\ varsToType' = m.wires
              /\ todo' = IF m.unsupported THEN <<>> ELSE Body(m)
              /\ seen_modules' = [seen_modules EXCEPT !.module = @ \cup {env'.path}]
    /\ UNCHANGED <<design, next_level, pcstring, basic, child_modules, checked,
                   nodes, steps>>

\* The end of the module, or the handler of what it throws.
TaskDone ==
    /\ env # NoTask /\ todo = <<>>
    /\ next_level' = next_level \o child_modules
    /\ child_modules' = <<>>
    /\ env' = NoTask
    /\ varsToType' = NoNames
    /\ pcstring' = {}
    /\ UNCHANGED <<design, current_level, pc, basic, todo, seen_modules, checked,
                   nodes, steps>>

\* Slip: the next level is not cleared.
SwapLevels_keep == current_level' = next_level /\ UNCHANGED next_level

SwapLevels == current_level' = next_level /\ next_level' = <<>>

NextLevel ==
    /\ env = NoTask /\ current_level = <<>> /\ next_level # <<>>
    /\ SwapLevels
    /\ UNCHANGED <<design, env, varsToType, conditions, todo, child_modules,
                   seen_modules, checked, nodes, steps>>

Done == env = NoTask /\ current_level = <<>> /\ next_level = <<>>

Finished == Done /\ UNCHANGED vars

-----------------------------------------------------------------------------
(* Module::typecheck and PGenerate::typecheck.                             *)

Do(what) == todo # <<>> /\ Head(todo).do = what

\* One generate scheme per instance: the next finds the instance seen.
PGenerate_typecheck ==
    /\ Do("generate")
    /\ LET s == Head(todo) IN
         IF env.path \in seen_modules.generate
         THEN todo' = Tail(todo) /\ UNCHANGED <<seen_modules, varsToType>>
         ELSE /\ todo' = SchemeBody(s) \o Tail(todo)
              /\ seen_modules' = [seen_modules EXCEPT !.generate = @ \cup {env.path}]
              /\ varsToType' = s.wires @@ varsToType
    /\ UNCHANGED <<design, current_level, next_level, env, conditions,
                   child_modules, checked, nodes, steps>>

outputPorts ==
    /\ Do("ports")
    /\ todo' = Tail(todo)
    /\ IF env.path \in seen_modules.ports
       THEN UNCHANGED <<seen_modules, nodes>>
       ELSE /\ seen_modules' = [seen_modules EXCEPT !.ports = @ \cup {env.path}]
            /\ nodes' = nodes \o NodeLines(env.path, design.modules[env.type])
    /\ UNCHANGED <<design, current_level, next_level, env, varsToType, conditions,
                   child_modules, checked, steps>>

Known(type) == type \in Modules

PGModule_typecheck ==
    /\ Do("instance")
    /\ LET g == Head(todo)
           child == Task(g.type, env.path \o g.name)
       IN  IF Known(g.type)
           THEN /\ steps' = steps \cup UNION {PortSteps(child, p) : p \in Range(g.pins)}
                /\ child_modules' = Append(child_modules, child)
           ELSE UNCHANGED <<steps, child_modules>>
    /\ todo' = Tail(todo)
    /\ UNCHANGED <<design, current_level, next_level, env, varsToType, conditions,
                   seen_modules, checked, nodes>>

\* The mark is in the parsed module, which all its instances share; a generate
\* scheme neither reads nor sets it.
PGAssign_typecheck ==
    /\ Do("assign")
    /\ LET g == Head(todo) IN
         IF g.id \in checked /\ ~g.generated
         THEN todo' = Tail(todo) /\ UNCHANGED checked
         ELSE /\ todo' = <<g.assignment>> \o Tail(todo)
              /\ checked' = IF g.generated THEN checked ELSE checked \cup {g.id}
    /\ UNCHANGED <<design, current_level, next_level, env, varsToType, conditions,
                   child_modules, seen_modules, nodes, steps>>

\* An initial process is not checked.
PProcess_typecheck ==
    /\ Do("process")
    /\ todo' = (IF Head(todo).initial THEN <<>> ELSE <<Head(todo).statement>>)
               \o Tail(todo)
    /\ UNCHANGED <<design, current_level, next_level, env, varsToType, conditions,
                   child_modules, seen_modules, checked, nodes, steps>>

-----------------------------------------------------------------------------
(* Statements.                                                             *)

typecheck_assignment ==
    /\ Do("assignment")
    /\ LET s == Head(todo) IN
         IF IsTernary(s.rhs)
         THEN todo' = <<translate(s.lhs, s.rhs)>> \o Tail(todo) /\ UNCHANGED steps
         ELSE todo' = Tail(todo) /\ steps' = steps \cup AssignmentSteps(s)
    /\ UNCHANGED <<design, current_level, next_level, env, varsToType, conditions,
                   child_modules, seen_modules, checked, nodes>>

PBlock_typecheck ==
    /\ Do("block")
    /\ todo' = Head(todo).list \o Tail(todo)
    /\ varsToType' = Head(todo).wires @@ varsToType
    /\ UNCHANGED <<design, current_level, next_level, env, conditions,
                   child_modules, seen_modules, checked, nodes, steps>>

\* The branches of s, and then the conditions around it, the type now old.
\* Slip: the conditions stay.
Branches_leavePc(s, old) == s.branches

Branches(s, old) ==
    s.branches \o <<[do |-> "restore", pc |-> old, pcstring |-> pcstring]>>

\* The label of the condition joins the pc's, and the object on its left keeps
\* what it takes.  The condition text of an if replaces that around it.
PCondit_typecheck ==
    /\ Do("if")
    /\ LET s == Head(todo)
           t == JoinType(TypeOf(s.cond), pc)
       IN  /\ todo' = Branches(s, Collapsed(pc)) \o Tail(todo)
           /\ basic' = simplify(t)
           /\ pc' = ConstType(t.first)
           /\ pcstring' = s.cond.names
    /\ UNCHANGED <<design, current_level, next_level, env, varsToType,
                   child_modules, seen_modules, checked, nodes, steps>>

\* Each item of a case by itself.
PCase_typecheck ==
    /\ Do("case")
    /\ LET s == Head(todo) IN
         todo' = [i \in DOMAIN s.branches |->
                    [do |-> "item", cond |-> s.cond, branches |-> <<s.branches[i]>>]]
                 \o Tail(todo)
    /\ UNCHANGED <<design, current_level, next_level, env, varsToType, conditions,
                   child_modules, seen_modules, checked, nodes, steps>>

\* The text is added to that around the case.
CaseItem ==
    /\ Do("item")
    /\ LET s == Head(todo)
           t == JoinType(TypeOf(s.cond), pc)
       IN  /\ todo' = Branches(s, Collapsed(pc)) \o Tail(todo)
           /\ basic' = simplify(t)
           /\ pc' = ConstType(t.first)
           /\ pcstring' = s.cond.names \cup pcstring
    /\ UNCHANGED <<design, current_level, next_level, env, varsToType,
                   child_modules, seen_modules, checked, nodes, steps>>

\* An event control joins and does not simplify.
PEventStatement_typecheck ==
    /\ Do("event")
    /\ LET s == Head(todo) IN
         /\ todo' = Branches(s, pc) \o Tail(todo)
         /\ pc' = FoldLeft(LAMBDA t, e : JoinType(t, TypeOf(e)), pc, s.exprs)
         /\ pcstring' = pcstring \cup UNION {e.names : e \in Range(s.exprs)}
    /\ UNCHANGED <<design, current_level, next_level, env, varsToType, basic,
                   child_modules, seen_modules, checked, nodes, steps>>

RestorePc ==
    /\ Do("restore")
    /\ pc' = Head(todo).pc
    /\ pcstring' = Head(todo).pcstring
    /\ todo' = Tail(todo)
    /\ UNCHANGED <<design, current_level, next_level, env, varsToType, basic,
                   child_modules, seen_modules, checked, nodes, steps>>

\* The body of a for is not checked.
PForStatement_typecheck ==
    /\ Do("for")
    /\ todo' = Tail(todo)
    /\ UNCHANGED <<design, current_level, next_level, env, varsToType, conditions,
                   child_modules, seen_modules, checked, nodes, steps>>

\* Tasks, delays, loops, empty statements, specify paths ...: throw.
Unimplemented ==
    /\ Do("unsupported")
    /\ todo' = <<>>
    /\ UNCHANGED <<design, current_level, next_level, env, varsToType, conditions,
                   child_modules, seen_modules, checked, nodes, steps>>

-----------------------------------------------------------------------------
Init ==
    /\ design \in Designs
    /\ LET roots == SelectSeq(design.roots, Known)
       IN  current_level = [i \in DOMAIN roots |-> Task(roots[i], <<roots[i]>>)]
    /\ next_level = <<>>
    /\ env = NoTask
    /\ varsToType = NoNames
    /\ pc = ConstType(BOT)
    /\ pcstring = {}
    /\ basic = design.basic
    /\ todo = <<>>
    /\ child_modules = <<>>
    /\ seen_modules = [module |-> {}, ports |-> {}, generate |-> {}]
    /\ checked = {}
    /\ nodes = <<>>
    /\ steps = {}

Walk ==
    \/ NextTask \/ TaskDone \/ NextLevel
    \/ PGenerate_typecheck \/ outputPorts
    \/ PGModule_typecheck \/ PGAssign_typecheck \/ PProcess_typecheck
    \/ typecheck_assignment \/ PBlock_typecheck \/ PCondit_typecheck
    \/ PCase_typecheck \/ CaseItem \/ PEventStatement_typecheck \/ RestorePc
    \/ PForStatement_typecheck \/ Unimplemented

Next == Walk \/ Finished

Spec == Init /\ [][Next]_vars
=============================================================================
