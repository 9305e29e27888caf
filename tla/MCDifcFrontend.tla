----------------------------- MODULE MCDifcFrontend -----------------------------
(***************************************************************************)
(* Small designs for DifcFrontend: a top with a generate scheme, a middle  *)
(* module and a leaf, with every statement tree of a small size in the     *)
(* leaf.  No two instances have the same flattened name, no module has two *)
(* generate schemes, and (but in Twice) a module with continuous           *)
(* assignments has one instance.                                           *)
(***************************************************************************)
EXTENDS DifcFrontendProps

A == <<"a">>
B == <<"b">>
C == <<"c">>
S == <<"s">>
W == <<"w">>

Wire(port, sectype, negative) ==
    [port |-> port, sectype |-> sectype, negative |-> negative]

Ident(v) == [names |-> {v}, first |-> v, joins |-> <<>>]
Number == [names |-> {}, first |-> BOT, joins |-> <<>>]
Binary(x, y) == [names |-> x.names \cup y.names] @@ JoinType(x, y)
Concat(x, y) == Binary(Binary(Number, x), y)

Tokens(t) == [tokens |-> t]
Copy(lhs, rhs) == [do |-> "assignment", lhs |-> lhs, rhs |-> Tokens(rhs)]
Assign(id, a) == [do |-> "assign", id |-> id, generated |-> FALSE, assignment |-> a]
Generated(a) == [do |-> "assign", id |-> 0, generated |-> TRUE, assignment |-> a]
Instance(type, name, pins) ==
    [do |-> "instance", type |-> type, name |-> name, pins |-> pins]
Pin(name, actual) == [name |-> name, actual |-> actual]
Always(s) == [do |-> "process", initial |-> FALSE, statement |-> s]
Initial(s) == [do |-> "process", initial |-> TRUE, statement |-> s]

If(c, branches) == [do |-> "if", cond |-> c, branches |-> branches]
Case(c, branches) == [do |-> "case", cond |-> c, branches |-> branches]
Event(exprs, branches) == [do |-> "event", exprs |-> exprs, branches |-> branches]
Block(wires, list) == [do |-> "block", wires |-> wires, list |-> list]
For == [do |-> "for"]
Unsupported == [do |-> "unsupported"]

Module(wires, positive, schemes, gates, behaviors) ==
    [wires |-> wires, positive |-> positive, unsupported |-> FALSE,
     schemes |-> schemes, gates |-> gates, behaviors |-> behaviors]

-----------------------------------------------------------------------------
(* Statements.                                                             *)

Simple ==
    { Copy(<<B>>, <<A>>), Copy(<<B, C>>, <<A, S>>),
      [do |-> "assignment", lhs |-> <<B>>,
       rhs |-> [test |-> Ident(S), tru |-> Tokens(<<A>>),
                fal |-> [test |-> Ident(C), tru |-> Tokens(<<C>>), fal |-> Tokens(<<>>)]]],
      For, Unsupported }

Around(x, y) ==
    { If(Binary(Ident(A), Ident(S)), <<x, y>>), Case(Concat(Ident(A), Ident(S)), <<x, y>>),
      Event(<<Ident(C), Ident(A)>>, <<x>>),
      Block(W :> Wire("none", <<"leaf", "w">>, {}), <<x, y>>) }

Deep == UNION {Around(x, Copy(<<C>>, <<A>>)) : x \in Simple}

Statements ==
    Simple \cup Deep \cup UNION {Around(x, y) : x \in Deep, y \in {Copy(<<C>>, <<W>>), For}}

-----------------------------------------------------------------------------
(* Designs.                                                                *)

Leaf(statement) ==
    Module(A :> Wire("input", <<"leaf", "a">>, {}) @@ B :> Wire("output", <<"leaf", "b">>, {2})
             @@ C :> Wire("inout", BOT, {}) @@ S :> Wire("none", <<"leaf", "s">>, {}),
           {2}, <<>>, <<>>,
           <<Initial(Copy(<<A>>, <<B>>)), Always(statement), Always(Copy(<<S>>, <<A>>))>>)

LeafPins == <<Pin(A, <<A, B>>), Pin(B, <<C>>), Pin(C, <<B>>), Pin(S, <<>>)>>

Mid(gates) ==
    Module(A :> Wire("input", <<"mid", "a">>, {}) @@ B :> Wire("none", <<"mid", "a">>, {})
             @@ C :> Wire("output", <<"mid", "c">>, {}),
           {}, <<>>,
           <<Instance("leaf", <<"u">>, LeafPins), Instance("black_box", <<"x">>, <<>>)>> \o gates,
           <<>>)

Scheme ==
    [do |-> "generate", wires |-> W :> Wire("none", <<"top", "w">>, {}), genvars |-> FALSE,
     gates |-> <<Instance("mid", <<"g">>, <<Pin(A, <<W>>), Pin(C, <<B>>)>>),
                 Generated(Copy(<<W>>, <<A>>))>>,
     behaviors |-> <<Always(Copy(<<W>>, <<B>>))>>, schemes |-> <<>>]

Top(schemes, gates) ==
    Module(A :> Wire("input", <<"top", "a">>, {}) @@ B :> Wire("none", <<"top", "b">>, {})
             @@ C :> Wire("output", <<"top", "c">>, {}),
           {}, schemes,
           gates \o <<Instance("mid", <<"m">>, <<Pin(A, <<A>>), Pin(C, <<B>>)>>)>>,
           <<Always(If(Ident(A), <<Copy(<<B>>, <<C>>)>>)), Always(Unsupported),
             Initial(Copy(<<C>>, <<B>>))>>)

Broken == [Leaf(For) EXCEPT !.unsupported = TRUE]

Labels ==
    BOT :> {} @@ TOP :> {}
    @@ <<"top", "a">> :> {1} @@ <<"top", "b">> :> {2} @@ <<"top", "c">> :> {}
    @@ <<"top", "w">> :> {2}
    @@ <<"mid", "a">> :> {1} @@ <<"mid", "c">> :> {}
    @@ <<"leaf", "a">> :> {1} @@ <<"leaf", "b">> :> {1} @@ <<"leaf", "s">> :> {2}
    @@ <<"leaf", "w">> :> {}

Design(top, mid, leaf) ==
    [roots |-> <<"missing", "top">>, basic |-> Labels,
     modules |-> "top" :> top @@ "mid" :> mid @@ "leaf" :> leaf]

TopAssign == Assign(1, Copy(<<C>>, <<B>>))
MidAssign == Assign(2, Copy(<<C>>, <<A>>))

OnceEach ==
    {Design(Top(<<>>, <<TopAssign, Instance("leaf", <<"v">>, LeafPins)>>),
            Mid(<<MidAssign>>), Leaf(s)) : s \in Statements}
    \cup {Design(Top(<<Scheme>>, <<TopAssign>>), Mid(<<>>), l) :
            l \in {Leaf(s) : s \in Simple} \cup {Broken}}

\* The generate scheme makes a second instance of mid.
Twice == {Design(Top(<<Scheme>>, <<>>), Mid(<<MidAssign>>), Leaf(For))}
=============================================================================
