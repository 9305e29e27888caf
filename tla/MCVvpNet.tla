------------------------------- MODULE MCVvpNet -------------------------------
(* Small netlists and the statements their processes execute.                *)
EXTENDS VvpNet

Input(n, p, from) == [to |-> <<n, p>>, from |-> from]
Tied(n, p, v) == [to |-> <<n, p>>, val |-> v]
Functor(k) == [kind |-> k]

Stmt(do, to, base, wid, val, from) ==
    [do |-> do, to |-> to, base |-> base, wid |-> wid, val |-> val, from |-> from]
Set(n, v) == Stmt("set", n, 0, Len(v), v, "")
SetPart(n, base, v) == Stmt("set", n, base, Len(v), v, "")
Assign(n, v) == Stmt("assign", n, 0, Len(v), v, "")
AssignPart(n, base, v) == Stmt("assign", n, base, Len(v), v, "")
AssignFrom(n, wid, s) == Stmt("assign", n, 0, wid, <<>>, s)
Force(n, v) == Stmt("force", n, 0, Len(v), v, "")
ForcePart(n, base, v) == Stmt("force", n, base, Len(v), v, "")
ForceFrom(n, wid, s) == Stmt("force", n, 0, wid, <<>>, s)
Deassign(n, base, wid) == Stmt("deassign", n, base, wid, <<>>, "")
Release(n, base, wid) == Stmt("release", n, base, wid, <<>>, "")

\* wire [1:0] w = a & b, v = ~w ^ a; the processes may let a follow w.
Gates ==
    [vars |-> {"a", "b"}, nets |-> {"w", "v"},
     functor |-> [g |-> Functor("and"), n |-> Functor("not"), x |-> Functor("xor")],
     width |-> [a |-> 2, b |-> 2, w |-> 2, v |-> 2, g |-> 2, n |-> 2, x |-> 2],
     links |-> <<Input("g", 0, "a"), Input("g", 1, "b"), Input("n", 0, "g"),
                 Input("x", 0, "n"), Input("x", 1, "a"),
                 Input("w", 0, "g"), Input("v", 0, "x")>>,
     constants |-> <<Tied("g", 2, <<"1", "1">>), Tied("g", 3, <<"1", "1">>),
                     Tied("x", 2, <<"0", "0">>), Tied("x", 3, <<"0", "0">>)>>,
     initial |-> <<"b", "a">>,
     statements |->
         {Set("a", <<"1", "1">>), Set("b", <<"1", "1">>), SetPart("b", 1, <<"0">>),
          AssignFrom("a", 2, "w"), Deassign("a", 0, 2),
          ForceFrom("w", 2, "b"), Release("w", 0, 2)}]

\* wire q = e ? a : q; buf(y, q).
Latch ==
    [vars |-> {"a", "e"}, nets |-> {"q", "y"},
     functor |-> [m |-> Functor("muxz"), u |-> Functor("buf")],
     width |-> [a |-> 1, e |-> 1, q |-> 1, y |-> 1, m |-> 1, u |-> 1],
     links |-> <<Input("m", 0, "m"), Input("m", 1, "a"), Input("m", 2, "e"), Input("q", 0, "m"),
                 Input("u", 0, "m"), Input("y", 0, "u")>>,
     constants |-> <<>>,
     initial |-> <<"e", "a">>,
     statements |->
         {Set("a", <<"z">>), Set("a", <<"1">>), Set("e", <<"0">>), Set("e", <<"1">>),
          AssignFrom("e", 1, "a"), Deassign("e", 0, 1),
          Force("a", <<"0">>), ForceFrom("a", 1, "q"), Release("a", 0, 1)}]

\* wire w = a[0]; wand t = b[1], ~w; wire [1:0] c = {|b, t}.
Parts ==
    [vars |-> {"a", "b"}, nets |-> {"t", "c"},
     functor |-> [p |-> [kind |-> "part", base |-> 0], h |-> [kind |-> "part", base |-> 1],
                  n |-> Functor("not"), d |-> Functor("triand"), r |-> Functor("reduce_or"),
                  k |-> [kind |-> "concat", wid |-> <<1, 1, 0, 0>>]],
     width |-> [a |-> 2, b |-> 2, t |-> 1, c |-> 2,
                p |-> 1, h |-> 1, n |-> 1, d |-> 1, r |-> 1, k |-> 2],
     links |-> <<Input("p", 0, "a"), Input("h", 0, "b"), Input("n", 0, "p"),
                 Input("d", 0, "h"), Input("d", 1, "n"), Input("r", 0, "b"),
                 Input("k", 0, "d"), Input("k", 1, "r"), Input("t", 0, "d"), Input("c", 0, "k")>>,
     constants |-> <<>>,
     initial |-> <<"b", "a">>,
     statements |->
         {Set("a", <<"1", "1">>), Set("b", <<"1", "0">>), AssignPart("a", 0, <<"0">>),
          AssignFrom("b", 2, "a"), Deassign("b", 0, 2), Deassign("a", 0, 1),
          ForcePart("a", 1, <<"0">>), Release("a", 1, 1), Force("t", <<"1">>), Release("t", 0, 1)}]

\* wire [1:0] s = a + b, y = ~(i | a), where i is s == b with its bit extended.
Arithmetic ==
    [vars |-> {"a", "b"}, nets |-> {"s", "y"},
     functor |-> [f |-> Functor("sum"), q |-> [kind |-> "cmp_eq", wid |-> 2],
                  i |-> Functor("extend"), o |-> Functor("nor")],
     width |-> [a |-> 2, b |-> 2, s |-> 2, y |-> 2, f |-> 2, q |-> 1, i |-> 2, o |-> 2],
     links |-> <<Input("f", 0, "a"), Input("f", 1, "b"), Input("q", 0, "f"), Input("q", 1, "b"),
                 Input("i", 0, "q"), Input("o", 0, "i"), Input("o", 1, "a"),
                 Input("s", 0, "f"), Input("y", 0, "o")>>,
     constants |-> <<Tied("o", 2, <<"0", "0">>), Tied("o", 3, <<"0", "0">>)>>,
     initial |-> <<"b", "a">>,
     statements |->
         {Set("a", <<"1", "1">>), Set("a", <<"0", "0">>), Set("b", <<"0", "1">>),
          SetPart("b", 1, <<"z">>), AssignFrom("b", 2, "a"), ForceFrom("b", 2, "y"),
          Release("b", 0, 2), Release("b", 1, 1), Deassign("b", 0, 2)}]

MCDesigns == [gates |-> Gates, latch |-> Latch, parts |-> Parts, arithmetic |-> Arithmetic]

\* Two variables, a third that follows one and then the other.  With Rebinding this
\* instance alone refutes NetSettled: no run has it.
Followed ==
    [vars |-> {"a", "b", "r"}, nets |-> {"w"},
     functor |-> [n |-> Functor("not")],
     width |-> [a |-> 1, b |-> 1, r |-> 1, w |-> 1, n |-> 1],
     links |-> <<Input("n", 0, "a"), Input("w", 0, "n")>>,
     constants |-> <<>>,
     initial |-> <<"r", "b", "a">>,
     statements |-> {Set("a", <<"1">>), Set("b", <<"0">>), AssignFrom("r", 1, "a"), AssignFrom("r", 1, "b")}]

FollowedOnly == [followed |-> Followed]
=============================================================================
