---------------------------- MODULE MCDifcBackend ----------------------------
(* Small node and step files for DifcBackend.                               *)
EXTENDS DifcBackendProps, FiniteSets

CONSTANT MaxSteps     \* longest step file of the plain edges

m == <<"m">>            \* an instance
mx == <<"m", "x">>      \* a signal inside it
s == <<"s">>            \* a signal outside
nl == <<"N", "L">>      \* the source the scan treats as unlabelled

MCNames == {m, mx, s, nl}

Line(n, basic, caps) == [name |-> n, basic |-> basic, pos |-> caps, neg |-> {}]

Step(from, to) == [from |-> from, to |-> to, pc |-> <<>>]

StepsUpTo(k, S) == UNION {[1..i -> S] : i \in 0..k}

\* Every signal unlisted, or listed with one of a few labels.
ListingsOf(n) ==
    {<<>>} \cup {<<Line(n, b, c)>> : b \in {{}, {1}, {2}}, c \in {{}}}
           \cup {<<Line(n, {1}, {2})>>}

UniqueNodeFiles ==
    {a \o b \o c : a \in ListingsOf(m), b \in ListingsOf(mx), c \in ListingsOf(s)}

PlainEdges == {Step(p[1], p[2]) : p \in {q \in {m, mx, s} \X {m, mx, s} : q[1] # q[2]}}

PlainStepFiles == StepsUpTo(MaxSteps, PlainEdges)

\* Files in which one name has two lines, as two flattened names that collide
\* give, with lines to skip.
SharedLines ==
    {Malformed, [Line(m, {1}, {1}) EXCEPT !.neg = {2}], Line(m, {2}, {}),
     Line(mx, {1}, {2}), Line(s, {2}, {})}

SharedNodeFiles == StepsUpTo(2, SharedLines)

\* Steps with a pc token the backend accepts, with the quoted token the front
\* end writes, from the unlabelled source, and a line to skip.
OddSteps ==
    {[from |-> s, to |-> m, pc |-> <<[quoted |-> q, names |-> <<mx>>]>>] :
        q \in BOOLEAN} \cup
    {Step(nl, m), Step(s, mx), Step(m, mx), Step(mx, m), Step(m, m), Malformed}

OddStepFiles == StepsUpTo(2, OddSteps)

MCNodeFiles == UniqueNodeFiles \cup SharedNodeFiles
MCStepFiles == PlainStepFiles \cup OddStepFiles
=============================================================================
