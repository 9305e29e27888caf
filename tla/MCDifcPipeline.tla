----------------------------- MODULE MCDifcPipeline -----------------------------
(***************************************************************************)
(* The designs of MCDifcFrontend through both programs, and designs which  *)
(* the front end handles whole and whose labels it keeps, with             *)
(* capabilities and labels that let names through or do not.               *)
(***************************************************************************)
EXTENDS DifcPipeline, MCDifcFrontend

InstancePaths ==
    {<<"top">>, <<"top", "m">>, <<"top", "m", "u">>, <<"top", "v">>,
     <<"top", "g">>, <<"top", "g", "u">>}

MCFlatNames == InstancePaths \cup {p \o v : p \in InstancePaths, v \in {A, B, C, S, W}}

PlainTop ==
    [Top(<<>>, <<TopAssign>>) EXCEPT
        !.behaviors = <<Always(If(Ident(A), <<Copy(<<B>>, <<C>>)>>))>>]

PlainStatements ==
    {Copy(<<B, C>>, <<A, S>>),
     Case(Ident(C), <<Copy(<<B>>, <<A>>), For>>),
     Event(<<Ident(C), Ident(A)>>,
           <<Block(W :> Wire("none", <<"leaf", "w">>, {}),
                   <<Copy(<<W>>, <<A>>), Copy(<<C>>, <<W>>)>>)>>)}

WholeDesigns ==
    {[roots |-> <<"top">>,
      basic |-> <<"top", "a">> :> a @@ <<"leaf", "s">> :> s @@ Labels,
      modules |-> "top" :> PlainTop
                  @@ "mid" :> [Mid(<<MidAssign>>) EXCEPT !.positive = mid]
                  @@ "leaf" :> [Leaf(statement) EXCEPT !.positive = leaf[1],
                                                       !.wires[B].negative = leaf[2]]] :
        a \in {{}, {1}, {2}}, s \in {{}, {2}}, mid \in {{}, {1}, {2}},
        leaf \in {<<{}, {}>>, <<{}, {2}>>, <<{2}, {2}>>}, statement \in PlainStatements}

MCDesigns == OnceEach \cup WholeDesigns
=============================================================================
