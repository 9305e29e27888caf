----------------------------- MODULE MCVvpDelay -----------------------------
(* A two bit net with module paths.                                           *)
EXTENDS VvpDelay

\* A two bit vector that rises, falls and changes in one bit only.
MCInputs == {<<"0", "0">>, <<"1", "0">>, <<"1", "1">>}

\* A rise slower than a fall, and the reverse with a fast decay.
MCDelays == {[rise |-> 2, fall |-> 1, decay |-> 1]}
MCSettings == {2}

AllEdges(t) == [e \in Edges |-> t]

\* A path from a rising edge, and two ifnone paths.
MCPaths ==
    <<[edge |-> "pos", ifnone |-> FALSE, delay |-> AllEdges(2)],
      [edge |-> "neg", ifnone |-> TRUE, delay |-> AllEdges(0)],
      [edge |-> "any", ifnone |-> TRUE, delay |-> AllEdges(1)]>>
=============================================================================
