------------------------------ MODULE MCVvpIsland ------------------------------
(* Small islands: a cycle of switches, switches that open and close, and a    *)
(* vector with its bits.                                                      *)
EXTENDS VvpIsland

CONSTANTS pa, pb, pc, pe   \* ports

Tran(x, y) ==
    [a |-> x, b |-> y, en |-> NoPort, high |-> FALSE, width |-> 0, part |-> 0, offset |-> 0]
Tranif(x, y, high) == [Tran(x, y) EXCEPT !.en = pe, !.high = high]
Tranvp(x, y, offset) == [Tran(x, y) EXCEPT !.width = 2, !.part = 1, !.offset = offset]

Drive(strength, level) == [strength |-> strength, levels |-> {level}]
Strong == {Z, Drive(2, 0), Drive(2, 1)}

Cycle == [width |-> [p \in {pa, pb, pc} |-> 1], drives |-> Strong \cup {Drive(1, 0)},
          branches |-> <<Tran(pa, pb), Tran(pc, pb), Tran(pc, pa), Tran(pb, pa)>>]
Switches == [width |-> [p \in {pa, pb, pc, pe} |-> 1], drives |-> Strong \ {Z},
             branches |-> <<Tranif(pa, pb, TRUE), Tranif(pc, pb, FALSE), Tranif(pa, pc, TRUE)>>]
Parts == [width |-> [p \in {pa, pb, pc} |-> IF p = pa THEN 2 ELSE 1],
          drives |-> {Z, Drive(1, 0), Drive(2, 1)},
          branches |-> <<Tranvp(pa, pb, 0), Tranvp(pa, pc, 1)>>]

MCMeshes == [cycle |-> Cycle, switches |-> Switches, parts |-> Parts]
=============================================================================
