------------------------------ MODULE MCSysDump ------------------------------
(* A module top with an instance sub in it, and a signal of an automatic task. *)
EXTENDS SysDump

\* top.a and sub.p are one net of one bit, as a port makes them; top.v and sub.q
\* are one vector.
MCContents == [top |-> <<"top.a", "top.v", "sub", "task">>,
               sub |-> <<"sub.p", "sub.q">>,
               task |-> <<"task.t">>]
MCRoots == <<"top">>
MCNet == [s \in {"top.a", "top.v", "sub.p", "sub.q", "task.t"} |->
            CASE s \in {"top.a", "sub.p"} -> "n"
              [] s \in {"top.v", "sub.q"} -> "v"
              [] OTHER -> "t"]
MCScalar == {"n", "t"}
MCAutomatic == {"task.t"}

\* Everything; one level of top; the instance; a signal alone, and with its scope
\* before or after it.
MCArguments ==
    {[depth |-> 0, items |-> <<>>],
     [depth |-> 1, items |-> <<"top">>],
     [depth |-> 0, items |-> <<"sub", "sub.q">>],
     [depth |-> 2, items |-> <<"sub.p", "top.v", "top">>]}

Bits == {"0", "1", "x", "z"}
Vectors == UNION {[1..n -> Bits] : n \in 1..4}

\* What a reader makes of a shorter vector: 0 is put before 0 and 1, x and z are repeated.
Extended(s, n) ==
    [i \in 1..n |->
       IF i > n - Len(s) THEN s[i - (n - Len(s))] ELSE IF s[1] = "1" THEN "0" ELSE s[1]]

\* A vector is read back as it was, and no shorter one would do.
ASSUME VectorsKept ==
    \A s \in Vectors :
       LET short == truncate_bitvec(s)
       IN /\ Extended(short, Len(s)) = s
          /\ \A k \in 2..Len(short) : Extended(SubSeq(short, k, Len(short)), Len(s)) # s

\* No two idents are the same.
ASSUME IdentsDiffer ==
    \A i, j \in 0..60 : gen_new_vcd_id(i, 3) = gen_new_vcd_id(j, 3) => i = j
=============================================================================
