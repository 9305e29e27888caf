------------------------------ MODULE MCSysQueue ------------------------------
(* Two queues, jobs told apart, times that fill the word.                      *)
EXTENDS SysQueue, TLC

CONSTANTS q1, q2

Symmetric == Permutations({q1, q2})

\* The long division by hand is the division, for every total of two words
\* whose quotient is one.
ASSUME DivisionExact ==
    \A total \in 1..(Word - 1) : \A high \in 0..(total - 1) : \A low \in 0..(Word - 1) :
      calc_average_wait_time(high, low, total) = (high * Word + low) \div total
=============================================================================
