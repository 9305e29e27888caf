---------------------------- MODULE MCVpiCallback ----------------------------
(* An array of two words: all that is done with a signal or an event, which  *)
(* have one, is done with the callbacks of one of its words.                 *)
EXTENDS VpiCallback

MCObjects == {"mem"}
MCWords == [o \in MCObjects |-> {"w0", "w1"}]
=============================================================================
