------------------------------ MODULE MCBundle ------------------------------
(* Small instance of Bundle: two run ids and two artifacts that have the     *)
(* same features under the config, or are replaced by a third that has not.  *)
EXTENDS Bundle, TLC

CONSTANT Run

Vector == [size |-> 1, min |-> None, max |-> None, bins |-> 2, scale |-> 1, policy |-> TRUE]

MCRequest ==
  [run : Run, values : {<<0, 1>>, <<0, 0>>}, target : {"t"}, config : {Vector},
   denied : {FALSE}]

MCReplacement == {<<0, 1>>, <<0, 0>>, <<2, 1>>}

RunIdsAlike == Permutations(Run)
=============================================================================
