------------------------------- MODULE MCVec -------------------------------
(***************************************************************************)
(* Small instances of Vec: capacities reached by doubling 1, 2 and 3 and   *)
(* by the first growth to 4.                                               *)
(***************************************************************************)
EXTENDS Vec

CONSTANTS a, b

MCValue == {a, b}
MCOthers == {<<>>, <<a>>, <<a, b, b>>}

=============================================================================
