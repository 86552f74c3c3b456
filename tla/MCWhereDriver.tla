---------------------------- MODULE MCWhereDriver ----------------------------
(***************************************************************************)
(* The dims flags TLC tries: one and two dimensions of lengths 1 and 2,  *)
(* a flag that is all zeros and one with a zero to drop.                  *)
(***************************************************************************)
EXTENDS WhereDriver

MCDimsFlags == {<<1>>, <<2>>, <<0>>, <<1, 2>>, <<2, 1>>, <<2, 2>>, <<0, 2>>}
=============================================================================
