------------------------------ MODULE MCCoEdit ------------------------------
(***************************************************************************)
(* An instance of CoEdit with two Studios.  They are numbers, since their  *)
(* names decide between edits of equal count, and so no symmetry set.      *)
(***************************************************************************)
EXTENDS CoEdit

TwoStudios == {1, 2}
=============================================================================
