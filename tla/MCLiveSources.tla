---------------------------- MODULE MCLiveSources ----------------------------
(***************************************************************************)
(* Instances of LiveSources for TLC.                                       *)
(***************************************************************************)
EXTENDS LiveSources

=============================================================================
