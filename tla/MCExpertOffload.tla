---------------------------- MODULE MCExpertOffload ----------------------------
(***************************************************************************)
(* Instances of ExpertOffload for TLC.                                     *)
(***************************************************************************)
EXTENDS ExpertOffload

=============================================================================
