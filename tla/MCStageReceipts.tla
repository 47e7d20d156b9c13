-------------------------- MODULE MCStageReceipts --------------------------
(***************************************************************************)
(* Model values and symmetry for checking StageReceipts with TLC.          *)
(***************************************************************************)
EXTENDS StageReceipts, TLC

Symmetry == Permutations(Invocations)

=============================================================================
