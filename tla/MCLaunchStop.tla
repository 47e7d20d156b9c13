---------------------------- MODULE MCLaunchStop ----------------------------
(***************************************************************************)
(* Small instances of LaunchStop: two runs are interchangeable.            *)
(***************************************************************************)
EXTENDS LaunchStop, TLC

Symmetry == Permutations(Runs)

=============================================================================
