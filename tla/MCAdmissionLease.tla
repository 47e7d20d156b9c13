-------------------------- MODULE MCAdmissionLease --------------------------
(***************************************************************************)
(* Model values and symmetry for checking AdmissionLease with TLC.         *)
(***************************************************************************)
EXTENDS AdmissionLease, TLC

\* Controllers and leases are interchangeable; ranks are not (rank 0 is local
\* and every loop visits the ranks in order).
Symmetry == Permutations(Coords) \cup Permutations(Leases)

=============================================================================
