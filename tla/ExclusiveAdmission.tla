------------------------- MODULE ExclusiveAdmission -------------------------
(***************************************************************************)
(* What the admission protocol of admission_control.py promises its users, *)
(* with the four ranks, the guards and every failure abstracted away: at   *)
(* most one lease exists at a time, a lease is never issued twice, rows    *)
(* are served only under the lease that exists, and the lease can only be  *)
(* given up when nothing is being served under it.                         *)
(***************************************************************************)
EXTENDS Integers

CONSTANTS
    Leases,     \* lease identities (secrets.token_hex(32) in the code)
    NoLease     \* "no lease"

VARIABLES
    holder,     \* the lease that exists now, or NoLease
    spent,      \* every lease ever issued
    serving     \* the leases whose row the model server is executing

vars == <<holder, spent, serving>>

Init ==
    /\ holder = NoLease
    /\ spent = {}
    /\ serving = {}

\* A controller is given a lease nobody was given before.
Claim(l) ==
    /\ holder = NoLease
    /\ l \notin spent
    /\ holder' = l
    /\ spent' = spent \cup {l}
    /\ UNCHANGED serving

\* The one heavy request or batch of the lease reaches the server.
Serve ==
    /\ holder # NoLease
    /\ serving = {}
    /\ serving' = {holder}
    /\ UNCHANGED <<holder, spent>>

\* The server is done with the row, or is stopped in the middle of it.
Complete ==
    /\ serving # {}
    /\ serving' = {}
    /\ UNCHANGED <<holder, spent>>

\* The lease ends: never while its row is still on the server.
Vacate ==
    /\ holder # NoLease
    /\ serving = {}
    /\ holder' = NoLease
    /\ UNCHANGED <<spent, serving>>

Next ==
    \/ \E l \in Leases : Claim(l)
    \/ Serve
    \/ Complete
    \/ Vacate

Spec == Init /\ [][Next]_vars

=============================================================================
