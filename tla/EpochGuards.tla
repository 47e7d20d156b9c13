---------------------------- MODULE EpochGuards ----------------------------
(***************************************************************************)
(* What the memory guards promise for the containers of one epoch, without *)
(* the way they stop them (guard_unified_memory.py) and the scripts that   *)
(* start and end both (final_runtime.py, final_guard.py): a container is   *)
(* started before its guard and never again; and a guard that ends without *)
(* having been told to leaves its own and the next rank's container        *)
(* stopped, names in its error record the stop that failed, or was killed. *)
(***************************************************************************)
EXTENDS Integers

CONSTANT N  \* number of ranks

Ranks == 0 .. N-1
Peer(r) == IF r = N-1 THEN 0 ELSE r + 1

VARIABLES
    up,       \* up[r]: container of rank r runs
    guard,    \* guard[r]: none yet, on, ended or killed
    failed,   \* failed[r]: stops that the guard's record calls failed
    stopping  \* the guards are being told to leave

vars == <<up, guard, failed, stopping>>

(* An epoch that has not begun, or one that is up under its guards.        *)
Init ==
    /\ \/ up = [r \in Ranks |-> FALSE] /\ guard = [r \in Ranks |-> "none"]
       \/ up = [r \in Ranks |-> TRUE] /\ guard = [r \in Ranks |-> "on"]
    /\ failed = [r \in Ranks |-> {}]
    /\ stopping = FALSE

Run(r) ==
    /\ ~up[r] /\ guard[r] = "none"
    /\ up' = [up EXCEPT ![r] = TRUE]
    /\ UNCHANGED <<guard, failed, stopping>>

Watch(r) ==
    /\ up[r] /\ guard[r] = "none"
    /\ guard' = [guard EXCEPT ![r] = "on"]
    /\ UNCHANGED <<up, failed, stopping>>

(* By itself, by one stop of a guard that is not through, or by the        *)
(* operator.                                                               *)
Stops(r) ==
    /\ up[r]
    /\ up' = [up EXCEPT ![r] = FALSE]
    /\ UNCHANGED <<guard, failed, stopping>>

(* A guard ends by itself: what still runs is named.                       *)
Abort(r) ==
    /\ guard[r] = "on"
    /\ guard' = [guard EXCEPT ![r] = "ended"]
    /\ \E down \in SUBSET {r, Peer(r)}, named \in SUBSET {"local", "peer"} :
          /\ up' = [q \in Ranks |-> IF q \in down THEN FALSE ELSE up[q]]
          /\ failed' = [failed EXCEPT ![r] = named]
          /\ up'[r] => "local" \in named
          /\ up'[Peer(r)] => "peer" \in named
    /\ UNCHANGED stopping

BeginStop ==
    /\ stopping' = TRUE
    /\ UNCHANGED <<up, guard, failed>>

(* SIGTERM: the guard leaves, and stops nothing.                           *)
Leave(r) ==
    /\ guard[r] = "on"
    /\ guard' = [guard EXCEPT ![r] = "ended"]
    /\ stopping' = TRUE
    /\ UNCHANGED <<up, failed>>

Kill(r) ==
    /\ guard[r] = "on"
    /\ guard' = [guard EXCEPT ![r] = "killed"]
    /\ UNCHANGED <<up, failed, stopping>>

Next ==
    \/ \E r \in Ranks : Run(r) \/ Watch(r) \/ Stops(r) \/ Abort(r) \/ Leave(r) \/ Kill(r)
    \/ BeginStop

Spec == Init /\ [][Next]_vars

=============================================================================
