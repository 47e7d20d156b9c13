----------------------------- MODULE GuardRing -----------------------------
(***************************************************************************)
(* The four guards of an epoch together.  Each watches its own container   *)
(* and, when it leaves its loop for a hard reason or an exception, stops   *)
(* that container and the one of the next rank (guard_args of              *)
(* scripts/final_guard.py closes the ring; the stops are main() and        *)
(* stop_exact / stop_peer of guard_unified_memory.py).  A guard whose      *)
(* container was stopped by its neighbour fails its next read and goes on. *)
(* What makes a guard abort is GuardLoop; here it is a choice.             *)
(***************************************************************************)
EXTENDS Integers, FiniteSets

CONSTANTS
    N,          \* number of ranks (4)
    MaxFaults,  \* bound: stops that fail, guards that are killed
    MaxTriggers \* bound: hard reasons and failed reads that start an abort

ASSUME NAssumption == N \in Nat \ {0}
ASSUME BoundAssumption == MaxFaults \in Nat /\ MaxTriggers \in Nat

Ranks == 0 .. N-1

(* peer=record['ranks'][(r+1)%4]                                           *)
Peer(r) == IF r = N-1 THEN 0 ELSE r + 1

VARIABLES
    up,        \* up[r]: container of rank r runs
    gpc,       \* gpc[r]: the loop, the stops of an abort, or done
    outcome,   \* outcome[r]: how the guard ended: exit code 2, 3 or 0, or killed
    stopErrors,\* stopErrors[r]: which stops the error record calls failed
    triggers,  \* aborts that started without a neighbour
    faults     \* failures so far

vars == <<up, gpc, outcome, stopErrors, triggers, faults>>

TypeOK ==
    /\ up \in [Ranks -> BOOLEAN]
    /\ gpc \in [Ranks -> {"loop", "hardLocal", "hardPeer", "errorLocal", "errorPeer", "done"}]
    /\ outcome \in [Ranks -> {"none", "hard", "error", "term", "killed"}]
    /\ stopErrors \in [Ranks -> SUBSET {"local", "peer"}]
    /\ triggers \in 0 .. MaxTriggers
    /\ faults \in 0 .. MaxFaults

(* final_guard.start has seen four running containers and four guards.     *)
Init ==
    /\ up = [r \in Ranks |-> TRUE]
    /\ gpc = [r \in Ranks |-> "loop"]
    /\ outcome = [r \in Ranks |-> "none"]
    /\ stopErrors = [r \in Ranks |-> {}]
    /\ triggers = 0 /\ faults = 0

GoTo(r, p) == gpc' = [gpc EXCEPT ![r] = p]

End(r, how) ==
    /\ GoTo(r, "done")
    /\ outcome' = [outcome EXCEPT ![r] = how]

Trigger == triggers < MaxTriggers /\ triggers' = triggers + 1
Fault == faults < MaxFaults /\ faults' = faults + 1

Stopped(t) == up' = [up EXCEPT ![t] = FALSE]

(* A stop that raised may have been carried out: docker or ssh timed out.  *)
MaybeStopped(t) == UNCHANGED up \/ Stopped(t)

-----------------------------------------------------------------------------
(* evaluate_guard returned HARD_ABORT: the row and the abort record are    *)
(* written.  The container ran when this iteration inspected it.           *)
HardAbort(r) ==
    /\ gpc[r] = "loop" /\ Trigger
    /\ GoTo(r, "hardLocal")
    /\ UNCHANGED <<up, outcome, stopErrors, faults>>

(* A read of the iteration raised though the container runs.               *)
ReadFails(r) ==
    /\ gpc[r] = "loop" /\ Trigger
    /\ GoTo(r, "errorLocal")
    /\ UNCHANGED <<up, outcome, stopErrors, faults>>

(* Bug: a container without a PID is taken for one that has not started    *)
(* yet, and the loop goes on.                                              *)
SeesContainerStoppedAndWaits(r) ==
    /\ gpc[r] = "loop" /\ ~up[r]
    /\ UNCHANGED vars

(* The container stopped under the guard: it has no PID, so                *)
(* resolve_cgroup_v2 raises.                                               *)
SeesContainerStopped(r) ==
    /\ gpc[r] = "loop" /\ ~up[r]
    /\ GoTo(r, "errorLocal")
    /\ UNCHANGED <<up, outcome, stopErrors, triggers, faults>>

(* The container ends by itself.                                           *)
ContainerDies(r) ==
    /\ up[r] /\ Trigger
    /\ Stopped(r)
    /\ UNCHANGED <<gpc, outcome, stopErrors, faults>>

-----------------------------------------------------------------------------
(* After a hard abort: guarded_stop_local, then stop_peer, return 2.       *)
HardStopsLocal(r) ==
    /\ gpc[r] = "hardLocal"
    /\ Stopped(r) /\ GoTo(r, "hardPeer")
    /\ UNCHANGED <<outcome, stopErrors, triggers, faults>>

HardStopsPeer(r) ==
    /\ gpc[r] = "hardPeer"
    /\ Stopped(Peer(r)) /\ End(r, "hard")
    /\ UNCHANGED <<stopErrors, triggers, faults>>

(* Bug: the failure ends the guard as a hard abort does.                   *)
HardStopFailsQuietly(r) ==
    /\ gpc[r] \in {"hardLocal", "hardPeer"} /\ Fault
    /\ MaybeStopped(IF gpc[r] = "hardLocal" THEN r ELSE Peer(r))
    /\ End(r, "hard")
    /\ UNCHANGED <<stopErrors, triggers>>

(* Either raises: the except clause stops both once more.                  *)
HardStopFails(r) ==
    /\ gpc[r] \in {"hardLocal", "hardPeer"} /\ Fault
    /\ MaybeStopped(IF gpc[r] = "hardLocal" THEN r ELSE Peer(r))
    /\ GoTo(r, "errorLocal")
    /\ UNCHANGED <<outcome, stopErrors, triggers>>

(* The except clause: each stop on its own, failures noted, return 3.      *)
ErrorStopsLocal(r) ==
    /\ gpc[r] = "errorLocal"
    /\ Stopped(r) /\ GoTo(r, "errorPeer")
    /\ UNCHANGED <<outcome, stopErrors, triggers, faults>>

(* Bug: one try block for both stops.                                      *)
ErrorLocalFailsAndSkips(r) ==
    /\ gpc[r] = "errorLocal" /\ Fault
    /\ MaybeStopped(r) /\ End(r, "error")
    /\ stopErrors' = [stopErrors EXCEPT ![r] = @ \cup {"local"}]
    /\ UNCHANGED triggers

ErrorLocalFails(r) ==
    /\ gpc[r] = "errorLocal" /\ Fault
    /\ MaybeStopped(r) /\ GoTo(r, "errorPeer")
    /\ stopErrors' = [stopErrors EXCEPT ![r] = @ \cup {"local"}]
    /\ UNCHANGED <<outcome, triggers>>

ErrorStopsPeer(r) ==
    /\ gpc[r] = "errorPeer"
    /\ Stopped(Peer(r)) /\ End(r, "error")
    /\ UNCHANGED <<stopErrors, triggers, faults>>

ErrorPeerFails(r) ==
    /\ gpc[r] = "errorPeer" /\ Fault
    /\ MaybeStopped(Peer(r)) /\ End(r, "error")
    /\ stopErrors' = [stopErrors EXCEPT ![r] = @ \cup {"peer"}]
    /\ UNCHANGED triggers

-----------------------------------------------------------------------------
(* SIGTERM from final_guard.stop: the loop is left, nothing is stopped.    *)
Terminated(r) ==
    /\ gpc[r] = "loop" /\ Fault
    /\ End(r, "term")
    /\ UNCHANGED <<up, stopErrors, triggers>>

(* SIGKILL, or the tmux session is lost, anywhere.                         *)
Killed(r) ==
    /\ gpc[r] # "done" /\ Fault
    /\ End(r, "killed")
    /\ UNCHANGED <<up, stopErrors, triggers>>

Progress(r) ==
    \/ SeesContainerStopped(r)
    \/ HardStopsLocal(r) \/ HardStopsPeer(r)
    \/ ErrorStopsLocal(r) \/ ErrorStopsPeer(r)

Disturbance(r) ==
    \/ HardAbort(r) \/ ReadFails(r) \/ ContainerDies(r)
    \/ HardStopFails(r) \/ ErrorLocalFails(r) \/ ErrorPeerFails(r)
    \/ Terminated(r) \/ Killed(r)

Next == \E r \in Ranks : Progress(r) \/ Disturbance(r)

Spec == Init /\ [][Next]_vars

(* Every iteration ends: its reads and its stops have timeouts.            *)
FairSpec == Spec /\ \A r \in Ranks : WF_vars(Progress(r))

-----------------------------------------------------------------------------
(* Properties.                                                             *)

(* A guard that reports an abort has stopped whatever it does not report   *)
(* as failed: exit code 2 means both containers are down, exit code 3      *)
(* means each is down or named in MEMORY-GUARD-ERROR.json.                 *)
AbortsAreHonest ==
    \A r \in Ranks : outcome[r] \in {"hard", "error"} =>
        /\ up[r] => outcome[r] = "error" /\ "local" \in stopErrors[r]
        /\ up[Peer(r)] => outcome[r] = "error" /\ "peer" \in stopErrors[r]

(* A container never runs unguarded unless its guard was told to leave,    *)
(* was killed, or says that it could not stop it.                          *)
RunningIsGuarded ==
    \A r \in Ranks : up[r] =>
        gpc[r] # "done" \/ outcome[r] \in {"term", "killed"} \/ "local" \in stopErrors[r]

(* The promise of the guards: the two stops of an abort, retried and       *)
(* interrupted as they may be, are one abort to whoever looks at how the   *)
(* guard ended.                                                            *)
Epoch ==
    INSTANCE EpochGuards
    WITH guard <- [r \in Ranks |-> CASE outcome[r] = "none" -> "on"
                                     [] outcome[r] = "killed" -> "killed"
                                     [] OTHER -> "ended"],
         failed <- [r \in Ranks |-> IF outcome[r] = "error" THEN stopErrors[r] ELSE {}],
         stopping <- \E r \in Ranks : outcome[r] = "term"

EpochSpec == Epoch!Spec

(* The state is well-formed, aborts are true of both containers, and no    *)
(* container is left without a guard.                                      *)
RingInv == TypeOK /\ AbortsAreHonest /\ RunningIsGuarded

(* Some guard has left its loop to stop containers.                        *)
AbortBegun == \E r \in Ranks : gpc[r] \notin {"loop", "done"} \/ outcome[r] \in {"hard", "error"}

(* One abort, or one dead container, brings the whole epoch down: every    *)
(* neighbour carries it on, unless a stop or a guard fails on the way.     *)
EpochGoesDown ==
    (AbortBegun \/ \E r \in Ranks : ~up[r]) ~> (\A r \in Ranks : ~up[r]) \/ faults > 0

=============================================================================
