--------------------------- MODULE AdmissionLease ---------------------------
(***************************************************************************)
(* The four-rank admission protocol: the AdmissionCoordinator of           *)
(* scripts/q200_support/admission_control.py (one per controller process), *)
(* the files it shares with the per-rank memory guards of                  *)
(* scripts/q200_support/guard_unified_memory.py, the guards' main loop as  *)
(* far as those files are concerned, and the model server that executes    *)
(* the row a lease admits.                                                 *)
(*                                                                         *)
(* Every file access of the code is one step: creating and unlinking the   *)
(* lease lock, writing one rank's request-state, reading one rank's        *)
(* admission state, and, in a guard, reading the request-state (at the top *)
(* of an iteration) and publishing the row (at its end).  Between any two  *)
(* of them every other process may run.                                    *)
(***************************************************************************)
EXTENDS Integers, FiniteSets

CONSTANTS
    Coords,         \* controller processes, each with one coordinator
    N,              \* number of ranks (4 in the code)
    Leases,         \* lease identities that can be drawn
    NoLease,        \* a request-state or row with active = false
    Torn,           \* a request-state file that is not valid JSON
    WriteOutcomes,  \* what a request-state write that FAILED may have done
    ClientTimeouts, \* may a client give up on a row the server still executes?
    MaxFaults       \* bound: failures of all kinds in one behaviour

ASSUME NAssumption == N \in Nat \ {0}
ASSUME LeaseAssumption == NoLease \notin Leases /\ Torn \notin Leases \cup {NoLease}
ASSUME OutcomeAssumption == WriteOutcomes \subseteq {"none", "applied", "torn", "late"}
ASSUME TimeoutAssumption == ClientTimeouts \in BOOLEAN
ASSUME FaultAssumption == MaxFaults \in Nat

Ranks == 0 .. N-1

VARIABLES
    lock,       \* the lease file: the lease written in it, or NoLease
    used,       \* every lease drawn so far
    req,        \* req[r]: lease in rank r's request-state file
    late,       \* late[r]: writes abandoned by the client, still in flight
    gpc,        \* gpc[r]: where rank r's guard is in its loop
    seen,       \* seen[r]: the request this iteration of the guard works with
    rowLease,   \* rowLease[r]: request_lease_id of the published row
    verdict,    \* verdict[r]: its admission: ADMIT, DENY or HARD
    fresh,      \* fresh[r]: the row is younger than max_state_age_seconds
    pc,         \* pc[c]: where coordinator c is
    lease,      \* lease[c]: lease_id of the acquisition or of the held lease
    at,         \* at[c]: rank the sweep or the write loop of c stands at
    lim,        \* lim[c]: number of ranks the failed write loop had written
    miss,       \* miss[c]: this sweep met a rank that does not qualify
    why,        \* why[c]: why the request is being cleared
    up,         \* the four model containers run
    work,       \* leases whose row the server executes
    faults      \* failures so far

lockVars == <<lock, used>>
fileVars == <<req, late>>
guardVars == <<gpc, seen, rowLease, verdict, fresh>>
coordVars == <<pc, lease, at, lim, miss, why>>
serverVars == <<up, work>>
vars == <<lock, used, req, late, gpc, seen, rowLease, verdict, fresh,
          pc, lease, at, lim, miss, why, up, work, faults>>

CoordPC == {"idle", "again", "preflight", "wait", "activate", "undo", "ackOn",
            "granted", "running", "clear", "ackOff"}

LockType ==
    /\ lock \in Leases \cup {NoLease}
    /\ used \subseteq Leases

FileType ==
    /\ req \in [Ranks -> Leases \cup {NoLease, Torn}]
    /\ late \in [Ranks -> SUBSET (Leases \cup {NoLease})]

GuardType ==
    /\ gpc \in [Ranks -> {"top", "eval", "abort", "gone"}]
    /\ seen \in [Ranks -> Leases \cup {NoLease}]
    /\ rowLease \in [Ranks -> Leases \cup {NoLease}]
    /\ verdict \in [Ranks -> {"ADMIT", "DENY", "HARD"}]
    /\ fresh \in [Ranks -> BOOLEAN]

CoordType ==
    /\ pc \in [Coords -> CoordPC]
    /\ lease \in [Coords -> Leases \cup {NoLease}]
    /\ at \in [Coords -> 0 .. N]
    /\ lim \in [Coords -> 0 .. N]
    /\ miss \in [Coords -> BOOLEAN]
    /\ why \in [Coords -> {"done", "denied", "error"}]

ServerType ==
    /\ up \in BOOLEAN
    /\ work \subseteq Leases \cup {NoLease}

TypeOK ==
    LockType /\ FileType /\ GuardType /\ CoordType /\ ServerType
    /\ faults \in 0 .. MaxFaults

(***************************************************************************)
(* final_guard.start has every guard publish a first row before any        *)
(* controller runs.                                                        *)
(***************************************************************************)
Init ==
    /\ lock = NoLease /\ used = {}
    /\ req = [r \in Ranks |-> NoLease]
    /\ late = [r \in Ranks |-> {}]
    /\ gpc = [r \in Ranks |-> "top"]
    /\ seen = [r \in Ranks |-> NoLease]
    /\ rowLease = [r \in Ranks |-> NoLease]
    /\ verdict \in [Ranks -> {"ADMIT", "DENY"}]
    /\ fresh = [r \in Ranks |-> TRUE]
    /\ pc = [c \in Coords |-> "idle"]
    /\ lease = [c \in Coords |-> NoLease]
    /\ at = [c \in Coords |-> 0]
    /\ lim = [c \in Coords |-> 0]
    /\ miss = [c \in Coords |-> FALSE]
    /\ why = [c \in Coords |-> "done"]
    /\ up = TRUE /\ work = {}
    /\ faults = 0

Fault == faults < MaxFaults /\ faults' = faults + 1
NoFault == UNCHANGED faults

(***************************************************************************)
(* Building blocks of the coordinator's steps.                             *)
(***************************************************************************)

\* c goes to p and its next loop over the ranks starts at rank 0.
Enter(c, p) ==
    /\ pc' = [pc EXCEPT ![c] = p]
    /\ at' = [at EXCEPT ![c] = 0]
    /\ miss' = [miss EXCEPT ![c] = FALSE]

\* c leaves acquire or release; what was local to the call is gone.
Leave(c, p) ==
    /\ Enter(c, p)
    /\ lease' = [lease EXCEPT ![c] = NoLease]
    /\ lim' = [lim EXCEPT ![c] = 0]
    /\ why' = [why EXCEPT ![c] = "done"]

\* The loop of c goes on with the next rank.
Advance(c) ==
    /\ at' = [at EXCEPT ![c] = @ + 1]
    /\ UNCHANGED <<pc, lease, lim, why>>

\* Only AdmissionNotGranted makes acquire try again.
AfterCleanup(c) == IF why[c] = "denied" THEN "again" ELSE "idle"

Unlock == lock' = NoLease /\ UNCHANGED used

Usable(r) == fresh[r] /\ verdict[r] # "HARD"

\* One rank's request-state is written.
Write(r, v) == req' = [req EXCEPT ![r] = v] /\ UNCHANGED late

\* A write that raised: nothing happened, the file was replaced all the same,
\* the remote writer met end of file early, or it is still running after the
\* 15 s timeout killed the ssh client.  Rank 0 is written without ssh.
FailedWrite(r, v) ==
    \/ "none" \in WriteOutcomes /\ UNCHANGED fileVars
    \/ "applied" \in WriteOutcomes /\ Write(r, v)
    \/ "torn" \in WriteOutcomes /\ r # 0 /\ Write(r, Torn)
    \/ "late" \in WriteOutcomes /\ r # 0
       /\ late' = [late EXCEPT ![r] = @ \cup {v}] /\ UNCHANGED req

(***************************************************************************)
(* acquire: the lock.                                                      *)
(***************************************************************************)
\* Mutants: the lock is opened without O_EXCL; a lease id can come back.
TakeLockWithoutExcl(c, l) ==
    /\ pc[c] \in {"idle", "again"} /\ l \notin used
    /\ lock' = l /\ used' = used \cup {l}
    /\ Enter(c, "preflight")
    /\ lease' = [lease EXCEPT ![c] = l]
    /\ UNCHANGED <<lim, why, fileVars, guardVars, serverVars>>
    /\ NoFault

TakeLockAnyLease(c, l) ==
    /\ pc[c] \in {"idle", "again"} /\ lock = NoLease
    /\ lock' = l /\ used' = used \cup {l}
    /\ Enter(c, "preflight")
    /\ lease' = [lease EXCEPT ![c] = l]
    /\ UNCHANGED <<lim, why, fileVars, guardVars, serverVars>>
    /\ NoFault

TakeLock(c, l) ==
    /\ pc[c] \in {"idle", "again"}
    /\ lock = NoLease /\ l \notin used
    /\ lock' = l /\ used' = used \cup {l}
    /\ Enter(c, "preflight")
    /\ lease' = [lease EXCEPT ![c] = l]
    /\ UNCHANGED <<lim, why, fileVars, guardVars, serverVars>>
    /\ NoFault

\* The lock file was created but its content could not be written: that is
\* outside the try block, so the lock stays.
LockWriteFails(c, l) ==
    /\ pc[c] \in {"idle", "again"}
    /\ lock = NoLease /\ l \notin used
    /\ lock' = l /\ used' = used \cup {l}
    /\ Leave(c, "idle")
    /\ UNCHANGED <<fileVars, guardVars, serverVars>>
    /\ Fault

\* A retry meets a lock (its own, kept by a failed rollback, or another's),
\* or the 600 s of acquire are over.
RetryEnds(c) ==
    /\ pc[c] = "again"
    /\ Leave(c, "idle")
    /\ UNCHANGED <<lockVars, fileVars, guardVars, serverVars>>
    /\ NoFault

(***************************************************************************)
(* acquire: the preflight, and waiting for an admission.                   *)
(***************************************************************************)
PreflightRead(c) ==
    /\ pc[c] = "preflight" /\ at[c] < N /\ Usable(at[c])
    /\ \/ /\ verdict[at[c]] = "ADMIT"
          /\ Advance(c)
          /\ miss' = [miss EXCEPT ![c] = @ \/ rowLease[at[c]] # NoLease]
       \/ /\ verdict[at[c]] = "DENY"
          /\ Enter(c, "wait")
          /\ UNCHANGED <<lease, lim, why>>
    /\ UNCHANGED <<lockVars, fileVars, guardVars, serverVars>>
    /\ NoFault

\* A stale or hard row, or a read that fails, ends the acquisition.
PreflightError(c) ==
    /\ pc[c] = "preflight" /\ at[c] < N
    /\ IF Usable(at[c]) THEN Fault ELSE NoFault
    /\ Unlock
    /\ Leave(c, "idle")
    /\ UNCHANGED <<fileVars, guardVars, serverVars>>

\* The rows read are validated again, now as inactive ones.
PreflightDone(c) ==
    /\ pc[c] = "preflight" /\ at[c] = N
    /\ \/ /\ miss[c]
          /\ Unlock
          /\ Leave(c, "idle")
       \/ /\ ~miss[c]
          /\ Enter(c, "activate")
          /\ UNCHANGED <<lease, lim, why, lockVars>>
    /\ UNCHANGED <<fileVars, guardVars, serverVars>>
    /\ NoFault

WaitRetry(c) ==
    /\ pc[c] = "wait"
    /\ Enter(c, "preflight")
    /\ UNCHANGED <<lease, lim, why, lockVars, fileVars, guardVars, serverVars>>
    /\ NoFault

\* Mutants: the deadline is not looked at; the lock is forgotten.
WaitNeverExpires(c) == WaitRetry(c)

WaitExpiresKeepingLock(c) ==
    /\ pc[c] = "wait"
    /\ Leave(c, "idle")
    /\ UNCHANGED <<lockVars, fileVars, guardVars, serverVars>>
    /\ NoFault

WaitExpires(c) ==
    /\ pc[c] = "wait"
    /\ Unlock
    /\ Leave(c, "idle")
    /\ UNCHANGED <<fileVars, guardVars, serverVars>>
    /\ NoFault

(***************************************************************************)
(* _write_request(active=True), and its own undo on failure.               *)
(***************************************************************************)
ActivateWrite(c) ==
    /\ pc[c] = "activate" /\ at[c] < N
    /\ Write(at[c], lease[c])
    /\ Advance(c) /\ UNCHANGED miss
    /\ UNCHANGED <<lockVars, guardVars, serverVars>>
    /\ NoFault

ActivateDone(c) ==
    /\ pc[c] = "activate" /\ at[c] = N
    /\ Enter(c, "ackOn")
    /\ UNCHANGED <<lease, lim, why, lockVars, fileVars, guardVars, serverVars>>
    /\ NoFault

ActivateFails(c) ==
    /\ pc[c] = "activate" /\ at[c] < N
    /\ FailedWrite(at[c], lease[c])
    /\ Enter(c, "undo")
    /\ lim' = [lim EXCEPT ![c] = at[c]]
    /\ UNCHANGED <<lease, why, lockVars, guardVars, serverVars>>
    /\ Fault

\* Only the ranks written before the failing one; a second failure is
\* suppressed and the loop goes on.
UndoWrite(c) ==
    /\ pc[c] = "undo" /\ at[c] < lim[c]
    /\ \/ Write(at[c], NoLease) /\ NoFault
       \/ FailedWrite(at[c], NoLease) /\ Fault
    /\ Advance(c) /\ UNCHANGED miss
    /\ UNCHANGED <<lockVars, guardVars, serverVars>>

\* active_written is still false: the lock goes without an acknowledgement.
UndoDone(c) ==
    /\ pc[c] = "undo" /\ at[c] = lim[c]
    /\ Unlock
    /\ Leave(c, "idle")
    /\ UNCHANGED <<fileVars, guardVars, serverVars>>
    /\ NoFault

(***************************************************************************)
(* _wait_ack: for an activation (ackOn) and for a clearing (ackOff).       *)
(***************************************************************************)
\* Mutant: validate_guard_state without its expected_active checks.
AckedByAnyRow(c, r) == Usable(r)

Acked(c, r) ==
    /\ Usable(r)
    /\ IF pc[c] = "ackOn" THEN rowLease[r] = lease[c] ELSE rowLease[r] = NoLease

\* The last check of validate_guard_state, reached only by an acked rank.
Denied(c, r) == pc[c] = "ackOn" /\ Acked(c, r) /\ verdict[r] = "DENY"

\* The request could not be cleared on every rank, or not be seen cleared:
\* the exception leaves the lock where it is.
KeepLock(c) == Leave(c, AfterCleanup(c)) /\ UNCHANGED lockVars

\* Mutant: active_written is set only after the acknowledgement.
AckRaisesUncleared(c, reason) ==
    \/ pc[c] = "ackOn" /\ Unlock /\ Leave(c, IF reason = "denied" THEN "again" ELSE "idle")
    \/ pc[c] = "ackOff" /\ KeepLock(c)

\* An exception during the acknowledgement: acquire goes to clear what it
\* wrote, the clearing itself is given up.
AckRaises(c, reason) ==
    \/ /\ pc[c] = "ackOn"
       /\ Enter(c, "clear")
       /\ why' = [why EXCEPT ![c] = reason]
       /\ UNCHANGED <<lease, lim, lockVars>>
    \/ /\ pc[c] = "ackOff"
       /\ KeepLock(c)

\* One rank of a sweep qualifies.
AckRead(c) ==
    /\ pc[c] \in {"ackOn", "ackOff"} /\ at[c] < N
    /\ Acked(c, at[c]) /\ ~Denied(c, at[c])
    /\ Advance(c) /\ UNCHANGED miss
    /\ UNCHANGED <<lockVars, fileVars, guardVars, serverVars>>
    /\ NoFault

\* Mutant: the number of rows is not compared with the number of ranks.
AckMissedUnnoticed(c) ==
    /\ pc[c] \in {"ackOn", "ackOff"} /\ at[c] < N
    /\ IF Acked(c, at[c]) THEN Fault ELSE NoFault
    /\ Advance(c) /\ UNCHANGED miss
    /\ UNCHANGED <<lockVars, fileVars, guardVars, serverVars>>

\* One rank does not, or its row could not be read: the sweep goes on.
AckMissed(c) ==
    /\ pc[c] \in {"ackOn", "ackOff"} /\ at[c] < N
    /\ IF Acked(c, at[c]) THEN Fault ELSE NoFault
    /\ Advance(c)
    /\ miss' = [miss EXCEPT ![c] = TRUE]
    /\ UNCHANGED <<lockVars, fileVars, guardVars, serverVars>>

\* AdmissionNotGranted leaves the sweep at once.
AckDenied(c) ==
    /\ pc[c] = "ackOn" /\ at[c] < N
    /\ Denied(c, at[c])
    /\ AckRaises(c, "denied")
    /\ UNCHANGED <<fileVars, guardVars, serverVars>>
    /\ NoFault

\* subprocess.TimeoutExpired is not among the exceptions a sweep survives.
AckReadTimesOut(c) ==
    /\ pc[c] \in {"ackOn", "ackOff"} /\ at[c] < N /\ at[c] # 0
    /\ AckRaises(c, "error")
    /\ UNCHANGED <<fileVars, guardVars, serverVars>>
    /\ Fault

\* Every rank acknowledged within one sweep.
AckComplete(c) ==
    /\ pc[c] \in {"ackOn", "ackOff"} /\ at[c] = N /\ ~miss[c]
    /\ \/ /\ pc[c] = "ackOn"
          /\ Enter(c, "granted")
          /\ UNCHANGED <<lease, lim, why, lockVars>>
       \/ /\ pc[c] = "ackOff"
          /\ Unlock
          /\ Leave(c, AfterCleanup(c))
    /\ UNCHANGED <<fileVars, guardVars, serverVars>>
    /\ NoFault

AckPollAgain(c) ==
    /\ pc[c] \in {"ackOn", "ackOff"} /\ at[c] = N /\ miss[c]
    /\ Enter(c, pc[c])
    /\ UNCHANGED <<lease, lim, why, lockVars, fileVars, guardVars, serverVars>>
    /\ NoFault

\* What keeps rank r from acknowledging before the deadline.
Hung(c, r) ==
    \/ gpc[r] = "gone" \/ ~fresh[r]
    \/ req[r] # (IF pc[c] = "ackOn" THEN lease[c] ELSE NoLease)

\* ack_timeout_seconds are over: without a failure the guards are faster.
AckExpires(c) ==
    /\ pc[c] \in {"ackOn", "ackOff"} /\ at[c] = N /\ miss[c]
    /\ IF \E r \in Ranks : Hung(c, r) THEN NoFault ELSE Fault
    /\ AckRaises(c, "error")
    /\ UNCHANGED <<fileVars, guardVars, serverVars>>

(***************************************************************************)
(* The body of request(row_id), and leaving it.                            *)
(***************************************************************************)
\* The row is sent; a server that is down answers with an error.
Submit(c) ==
    /\ pc[c] = "granted"
    /\ Enter(c, "running")
    /\ work' = IF up THEN work \cup {lease[c]} ELSE work
    /\ UNCHANGED <<lease, lim, why, up, lockVars, fileVars, guardVars>>
    /\ NoFault

\* The body ends before it sent anything (niah: memory below its own floor).
Decline(c) ==
    /\ pc[c] = "granted"
    /\ Enter(c, "clear")
    /\ UNCHANGED <<lease, lim, why, lockVars, fileVars, guardVars, serverVars>>
    /\ NoFault

\* The answer, or the server's error, arrived.
Finish(c) ==
    /\ pc[c] = "running" /\ lease[c] \notin work
    /\ Enter(c, "clear")
    /\ UNCHANGED <<lease, lim, why, lockVars, fileVars, guardVars, serverVars>>
    /\ NoFault

\* The client's HTTP timeout fires, or it is interrupted, with the row still
\* on the server: request() releases for any BaseException.
GiveUp(c) ==
    /\ ClientTimeouts
    /\ pc[c] = "running" /\ lease[c] \in work
    /\ Enter(c, "clear")
    /\ UNCHANGED <<lease, lim, why, lockVars, fileVars, guardVars, serverVars>>
    /\ Fault

(***************************************************************************)
(* _write_request(active=False): release, and the rollback of acquire.     *)
(***************************************************************************)
ClearWrite(c) ==
    /\ pc[c] = "clear" /\ at[c] < N
    /\ Write(at[c], NoLease)
    /\ Advance(c) /\ UNCHANGED miss
    /\ UNCHANGED <<lockVars, guardVars, serverVars>>
    /\ NoFault

ClearDone(c) ==
    /\ pc[c] = "clear" /\ at[c] = N
    /\ Enter(c, "ackOff")
    /\ UNCHANGED <<lease, lim, why, lockVars, fileVars, guardVars, serverVars>>
    /\ NoFault

ClearFails(c) ==
    /\ pc[c] = "clear" /\ at[c] < N
    /\ FailedWrite(at[c], NoLease)
    /\ KeepLock(c)
    /\ UNCHANGED <<guardVars, serverVars>>
    /\ Fault

\* The controller process dies: no handler runs, the lock file stays.
Crash(c) ==
    /\ pc[c] # "idle"
    /\ Leave(c, "idle")
    /\ UNCHANGED <<lockVars, fileVars, guardVars, serverVars>>
    /\ Fault

(***************************************************************************)
(* The guards.                                                             *)
(***************************************************************************)
\* Top of an iteration.
GuardRead(r) ==
    /\ gpc[r] = "top" /\ req[r] # Torn
    /\ gpc' = [gpc EXCEPT ![r] = "eval"]
    /\ seen' = [seen EXCEPT ![r] = req[r]]
    /\ UNCHANGED <<rowLease, verdict, fresh, lockVars, fileVars, coordVars, serverVars>>
    /\ NoFault

\* End of an iteration: the row names the request read at its top.
GuardPublish(r, v) ==
    /\ gpc[r] = "eval"
    /\ IF v = "HARD" THEN Fault ELSE NoFault
    /\ gpc' = [gpc EXCEPT ![r] = IF v = "HARD" THEN "abort" ELSE "top"]
    /\ rowLease' = [rowLease EXCEPT ![r] = seen[r]]
    /\ verdict' = [verdict EXCEPT ![r] = v]
    /\ fresh' = [fresh EXCEPT ![r] = TRUE]
    /\ UNCHANGED <<seen, lockVars, fileVars, coordVars, serverVars>>

\* A guard that leaves its loop stops its own and its peer's container; the
\* stops may fail, too.
StopModel ==
    \/ up' = FALSE /\ work' = {}
    \/ UNCHANGED serverVars

GuardLeaves(r) ==
    /\ gpc' = [gpc EXCEPT ![r] = "gone"]
    /\ StopModel
    /\ UNCHANGED <<seen, rowLease, verdict, fresh, lockVars, fileVars, coordVars>>

\* After a HARD row.
GuardAborts(r) ==
    /\ gpc[r] = "abort"
    /\ GuardLeaves(r)
    /\ NoFault

\* An unreadable request-state, a stopped container, or any other exception.
GuardFails(r) ==
    /\ gpc[r] \in {"top", "eval"}
    /\ IF (gpc[r] = "top" /\ req[r] = Torn) \/ ~up THEN NoFault ELSE Fault
    /\ GuardLeaves(r)

\* max_state_age_seconds pass without a row.
RowAges(r) ==
    /\ fresh[r]
    /\ IF gpc[r] = "gone" THEN NoFault ELSE Fault
    /\ fresh' = [fresh EXCEPT ![r] = FALSE]
    /\ UNCHANGED <<gpc, seen, rowLease, verdict, lockVars, fileVars, coordVars, serverVars>>

(***************************************************************************)
(* The server, and the network.                                            *)
(***************************************************************************)
ServerDone(l) ==
    /\ l \in work
    /\ work' = work \ {l}
    /\ UNCHANGED <<up, lockVars, fileVars, guardVars, coordVars>>
    /\ NoFault

LateWrite(r, v) ==
    /\ v \in late[r]
    /\ req' = [req EXCEPT ![r] = v]
    /\ late' = [late EXCEPT ![r] = @ \ {v}]
    /\ UNCHANGED <<lockVars, guardVars, coordVars, serverVars>>
    /\ NoFault

(***************************************************************************)
(* The specification.                                                      *)
(***************************************************************************)
CoordStep(c) ==
    \/ \E l \in Leases : TakeLock(c, l) \/ LockWriteFails(c, l)
    \/ RetryEnds(c)
    \/ PreflightRead(c) \/ PreflightError(c) \/ PreflightDone(c)
    \/ WaitRetry(c) \/ WaitExpires(c)
    \/ ActivateWrite(c) \/ ActivateDone(c) \/ ActivateFails(c)
    \/ UndoWrite(c) \/ UndoDone(c)
    \/ AckRead(c) \/ AckMissed(c) \/ AckDenied(c) \/ AckReadTimesOut(c)
    \/ AckComplete(c) \/ AckPollAgain(c) \/ AckExpires(c)
    \/ Submit(c) \/ Decline(c) \/ Finish(c) \/ GiveUp(c)
    \/ ClearWrite(c) \/ ClearDone(c) \/ ClearFails(c)
    \/ Crash(c)

GuardStep(r) ==
    \/ GuardRead(r)
    \/ \E v \in {"ADMIT", "DENY", "HARD"} : GuardPublish(r, v)
    \/ GuardAborts(r) \/ GuardFails(r) \/ RowAges(r)

EnvStep ==
    \/ \E l \in Leases : ServerDone(l)
    \/ \E r \in Ranks, v \in Leases \cup {NoLease} : LateWrite(r, v)

Next ==
    \/ \E c \in Coords : CoordStep(c)
    \/ \E r \in Ranks : GuardStep(r)
    \/ EnvStep

Spec == Init /\ [][Next]_vars

(***************************************************************************)
(* Fairness.  A controller inside acquire or release and a live guard keep *)
(* running, every row ends on the server, and the two deadlines that are   *)
(* measured with time.monotonic() expire although the loops they bound     *)
(* leave and re-enter the states they expire in.  Nothing is assumed of    *)
(* failures, of idle controllers, and of late writes.                      *)
(***************************************************************************)
Fairness ==
    /\ \A c \in Coords :
          /\ WF_vars(NoFault /\ pc[c] # "idle" /\ CoordStep(c))
          /\ SF_vars(WaitExpires(c))
          /\ SF_vars(NoFault /\ AckExpires(c))
    /\ \A r \in Ranks : WF_vars(NoFault /\ GuardStep(r))
    /\ \A l \in Leases : WF_vars(ServerDone(l))

FairSpec == Spec /\ Fairness

(***************************************************************************)
(* Safety.                                                                 *)
(***************************************************************************)
Owning(c) == pc[c] \notin {"idle", "again"}

\* Between taking the lock and leaving acquire or release a coordinator owns
\* the lease lock, so two controllers are never both past _create_lock: the
\* O_EXCL creation, every unlink on every failure path, and the retries of
\* acquire together keep the lock and its owner in agreement.
OwnerHoldsLock ==
    /\ \A c \in Coords : Owning(c) => lock = lease[c] /\ lease[c] \in Leases
    /\ \A c, d \in Coords : Owning(c) /\ Owning(d) => c = d
    /\ lock \in used \cup {NoLease}

\* While a row may be sent or is running, the row every guard last published
\* names exactly its lease, and no guard works with any other request: "only
\* then permits one heavy request" (admission_control.py:4-6).
GuardedAt(c, r) ==
    /\ req[r] = lease[c]
    /\ rowLease[r] = lease[c]
    /\ gpc[r] = "eval" => seen[r] = lease[c]

AdmittedRowIsGuarded ==
    \A c \in Coords : pc[c] \in {"granted", "running"} =>
        \A r \in Ranks : GuardedAt(c, r)

\* When release removes the lock, every guard has been seen to drop the lease:
\* no request-state, no published row and no iteration under way carries any
\* (admission_control.py:6-7).
Quiet(r) ==
    /\ req[r] = NoLease
    /\ rowLease[r] = NoLease
    /\ gpc[r] = "eval" => seen[r] = NoLease

ReleaseQuiesces ==
    [][\A c \in Coords :
          pc[c] = "ackOff" /\ why[c] = "done" /\ lock # NoLease /\ lock' = NoLease
          => \A r \in Ranks : Quiet(r)]_vars

\* The handshake of coordinator c with rank r, at every point of the protocol:
\* a lease not yet written is known nowhere; one that is written is what any
\* later iteration works with once a row shows it; and the same for clearing.
\* This is what makes the two properties above inductive.
Untouched(c, r) ==
    req[r] # lease[c] /\ seen[r] # lease[c] /\ rowLease[r] # lease[c]

Activating(c, r) ==
    /\ req[r] = lease[c]
    /\ rowLease[r] = lease[c] /\ gpc[r] = "eval" => seen[r] = lease[c]

Clearing(r) ==
    /\ req[r] = NoLease
    /\ rowLease[r] = NoLease /\ gpc[r] = "eval" => seen[r] = NoLease

Handshake(c, r) ==
    /\ pc[c] \notin {"clear", "ackOff"} => why[c] = "done"
    /\ pc[c] \in {"preflight", "wait"} => Untouched(c, r)
    /\ pc[c] = "activate" /\ r >= at[c] => Untouched(c, r)
    /\ pc[c] = "activate" /\ r < at[c] => Activating(c, r)
    /\ pc[c] = "ackOn" => Activating(c, r)
    /\ pc[c] = "ackOn" /\ r < at[c] /\ ~miss[c] => rowLease[r] = lease[c]
    /\ pc[c] \in {"granted", "running"} => GuardedAt(c, r)
    /\ why[c] = "done" =>
         /\ pc[c] = "clear" /\ r >= at[c] => GuardedAt(c, r)
         /\ pc[c] = "clear" /\ r < at[c] => Clearing(r)
         /\ pc[c] = "ackOff" => Clearing(r)
         /\ pc[c] = "ackOff" /\ r < at[c] /\ ~miss[c] => rowLease[r] = NoLease

\* No rank knows a lease that was never drawn, and no write is in flight.
Drawn(r) ==
    /\ late[r] = {}
    /\ req[r] \in used \cup {NoLease, Torn}
    /\ seen[r] \in used \cup {NoLease}
    /\ rowLease[r] \in used \cup {NoLease}

HandshakeInv ==
    \A r \in Ranks : Drawn(r) /\ \A c \in Coords : Handshake(c, r)

\* The model server never executes the rows of two leases, whatever guards
\* and controllers fail, are retried or die in between.
OneRowInService == \A k, l \in work : k = l

\* A row on the server keeps the lock, through crashes and failed releases;
\* and only the coordinator that sent it is past sending one.
ServedRowIsLocked ==
    /\ work \subseteq {lock} \ {NoLease}
    /\ \A c \in Coords : Owning(c) /\ lease[c] \in work => pc[c] = "running"

\* With nothing failing, no request-state stays active without the lock.
UnlockedIsInactive ==
    lock = NoLease => \A r \in Ranks : req[r] = NoLease

UnlockedIsInactiveUnlessFaulty == faults = 0 => UnlockedIsInactive

\* Where coordinator c stands when rank r's request-state must be inactive:
\* before it wrote its lease there, and once it has cleared it again.
Vacant(c, r) ==
    \/ pc[c] \in {"preflight", "wait", "ackOff"}
    \/ pc[c] = "activate" /\ r >= at[c]
    \/ pc[c] = "clear" /\ r < at[c]

\* While nothing fails no write is under way behind a coordinator's back, and
\* a rank is active only from the owner's write to its clearing.
CleanRanks ==
    faults = 0 =>
        /\ UnlockedIsInactive
        /\ \A r \in Ranks : late[r] = {}
        /\ \A c \in Coords : pc[c] # "undo"
        /\ \A c \in Coords, r \in Ranks : Vacant(c, r) => req[r] = NoLease

\* The lock and the handshake together: one owner, who is the one that put
\* the lock there; a row on the server under it; the request-states and the
\* guards' rows where the owner's position says they are.
LeaseInv == TypeOK /\ OwnerHoldsLock /\ ServedRowIsLocked /\ HandshakeInv

(***************************************************************************)
(* Liveness.                                                               *)
(***************************************************************************)
Acquiring(c) == pc[c] \in {"again", "preflight", "wait", "activate", "undo", "ackOn"}

\* acquire() ends: with a grant or with an exception, whatever failed.
AcquireEnds ==
    \A c \in Coords : Acquiring(c) ~> pc[c] \in {"granted", "idle"}

\* A lock is eventually removed, unless something failed (fail-closed).
LockIsFreed == lock # NoLease ~> lock = NoLease \/ faults > 0

(***************************************************************************)
(* The promise of the protocol.                                            *)
(***************************************************************************)
Promise == INSTANCE ExclusiveAdmission
    WITH holder <- lock, spent <- used, serving <- work

PromiseSpec == Promise!Spec

=============================================================================
