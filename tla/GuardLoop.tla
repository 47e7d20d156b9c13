----------------------------- MODULE GuardLoop -----------------------------
(***************************************************************************)
(* The policy of one rank's memory guard: main(), evaluate_guard and       *)
(* evaluate_abort of scripts/q200_support/guard_unified_memory.py.         *)
(*                                                                         *)
(* One iteration is two steps, because the request flag is read at its     *)
(* top and everything else later (journalctl alone may take 20 seconds):   *)
(* ReadRequest, then SampleAndPublish, which also decides.  What the       *)
(* kernel reports is an input of the step, except what has memory of its   *)
(* own: the OOM counter, docker's OOMKilled flag, the kernel journal and   *)
(* the two files.                                                          *)
(***************************************************************************)
EXTENDS Integers, Sequences

CONSTANTS
    LowMemorySamples,      \* --low-memory-samples: 2 in final_guard.py
    SwapWindow,            \* swap_history.maxlen: 10
    SwapLimit,             \* growth over the window that aborts: 256 MiB
    HardFloor,             \* HARD_MEMORY_FLOOR: 8 GiB
    ReserveFloor,          \* DEFAULT_ADMISSION_FLOOR: 16 GiB
    AdmissionFloor,        \* --admission-floor-gib: 16 GiB
    WarningFloor,          \* admission floor + 4 GiB
    AllowLoadSwap,         \* --allow-load-swap, set by final_guard.py
    PressureAdmissionOnly, \* --pressure-admission-only, set as well
    JournalRotates,        \* may journald drop old kernel messages?
    MaxMem, MaxSwap,       \* bounds: memory and swap values
    MaxOom, MaxNvrm        \* bounds: OOM events, NV_ERR_NO_MEMORY messages

ASSUME SamplesAssumption == LowMemorySamples \in Nat \ {0} /\ SwapWindow \in Nat \ {0}
ASSUME FloorAssumption ==
    /\ HardFloor \in Nat /\ ReserveFloor \in Nat /\ AdmissionFloor \in Nat /\ WarningFloor \in Nat
    /\ HardFloor <= ReserveFloor /\ ReserveFloor <= AdmissionFloor /\ AdmissionFloor <= WarningFloor
ASSUME LimitAssumption == SwapLimit \in Nat /\ MaxMem \in Nat /\ MaxSwap \in Nat
ASSUME CountAssumption == MaxOom \in Nat /\ MaxNvrm \in Nat
ASSUME FlagAssumption ==
    AllowLoadSwap \in BOOLEAN /\ PressureAdmissionOnly \in BOOLEAN /\ JournalRotates \in BOOLEAN

VARIABLES
    pc,                \* handoff, top, sample, or how the guard ended
    running,           \* no SIGTERM yet
    request,           \* request["active"] as this iteration read it
    lowSamples,        \* consecutive samples below the hard floor
    swapHistory,       \* the last samples of swap in use
    psiHardArmed,      \* the ready-state was seen
    requestSeenActive, \* an active request was seen
    baseline,          \* event and NVRM counts taken at handoff
    row,               \* last row published in ADMISSION-STATE.json
    req,               \* request-state.json: is a request active?
    ready,             \* the ready-state file exists
    oom,               \* the cgroup's oom and oom_kill events
    oldMessages,       \* NV_ERR_NO_MEMORY messages from before the handoff
    newMessages,       \* and since, that the kernel journal holds
    oomKilled,         \* State.OOMKilled, as docker inspect shows it
    lows               \* history: the last samples, below or above the hard floor

loopVars == <<pc, running, request>>
policyVars == <<lowSamples, swapHistory, psiHardArmed, requestSeenActive, baseline>>
fileVars == <<req, ready>>
kernelVars == <<oom, oldMessages, newMessages, oomKilled>>
vars == <<pc, running, request, lowSamples, swapHistory, psiHardArmed, requestSeenActive,
          baseline, row, req, ready, oom, oldMessages, newMessages, oomKilled, lows>>

Ended == {"hard", "error", "term"}
Reasons == {"low", "psi", "swap", "oom", "nvrm", "oomkilled"}

(* NoRow stands for the file before the first iteration.                   *)
NoRow == [mem |-> 0, psi |-> FALSE, active |-> FALSE, enabled |-> FALSE, hard |-> {},
          status |-> "none", action |-> "none", admission |-> "none"]

Rows == [mem : 0 .. MaxMem, psi : BOOLEAN, active : BOOLEAN, enabled : BOOLEAN,
         hard : SUBSET Reasons,
         status : {"none", "GREEN", "WARNING", "STOP_AFTER_CURRENT", "HARD_ABORT"},
         action : {"none", "ADMIT", "ADMIT_WITH_WARNING", "DO_NOT_ADMIT_NEXT", "STOP_LOCAL_AND_PEER"},
         admission : {"none", "ADMIT", "NOT_ADMITTED"}]

TypeOK ==
    /\ pc \in {"handoff", "top", "sample"} \cup Ended
    /\ running \in BOOLEAN /\ request \in BOOLEAN
    /\ lowSamples \in Nat
    /\ swapHistory \in Seq(0 .. MaxSwap) /\ Len(swapHistory) <= SwapWindow
    /\ psiHardArmed \in BOOLEAN /\ requestSeenActive \in BOOLEAN
    /\ baseline \in [oom : Nat, nvrm : Nat]
    /\ row \in Rows
    /\ req \in BOOLEAN /\ ready \in BOOLEAN
    /\ oom \in 0 .. MaxOom /\ oldMessages \in 0 .. MaxNvrm /\ newMessages \in 0 .. MaxNvrm
    /\ oomKilled \in BOOLEAN
    /\ lows \in Seq({"below", "above"}) /\ Len(lows) <= LowMemorySamples

(* What earlier epochs left in the journal, and the load so far in the     *)
(* counters and the flag, is any value; the request-state is inactive, or  *)
(* the guard refuses to start.                                             *)
Init ==
    /\ pc = "handoff" /\ running = TRUE /\ request = FALSE
    /\ lowSamples = 0 /\ swapHistory = <<>>
    /\ psiHardArmed = FALSE /\ requestSeenActive = FALSE
    /\ row = NoRow /\ req = FALSE /\ ready = FALSE
    /\ oom \in 0 .. MaxOom /\ oldMessages \in 0 .. MaxNvrm /\ newMessages = 0
    /\ baseline = [oom |-> 0, nvrm |-> 0]
    /\ oomKilled \in BOOLEAN /\ (oomKilled => oom > 0)
    /\ lows = <<>>

-----------------------------------------------------------------------------
(* The decision.                                                           *)

(* append on a deque of fixed length.                                      *)
Push(history, size, sample) ==
    Append(IF Len(history) < size THEN history ELSE Tail(history), sample)

(* Growth over a full window; a window that is still filling reports none. *)
SwapGrowth(history) ==
    IF Len(history) = SwapWindow /\ history[SwapWindow] > history[1]
    THEN history[SwapWindow] - history[1]
    ELSE 0

LoadSwapTolerated(mem, active, enabled) ==
    AllowLoadSwap /\ ~enabled /\ ~active /\ mem >= ReserveFloor

(* Bug: as if the flag did not exist.                                      *)
PressureAlwaysAborts(psi, enabled) == enabled /\ psi

(* Pressure stops the model only without --pressure-admission-only.        *)
PressureAborts(psi, enabled) == enabled /\ ~PressureAdmissionOnly /\ psi

(* read_nvrm_count: every matching line the journal still has.             *)
NvrmCount == oldMessages + newMessages

(* Bug: deferred during the load, as pressure is.                          *)
EventReasonsOnceArmed(enabled) ==
    {r \in {"oom", "nvrm", "oomkilled"} :
        \/ enabled /\ r = "oom" /\ oom > baseline.oom
        \/ enabled /\ r = "nvrm" /\ NvrmCount > baseline.nvrm
        \/ enabled /\ r = "oomkilled" /\ oomKilled}

(* These stop it whether or not pressure counts already.  The counters are *)
(* compared with the handoff, docker's flag is not.                        *)
EventReasons(enabled) ==
    {r \in {"oom", "nvrm", "oomkilled"} :
        \/ r = "oom" /\ oom > baseline.oom
        \/ r = "nvrm" /\ NvrmCount > baseline.nvrm
        \/ r = "oomkilled" /\ oomKilled}

(* evaluate_abort: the reasons that stop the model.  owned_container_      *)
(* stopped never occurs: a stopped container has no init PID, and          *)
(* resolve_cgroup_v2 raises before the reasons are evaluated (ReadFails).  *)
HardReasons(mem, low, psi, growth, active, enabled) ==
    {r \in {"low", "psi", "swap"} :
        \/ r = "low" /\ mem < HardFloor /\ low >= LowMemorySamples
        \/ r = "psi" /\ PressureAborts(psi, enabled)
        \/ r = "swap" /\ ~LoadSwapTolerated(mem, active, enabled) /\ growth > SwapLimit}
    \cup EventReasons(enabled)

(* Bug: pressure does not pause.                                           *)
MustPauseOnMemory(mem, psi, enabled) == mem < AdmissionFloor

(* A new request is not admitted below the floor, nor under pressure.      *)
MustPause(mem, psi, enabled) ==
    mem < AdmissionFloor \/ (PressureAdmissionOnly /\ enabled /\ psi)

(* evaluate_guard, with main's override between the two floors.            *)
Decision(mem, low, psi, growth, active, enabled) ==
    LET hard == HardReasons(mem, low, psi, growth, active, enabled)
        Row(status, action) ==
            [mem |-> mem, psi |-> psi, active |-> active, enabled |-> enabled,
             hard |-> hard, status |-> status, action |-> action,
             admission |-> IF action # "DO_NOT_ADMIT_NEXT" /\ mem >= AdmissionFloor
                           THEN "ADMIT" ELSE "NOT_ADMITTED"]
    IN  IF hard # {} THEN Row("HARD_ABORT", "STOP_LOCAL_AND_PEER")
        ELSE IF MustPause(mem, psi, enabled)
             THEN Row(IF active THEN "WARNING" ELSE "STOP_AFTER_CURRENT", "DO_NOT_ADMIT_NEXT")
        ELSE IF mem < WarningFloor THEN Row("WARNING", "ADMIT_WITH_WARNING")
        ELSE Row("GREEN", "ADMIT")

-----------------------------------------------------------------------------
(* The loop.                                                               *)

(* Container, cgroup and journal are read once to take the baselines.      *)
Handoff ==
    /\ pc = "handoff"
    /\ baseline' = [oom |-> oom, nvrm |-> NvrmCount]
    /\ pc' = "top"
    /\ UNCHANGED <<running, request, lowSamples, swapHistory, psiHardArmed, requestSeenActive,
                   row, fileVars, kernelVars, lows>>

(* SIGTERM only clears the flag: the iteration under way is completed.     *)
Terminate ==
    /\ pc \in {"handoff", "top", "sample"} /\ running
    /\ running' = FALSE
    /\ UNCHANGED <<pc, request, policyVars, row, fileVars, kernelVars, lows>>

LeaveLoop ==
    /\ pc = "top" /\ ~running
    /\ pc' = "term"
    /\ UNCHANGED <<running, request, policyVars, row, fileVars, kernelVars, lows>>

ReadRequest ==
    /\ pc = "top" /\ running
    /\ request' = req
    /\ pc' = "sample"
    /\ UNCHANGED <<running, policyVars, row, fileVars, kernelVars, lows>>

(* Bug: a good sample between does not restart the count.                  *)
CountLowForever(mem) == IF mem < HardFloor THEN lowSamples + 1 ELSE lowSamples

CountLow(mem) == IF mem < HardFloor THEN lowSamples + 1 ELSE 0

(* On which side of the hard floor a sample lies.                          *)
Side(mem) == IF mem < HardFloor THEN "below" ELSE "above"

SeesActive == requestSeenActive \/ request

(* Sample memory, swap and pressure, read the counters, arm, decide,       *)
(* publish the row, and leave the loop on a hard abort.                    *)
SampleAndPublish ==
    /\ pc = "sample"
    /\ \E mem \in 0 .. MaxMem, used \in 0 .. MaxSwap, psi \in BOOLEAN :
        LET history == Push(swapHistory, SwapWindow, used)
            low == CountLow(mem)
            enabled == psiHardArmed \/ ready \/ SeesActive
        IN  /\ swapHistory' = history
            /\ lowSamples' = low
            /\ row' = Decision(mem, low, psi, SwapGrowth(history), request, enabled)
            /\ lows' = Push(lows, LowMemorySamples, Side(mem))
    /\ psiHardArmed' = (psiHardArmed \/ ready)
    /\ requestSeenActive' = (requestSeenActive \/ request)
    /\ pc' = IF row'.status = "HARD_ABORT" THEN "hard" ELSE "top"
    /\ UNCHANGED <<running, request, baseline, fileVars, kernelVars>>

(* Any read of the loop may raise: no telemetry, no row, the model stops.  *)
ReadFails ==
    /\ pc \in {"handoff", "sample"} \/ (pc = "top" /\ running)
    /\ pc' = "error"
    /\ UNCHANGED <<running, request, policyVars, row, fileVars, kernelVars, lows>>

-----------------------------------------------------------------------------
(* The kernel and the other processes.                                     *)

(* The controller's preflight (admission_control.py) admits on this row.   *)
Admissible(r) ==
    /\ r.hard = {}
    /\ r.admission = "ADMIT"
    /\ r.status \in {"GREEN", "WARNING"}
    /\ r.action \in {"ADMIT", "ADMIT_WITH_WARNING"}

Activate ==
    /\ ~req /\ Admissible(row) /\ ~row.active
    /\ req' = TRUE
    /\ UNCHANGED <<loopVars, policyVars, row, ready, kernelVars, lows>>

Deactivate ==
    /\ req
    /\ req' = FALSE
    /\ UNCHANGED <<loopVars, policyVars, row, ready, kernelVars, lows>>

(* Written by a launcher outside the repository; never removed.            *)
PublishReady ==
    /\ ~ready
    /\ ready' = TRUE
    /\ UNCHANGED <<loopVars, policyVars, row, req, kernelVars, lows>>

OutOfMemory ==
    /\ pc # "handoff" /\ oom < MaxOom
    /\ oom' = oom + 1
    /\ UNCHANGED <<loopVars, policyVars, row, fileVars, oldMessages, newMessages, oomKilled, lows>>

(* The daemon marks the container some time after the kernel killed in it; *)
(* only a start of the container clears the mark.                          *)
DockerSeesOom ==
    /\ oom > 0 /\ ~oomKilled
    /\ oomKilled' = TRUE
    /\ UNCHANGED <<loopVars, policyVars, row, fileVars, oom, oldMessages, newMessages, lows>>

AllocationFails ==
    /\ pc # "handoff" /\ newMessages < MaxNvrm
    /\ newMessages' = newMessages + 1
    /\ UNCHANGED <<loopVars, policyVars, row, fileVars, oom, oldMessages, oomKilled, lows>>

(* journald drops its oldest messages first when it reaches its limits.    *)
RotateJournal ==
    /\ JournalRotates /\ oldMessages > 0
    /\ oldMessages' = oldMessages - 1
    /\ UNCHANGED <<loopVars, policyVars, row, fileVars, oom, newMessages, oomKilled, lows>>

Guard == Handoff \/ LeaveLoop \/ ReadRequest \/ SampleAndPublish
Environment ==
    \/ Terminate \/ ReadFails \/ Activate \/ Deactivate \/ PublishReady
    \/ OutOfMemory \/ DockerSeesOom \/ AllocationFails \/ RotateJournal

Next == Guard \/ Environment

Spec == Init /\ [][Next]_vars

(* The loop has no wait but its one-second sleep and reads with timeouts.  *)
FairSpec == Spec /\ WF_vars(Guard)

-----------------------------------------------------------------------------
(* Properties.                                                             *)

(* What the controller may rely on when it admits on a row, or takes one   *)
(* as the acknowledgement of its lease: no hard reason, the floor is kept, *)
(* and from the first row that shows a request on (or the ready-state)     *)
(* pressure was low.                                                       *)
AdmissibleRowIsSafe ==
    Admissible(row) =>
        /\ row.mem >= AdmissionFloor
        /\ (row.active \/ row.enabled) => ~row.psi

(* What each reason to stop the model must rest on: memory below the hard  *)
(* floor at every one of the last samples (a recovery between them starts  *)
(* the count again), pressure that was made a reason and already counts,   *)
(* swap that grew when growth is not the load's own, an OOM event or an    *)
(* allocation failure since the handoff, or docker's mark, which needs an  *)
(* OOM event but not one since the handoff.                                *)
Caused(why) ==
    LET armed == psiHardArmed \/ requestSeenActive
    IN  \/ why = "low" /\ Len(lows) = LowMemorySamples /\ \A i \in 1 .. LowMemorySamples : lows[i] = "below"
        \/ why = "psi" /\ ~PressureAdmissionOnly /\ row.psi /\ armed
        \/ why = "swap" /\ SwapGrowth(swapHistory) > SwapLimit
                       /\ (AllowLoadSwap => armed \/ row.mem < ReserveFloor)
        \/ why = "oom" /\ oom > baseline.oom
        \/ why = "nvrm" /\ newMessages > 0
        \/ why = "oomkilled" /\ oomKilled /\ oom > 0

(* "An active request is never interrupted by this policy" (line 542), nor *)
(* is the load, but for a reason, and each reason the row gives is true.   *)
StopHasACause ==
    pc = "hard" => row.hard # {} /\ \A why \in row.hard : Caused(why)

(* The state is well-formed, and whatever stopped the model had a cause.   *)
GuardInv == TypeOK /\ StopHasACause

(* Memory that stays below the hard floor ends the guard, and with it the  *)
(* model, however requests come and go.                                    *)
LowMemoryStops == <>[](row # NoRow /\ row.mem < HardFloor) => <>(pc \in Ended)

(* So does an OOM event after the handoff, during the load included, and   *)
(* docker's mark, whenever it was set.                                     *)
OomStops ==
    (pc # "handoff" /\ (oom > baseline.oom \/ oomKilled)) ~> (pc \in Ended)

(* "OOM, NVRM, ... signals remain hard at all times" (lines 783-784):      *)
(* allocation failures beyond the baseline end the guard, unless journald  *)
(* drops messages and brings the count back to the baseline.               *)
AllocationFailureStops ==
    (pc # "handoff" /\ NvrmCount > baseline.nvrm)
        ~> (pc \in Ended \/ NvrmCount <= baseline.nvrm)

(* Each of the hard signals stops the model.                               *)
HardSignalStops == LowMemoryStops /\ OomStops /\ AllocationFailureStops

=============================================================================
