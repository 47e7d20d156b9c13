--------------------------- MODULE StageReceipts ---------------------------
(***************************************************************************)
(* The evaluation phases of scripts/final_eval.py over one ready launch.   *)
(* A phase runs its stages in order; every stage has a directory with a    *)
(* receipt, runs one child process and is never run again: a rerun of the  *)
(* phase reuses what passed and refuses the rest.  Nothing excludes two    *)
(* invocations at once; the lease lock (module AdmissionLease, here one    *)
(* variable) and the atomic mkdir are what they meet in.  A child outlives *)
(* an invocation that is killed.  The two vision stages have one shape and *)
(* are one stage here.                                                     *)
(***************************************************************************)
EXTENDS Integers, Sequences, FiniteSets

CONSTANTS
    Invocations, \* runs of final_eval.py, each of one phase
    Phases,      \* the phases that may be started
    MaxFaults    \* bound: crashes, exceptions, timeouts, edits, a dead launch

ASSUME BoundAssumption == MaxFaults \in Nat
ASSUME PhasesAssumption == Phases \subseteq {"primary", "quality", "qualification"}

Plan ==
    [primary |-> <<"smoke-encoding", "primary">>,
     quality |-> <<"text180", "bfcl">>,
     qualification |-> <<"counting", "ladder", "ladder-reconciled", "vision", "text180", "bfcl">>]

Stages == {"smoke-encoding", "primary", "counting", "ladder", "ladder-reconciled",
           "vision", "text180", "bfcl"}

ASSUME InvocationsAssumption == Invocations \cap ({"free", "stale"} \cup Stages) = {}

(* Children that take a lease for each row themselves.                     *)
RowStages == {"primary", "counting", "vision", "text180", "bfcl"}

(* Children that send requests and know of no lease.                       *)
DirectStages == {"smoke-encoding", "ladder"}

VARIABLES
    pc,       \* pc[i]: where invocation i is
    phase,    \* phase[i]: what it runs
    at,       \* at[i]: the position of its stage in the plan
    receipt,  \* receipt[s]: nothing, an empty directory, or a receipt
    child,    \* child[s]: the process of stage s, "row" while it waits for requests
    ladder,   \* the file ladder.json
    lock,     \* the lease: an invocation, a stage (for a row of it), or left behind
    left,     \* stages of which the server executes a request nobody waits for
    edited,   \* edited[i]: the scripts differ from the hashes i has taken
    alive,    \* the four containers run
    done,     \* phases whose marker file was written
    runs,     \* history: how often a child of s was started
    failed,   \* history: stages whose stage() ended with an exception
    faults

invVars == <<pc, phase, at, edited, done>>
stageVars == <<receipt, child, ladder, runs, failed>>
serverVars == <<lock, left, alive>>
vars == <<invVars, stageVars, serverVars, faults>>

Stage(i) == Plan[phase[i]][at[i]]

(* Past mkdir: the positions of stage() in which it owns the directory.    *)
Inside == {"save", "acquire", "spawn", "wait", "record", "check", "drain"}
InStage == {"verify", "look", "mkdir"} \cup Inside

Exited == {"pass", "ungraded", "fail"}

InvocationTypes ==
    /\ pc \in [Invocations -> {"ready", "choose", "over"} \cup InStage]
    /\ phase \in [Invocations -> Phases]
    /\ at \in [Invocations -> Nat \ {0}]
    /\ \A i \in Invocations :
          /\ at[i] <= Len(Plan[phase[i]]) + 1
          /\ pc[i] \in InStage => at[i] <= Len(Plan[phase[i]])
    /\ edited \in [Invocations -> BOOLEAN]
    /\ done \subseteq Phases

StageTypes ==
    /\ receipt \in [Stages -> {"none", "dir", "started", "failed", "passed"}]
    /\ child \in [Stages -> {"none", "run", "row"} \cup Exited]
    /\ ladder \in {"none", "partial", "whole"}
    /\ runs \in [Stages -> Nat]
    /\ failed \subseteq Stages

ServerTypes ==
    /\ lock \in {"free", "stale"} \cup Invocations \cup RowStages
    /\ left \subseteq Stages /\ alive \in BOOLEAN

TypeOK == InvocationTypes /\ StageTypes /\ ServerTypes /\ faults \in 0 .. MaxFaults

Init ==
    /\ pc = [i \in Invocations |-> "ready"]
    /\ phase \in [Invocations -> Phases]
    /\ at = [i \in Invocations |-> 1]
    /\ receipt = [s \in Stages |-> "none"]
    /\ child = [s \in Stages |-> "none"]
    /\ ladder = "none" /\ lock = "free"
    /\ left = {} /\ alive = TRUE
    /\ edited = [i \in Invocations |-> FALSE]
    /\ done = {}
    /\ runs = [s \in Stages |-> 0] /\ failed = {}
    /\ faults = 0

Fault == faults < MaxFaults /\ faults' = faults + 1
NoFault == UNCHANGED faults

GoTo(i, p) == pc' = [pc EXCEPT ![i] = p]

(* Bug: own_lease defaults to False.                                       *)
OwnLeaseForgotten(s) == s = "smoke-encoding"

(* own_lease after the two tests on the script's name.                     *)
OwnLease(s) == s \in DirectStages

(* Stages whose child waits for the server.                                *)
Asking == {s \in Stages : child[s] = "row"}

(* Bug: only requests that somebody waits for are counted.                 *)
IdleForClients == Asking = {}

Idle == Asking = {} /\ left = {}

(* The exception reaches main(): EVAL_FAILURE.json is written.             *)
Raise(i) ==
    /\ GoTo(i, "over")
    /\ failed' = failed \cup (IF pc[i] \in Inside THEN {Stage(i)} ELSE {})
    /\ UNCHANGED <<phase, at, edited, done>>

NextStage(i) ==
    /\ GoTo(i, "choose")
    /\ at' = [at EXCEPT ![i] = @ + 1]

SetReceipt(i, r) == receipt' = [receipt EXCEPT ![Stage(i)] = r]

-----------------------------------------------------------------------------
(* The phase: primary, qualification, quality.                             *)
Start(i) ==
    /\ pc[i] = "ready"
    /\ GoTo(i, "choose")
    /\ UNCHANGED <<phase, at, edited, done, stageVars, serverVars>> /\ NoFault

(* Only the ladder is skipped for its output file.                         *)
SkipsLadder(i) == Stage(i) = "ladder" /\ ladder # "none"

Choose(i) ==
    /\ pc[i] = "choose" /\ at[i] <= Len(Plan[phase[i]])
    /\ \/ SkipsLadder(i) /\ NextStage(i)
       \/ ~SkipsLadder(i) /\ GoTo(i, "verify") /\ UNCHANGED at
    /\ UNCHANGED <<phase, edited, done, stageVars, serverVars>> /\ NoFault

(* PRIMARY_DONE.json, EVALS_DONE_PENDING_MANUAL.json; quality writes none, *)
(* its return is what counts.                                              *)
Finish(i) ==
    /\ pc[i] = "choose" /\ at[i] = Len(Plan[phase[i]]) + 1
    /\ GoTo(i, "over")
    /\ done' = done \cup {phase[i]}
    /\ UNCHANGED <<phase, at, edited, stageVars, serverVars>> /\ NoFault

-----------------------------------------------------------------------------
(* verify_launch: four running containers, and an idle server in 300 s.    *)
(* The phases call it once more before their first stage.                  *)
LaunchVerified(i) ==
    /\ pc[i] = "verify" /\ alive /\ Idle
    /\ GoTo(i, "look")
    /\ UNCHANGED <<phase, at, edited, done, stageVars, serverVars>> /\ NoFault

(* Bug: the wait for an idle server has no deadline.                       *)
LaunchRefusedWhenDead(i) ==
    /\ pc[i] = "verify" /\ ~alive
    /\ Raise(i)
    /\ UNCHANGED <<receipt, child, ladder, runs, serverVars>> /\ NoFault

LaunchRefused(i) ==
    /\ pc[i] = "verify" /\ (~alive \/ ~Idle)
    /\ Raise(i)
    /\ UNCHANGED <<receipt, child, ladder, runs, serverVars>> /\ NoFault

Reuse(i) ==
    /\ pc[i] = "look" /\ receipt[Stage(i)] = "passed"
    /\ NextStage(i)
    /\ UNCHANGED <<phase, edited, done, stageVars, serverVars>> /\ NoFault

Refuse(i) ==
    /\ pc[i] = "look" /\ receipt[Stage(i)] \in {"started", "failed"}
    /\ Raise(i)
    /\ UNCHANGED <<receipt, child, ladder, runs, serverVars>> /\ NoFault

NoReceipt(i) ==
    /\ pc[i] = "look" /\ receipt[Stage(i)] \in {"none", "dir"}
    /\ GoTo(i, "mkdir")
    /\ UNCHANGED <<phase, at, edited, done, stageVars, serverVars>> /\ NoFault

(* Bug: mkdir(exist_ok=True).                                              *)
MakeDirectoryAnyway(i) ==
    /\ pc[i] = "mkdir"
    /\ SetReceipt(i, "dir")
    /\ GoTo(i, "save")
    /\ UNCHANGED <<phase, at, edited, done, child, ladder, runs, failed, serverVars>> /\ NoFault

MakeDirectory(i) ==
    /\ pc[i] = "mkdir" /\ receipt[Stage(i)] = "none"
    /\ SetReceipt(i, "dir")
    /\ GoTo(i, "save")
    /\ UNCHANGED <<phase, at, edited, done, child, ladder, runs, failed, serverVars>> /\ NoFault

DirectoryExists(i) ==
    /\ pc[i] = "mkdir" /\ receipt[Stage(i)] # "none"
    /\ Raise(i)
    /\ UNCHANGED <<receipt, child, ladder, runs, serverVars>> /\ NoFault

(* The harness is hashed, then the receipt with complete=False is saved.   *)
SaveStarted(i) ==
    /\ pc[i] = "save"
    /\ SetReceipt(i, "started")
    /\ edited' = [edited EXCEPT ![i] = FALSE]
    /\ GoTo(i, IF OwnLease(Stage(i)) THEN "acquire" ELSE "spawn")
    /\ UNCHANGED <<phase, at, done, child, ladder, runs, failed, serverVars>> /\ NoFault

-----------------------------------------------------------------------------
(* coordinator.request(name) around the child, for stages without leases   *)
(* of their own; a lock that exists is an AdmissionError.                  *)
Acquire(i) ==
    /\ pc[i] = "acquire" /\ lock = "free"
    /\ lock' = i
    /\ GoTo(i, "spawn")
    /\ UNCHANGED <<phase, at, edited, done, stageVars, left, alive>> /\ NoFault

AcquireFails(i) ==
    /\ pc[i] = "acquire" /\ lock # "free"
    /\ Raise(i)
    /\ UNCHANGED <<receipt, child, ladder, runs, serverVars>> /\ NoFault

Spawn(i) ==
    /\ pc[i] = "spawn"
    /\ child' = [child EXCEPT ![Stage(i)] = "run"]
    /\ runs' = [runs EXCEPT ![Stage(i)] = @ + 1]
    /\ GoTo(i, "wait")
    /\ UNCHANGED <<phase, at, edited, done, receipt, ladder, failed, serverVars>> /\ NoFault

Unlock(i) == lock' = IF lock = i THEN "free" ELSE lock

(* subprocess.run returns; the with statement releases the lease.          *)
Collect(i) ==
    /\ pc[i] = "wait" /\ child[Stage(i)] \in Exited
    /\ Unlock(i)
    /\ GoTo(i, "record")
    /\ UNCHANGED <<phase, at, edited, done, stageVars, left, alive>> /\ NoFault

(* The release is not acknowledged: its lock stays, and it raises.         *)
ReleaseFails(i) ==
    /\ pc[i] = "wait" /\ child[Stage(i)] \in Exited /\ lock = i /\ Fault
    /\ lock' = "stale"
    /\ Raise(i)
    /\ UNCHANGED <<receipt, child, ladder, runs, left, alive>>

(* phase_pass: exit code 0, or 2 of text180 with only its ungraded rows    *)
(* open; saved before the two checks that follow.                          *)
Record(i) ==
    /\ pc[i] = "record"
    /\ SetReceipt(i, IF child[Stage(i)] = "fail" THEN "failed" ELSE "passed")
    /\ GoTo(i, "check")
    /\ UNCHANGED <<phase, at, edited, done, child, ladder, runs, failed, serverVars>> /\ NoFault

ChecksHold(i) ==
    /\ pc[i] = "check" /\ ~edited[i] /\ receipt[Stage(i)] = "passed"
    /\ GoTo(i, "drain")
    /\ UNCHANGED <<phase, at, edited, done, stageVars, serverVars>> /\ NoFault

(* The scripts were edited, or the child failed.                           *)
CheckRaises(i) ==
    /\ pc[i] = "check" /\ (edited[i] \/ receipt[Stage(i)] = "failed")
    /\ Raise(i)
    /\ UNCHANGED <<receipt, child, ladder, runs, serverVars>> /\ NoFault

Drained(i) ==
    /\ pc[i] = "drain" /\ Idle
    /\ NextStage(i)
    /\ UNCHANGED <<phase, edited, done, stageVars, serverVars>> /\ NoFault

DrainExpires(i) ==
    /\ pc[i] = "drain" /\ ~Idle
    /\ Raise(i)
    /\ UNCHANGED <<receipt, child, ladder, runs, serverVars>> /\ NoFault

-----------------------------------------------------------------------------
(* Children.  Whatever they do to files of their own is left out, except   *)
(* for ladder.json, which one stage writes and two others read.            *)
RowBegins(s) ==
    /\ child[s] = "run" /\ s \in RowStages /\ lock = "free"
    /\ lock' = s
    /\ child' = [child EXCEPT ![s] = "row"]
    /\ UNCHANGED <<invVars, receipt, ladder, runs, failed, left, alive>> /\ NoFault

(* A lock that exists ends the child: acquire() raises.                    *)
RowRefused(s) ==
    /\ child[s] = "run" /\ s \in RowStages /\ lock # "free"
    /\ child' = [child EXCEPT ![s] = "fail"]
    /\ UNCHANGED <<invVars, receipt, ladder, runs, failed, serverVars>> /\ NoFault

(* The ladder and the smoke test ask without a lease.                      *)
RequestBegins(s) ==
    /\ child[s] = "run" /\ s \in DirectStages
    /\ child' = [child EXCEPT ![s] = "row"]
    /\ UNCHANGED <<invVars, receipt, ladder, runs, failed, serverVars>> /\ NoFault

EndLease(s) == lock' = IF s \in RowStages THEN "free" ELSE lock

RowEnds(s) ==
    /\ child[s] = "row"
    /\ EndLease(s)
    /\ child' = [child EXCEPT ![s] = "run"]
    /\ UNCHANGED <<invVars, receipt, ladder, runs, failed, left, alive>> /\ NoFault

(* The client gives up: its lease is released, the server works on, and    *)
(* the child ends (lanes.py, final_vision.py) or notes it and goes on.     *)
RowTimesOut(s) ==
    /\ child[s] = "row" /\ Fault
    /\ EndLease(s) /\ left' = left \cup {s}
    /\ \E c \in {"run", "fail"} : child' = [child EXCEPT ![s] = c]
    /\ UNCHANGED <<invVars, receipt, ladder, runs, failed, alive>>

(* open('w') and json.dump are two moments.                                *)
LadderWrites ==
    /\ child["ladder"] = "run" /\ ladder # "whole"
    /\ ladder' = IF ladder = "none" THEN "partial" ELSE "whole"
    /\ UNCHANGED <<invVars, receipt, child, runs, failed, serverVars>> /\ NoFault

(* Bug: verify_ladder.py takes a file it cannot parse for an empty one.    *)
PassesUnread(s, how) ==
    CASE how = "fail" -> TRUE
      [] how = "ungraded" -> s = "text180"
      [] how = "pass" -> s = "ladder" => ladder = "whole"

(* Exit codes: the ladder has written its file, verify_ladder.py could     *)
(* parse it, only final_quality.py leaves rows ungraded.  Each may fail.   *)
Passes(s, how) ==
    CASE how = "fail" -> TRUE
      [] how = "ungraded" -> s = "text180"
      [] how = "pass" -> s \in {"ladder", "ladder-reconciled"} => ladder = "whole"

ChildExits(s) ==
    /\ child[s] = "run"
    /\ \E how \in Exited : Passes(s, how) /\ child' = [child EXCEPT ![s] = how]
    /\ UNCHANGED <<invVars, receipt, ladder, runs, failed, serverVars>> /\ NoFault

-----------------------------------------------------------------------------
(* The environment.                                                        *)

(* An invocation is killed: nothing is released, its child lives on.       *)
Killed(i) ==
    /\ pc[i] \in InStage /\ Fault
    /\ GoTo(i, "over")
    /\ lock' = IF lock = i THEN "stale" ELSE lock
    /\ UNCHANGED <<phase, at, edited, done, stageVars, left, alive>>

(* Any other exception (ssh, the load API, a full disk, ^C).  One raised   *)
(* in subprocess.run kills the child: a row's lock is left behind, and its *)
(* request may be.                                                         *)
Breaks(i) ==
    /\ pc[i] \in InStage /\ Fault
    /\ Raise(i)
    /\ \/ /\ pc[i] = "wait" /\ child[Stage(i)] \in {"run", "row"}
          /\ child' = [child EXCEPT ![Stage(i)] = "fail"]
          /\ lock' = IF lock = Stage(i) THEN "stale" ELSE IF lock = i THEN "free" ELSE lock
          /\ left' \in {left, left \cup ({Stage(i)} \cap Asking)}
       \/ /\ ~(pc[i] = "wait" /\ child[Stage(i)] \in {"run", "row"})
          /\ Unlock(i) /\ UNCHANGED <<child, left>>
    /\ UNCHANGED <<receipt, ladder, runs, alive>>

(* Somebody edits a script of the harness.                                 *)
Edit ==
    /\ Fault
    /\ edited' = [i \in Invocations |-> TRUE]
    /\ UNCHANGED <<pc, phase, at, done, stageVars, serverVars>>

LaunchDies ==
    /\ alive /\ Fault
    /\ alive' = FALSE
    /\ UNCHANGED <<invVars, stageVars, lock, left>>

LeftEnds(s) ==
    /\ s \in left /\ left' = left \ {s}
    /\ UNCHANGED <<invVars, stageVars, lock, alive>> /\ NoFault

InvocationStep(i) ==
    \/ Choose(i) \/ Finish(i)
    \/ LaunchVerified(i) \/ LaunchRefused(i)
    \/ Reuse(i) \/ Refuse(i) \/ NoReceipt(i)
    \/ MakeDirectory(i) \/ DirectoryExists(i) \/ SaveStarted(i)
    \/ Acquire(i) \/ AcquireFails(i) \/ Spawn(i) \/ Collect(i)
    \/ Record(i) \/ ChecksHold(i) \/ CheckRaises(i) \/ Drained(i) \/ DrainExpires(i)

ChildStep(s) == RowBegins(s) \/ RowRefused(s) \/ RequestBegins(s) \/ RowEnds(s) \/ ChildExits(s)

Next ==
    \/ \E i \in Invocations :
          Start(i) \/ InvocationStep(i) \/ ReleaseFails(i) \/ Killed(i) \/ Breaks(i)
    \/ \E s \in Stages : ChildStep(s) \/ RowTimesOut(s) \/ LeftEnds(s)
    \/ LadderWrites \/ Edit \/ LaunchDies

Spec == Init /\ [][Next]_vars

(* Invocations go on whenever they can, children go on, and a child ends   *)
(* although it may begin row after row: its list of rows is finite and its *)
(* requests have timeouts.  Nothing is assumed of requests that nobody     *)
(* waits for: they may stay on the server.                                 *)
Fairness ==
    /\ WF_vars(\E i \in Invocations : InvocationStep(i))
    /\ WF_vars(\E s \in Stages : ChildStep(s))
    /\ SF_vars(\E s \in Stages : ChildExits(s))

FairSpec == Spec /\ Fairness

-----------------------------------------------------------------------------
(* Properties.                                                             *)

(* A stage's child is started at most once in the life of a launch,        *)
(* whatever is rerun or run twice at the same time ("requires a fresh      *)
(* attempt", line 39).                                                     *)
StageRunsOnce == \A s \in Stages : runs[s] <= 1

(* A receipt that says passed is about a child that did, whoever wrote it. *)
ReceiptTellsTheRun ==
    \A s \in Stages :
        /\ receipt[s] = "passed" => child[s] \in {"pass", "ungraded"}
        /\ receipt[s] = "failed" => child[s] = "fail"

(* What makes the two properties above inductive: a stage has one owner    *)
(* between its mkdir and its last check, and the owner's position fixes    *)
(* what its receipt and its child can be.                                  *)
OwnersDiffer ==
    \A i, j \in Invocations :
        pc[i] \in Inside /\ pc[j] \in Inside /\ i # j => Stage(i) # Stage(j)

OwnerPosition(i) ==
    /\ pc[i] = "save" => receipt[Stage(i)] = "dir"
    /\ pc[i] \in {"acquire", "spawn"} => receipt[Stage(i)] = "started" /\ runs[Stage(i)] = 0
    /\ pc[i] = "wait" => receipt[Stage(i)] = "started" /\ runs[Stage(i)] = 1
    /\ pc[i] = "record" => receipt[Stage(i)] = "started" /\ child[Stage(i)] \in Exited
    /\ pc[i] = "check" => receipt[Stage(i)] \in {"passed", "failed"}
    /\ pc[i] = "drain" => receipt[Stage(i)] = "passed"

StageHistory(s) ==
    /\ runs[s] <= 1
    /\ runs[s] = 0 <=> child[s] = "none"
    /\ receipt[s] \in {"none", "dir"} => runs[s] = 0
    /\ receipt[s] = "passed" => child[s] \in {"pass", "ungraded"}
    /\ receipt[s] = "failed" => child[s] = "fail"

Ownership ==
    /\ OwnersDiffer
    /\ \A i \in Invocations : OwnerPosition(i)
    /\ \A s \in Stages : StageHistory(s)

(* A marker is written only after every stage of its phase passed; the     *)
(* ladder itself may have failed, but what it wrote was read whole.        *)
DonePhasePassed ==
    \A ph \in done : \A n \in DOMAIN Plan[ph] :
        LET s == Plan[ph][n] IN
        receipt[s] = "passed" \/ (s = "ladder" /\ ladder = "whole")

(* What an invocation has behind it: stages that passed, or a ladder that  *)
(* was skipped for its file, whatever that file holds.                     *)
Covered(s) == receipt[s] = "passed" \/ (s = "ladder" /\ ladder # "none")

Progress ==
    /\ \A i \in Invocations : \A n \in DOMAIN Plan[phase[i]] :
          n < at[i] => Covered(Plan[phase[i]][n])
    /\ \A s \in Stages : child[s] = "ungraded" => s = "text180"
    /\ child["ladder-reconciled"] = "pass" => ladder = "whole"
    /\ DonePhasePassed

(* The children of two stages never wait for the server at the same time,  *)
(* not even when two invocations run or a killed one has left its child    *)
(* behind.  A request nobody waits for any more is not counted: beside it  *)
(* another stage's may execute.                                            *)
OneStageAsks == \A s, t \in Asking : s = t

(* Those are kept apart as far as one invocation goes ("serial", line 1):  *)
(* while it works on a stage the server executes no request of a stage of  *)
(* its phase before it, not even one nobody waits for, whoever ran that    *)
(* stage.  The ladder is exempt: skipped for its file, it may be running   *)
(* still.                                                                  *)
EarlierStagesAreQuiet ==
    \A i \in Invocations : pc[i] \in InStage \ {"verify"} =>
        \A n \in DOMAIN Plan[phase[i]] :
            n < at[i] /\ Plan[phase[i]][n] # "ladder" =>
                Plan[phase[i]][n] \notin left \cup Asking

(* A child that takes its own leases never meets the lease of the very     *)
(* stage() that waits for it.                                              *)
RowsMeetNoParent ==
    \A i \in Invocations : pc[i] = "wait" /\ Stage(i) \in RowStages => lock # i

(* The state is well-formed; a stage runs once and asks alone, what came   *)
(* before it is over, its receipt tells what it did, and it never waits    *)
(* for itself.                                                             *)
StageInv ==
    /\ TypeOK /\ StageRunsOnce /\ ReceiptTellsTheRun
    /\ OneStageAsks /\ EarlierStagesAreQuiet /\ RowsMeetNoParent

(* Who can ask under which lock: a row under its own, a direct child under *)
(* that of the invocation that waits for it, or under one that was left    *)
(* behind and is never removed.                                            *)
LeasedTo(s) ==
    \/ lock = "stale"
    \/ \E i \in Invocations : lock = i /\ pc[i] = "wait" /\ Stage(i) = s

Alive(s) == child[s] \in {"run", "row"}

Leases ==
    /\ \A s \in RowStages : child[s] = "row" => lock = s
    /\ \A s \in DirectStages : Alive(s) => LeasedTo(s)
    /\ \A s, t \in DirectStages : Alive(s) /\ Alive(t) => s = t
    /\ \A s \in Asking : s \in RowStages \cup DirectStages
    /\ \A i \in Invocations :
          /\ pc[i] = "acquire" => Stage(i) \in DirectStages
          /\ pc[i] = "spawn" /\ Stage(i) \in DirectStages => lock = i
          /\ lock = i => pc[i] \in {"spawn", "wait"} /\ Stage(i) \in DirectStages

(* The invocations, however many run, fail or are repeated, keep what      *)
(* OneShotStages promises: a stage is worked on once, in the order of its  *)
(* phase, and judged once by what its child did.                           *)
Working(c) ==
    CASE c = "none"                  -> "none"
      [] c \in {"run", "row"}        -> "busy"
      [] c \in {"pass", "ungraded"}  -> "good"
      [] c = "fail"                  -> "bad"

Judged(r) == IF r \in {"passed", "failed"} THEN r ELSE "none"

OneShot ==
    INSTANCE OneShotStages
    WITH work    <- [s \in Stages |-> Working(child[s])],
         verdict <- [s \in Stages |-> Judged(receipt[s])],
         serving <- Asking

StagePromise == OneShot!Spec

(* Every phase that starts comes to its end, done or refused, though a     *)
(* request may stay on the server for ever.                                *)
PhaseEnds == \A i \in Invocations : pc[i] = "choose" ~> pc[i] = "over"

(* A stage that ended with an exception is never reused.                   *)
FailedStageIsRefused ==
    [][\A i \in Invocations : pc[i] = "look" /\ at'[i] = at[i] + 1 => Stage(i) \notin failed]_vars

=============================================================================
