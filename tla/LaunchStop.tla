---------------------------- MODULE LaunchStop ----------------------------
(***************************************************************************)
(* Launching and stopping an epoch: launch() and stop() of                 *)
(* scripts/final_runtime.py, start() and stop() of scripts/final_guard.py. *)
(* Every run has its own directory and epoch; all share the nodes, the     *)
(* container name dsv41-rank and the port of the server on rank 0.  Two    *)
(* runs may be under way at once, and so may a run's launcher and a stop   *)
(* of that run: nothing in the scripts excludes it.                        *)
(* A guard's abort is one step here; its stops are GuardRing, and both     *)
(* keep what EpochGuards promises.                                         *)
(***************************************************************************)
EXTENDS Integers, FiniteSets

CONSTANTS
    Runs,      \* run directories
    N,         \* ranks (4)
    MaxFaults  \* bound: commands that fail, processes and containers that die

ASSUME NAssumption == N \in Nat \ {0}
ASSUME BoundAssumption == MaxFaults \in Nat

Ranks == 0 .. N-1

(* for r in (1,2,3,0)                                                      *)
Order(i) == IF i = N THEN 0 ELSE i

Peer(r) == IF r = N-1 THEN 0 ELSE r + 1

VARIABLES
    lpc,       \* lpc[e]: where the launcher of run e is
    next,      \* next[e]: its position in the loop over the ranks
    checked,   \* checked[e]: ranks whose preflight, later whose inspection, passed
    recorded,  \* recorded[e]: ranks in launch.json
    cont,      \* cont[e][r]: the container of run e on rank r
    loaded,    \* loaded[e]: the server of run e answers
    row,       \* row[e]: it executes a row
    guard,     \* guard[e][r]: the guard of run e on rank r
    published, \* published[e][r]: its last row: none, ok or stop
    stopErrors,\* stopErrors[e][r]: which stops its error record calls failed
    spc,       \* spc[e]: where the operator's stop of run e is
    thread,    \* thread[e][r]: the stop's worker for rank r
    listed,    \* listed[e]: ranks the stop read from launch.json
    faults

launchVars == <<lpc, next, checked, recorded>>
serverVars == <<loaded, row>>
recordVars == <<published, stopErrors>>
guardVars == <<guard, recordVars>>
stopVars == <<spc, thread, listed>>
vars == <<lpc, next, checked, recorded, cont, loaded, row, guard, published, stopErrors,
          spc, thread, listed, faults>>

Alive == {"starting", "on", "leaving"}

TypeOK ==
    /\ lpc \in [Runs -> {"idle", "preflight", "run", "save", "guard", "await", "load", "ready", "failed"}]
    /\ next \in [Runs -> 1 .. N]
    /\ checked \in [Runs -> SUBSET Ranks] /\ recorded \in [Runs -> SUBSET Ranks]
    /\ cont \in [Runs -> [Ranks -> {"none", "running", "stopped", "archived"}]]
    /\ loaded \in [Runs -> BOOLEAN] /\ row \in [Runs -> BOOLEAN]
    /\ guard \in [Runs -> [Ranks -> {"none", "ended", "killed"} \cup Alive]]
    /\ published \in [Runs -> [Ranks -> {"none", "ok", "stop"}]]
    /\ stopErrors \in [Runs -> [Ranks -> SUBSET {"local", "peer"}]]
    /\ spc \in [Runs -> {"none", "idle", "term", "wait", "teardown", "done", "failed"}]
    /\ thread \in [Runs -> [Ranks -> {"todo", "stopped", "ok", "failed"}]]
    /\ listed \in [Runs -> SUBSET Ranks]
    /\ faults \in 0 .. MaxFaults

Each(x) == [e \in Runs |-> [r \in Ranks |-> x]]

Init ==
    /\ lpc = [e \in Runs |-> "idle"] /\ next = [e \in Runs |-> 1]
    /\ checked = [e \in Runs |-> {}] /\ recorded = [e \in Runs |-> {}]
    /\ cont = Each("none")
    /\ loaded = [e \in Runs |-> FALSE] /\ row = [e \in Runs |-> FALSE]
    /\ guard = Each("none") /\ published = Each("none") /\ stopErrors = Each({})
    /\ spc = [e \in Runs |-> "none"] /\ thread = Each("todo")
    /\ listed = [e \in Runs |-> {}]
    /\ faults = 0

Fault == faults < MaxFaults /\ faults' = faults + 1
NoFault == UNCHANGED faults

Goto(e, p) == lpc' = [lpc EXCEPT ![e] = p]

(* The launcher's own variables end with it.                               *)
LaunchEnds(e, p) ==
    /\ Goto(e, p)
    /\ next' = [next EXCEPT ![e] = 1]
    /\ checked' = [checked EXCEPT ![e] = {}]

StopGoto(e, p) == spc' = [spc EXCEPT ![e] = p]

NoWorkers(e) == thread' = [thread EXCEPT ![e] = [r \in Ranks |-> "todo"]]

(* So do those of a stop.                                                  *)
StopEnds(e, p) ==
    /\ StopGoto(e, p)
    /\ NoWorkers(e)
    /\ listed' = [listed EXCEPT ![e] = {}]

Running(e, r) == cont[e][r] = "running"

(* Docker keeps the name of a stopped container until it is renamed.       *)
NameFree(r) == \A e \in Runs : cont[e][r] \in {"none", "archived"}

(* The servers all listen on the same port of rank 0; get() asks whichever *)
(* is there.                                                               *)
Answers(e) == loaded[e] /\ Running(e, 0)

-----------------------------------------------------------------------------
(* launch                                                                  *)

LaunchOnly == UNCHANGED <<cont, serverVars, guardVars, stopVars>>

(* mkdir(exist_ok=False): a directory is launched into once.               *)
Begin(e) ==
    /\ lpc[e] = "idle"
    /\ Goto(e, "preflight")
    /\ UNCHANGED <<next, checked, recorded>> /\ LaunchOnly /\ NoFault

(* docker ps -q is empty on rank r: no running container of any run.       *)
PreflightRank(e, r) ==
    /\ lpc[e] = "preflight" /\ r \notin checked[e]
    /\ \A f \in Runs : ~Running(f, r)
    /\ LET seen == checked[e] \cup {r}
       IN  /\ checked' = [checked EXCEPT ![e] = IF seen = Ranks THEN {} ELSE seen]
           /\ IF seen = Ranks THEN Goto(e, "run") ELSE UNCHANGED lpc
    /\ UNCHANGED <<next, recorded>> /\ LaunchOnly /\ NoFault

PreflightRefuses(e) ==
    /\ lpc[e] = "preflight"
    /\ \E r \in Ranks \ checked[e], f \in Runs : Running(f, r)
    /\ LaunchEnds(e, "failed")
    /\ UNCHANGED recorded /\ LaunchOnly /\ NoFault

(* Bug: the epoch is part of the container's name.                         *)
RunContainerAnyName(e) ==
    LET r == Order(next[e])
    IN  /\ lpc[e] = "run"
        /\ cont' = [cont EXCEPT ![e][r] = "running"]
        /\ Goto(e, "save")
        /\ UNCHANGED <<next, checked, recorded, serverVars, guardVars, stopVars>> /\ NoFault

(* docker run -d --name dsv41-rank                                         *)
RunContainer(e) ==
    LET r == Order(next[e])
    IN  /\ lpc[e] = "run" /\ NameFree(r)
        /\ cont' = [cont EXCEPT ![e][r] = "running"]
        /\ Goto(e, "save")
        /\ UNCHANGED <<next, checked, recorded, serverVars, guardVars, stopVars>> /\ NoFault

NameTaken(e) ==
    /\ lpc[e] = "run" /\ ~NameFree(Order(next[e]))
    /\ LaunchEnds(e, "failed")
    /\ UNCHANGED recorded /\ LaunchOnly /\ NoFault

(* The ssh command fails or times out, before or after docker started it.  *)
RunFails(e) ==
    LET r == Order(next[e])
    IN  /\ lpc[e] = "run" /\ Fault
        /\ \/ UNCHANGED cont
           \/ NameFree(r) /\ cont' = [cont EXCEPT ![e][r] = "running"]
        /\ LaunchEnds(e, "failed")
        /\ UNCHANGED <<recorded, serverVars, guardVars, stopVars>>

(* Bug: the guards are left to a later step.                               *)
RecordThenLoad(e) ==
    /\ lpc[e] = "save"
    /\ recorded' = [recorded EXCEPT ![e] = @ \cup {Order(next[e])}]
    /\ next' = [next EXCEPT ![e] = IF @ = N THEN 1 ELSE @ + 1]
    /\ Goto(e, IF next[e] = N THEN "load" ELSE "run")
    /\ UNCHANGED checked /\ LaunchOnly /\ NoFault

(* launch.json is saved after every container.                             *)
Record(e) ==
    /\ lpc[e] = "save"
    /\ recorded' = [recorded EXCEPT ![e] = @ \cup {Order(next[e])}]
    /\ next' = [next EXCEPT ![e] = IF @ = N THEN 1 ELSE @ + 1]
    /\ Goto(e, IF next[e] = N THEN "guard" ELSE "run")
    /\ UNCHANGED checked /\ LaunchOnly /\ NoFault

(* final_guard.start: rank by rank from 0, each container still runs.      *)
StartGuard(e) ==
    LET r == next[e] - 1
    IN  /\ lpc[e] = "guard" /\ Running(e, r)
        /\ guard' = [guard EXCEPT ![e][r] = "starting"]
        /\ next' = [next EXCEPT ![e] = IF @ = N THEN 1 ELSE @ + 1]
        /\ Goto(e, IF next[e] = N THEN "await" ELSE "guard")
        /\ UNCHANGED <<checked, recorded, cont, serverVars, recordVars, stopVars>> /\ NoFault

StartGuardRefused(e) ==
    /\ lpc[e] = "guard" /\ ~Running(e, next[e] - 1)
    /\ LaunchEnds(e, "failed")
    /\ UNCHANGED recorded /\ LaunchOnly /\ NoFault

(* Every rank has published a row of this epoch that does not stop it.     *)
GuardsReady(e) ==
    /\ lpc[e] = "await" /\ \A r \in Ranks : published[e][r] = "ok"
    /\ Goto(e, "load")
    /\ UNCHANGED <<next, checked, recorded>> /\ LaunchOnly /\ NoFault

(* 45 seconds for the guards, 3000 for the model.                          *)
DeadlinePasses(e) ==
    /\ lpc[e] \in {"await", "load"}
    /\ LaunchEnds(e, "failed")
    /\ UNCHANGED recorded /\ LaunchOnly /\ NoFault

(* The readiness loop inspects every rank, then asks the server.           *)
InspectRank(e, r) ==
    /\ lpc[e] = "load" /\ r \notin checked[e] /\ Running(e, r)
    /\ checked' = [checked EXCEPT ![e] = @ \cup {r}]
    /\ UNCHANGED <<lpc, next, recorded>> /\ LaunchOnly /\ NoFault

RankStopped(e) ==
    /\ lpc[e] = "load" /\ \E r \in Ranks \ checked[e] : ~Running(e, r)
    /\ LaunchEnds(e, "failed")
    /\ UNCHANGED recorded /\ LaunchOnly /\ NoFault

AskServer(e) ==
    /\ lpc[e] = "load" /\ checked[e] = Ranks
    /\ IF \E f \in Runs : Answers(f) THEN Goto(e, "ready") ELSE UNCHANGED lpc
    /\ checked' = [checked EXCEPT ![e] = {}]
    /\ UNCHANGED <<next, recorded>> /\ LaunchOnly /\ NoFault

(* Any other command of the launcher fails, or the launcher dies.          *)
LaunchFails(e) ==
    /\ lpc[e] \notin {"idle", "ready", "failed"} /\ Fault
    /\ LaunchEnds(e, "failed")
    /\ UNCHANGED recorded /\ LaunchOnly

Launcher(e) ==
    \/ Begin(e) \/ PreflightRefuses(e) \/ RunContainer(e) \/ NameTaken(e) \/ Record(e)
    \/ StartGuard(e) \/ StartGuardRefused(e) \/ GuardsReady(e) \/ RankStopped(e) \/ AskServer(e)
    \/ \E r \in Ranks : PreflightRank(e, r) \/ InspectRank(e, r)

-----------------------------------------------------------------------------
(* Guards, containers and rows.                                            *)

StopRunning(S, e) ==
    cont' = [cont EXCEPT ![e] = [r \in Ranks |-> IF r \in S /\ Running(e, r) THEN "stopped" ELSE @[r]]]

(* Handoff and the first iteration.                                        *)
GuardPublishes(e, r) ==
    /\ guard[e][r] = "starting" /\ Running(e, r)
    /\ guard' = [guard EXCEPT ![e][r] = "on"]
    /\ published' = [published EXCEPT ![e][r] = "ok"]
    /\ UNCHANGED <<launchVars, cont, serverVars, stopErrors, stopVars>> /\ NoFault

(* Bug: an abort that could not stop a container says nothing of it.       *)
GuardAbortsQuietly(e, r) ==
    /\ guard[e][r] \in Alive
    /\ \E S \in SUBSET {r, Peer(r)} :
          /\ IF Running(e, r) \/ S # {r, Peer(r)} THEN Fault ELSE NoFault
          /\ StopRunning(S, e)
    /\ guard' = [guard EXCEPT ![e][r] = "ended"]
    /\ UNCHANGED <<launchVars, serverVars, recordVars, stopVars>>

(* Hard reason, failed read, or its container is gone: both stops, and the *)
(* marker.  A stop that fails, though it may have been carried out, is     *)
(* named in the error record.  Only a hard abort publishes the row that    *)
(* says so.                                                                *)
GuardAborts(e, r) ==
    /\ guard[e][r] \in Alive
    /\ \E failed \in SUBSET {"local", "peer"}, S \in SUBSET {r, Peer(r)} :
          /\ IF Running(e, r) \/ failed # {} THEN Fault ELSE NoFault
          /\ r \in S \/ "local" \in failed
          /\ Peer(r) \in S \/ "peer" \in failed
          /\ StopRunning(S, e)
          /\ stopErrors' = [stopErrors EXCEPT ![e][r] = failed]
    /\ guard' = [guard EXCEPT ![e][r] = "ended"]
    /\ \/ UNCHANGED published
       \/ Running(e, r) /\ published' = [published EXCEPT ![e][r] = "stop"]
    /\ UNCHANGED <<launchVars, serverVars, stopVars>>

(* The signalled guard completes its iteration, with its row.              *)
GuardLeaves(e, r) ==
    /\ guard[e][r] = "leaving"
    /\ guard' = [guard EXCEPT ![e][r] = "ended"]
    /\ \/ UNCHANGED published
       \/ Running(e, r) /\ published' = [published EXCEPT ![e][r] = "ok"]
    /\ UNCHANGED <<launchVars, cont, serverVars, stopErrors, stopVars>> /\ NoFault

GuardKilled(e, r) ==
    /\ guard[e][r] \in Alive /\ Fault
    /\ guard' = [guard EXCEPT ![e][r] = "killed"]
    /\ UNCHANGED <<launchVars, cont, serverVars, recordVars, stopVars>>

ContainerDies(e, r) ==
    /\ Running(e, r) /\ Fault
    /\ StopRunning({r}, e)
    /\ UNCHANGED <<launchVars, serverVars, guardVars, stopVars>>

(* The server comes up once all ranks have joined.                         *)
Load(e) ==
    /\ ~loaded[e] /\ \A r \in Ranks : Running(e, r)
    /\ loaded' = [loaded EXCEPT ![e] = TRUE]
    /\ UNCHANGED <<launchVars, cont, row, guardVars, stopVars>> /\ NoFault

(* A controller gets its lease from four live guards and sends the row.    *)
SendRow(e) ==
    /\ lpc[e] = "ready" /\ Answers(e) /\ ~row[e]
    /\ \A r \in Ranks : guard[e][r] = "on" /\ published[e][r] = "ok"
    /\ row' = [row EXCEPT ![e] = TRUE]
    /\ UNCHANGED <<launchVars, cont, loaded, guardVars, stopVars>> /\ NoFault

RowCompletes(e) ==
    /\ row[e]
    /\ row' = [row EXCEPT ![e] = FALSE]
    /\ UNCHANGED <<launchVars, cont, loaded, guardVars, stopVars>> /\ NoFault

-----------------------------------------------------------------------------
(* stop                                                                    *)

StopOnly == UNCHANGED <<launchVars, serverVars, recordVars>>

(* It needs launch.json, which is there from the launcher's first step on, *)
(* and takes the ranks from it once.  An operator may repeat a stop that   *)
(* failed.                                                                 *)
StopBegins(e) ==
    /\ lpc[e] # "idle" /\ spc[e] \in {"none", "failed"}
    /\ StopGoto(e, "idle")
    /\ listed' = [listed EXCEPT ![e] = recorded[e]]
    /\ NoWorkers(e)
    /\ UNCHANGED <<cont, guard>> /\ StopOnly /\ NoFault

StopAgain(e) == spc[e] = "failed" /\ StopBegins(e)

(* Idle twice, a second apart: what the second answer says decides.        *)
SeesIdle(e) ==
    /\ spc[e] = "idle"
    /\ \E f \in Runs : Answers(f) /\ ~row[f]
    /\ StopGoto(e, "term")
    /\ UNCHANGED <<cont, guard, thread, listed>> /\ StopOnly /\ NoFault

StopRefused(e) ==
    /\ spc[e] = "idle"
    /\ \A f \in Runs : Answers(f) => row[f]
    /\ StopEnds(e, "failed")
    /\ UNCHANGED <<cont, guard>> /\ StopOnly /\ NoFault

(* Bug: a guard that has left already has no process to signal.            *)
TermGuardStrictly(e, r) ==
    /\ spc[e] = "term" /\ thread[e][r] = "todo"
    /\ \/ /\ guard[e][r] \in Alive
          /\ guard' = [guard EXCEPT ![e][r] = "leaving"]
          /\ thread' = [thread EXCEPT ![e][r] = "ok"]
       \/ /\ guard[e][r] \notin Alive
          /\ thread' = [thread EXCEPT ![e][r] = "failed"]
          /\ UNCHANGED guard
    /\ UNCHANGED <<cont, spc, listed>> /\ StopOnly /\ NoFault

(* SIGTERM through the PID file; without a process, the marker must exist. *)
(* A guard that is still starting may lack the PID file or the handler.    *)
TermGuard(e, r) ==
    /\ spc[e] = "term" /\ thread[e][r] = "todo"
    /\ \/ /\ guard[e][r] \in Alive
          /\ guard' = [guard EXCEPT ![e][r] = "leaving"]
          /\ thread' = [thread EXCEPT ![e][r] = "ok"]
       \/ /\ guard[e][r] = "starting"
          /\ guard' = [guard EXCEPT ![e][r] = "killed"]
          /\ thread' = [thread EXCEPT ![e][r] = "ok"]
       \/ /\ guard[e][r] = "ended"
          /\ thread' = [thread EXCEPT ![e][r] = "ok"]
          /\ UNCHANGED guard
       \/ /\ guard[e][r] \in {"none", "killed", "starting"}
          /\ thread' = [thread EXCEPT ![e][r] = "failed"]
          /\ UNCHANGED guard
    /\ UNCHANGED <<cont, spc, listed>> /\ StopOnly /\ NoFault

(* The pool waits for all four; one exception fails the stop.              *)
TermDone(e) ==
    /\ spc[e] = "term" /\ \A r \in Ranks : thread[e][r] \in {"ok", "failed"}
    /\ IF \A r \in Ranks : thread[e][r] = "ok"
       THEN StopGoto(e, "wait") /\ NoWorkers(e) /\ UNCHANGED listed
       ELSE StopEnds(e, "failed")
    /\ UNCHANGED <<cont, guard>> /\ StopOnly /\ NoFault

(* Bug: the markers are not looked at.                                     *)
MarkersUnchecked(e) ==
    /\ spc[e] = "wait"
    /\ StopGoto(e, "teardown")
    /\ UNCHANGED <<cont, guard, thread, listed>> /\ StopOnly /\ NoFault

(* Two seconds later every guard must have left.                           *)
Markers(e) ==
    /\ spc[e] = "wait"
    /\ IF \A r \in Ranks : guard[e][r] = "ended"
       THEN StopGoto(e, "teardown") /\ UNCHANGED <<thread, listed>>
       ELSE StopEnds(e, "failed")
    /\ UNCHANGED <<cont, guard>> /\ StopOnly /\ NoFault

(* docker stop, by container ID.                                           *)
StopContainer(e, r) ==
    /\ spc[e] = "teardown" /\ r \in listed[e] /\ thread[e][r] = "todo"
    /\ StopRunning({r}, e)
    /\ thread' = [thread EXCEPT ![e][r] = "stopped"]
    /\ UNCHANGED <<spc, guard, listed>> /\ StopOnly /\ NoFault

(* docker rename, which fails when the container has that name already.    *)
Rename(e, r) ==
    /\ spc[e] = "teardown" /\ thread[e][r] = "stopped"
    /\ cont' = [cont EXCEPT ![e][r] = "archived"]
    /\ thread' = [thread EXCEPT ![e][r] = IF cont[e][r] = "archived" THEN "failed" ELSE "ok"]
    /\ UNCHANGED <<spc, guard, listed>> /\ StopOnly /\ NoFault

(* A command of the worker fails: the inspections, the log, the rename.    *)
WorkerFails(e, r) ==
    /\ spc[e] = "teardown" /\ r \in listed[e] /\ thread[e][r] \in {"todo", "stopped"} /\ Fault
    /\ \/ UNCHANGED cont
       \/ thread[e][r] = "stopped" /\ cont' = [cont EXCEPT ![e][r] = "archived"]
    /\ thread' = [thread EXCEPT ![e][r] = "failed"]
    /\ UNCHANGED <<spc, guard, listed>> /\ StopOnly

TeardownDone(e) ==
    /\ spc[e] = "teardown" /\ \A r \in listed[e] : thread[e][r] \in {"ok", "failed"}
    /\ StopEnds(e, IF \A r \in listed[e] : thread[e][r] = "ok" THEN "done" ELSE "failed")
    /\ UNCHANGED <<cont, guard>> /\ StopOnly /\ NoFault

StopFails(e) ==
    /\ spc[e] \notin {"none", "done", "failed"} /\ Fault
    /\ StopEnds(e, "failed")
    /\ UNCHANGED <<cont, guard>> /\ StopOnly

Stopper(e) ==
    \/ SeesIdle(e) \/ StopRefused(e) \/ TermDone(e) \/ Markers(e) \/ TeardownDone(e)
    \/ \E r \in Ranks : TermGuard(e, r) \/ StopContainer(e, r) \/ Rename(e, r)

Environment(e) ==
    \/ RunFails(e) \/ LaunchFails(e) \/ DeadlinePasses(e) \/ StopFails(e) \/ SendRow(e)
    \/ \E r \in Ranks : GuardKilled(e, r) \/ ContainerDies(e, r) \/ WorkerFails(e, r)

GuardStep(e) == \E r \in Ranks : GuardPublishes(e, r) \/ GuardAborts(e, r) \/ GuardLeaves(e, r)

Next ==
    \E e \in Runs :
        \/ Launcher(e) \/ Stopper(e) \/ StopBegins(e) \/ GuardStep(e)
        \/ Load(e) \/ RowCompletes(e) \/ Environment(e)

Spec == Init /\ [][Next]_vars

(* Commands have timeouts, guards iterate, rows end; and an operator whose *)
(* stop failed tries again.                                                *)
FairSpec ==
    Spec /\ \A e \in Runs : /\ WF_vars(Launcher(e)) /\ WF_vars(Stopper(e)) /\ WF_vars(GuardStep(e))
                           /\ WF_vars(RowCompletes(e)) /\ WF_vars(StopAgain(e))

-----------------------------------------------------------------------------
(* Properties.                                                             *)

(* However two launches interleave after both preflights passed, and       *)
(* whatever earlier runs left behind, a node runs one container.           *)
OneModelPerNode ==
    \A r \in Ranks : \A e, f \in Runs : Running(e, r) /\ Running(f, r) => e = f

(* The server that made a launch READY is its own, unless a stop of the    *)
(* same run had by then renamed its container of rank 0: only that gives   *)
(* up the name and the port to another run's server.                       *)
ReadyIsOwnServer ==
    [][\A e \in Runs :
         lpc[e] # "ready" /\ lpc'[e] = "ready" => Answers(e) \/ cont[e][0] = "archived"]_vars

(* "Guard is controller-owned and runs before expensive readiness" (line   *)
(* 138): past the start of the guards, a container runs without a live     *)
(* guard only if that guard was killed, has recorded that it could not     *)
(* stop it, or a stop of this run began.                                   *)
GuardedUntilStopped ==
    \A e \in Runs : \A r \in Ranks :
        lpc[e] \in {"await", "load", "ready"} /\ Running(e, r) /\ spc[e] = "none"
            => guard[e][r] \in Alive \cup {"killed"} \/ "local" \in stopErrors[e][r]

(* The state is well-formed, no node runs two models, and no run's         *)
(* container is left without a guard before it is stopped.                 *)
LaunchInv == TypeOK /\ OneModelPerNode /\ GuardedUntilStopped

(* Teardown never runs into a guard: no guard of the run is left that      *)
(* would see its container go and stop its neighbour's.                    *)
TeardownAfterGuards ==
    \A e \in Runs : spc[e] \in {"teardown", "done"} => \A r \in Ranks : guard[e][r] = "ended"

(* The promise of the guards, kept by every run for itself.                *)
Epoch(e) ==
    INSTANCE EpochGuards
    WITH up <- [r \in Ranks |-> Running(e, r)],
         guard <- [r \in Ranks |-> IF guard[e][r] \in Alive THEN "on" ELSE guard[e][r]],
         failed <- stopErrors[e],
         stopping <- spc[e] # "none"

EpochsAreGuarded ==
    /\ \A e \in Runs : Epoch(e)!Init
    /\ [][\A e \in Runs : [Epoch(e)!Next]_(Epoch(e)!vars)]_vars

(* A stop that failed because a guard took longer than two seconds can be  *)
(* repeated until it is done, once the rows have ended and unless a        *)
(* command fails or something dies.                                        *)
StopIsRepeatable ==
    (\A e \in Runs : <>[]~row[e]) =>
        \A e \in Runs : (lpc[e] = "ready" /\ spc[e] = "idle") ~> (spc[e] = "done" \/ faults > 0)

=============================================================================
