-------------------------- MODULE LaunchStopProofs --------------------------
(***************************************************************************)
(* Launch and stop for any number of runs, ranks and failures: what holds  *)
(* the name of the container excludes, and that no guard is left when the  *)
(* containers are taken down.                                              *)
(***************************************************************************)
EXTENDS LaunchStop, TLAPS

LEMMA RankFacts ==
    /\ 0 \in Ranks
    /\ \A r \in Ranks : Peer(r) \in Ranks
    /\ \A i \in 1 .. N : Order(i) \in Ranks
    /\ \A i \in 1 .. N : (i - 1) \in Ranks
    /\ \A i \in 1 .. N : i # N => i + 1 \in 1 .. N
    /\ 1 \in 1 .. N
  BY NAssumption DEF Ranks, Peer, Order

Conts == {"none", "running", "stopped", "archived"}
Guards == {"none", "ended", "killed"} \cup Alive
Threads == {"todo", "stopped", "ok", "failed"}
Rows == {"none", "ok", "stop"}
Errors == SUBSET {"local", "peer"}

(* Setting one entry of a table of runs and ranks.                         *)
SetsCont(e, r, v) == cont' = [cont EXCEPT ![e][r] = v]
SetsGuard(e, r, v) == guard' = [guard EXCEPT ![e][r] = v]
SetsThread(e, r, v) == thread' = [thread EXCEPT ![e][r] = v]
SetsPublished(e, r, v) == published' = [published EXCEPT ![e][r] = v]
SetsErrors(e, r, v) == stopErrors' = [stopErrors EXCEPT ![e][r] = v]

LEMMA ContIsSet ==
    ASSUME TypeOK, NEW e \in Runs, NEW r \in Ranks, NEW v \in Conts, SetsCont(e, r, v)
    PROVE  /\ cont' \in [Runs -> [Ranks -> Conts]]
           /\ \A f \in Runs : \A q \in Ranks :
                 cont'[f][q] = IF f = e /\ q = r THEN v ELSE cont[f][q]
<1>1. cont \in [Runs -> [Ranks -> Conts]]
  BY DEF TypeOK, Conts
<1>2. \A f \in Runs : f # e => cont'[f] = cont[f]
  BY <1>1 DEF SetsCont
<1>3. cont'[e] = [cont[e] EXCEPT ![r] = v]
  BY <1>1 DEF SetsCont
<1>4. cont' \in [Runs -> [Ranks -> Conts]]
  BY <1>1 DEF SetsCont
<1> QED BY <1>1, <1>2, <1>3, <1>4

LEMMA GuardIsSet ==
    ASSUME TypeOK, NEW e \in Runs, NEW r \in Ranks, NEW v \in Guards, SetsGuard(e, r, v)
    PROVE  /\ guard' \in [Runs -> [Ranks -> Guards]]
           /\ \A f \in Runs : \A q \in Ranks :
                 guard'[f][q] = IF f = e /\ q = r THEN v ELSE guard[f][q]
<1>1. guard \in [Runs -> [Ranks -> Guards]]
  BY DEF TypeOK, Guards
<1>2. \A f \in Runs : f # e => guard'[f] = guard[f]
  BY <1>1 DEF SetsGuard
<1>3. guard'[e] = [guard[e] EXCEPT ![r] = v]
  BY <1>1 DEF SetsGuard
<1>4. guard' \in [Runs -> [Ranks -> Guards]]
  BY <1>1 DEF SetsGuard
<1> QED BY <1>1, <1>2, <1>3, <1>4

LEMMA ThreadIsSet ==
    ASSUME TypeOK, NEW e \in Runs, NEW r \in Ranks, NEW v \in Threads, SetsThread(e, r, v)
    PROVE  thread' \in [Runs -> [Ranks -> Threads]]
<1>1. thread \in [Runs -> [Ranks -> Threads]]
  BY DEF TypeOK, Threads
<1> QED BY <1>1 DEF SetsThread

LEMMA PublishedIsSet ==
    ASSUME TypeOK, NEW e \in Runs, NEW r \in Ranks, NEW v \in Rows, SetsPublished(e, r, v)
    PROVE  published' \in [Runs -> [Ranks -> Rows]]
<1>1. published \in [Runs -> [Ranks -> Rows]]
  BY DEF TypeOK, Rows
<1> QED BY <1>1 DEF SetsPublished

LEMMA ErrorsIsSet ==
    ASSUME TypeOK, NEW e \in Runs, NEW r \in Ranks, NEW v \in Errors, SetsErrors(e, r, v)
    PROVE  /\ stopErrors' \in [Runs -> [Ranks -> Errors]]
           /\ \A f \in Runs : \A q \in Ranks :
                 stopErrors'[f][q] = IF f = e /\ q = r THEN v ELSE stopErrors[f][q]
<1>1. stopErrors \in [Runs -> [Ranks -> Errors]]
  BY DEF TypeOK, Errors
<1>2. \A f \in Runs : f # e => stopErrors'[f] = stopErrors[f]
  BY <1>1 DEF SetsErrors
<1>3. stopErrors'[e] = [stopErrors[e] EXCEPT ![r] = v]
  BY <1>1 DEF SetsErrors
<1>4. stopErrors' \in [Runs -> [Ranks -> Errors]]
  BY <1>1 DEF SetsErrors
<1> QED BY <1>1, <1>2, <1>3, <1>4

LEMMA CountStaysBounded == ASSUME TypeOK, Fault PROVE faults' \in 0 .. MaxFaults
  BY BoundAssumption DEF TypeOK, Fault

LEMMA StopsKeepType ==
    ASSUME TypeOK, NEW e \in Runs, NEW S \in SUBSET Ranks, StopRunning(S, e)
    PROVE  cont' \in [Runs -> [Ranks -> {"none", "running", "stopped", "archived"}]]
  BY DEF TypeOK, StopRunning, Running

(* An abort stops what it does not record as failed, of its two ranks.     *)
LEMMA AbortStops ==
    ASSUME NEW e \in Runs, NEW r \in Ranks, GuardAborts(e, r)
    PROVE  /\ guard[e][r] \in Alive
           /\ SetsGuard(e, r, "ended")
           /\ UNCHANGED <<launchVars, serverVars, stopVars>>
           /\ \E failed \in SUBSET {"local", "peer"}, S \in SUBSET Ranks :
                 /\ S \subseteq {r, Peer(r)}
                 /\ r \in S \/ "local" \in failed
                 /\ Peer(r) \in S \/ "peer" \in failed
                 /\ StopRunning(S, e)
                 /\ SetsErrors(e, r, failed)
<1>1. {r, Peer(r)} \subseteq Ranks
  BY RankFacts
<1>2. PICK failed \in SUBSET {"local", "peer"}, S \in SUBSET {r, Peer(r)} :
         /\ r \in S \/ "local" \in failed
         /\ Peer(r) \in S \/ "peer" \in failed
         /\ StopRunning(S, e)
         /\ SetsErrors(e, r, failed)
  BY DEF GuardAborts, SetsErrors
<1>3. S \in SUBSET Ranks
  BY <1>1
<1> QED BY <1>2, <1>3 DEF GuardAborts, SetsGuard

(* What a step may do to a program counter, one lemma per process.         *)
Launching(e) ==
    \/ \E r \in Ranks : PreflightRank(e, r) \/ InspectRank(e, r)
    \/ Begin(e) \/ PreflightRefuses(e) \/ NameTaken(e) \/ Record(e) \/ StartGuardRefused(e)
    \/ GuardsReady(e) \/ RankStopped(e) \/ AskServer(e) \/ DeadlinePasses(e) \/ LaunchFails(e)

Stopping(e) ==
    \/ SeesIdle(e) \/ StopRefused(e) \/ TermDone(e) \/ Markers(e) \/ TeardownDone(e)
    \/ StopFails(e) \/ StopBegins(e)

LaunchTypes ==
    /\ lpc \in [Runs -> {"idle", "preflight", "run", "save", "guard", "await", "load", "ready", "failed"}]
    /\ next \in [Runs -> 1 .. N]
    /\ checked \in [Runs -> SUBSET Ranks] /\ recorded \in [Runs -> SUBSET Ranks]

LEMMA LaunchingKeepsType == ASSUME TypeOK, NEW e \in Runs, Launching(e) PROVE LaunchTypes'
<1> USE RankFacts DEF TypeOK, LaunchTypes, Goto, LaunchEnds
<1>1. CASE \E r \in Ranks : PreflightRank(e, r) \/ InspectRank(e, r)
  <2>1. PICK r \in Ranks : PreflightRank(e, r) \/ InspectRank(e, r)
    BY <1>1
  <2>2. \E S \in SUBSET Ranks : checked' = [checked EXCEPT ![e] = S]
    <3>1. checked[e] \cup {r} \in SUBSET Ranks /\ {} \in SUBSET Ranks
      OBVIOUS
    <3> QED BY <2>1, <3>1 DEF PreflightRank, InspectRank
  <2>3. checked' \in [Runs -> SUBSET Ranks]
    BY <2>2
  <2>4. UNCHANGED <<next, recorded>> /\ (lpc' = lpc \/ lpc' = [lpc EXCEPT ![e] = "run"])
    BY <2>1 DEF PreflightRank, InspectRank
  <2> QED BY <2>3, <2>4
<1>2. CASE Begin(e) \/ PreflightRefuses(e) \/ NameTaken(e)
  BY <1>2 DEF Begin, PreflightRefuses, NameTaken
<1>3. CASE Record(e)
  <2>1. next' \in [Runs -> 1 .. N]
    <3>1. (IF next[e] = N THEN 1 ELSE next[e] + 1) \in 1 .. N
      OBVIOUS
    <3> QED BY <1>3, <3>1 DEF Record
  <2>2. recorded' \in [Runs -> SUBSET Ranks]
    BY <1>3 DEF Record
  <2> QED BY <1>3, <2>1, <2>2 DEF Record, LaunchOnly
<1>4. CASE StartGuardRefused(e) \/ GuardsReady(e) \/ RankStopped(e)
  BY <1>4 DEF StartGuardRefused, GuardsReady, RankStopped
<1>5. CASE AskServer(e)
  BY <1>5 DEF AskServer
<1>6. CASE DeadlinePasses(e) \/ LaunchFails(e)
  BY <1>6 DEF DeadlinePasses, LaunchFails
<1> QED BY <1>1, <1>2, <1>3, <1>4, <1>5, <1>6 DEF Launching

LEMMA LaunchingKeepsRest ==
    ASSUME TypeOK, NEW e \in Runs, Launching(e)
    PROVE  LaunchOnly /\ (NoFault \/ Fault)
  BY DEF Launching, PreflightRank, InspectRank, Begin, PreflightRefuses, NameTaken, Record,
         StartGuardRefused, GuardsReady, RankStopped, AskServer, DeadlinePasses, LaunchFails

LEMMA WorkersType ==
    ASSUME TypeOK, NEW e \in Runs, NoWorkers(e)
    PROVE  thread' \in [Runs -> [Ranks -> {"todo", "stopped", "ok", "failed"}]]
<1>1. [r \in Ranks |-> "todo"] \in [Ranks -> {"todo", "stopped", "ok", "failed"}]
  OBVIOUS
<1> QED BY <1>1 DEF TypeOK, NoWorkers

LEMMA StoppingKeepsType ==
    ASSUME TypeOK, NEW e \in Runs, Stopping(e)
    PROVE  /\ spc' \in [Runs -> {"none", "idle", "term", "wait", "teardown", "done", "failed"}]
           /\ thread' \in [Runs -> [Ranks -> {"todo", "stopped", "ok", "failed"}]]
           /\ listed' \in [Runs -> SUBSET Ranks]
<1> USE DEF TypeOK, StopGoto, StopEnds
<1>1. CASE SeesIdle(e) \/ StopRefused(e) \/ StopFails(e)
  <2>1. thread' = thread \/ NoWorkers(e)
    BY <1>1 DEF SeesIdle, StopRefused, StopFails
  <2> QED BY <1>1, <2>1, WorkersType DEF SeesIdle, StopRefused, StopFails
<1>2. CASE TermDone(e) \/ Markers(e)
  <2>1. thread' = thread \/ NoWorkers(e)
    BY <1>2 DEF TermDone, Markers
  <2> QED BY <1>2, <2>1, WorkersType DEF TermDone, Markers
<1>3. CASE TeardownDone(e) \/ StopBegins(e)
  <2>1. NoWorkers(e)
    BY <1>3 DEF TeardownDone, StopBegins
  <2>2. spc' \in [Runs -> {"none", "idle", "term", "wait", "teardown", "done", "failed"}]
    BY <1>3 DEF TeardownDone, StopBegins
  <2>3. listed' \in [Runs -> SUBSET Ranks]
    <3>1. {} \in SUBSET Ranks /\ recorded[e] \in SUBSET Ranks
      OBVIOUS
    <3>2. \E S \in SUBSET Ranks : listed' = [listed EXCEPT ![e] = S]
      BY <1>3, <3>1 DEF TeardownDone, StopBegins
    <3> QED BY <3>2
  <2> QED BY <2>1, <2>2, <2>3, WorkersType
<1> QED BY <1>1, <1>2, <1>3 DEF Stopping

LEMMA StoppingKeepsRest ==
    ASSUME TypeOK, NEW e \in Runs, Stopping(e)
    PROVE  StopOnly /\ UNCHANGED <<cont, guard>> /\ (NoFault \/ Fault)
  BY DEF Stopping, SeesIdle, StopRefused, TermDone, TeardownDone, StopFails, Markers, StopBegins

(* The other steps act on one container, one guard or the server.          *)
Acting(e) ==
    \/ RunContainer(e) \/ RunFails(e) \/ StartGuard(e)
    \/ Load(e) \/ SendRow(e) \/ RowCompletes(e)
    \/ \E r \in Ranks :
          \/ GuardPublishes(e, r) \/ GuardAborts(e, r) \/ GuardLeaves(e, r) \/ GuardKilled(e, r)
          \/ ContainerDies(e, r) \/ TermGuard(e, r) \/ StopContainer(e, r) \/ Rename(e, r)
          \/ WorkerFails(e, r)

LEMMA NextCases == Next => \E e \in Runs : Launching(e) \/ Stopping(e) \/ Acting(e)
  BY DEF Next, Launching, Stopping, Acting, Launcher, Stopper, Environment, GuardStep

LEMMA ActingKeepsType == ASSUME TypeOK, NEW e \in Runs, Acting(e) PROVE TypeOK'
<1> USE RankFacts, CountStaysBounded DEF NoFault, LaunchOnly, StopOnly, launchVars, serverVars,
        guardVars, recordVars, stopVars, Goto, LaunchEnds, Alive
<1>1. CASE RunContainer(e) \/ RunFails(e)
  <2>1. cont' \in [Runs -> [Ranks -> {"none", "running", "stopped", "archived"}]]
    <3>1. Order(next[e]) \in Ranks
      BY DEF TypeOK
    <3>2. cont' = cont \/ SetsCont(e, Order(next[e]), "running")
      BY <1>1 DEF RunContainer, RunFails, SetsCont
    <3> HIDE DEF TypeOK
    <3> QED BY <3>1, <3>2, ContIsSet DEF TypeOK, Conts
  <2>2. lpc' \in [Runs -> {"idle", "preflight", "run", "save", "guard", "await", "load", "ready", "failed"}]
    BY <1>1 DEF TypeOK, RunContainer, RunFails
  <2>3. faults' \in 0 .. MaxFaults
    BY <1>1 DEF TypeOK, RunContainer, RunFails
  <2>4. UNCHANGED <<recorded, serverVars, guardVars, stopVars>>
    BY <1>1 DEF RunContainer, RunFails
  <2>5. next' \in [Runs -> 1 .. N] /\ checked' \in [Runs -> SUBSET Ranks]
    BY <1>1 DEF TypeOK, RunContainer, RunFails
  <2> QED BY <2>1, <2>2, <2>3, <2>4, <2>5 DEF TypeOK
<1>2. CASE StartGuard(e)
  BY <1>2 DEF TypeOK, StartGuard
<1>3. CASE Load(e) \/ SendRow(e) \/ RowCompletes(e)
  BY <1>3 DEF TypeOK, Load, SendRow, RowCompletes
<1>4. ASSUME NEW r \in Ranks, GuardPublishes(e, r) \/ GuardLeaves(e, r) \/ GuardKilled(e, r)
      PROVE  TypeOK'
  <2>1. \E v \in Guards : SetsGuard(e, r, v)
    BY <1>4 DEF GuardPublishes, GuardLeaves, GuardKilled, SetsGuard, Guards
  <2>2. guard' \in [Runs -> [Ranks -> {"none", "ended", "killed"} \cup Alive]]
    BY <2>1, GuardIsSet DEF Guards
  <2>3. published' = published \/ SetsPublished(e, r, "ok")
    BY <1>4 DEF GuardPublishes, GuardLeaves, GuardKilled, SetsPublished
  <2>4. published' \in [Runs -> [Ranks -> {"none", "ok", "stop"}]]
    BY <2>3, PublishedIsSet DEF TypeOK, Rows
  <2>5. faults' \in 0 .. MaxFaults
    BY <1>4 DEF TypeOK, GuardPublishes, GuardLeaves, GuardKilled
  <2>6. UNCHANGED <<launchVars, cont, serverVars, stopErrors, stopVars>>
    BY <1>4 DEF GuardPublishes, GuardLeaves, GuardKilled
  <2> QED BY <2>2, <2>4, <2>5, <2>6 DEF TypeOK
<1>5. ASSUME NEW r \in Ranks, GuardAborts(e, r) PROVE TypeOK'
  <2>1. cont' \in [Runs -> [Ranks -> {"none", "running", "stopped", "archived"}]]
    BY <1>5, AbortStops, StopsKeepType
  <2>2. guard' \in [Runs -> [Ranks -> {"none", "ended", "killed"} \cup Alive]]
    BY <1>5, AbortStops, GuardIsSet DEF Guards
  <2>3. published' \in [Runs -> [Ranks -> {"none", "ok", "stop"}]]
    <3>1. published' = published \/ SetsPublished(e, r, "stop")
      BY <1>5 DEF GuardAborts, SetsPublished
    <3> QED BY <3>1, PublishedIsSet DEF TypeOK, Rows
  <2>4. faults' \in 0 .. MaxFaults
    BY <1>5 DEF TypeOK, GuardAborts
  <2>5. UNCHANGED <<launchVars, serverVars, stopVars>>
    BY <1>5, AbortStops
  <2>6. stopErrors' \in [Runs -> [Ranks -> SUBSET {"local", "peer"}]]
    BY <1>5, AbortStops, ErrorsIsSet DEF Errors
  <2> QED BY <2>1, <2>2, <2>3, <2>4, <2>5, <2>6 DEF TypeOK
<1>6. ASSUME NEW r \in Ranks, ContainerDies(e, r) PROVE TypeOK'
  <2>1. cont' \in [Runs -> [Ranks -> {"none", "running", "stopped", "archived"}]]
    BY <1>6, StopsKeepType DEF ContainerDies
  <2> QED BY <1>6, <2>1 DEF TypeOK, ContainerDies
<1>7. ASSUME NEW r \in Ranks, TermGuard(e, r) PROVE TypeOK'
  <2>1. guard' = guard \/ \E v \in Guards : SetsGuard(e, r, v)
    BY <1>7 DEF TermGuard, SetsGuard, Guards
  <2>2. guard' \in [Runs -> [Ranks -> {"none", "ended", "killed"} \cup Alive]]
    BY <2>1, GuardIsSet DEF TypeOK, Guards
  <2>3. \E v \in Threads : SetsThread(e, r, v)
    BY <1>7 DEF TermGuard, SetsThread, Threads
  <2>4. thread' \in [Runs -> [Ranks -> {"todo", "stopped", "ok", "failed"}]]
    BY <2>3, ThreadIsSet DEF Threads
  <2>5. UNCHANGED <<launchVars, serverVars, recordVars, cont, spc, listed, faults>>
    BY <1>7 DEF TermGuard
  <2> QED BY <2>2, <2>4, <2>5 DEF TypeOK
<1>8. ASSUME NEW r \in Ranks, StopContainer(e, r) PROVE TypeOK'
  <2>1. cont' \in [Runs -> [Ranks -> {"none", "running", "stopped", "archived"}]]
    BY <1>8, StopsKeepType DEF StopContainer
  <2> QED BY <1>8, <2>1 DEF TypeOK, StopContainer
<1>9. ASSUME NEW r \in Ranks, Rename(e, r) PROVE TypeOK'
  BY <1>9 DEF TypeOK, Rename
<1>10. ASSUME NEW r \in Ranks, WorkerFails(e, r) PROVE TypeOK'
  <2>1. cont' = cont \/ SetsCont(e, r, "archived")
    BY <1>10 DEF WorkerFails, SetsCont
  <2>2. cont' \in [Runs -> [Ranks -> {"none", "running", "stopped", "archived"}]]
    BY <2>1, ContIsSet DEF TypeOK, Conts
  <2>3. thread' \in [Runs -> [Ranks -> {"todo", "stopped", "ok", "failed"}]]
    <3>1. SetsThread(e, r, "failed")
      BY <1>10 DEF WorkerFails, SetsThread
    <3> QED BY <3>1, ThreadIsSet DEF Threads
  <2>4. faults' \in 0 .. MaxFaults /\ UNCHANGED <<launchVars, serverVars, guardVars, spc, listed>>
    BY <1>10 DEF WorkerFails
  <2> QED BY <2>2, <2>3, <2>4 DEF TypeOK
<1> QED BY <1>1, <1>2, <1>3, <1>4, <1>5, <1>6, <1>7, <1>8, <1>9, <1>10 DEF Acting

LEMMA TypeInductive == TypeOK /\ [Next]_vars => TypeOK'
<1> SUFFICES ASSUME TypeOK, [Next]_vars PROVE TypeOK'
  OBVIOUS
<1>1. ASSUME NEW e \in Runs, Launching(e) PROVE TypeOK'
  BY <1>1, LaunchingKeepsType, LaunchingKeepsRest, CountStaysBounded
     DEF TypeOK, LaunchTypes, LaunchOnly, NoFault, serverVars, guardVars, recordVars, stopVars
<1>2. ASSUME NEW e \in Runs, Stopping(e) PROVE TypeOK'
  BY <1>2, StoppingKeepsType, StoppingKeepsRest, CountStaysBounded
     DEF TypeOK, StopOnly, NoFault, launchVars, serverVars, recordVars
<1>3. CASE UNCHANGED vars
  BY <1>3 DEF TypeOK, vars
<1> QED BY <1>1, <1>2, <1>3, ActingKeepsType, NextCases

THEOREM TypeCorrect == Spec => []TypeOK
<1>1. Init => TypeOK
  BY RankFacts, BoundAssumption DEF Init, TypeOK, Each
<1> QED BY <1>1, TypeInductive, PTL DEF Spec

-----------------------------------------------------------------------------
(* Who holds the name of the container on a node.                          *)
Holds(e, r) == cont[e][r] \in {"running", "stopped"}

NameIsUnique == \A r \in Ranks : \A e, f \in Runs : Holds(e, r) /\ Holds(f, r) => e = f

(* A container that was started is never gone, but it may lose its name.   *)
Dwindles(e, r) ==
    /\ Holds(e, r)' => Holds(e, r)
    /\ cont[e][r] # "none" => cont'[e][r] # "none"

(* A step takes a free name, or gives names up.                            *)
LEMMA NameSteps ==
    ASSUME TypeOK, [Next]_vars
    PROVE  \/ \E e \in Runs : \E r \in Ranks :
                 NameFree(r) /\ cont' = [cont EXCEPT ![e][r] = "running"]
           \/ \A e \in Runs : \A r \in Ranks : Dwindles(e, r)
<1> USE RankFacts DEF TypeOK, Holds, Dwindles
<1>1. ASSUME NEW e \in Runs, Launching(e) \/ Stopping(e) PROVE UNCHANGED cont
  BY <1>1, LaunchingKeepsRest, StoppingKeepsRest DEF LaunchOnly
<1>2. ASSUME NEW e \in Runs, RunContainer(e) \/ RunFails(e)
      PROVE  \/ UNCHANGED cont
             \/ \E r \in Ranks : NameFree(r) /\ cont' = [cont EXCEPT ![e][r] = "running"]
  BY <1>2 DEF RunContainer, RunFails
<1>3. ASSUME NEW e \in Runs, NEW S \in SUBSET Ranks, StopRunning(S, e)
      PROVE  \A f \in Runs : \A r \in Ranks : Dwindles(f, r)
  BY <1>3 DEF StopRunning, Running
<1>4. ASSUME NEW e \in Runs, NEW r \in Ranks,
             GuardAborts(e, r) \/ ContainerDies(e, r) \/ StopContainer(e, r)
      PROVE  \E S \in SUBSET Ranks : StopRunning(S, e)
  <2>1. {r} \in SUBSET Ranks
    OBVIOUS
  <2>2. CASE GuardAborts(e, r)
    BY <2>2, AbortStops
  <2> QED BY <1>4, <2>1, <2>2 DEF ContainerDies, StopContainer
<1>5. ASSUME NEW e \in Runs, NEW r \in Ranks, Rename(e, r) \/ WorkerFails(e, r)
      PROVE  \A f \in Runs : \A q \in Ranks : Dwindles(f, q)
  <2>1. cont' = cont \/ SetsCont(e, r, "archived")
    BY <1>5 DEF Rename, WorkerFails, SetsCont
  <2>2. CASE SetsCont(e, r, "archived")
    <3> HIDE DEF TypeOK
    <3> QED BY <2>2, ContIsSet DEF Conts
  <2> QED BY <2>1, <2>2
<1>6. ASSUME NEW e \in Runs,
             \/ StartGuard(e) \/ Load(e) \/ SendRow(e) \/ RowCompletes(e)
             \/ \E r \in Ranks : \/ GuardPublishes(e, r) \/ GuardLeaves(e, r)
                                 \/ GuardKilled(e, r) \/ TermGuard(e, r)
      PROVE  UNCHANGED cont
  BY <1>6 DEF StartGuard, Load, SendRow, RowCompletes, GuardPublishes, GuardLeaves, GuardKilled,
              TermGuard
<1>7. ASSUME NEW e \in Runs, Acting(e)
      PROVE  \/ \E r \in Ranks : NameFree(r) /\ cont' = [cont EXCEPT ![e][r] = "running"]
             \/ \A f \in Runs : \A r \in Ranks : Dwindles(f, r)
  BY <1>2, <1>3, <1>4, <1>5, <1>6, <1>7 DEF Acting
<1>8. CASE UNCHANGED vars
  BY <1>8 DEF vars
<1>9. ASSUME NEW e \in Runs, Launching(e) \/ Stopping(e)
      PROVE  \A f \in Runs : \A r \in Ranks : Dwindles(f, r)
  BY <1>1, <1>9
<1> QED BY <1>7, <1>8, <1>9, NextCases

LEMMA NamesStayUnique == ASSUME TypeOK, NameIsUnique, [Next]_vars PROVE NameIsUnique'
<1>1. ASSUME NEW e \in Runs, NEW r \in Ranks, NameFree(r),
             cont' = [cont EXCEPT ![e][r] = "running"]
      PROVE  NameIsUnique'
  BY <1>1 DEF TypeOK, NameIsUnique, Holds, NameFree
<1>2. CASE \A e \in Runs : \A r \in Ranks : Dwindles(e, r)
  BY <1>2 DEF NameIsUnique, Dwindles
<1> QED BY <1>1, <1>2, NameSteps

LEMMA UniqueNames == Spec => []NameIsUnique
<1>1. Init => NameIsUnique
  BY DEF Init, NameIsUnique, Holds, Each
<1> QED BY <1>1, NamesStayUnique, TypeCorrect, PTL DEF Spec

(* However launches and stops interleave, a node runs one container: the   *)
(* fixed name is the lock that the preflight is not.                       *)
THEOREM NodesRunOneModel == Spec => []OneModelPerNode
<1>1. NameIsUnique => OneModelPerNode
  BY DEF NameIsUnique, OneModelPerNode, Holds, Running
<1> QED BY <1>1, UniqueNames, PTL

-----------------------------------------------------------------------------
(* A stop may begin while the launcher still starts guards.  It starts one *)
(* only on a rank that has none yet, so a rank whose guard has left does   *)
(* not get another, and the markers stay true once they have been seen.    *)

(* A rank the launcher has not come to with its guard.                     *)
Unguarded(e, r) ==
    \/ lpc[e] \in {"idle", "preflight", "run", "save"}
    \/ lpc[e] = "guard" /\ next[e] - 1 <= r

GuardsComeLater == \A e \in Runs : \A r \in Ranks : Unguarded(e, r) => guard[e][r] = "none"

(* Only the launcher starts a guard.                                       *)
LEMMA NoGuardAppears ==
    ASSUME TypeOK, [Next]_vars, NEW f \in Runs, NEW q \in Ranks, guard[f][q] = "none",
           ~(StartGuard(f) /\ q = next[f] - 1)
    PROVE  guard'[f][q] = "none"
<1> USE RankFacts DEF TypeOK
<1>1. ASSUME NEW e \in Runs, Launching(e) \/ Stopping(e) PROVE UNCHANGED guard
  BY <1>1, LaunchingKeepsRest, StoppingKeepsRest DEF LaunchOnly, guardVars
<1>2. ASSUME NEW e \in Runs, Acting(e) PROVE guard'[f][q] = "none"
  <2>1. CASE RunContainer(e) \/ RunFails(e) \/ Load(e) \/ SendRow(e) \/ RowCompletes(e)
    BY <2>1 DEF RunContainer, RunFails, Load, SendRow, RowCompletes, guardVars
  <2>2. CASE StartGuard(e)
    <3>1. SetsGuard(e, next[e] - 1, "starting") /\ next[e] - 1 \in Ranks
      BY <2>2 DEF StartGuard, SetsGuard
    <3>2. ~(e = f /\ q = next[e] - 1)
      BY <2>2
    <3> HIDE DEF TypeOK
    <3> QED BY <3>1, <3>2, GuardIsSet DEF Guards, Alive
  <2>3. ASSUME NEW r \in Ranks,
               GuardPublishes(e, r) \/ GuardAborts(e, r) \/ GuardLeaves(e, r) \/ GuardKilled(e, r)
        PROVE  guard'[f][q] = "none"
    <3>1. guard[e][r] # "none" /\ \E v \in {"on", "ended", "killed"} : SetsGuard(e, r, v)
      BY <2>3 DEF GuardPublishes, GuardAborts, GuardLeaves, GuardKilled, SetsGuard, Alive
    <3> HIDE DEF TypeOK
    <3> QED BY <3>1, GuardIsSet DEF Guards, Alive
  <2>4. ASSUME NEW r \in Ranks, TermGuard(e, r) PROVE guard'[f][q] = "none"
    <3>1. \/ guard' = guard
          \/ guard[e][r] # "none" /\ \E v \in {"leaving", "killed"} : SetsGuard(e, r, v)
      BY <2>4 DEF TermGuard, SetsGuard, Alive
    <3> HIDE DEF TypeOK
    <3> QED BY <3>1, GuardIsSet DEF Guards, Alive
  <2>5. ASSUME NEW r \in Ranks,
               ContainerDies(e, r) \/ StopContainer(e, r) \/ Rename(e, r) \/ WorkerFails(e, r)
        PROVE  guard'[f][q] = "none"
    BY <2>5 DEF ContainerDies, StopContainer, Rename, WorkerFails, guardVars
  <2> QED BY <1>2, <2>1, <2>2, <2>3, <2>4, <2>5 DEF Acting
<1> QED BY <1>1, <1>2, NextCases DEF vars

(* The launcher never comes back before the ranks it has guarded.          *)
LEMMA UnguardedBefore ==
    ASSUME TypeOK, [Next]_vars, NEW f \in Runs, NEW q \in Ranks, Unguarded(f, q)'
    PROVE  Unguarded(f, q) /\ ~(StartGuard(f) /\ q = next[f] - 1)
<1> USE DEF Goto, LaunchEnds, Unguarded
<1>1. CASE StartGuard(f)
  <2>1. /\ lpc[f] = "guard" /\ next[f] \in 1 .. N
        /\ next[f] = N => lpc'[f] = "await"
        /\ next[f] # N => lpc'[f] = "guard" /\ next'[f] = next[f] + 1
    BY <1>1 DEF TypeOK, StartGuard
  <2>2. next[f] # N /\ (next[f] + 1) - 1 <= q
    BY <2>1
  <2>3. \A k \in 1 .. N, j \in 0 .. N-1 : (k + 1) - 1 <= j => k - 1 <= j /\ j # k - 1
    BY NAssumption
  <2> QED BY <2>1, <2>2, <2>3 DEF Ranks
<1>2. ASSUME NEW e \in Runs, e # f, Launching(e) PROVE Unguarded(f, q)
  <2>1. lpc'[f] = lpc[f] /\ next'[f] = next[f]
    BY <1>2 DEF TypeOK, Launching, PreflightRank, InspectRank, Begin, PreflightRefuses, NameTaken,
       Record, StartGuardRefused, GuardsReady, RankStopped, AskServer, DeadlinePasses, LaunchFails
  <2> QED BY <2>1
<1>3. ASSUME Launching(f) PROVE Unguarded(f, q)
  <2>1. \/ lpc'[f] \in {"failed", "load", "ready"}
        \/ lpc[f] \in {"idle", "preflight", "save"}
    BY <1>3 DEF TypeOK, Launching, PreflightRank, InspectRank, Begin, PreflightRefuses, NameTaken,
       Record, StartGuardRefused, GuardsReady, RankStopped, AskServer, DeadlinePasses, LaunchFails
  <2> QED BY <2>1
<1>4. ASSUME NEW e \in Runs, Stopping(e) PROVE Unguarded(f, q)
  BY <1>4, StoppingKeepsRest DEF StopOnly, launchVars
<1>5. ASSUME NEW e \in Runs, Acting(e), ~StartGuard(f)
      PROVE  \/ lpc'[f] = lpc[f] /\ next'[f] = next[f]
             \/ lpc[f] = "run" /\ lpc'[f] \in {"save", "failed"}
  BY <1>5 DEF TypeOK, Acting, RunContainer, RunFails, StartGuard, Load, SendRow, RowCompletes,
     GuardPublishes, GuardAborts, GuardLeaves, GuardKilled, ContainerDies, TermGuard,
     StopContainer, Rename, WorkerFails, StopOnly, launchVars
<1>6. ASSUME UNCHANGED vars PROVE Unguarded(f, q)
  BY <1>6 DEF vars
<1>7. CASE ~StartGuard(f)
  BY <1>2, <1>3, <1>4, <1>5, <1>6, <1>7, NextCases
<1> QED BY <1>1, <1>7

LEMMA GuardsStayLater == ASSUME TypeOK, GuardsComeLater, [Next]_vars PROVE GuardsComeLater'
<1> SUFFICES ASSUME NEW e \in Runs, NEW r \in Ranks, Unguarded(e, r)' PROVE guard'[e][r] = "none"
  BY DEF GuardsComeLater, Ranks
<1>1. guard[e][r] = "none" /\ ~(StartGuard(e) /\ r = next[e] - 1)
  BY UnguardedBefore DEF GuardsComeLater
<1> QED BY <1>1, NoGuardAppears

LEMMA GuardsLater == Spec => [](TypeOK /\ GuardsComeLater)
<1>1. Init => GuardsComeLater
  BY DEF Init, Each, GuardsComeLater
<1> QED BY <1>1, GuardsStayLater, TypeCorrect, PTL DEF Spec

(* Only Markers leads into the teardown.                                   *)
LEMMA StopSteps ==
    ASSUME TypeOK, [Next]_vars, NEW f \in Runs
    PROVE  \/ spc'[f] = spc[f]
           \/ spc[f] # "none" /\ spc'[f] \notin {"teardown", "done"}
           \/ spc[f] = "none" /\ spc'[f] = "idle"
           \/ Markers(f)
           \/ spc[f] = "teardown" /\ UNCHANGED guard
<1> USE DEF TypeOK, StopGoto, StopEnds
<1>1. ASSUME NEW e \in Runs, Launching(e) PROVE spc'[f] = spc[f]
  BY <1>1, LaunchingKeepsRest DEF LaunchOnly, stopVars
<1>2. ASSUME NEW e \in Runs, Acting(e) PROVE spc'[f] = spc[f]
  BY <1>2 DEF Acting, RunContainer, RunFails, StartGuard, Load, SendRow, RowCompletes,
     GuardPublishes, GuardAborts, GuardLeaves, GuardKilled, ContainerDies, TermGuard,
     StopContainer, Rename, WorkerFails, stopVars
<1>3. ASSUME NEW e \in Runs, e # f, Stopping(e) PROVE spc'[f] = spc[f]
  BY <1>3 DEF Stopping, SeesIdle, StopRefused, TermDone, Markers, TeardownDone, StopFails,
     StopBegins
<1>4. CASE SeesIdle(f) \/ StopRefused(f) \/ TermDone(f) \/ StopFails(f)
  BY <1>4 DEF SeesIdle, StopRefused, TermDone, StopFails
<1>5. CASE TeardownDone(f)
  BY <1>5 DEF TeardownDone
<1>6. CASE StopBegins(f)
  BY <1>6 DEF StopBegins
<1> QED BY <1>1, <1>2, <1>3, <1>4, <1>5, <1>6, NextCases DEF vars, Stopping

(* A guard that has left stays away.                                       *)
LEMMA EndedStaysEnded ==
    ASSUME TypeOK, GuardsComeLater, [Next]_vars, NEW f \in Runs, NEW q \in Ranks,
           guard[f][q] = "ended"
    PROVE  guard'[f][q] = "ended"
<1> USE RankFacts DEF TypeOK, Alive, guardVars
<1>1. ASSUME NEW e \in Runs, Launching(e) \/ Stopping(e) PROVE UNCHANGED guard
  BY <1>1, LaunchingKeepsRest, StoppingKeepsRest DEF LaunchOnly
<1>2. ASSUME NEW e \in Runs, Acting(e) PROVE guard'[f][q] = "ended"
  <2>1. CASE RunContainer(e) \/ RunFails(e) \/ Load(e) \/ SendRow(e) \/ RowCompletes(e)
    BY <2>1 DEF RunContainer, RunFails, Load, SendRow, RowCompletes
  <2>2. CASE StartGuard(e)
    <3>1. SetsGuard(e, next[e] - 1, "starting") /\ next[e] - 1 \in Ranks
      BY <2>2 DEF StartGuard, SetsGuard
    <3>2. Unguarded(e, next[e] - 1)
      BY <2>2, <3>1 DEF StartGuard, Unguarded, Ranks
    <3>3. ~(e = f /\ q = next[e] - 1)
      BY <3>1, <3>2 DEF GuardsComeLater
    <3> HIDE DEF TypeOK
    <3> QED BY <3>1, <3>3, GuardIsSet DEF Guards
  <2>3. ASSUME NEW r \in Ranks,
               GuardPublishes(e, r) \/ GuardAborts(e, r) \/ GuardLeaves(e, r) \/ GuardKilled(e, r)
        PROVE  guard'[f][q] = "ended"
    <3>1. \/ SetsGuard(e, r, "ended")
          \/ guard[e][r] # "ended" /\ \E v \in {"on", "killed"} : SetsGuard(e, r, v)
      BY <2>3 DEF GuardPublishes, GuardAborts, GuardLeaves, GuardKilled, SetsGuard
    <3> HIDE DEF TypeOK
    <3> QED BY <3>1, GuardIsSet DEF Guards
  <2>4. ASSUME NEW r \in Ranks, TermGuard(e, r) PROVE guard'[f][q] = "ended"
    <3>1. \/ guard' = guard
          \/ guard[e][r] # "ended" /\ \E v \in {"leaving", "killed"} : SetsGuard(e, r, v)
      BY <2>4 DEF TermGuard, SetsGuard
    <3> HIDE DEF TypeOK
    <3> QED BY <3>1, GuardIsSet DEF Guards
  <2>5. ASSUME NEW r \in Ranks,
               ContainerDies(e, r) \/ StopContainer(e, r) \/ Rename(e, r) \/ WorkerFails(e, r)
        PROVE  guard'[f][q] = "ended"
    BY <2>5 DEF ContainerDies, StopContainer, Rename, WorkerFails
  <2> QED BY <1>2, <2>1, <2>2, <2>3, <2>4, <2>5 DEF Acting
<1> QED BY <1>1, <1>2, NextCases DEF vars

LEMMA TeardownStep ==
    ASSUME TypeOK, GuardsComeLater, TeardownAfterGuards, [Next]_vars
    PROVE  TeardownAfterGuards'
<1> SUFFICES ASSUME NEW e \in Runs, spc'[e] \in {"teardown", "done"}, NEW r \in Ranks
             PROVE  guard'[e][r] = "ended"
  BY DEF TeardownAfterGuards
<1>1. CASE Markers(e)
  BY <1>1 DEF TypeOK, Markers, StopGoto, StopEnds
<1>2. CASE ~Markers(e)
  <2>1. spc[e] \in {"teardown", "done"}
    BY <1>2, StopSteps
  <2>2. guard[e][r] = "ended"
    BY <2>1 DEF TeardownAfterGuards
  <2> QED BY <2>2, EndedStaysEnded
<1> QED BY <1>1, <1>2

(* No guard of a run is left when its containers are taken down, whatever  *)
(* failed, was killed or was repeated before, and though the launcher may  *)
(* still have been starting guards when the stop began.                    *)
THEOREM TeardownFindsNoGuard == Spec => []TeardownAfterGuards
<1>1. Init => TeardownAfterGuards
  BY DEF Init, TeardownAfterGuards
<1>2. TypeOK /\ GuardsComeLater /\ TeardownAfterGuards /\ [Next]_vars => TeardownAfterGuards'
  BY TeardownStep, GuardsStayLater
<1> QED BY <1>1, <1>2, GuardsLater, PTL DEF Spec

-----------------------------------------------------------------------------
(* A rank whose guard the launcher has started.                            *)
Started(e, r) ==
    \/ lpc[e] = "guard" /\ r < next[e] - 1
    \/ lpc[e] \in {"await", "load", "ready"}

Guarded(e, r) ==
    Running(e, r) => guard[e][r] \in Alive \cup {"killed"} \/ "local" \in stopErrors[e][r]

(* Until a stop begins, what the launcher has started keeps the name of    *)
(* its container, and keeps its guard while it runs: a guard that leaves   *)
(* by itself stops the container first or records that it could not, and   *)
(* only a stop makes one leave otherwise.                                  *)
StartedIsGuarded ==
    \A e \in Runs : spc[e] = "none" =>
        \A r \in Ranks : /\ Started(e, r) => Holds(e, r) /\ Guarded(e, r)
                         /\ guard[e][r] # "leaving"

(* What a step may do to a run no stop of which has begun, rank by rank.   *)
Keeps(e, r) ==
    /\ cont'[e][r] = cont[e][r] \/ (Running(e, r) /\ cont'[e][r] = "stopped")
    /\ \/ guard'[e][r] = guard[e][r] /\ stopErrors'[e][r] = stopErrors[e][r]
       \/ guard[e][r] \in Alive /\ guard'[e][r] \in {"on", "killed"}
       \/ guard'[e][r] = "ended" /\ (cont'[e][r] # "running" \/ "local" \in stopErrors'[e][r])

LEMMA StopStaysBegun ==
    ASSUME TypeOK, [Next]_vars, NEW f \in Runs, spc[f] # "none"
    PROVE  spc'[f] # "none"
<1>1. ASSUME NEW e \in Runs, Stopping(e) PROVE spc'[f] # "none"
  BY <1>1 DEF TypeOK, StopGoto, StopEnds, Stopping, SeesIdle, StopRefused, TermDone, Markers, TeardownDone,
     StopFails, StopBegins
<1>2. ASSUME NEW e \in Runs, Launching(e) \/ Acting(e) PROVE spc'[f] = spc[f]
  BY <1>2, LaunchingKeepsRest DEF LaunchOnly, stopVars, Acting, RunContainer, RunFails, StartGuard,
     Load, SendRow, RowCompletes, GuardPublishes, GuardAborts, GuardLeaves, GuardKilled,
     ContainerDies, TermGuard, StopContainer, Rename, WorkerFails
<1> QED BY <1>1, <1>2, NextCases DEF vars

(* Only a stop makes a guard leave.                                        *)
LEMMA OnlyStopsSignal ==
    ASSUME TypeOK, [Next]_vars, NEW f \in Runs, NEW q \in Ranks, guard[f][q] # "leaving",
           spc[f] = "none"
    PROVE  guard'[f][q] # "leaving"
<1> USE RankFacts DEF TypeOK, guardVars
<1>1. ASSUME NEW e \in Runs, Launching(e) \/ Stopping(e) PROVE UNCHANGED guard
  BY <1>1, LaunchingKeepsRest, StoppingKeepsRest DEF LaunchOnly
<1>2. ASSUME NEW e \in Runs, Acting(e) PROVE guard'[f][q] # "leaving"
  <2>1. CASE RunContainer(e) \/ RunFails(e) \/ Load(e) \/ SendRow(e) \/ RowCompletes(e)
    BY <2>1 DEF RunContainer, RunFails, Load, SendRow, RowCompletes
  <2>2. CASE StartGuard(e)
    BY <2>2 DEF StartGuard
  <2>3. ASSUME NEW r \in Ranks,
               GuardPublishes(e, r) \/ GuardAborts(e, r) \/ GuardLeaves(e, r) \/ GuardKilled(e, r)
        PROVE  guard'[f][q] # "leaving"
    <3>1. \E v \in {"on", "ended", "killed"} : SetsGuard(e, r, v)
      BY <2>3 DEF GuardPublishes, GuardAborts, GuardLeaves, GuardKilled, SetsGuard
    <3> HIDE DEF TypeOK
    <3> QED BY <3>1, GuardIsSet DEF Guards, Alive
  <2>4. ASSUME NEW r \in Ranks, TermGuard(e, r) PROVE guard'[f][q] # "leaving"
    <3>1. e # f /\ (guard' = guard \/ \E v \in {"leaving", "killed"} : SetsGuard(e, r, v))
      BY <2>4 DEF TermGuard, SetsGuard
    <3> HIDE DEF TypeOK
    <3> QED BY <3>1, GuardIsSet DEF Guards, Alive
  <2>5. ASSUME NEW r \in Ranks,
               ContainerDies(e, r) \/ StopContainer(e, r) \/ Rename(e, r) \/ WorkerFails(e, r)
        PROVE  guard'[f][q] # "leaving"
    BY <2>5 DEF ContainerDies, StopContainer, Rename, WorkerFails
  <2> QED BY <1>2, <2>1, <2>2, <2>3, <2>4, <2>5 DEF Acting
<1> QED BY <1>1, <1>2, NextCases DEF vars

(* Of a run that is not being stopped only the launcher's own steps move   *)
(* the launcher.                                                           *)
LEMMA UnstoppedSteps ==
    ASSUME TypeOK, StartedIsGuarded, [Next]_vars, NEW f \in Runs, spc[f] = "none", spc'[f] = "none"
    PROVE  \/ lpc'[f] = "failed"
           \/ lpc[f] = "run" /\ lpc'[f] = "save" /\ next'[f] = next[f]
           \/ StartGuard(f)
           \/ /\ \A r \in Ranks : Keeps(f, r)
              /\ \A r \in Ranks : Started(f, r)' => Started(f, r)
<1> USE RankFacts DEF TypeOK
<1>1. ASSUME NEW e \in Runs, Launching(e)
      PROVE  \/ lpc'[f] = "failed"
             \/ /\ \A r \in Ranks : Keeps(f, r)
                /\ \A r \in Ranks : Started(f, r)' => Started(f, r)
  <2>1. \A r \in Ranks : Keeps(f, r)
    BY <1>1, LaunchingKeepsRest DEF LaunchOnly, guardVars, recordVars, Keeps
  <2>2. CASE e # f
    <3>1. lpc'[f] = lpc[f] /\ next'[f] = next[f]
      BY <1>1, <2>2 DEF Launching, PreflightRank, InspectRank, Begin, PreflightRefuses, NameTaken,
         Record, StartGuardRefused, GuardsReady, RankStopped, AskServer, DeadlinePasses,
         LaunchFails, Goto, LaunchEnds
    <3> QED BY <2>1, <3>1 DEF Started
  <2>3. CASE e = f
    <3>1. \/ lpc'[f] = "failed"
          \/ Record(f)
          \/ /\ next'[f] = next[f]
             /\ \/ lpc'[f] = lpc[f]
                \/ lpc'[f] \in {"preflight", "run"}
                \/ lpc[f] \in {"await", "load"}
      BY <1>1, <2>3 DEF Launching, PreflightRank, InspectRank, Begin, PreflightRefuses, NameTaken,
         StartGuardRefused, GuardsReady, RankStopped, AskServer, DeadlinePasses, LaunchFails, Goto,
         LaunchEnds
    <3>2. CASE Record(f)
      <4>1. lpc'[f] = "run" \/ (lpc'[f] = "guard" /\ next'[f] = 1)
        BY <3>2 DEF Record, Goto
      <4>2. \A r \in Ranks : ~Started(f, r)'
        <5>1. \A r \in Ranks : ~(r < 1 - 1)
          BY NAssumption DEF Ranks
        <5> HIDE DEF TypeOK
        <5> QED BY <4>1, <5>1 DEF Started
      <4> QED BY <2>1, <4>2
    <3> QED BY <2>1, <3>1, <3>2 DEF Started
  <2> QED BY <2>2, <2>3
<1>2. ASSUME NEW e \in Runs, Stopping(e) PROVE UNCHANGED <<lpc, next, cont, guard, stopErrors>>
  BY <1>2, StoppingKeepsRest DEF StopOnly, launchVars, recordVars
<1>3. ASSUME UNCHANGED <<lpc, next>>, \A r \in Ranks : Keeps(f, r)
      PROVE  /\ \A r \in Ranks : Keeps(f, r)
             /\ \A r \in Ranks : Started(f, r)' => Started(f, r)
  BY <1>3 DEF Started
<1>4. ASSUME UNCHANGED <<lpc, next, cont, guard, stopErrors>> PROVE \A r \in Ranks : Keeps(f, r)
  BY <1>4 DEF Keeps
<1>5. ASSUME NEW e \in Runs, e # f, RunContainer(e) \/ RunFails(e) \/ StartGuard(e)
      PROVE  /\ \A r \in Ranks : Keeps(f, r)
             /\ \A r \in Ranks : Started(f, r)' => Started(f, r)
  <2>1. lpc'[f] = lpc[f] /\ next'[f] = next[f] /\ cont'[f] = cont[f] /\ guard'[f] = guard[f]
        /\ stopErrors'[f] = stopErrors[f]
    BY <1>5 DEF RunContainer, RunFails, StartGuard, Goto, LaunchEnds, guardVars, recordVars
  <2> QED BY <2>1 DEF Keeps, Started
<1>6. CASE RunContainer(f) \/ RunFails(f)
  BY <1>6 DEF RunContainer, RunFails, Goto, LaunchEnds
<1>7. ASSUME NEW e \in Runs, Load(e) \/ SendRow(e) \/ RowCompletes(e)
      PROVE  UNCHANGED <<lpc, next, cont, guard, stopErrors>>
  BY <1>7 DEF Load, SendRow, RowCompletes, launchVars, guardVars, recordVars
<1>8. ASSUME NEW e \in Runs, NEW q \in Ranks, GuardPublishes(e, q) \/ GuardKilled(e, q)
      PROVE  UNCHANGED <<lpc, next>> /\ \A r \in Ranks : Keeps(f, r)
  <2>1. /\ UNCHANGED <<lpc, next, cont, stopErrors>> /\ guard[e][q] \in Alive
        /\ \E v \in {"on", "killed"} : SetsGuard(e, q, v)
    BY <1>8 DEF GuardPublishes, GuardKilled, launchVars, recordVars, Alive, SetsGuard
  <2> HIDE DEF TypeOK
  <2> QED BY <2>1, GuardIsSet DEF Guards, Alive, Keeps
<1>9. ASSUME NEW e \in Runs, NEW q \in Ranks, GuardLeaves(e, q)
      PROVE  UNCHANGED <<lpc, next>> /\ \A r \in Ranks : Keeps(f, r)
  <2>1. /\ UNCHANGED <<lpc, next, cont, stopErrors>> /\ guard[e][q] = "leaving"
        /\ SetsGuard(e, q, "ended")
    BY <1>9 DEF GuardLeaves, launchVars, recordVars, SetsGuard
  <2>2. e # f
    BY <2>1 DEF StartedIsGuarded
  <2> HIDE DEF TypeOK
  <2> QED BY <2>1, <2>2, GuardIsSet DEF Guards, Keeps
<1>10. ASSUME NEW e \in Runs, NEW q \in Ranks, GuardAborts(e, q)
       PROVE  UNCHANGED <<lpc, next>> /\ \A r \in Ranks : Keeps(f, r)
  <2> HIDE DEF TypeOK
  <2>1. PICK failed \in SUBSET {"local", "peer"}, S \in SUBSET Ranks :
          /\ S \subseteq {q, Peer(q)}
          /\ q \in S \/ "local" \in failed
          /\ Peer(q) \in S \/ "peer" \in failed
          /\ StopRunning(S, e)
          /\ SetsErrors(e, q, failed)
    BY <1>10, AbortStops
  <2>2. UNCHANGED <<lpc, next>> /\ SetsGuard(e, q, "ended")
    BY <1>10, AbortStops DEF launchVars
  <2>3. \A r \in Ranks :
          /\ cont'[f][r] = cont[f][r] \/ (Running(f, r) /\ cont'[f][r] = "stopped")
          /\ e = f /\ r \in S => cont'[f][r] # "running"
    BY <2>1 DEF TypeOK, StopRunning, Running
  <2>4. \A r \in Ranks : guard'[f][r] = IF f = e /\ r = q THEN "ended" ELSE guard[f][r]
    BY <2>2, GuardIsSet DEF Guards
  <2>5. \A r \in Ranks :
           stopErrors'[f][r] = IF f = e /\ r = q THEN failed ELSE stopErrors[f][r]
    BY <2>1, ErrorsIsSet DEF Errors
  <2> QED BY <2>1, <2>2, <2>3, <2>4, <2>5 DEF Keeps
<1>11. ASSUME NEW e \in Runs, NEW q \in Ranks, ContainerDies(e, q)
       PROVE  UNCHANGED <<lpc, next>> /\ \A r \in Ranks : Keeps(f, r)
  <2>1. UNCHANGED <<lpc, next, guard, stopErrors>> /\ StopRunning({q}, e)
    BY <1>11 DEF ContainerDies, launchVars, guardVars, recordVars
  <2> QED BY <2>1 DEF StopRunning, Running, Keeps
<1>12. ASSUME NEW e \in Runs, NEW q \in Ranks,
              TermGuard(e, q) \/ StopContainer(e, q) \/ Rename(e, q) \/ WorkerFails(e, q)
       PROVE  UNCHANGED <<lpc, next>> /\ \A r \in Ranks : Keeps(f, r)
  <2>1. e # f /\ UNCHANGED <<lpc, next>>
    BY <1>12 DEF TermGuard, StopContainer, Rename, WorkerFails, StopOnly, launchVars
  <2>2. cont'[f] = cont[f]
    BY <1>12, <2>1 DEF TermGuard, StopContainer, Rename, WorkerFails, StopRunning
  <2>3. guard'[f] = guard[f] /\ stopErrors'[f] = stopErrors[f]
    BY <1>12, <2>1 DEF TermGuard, StopContainer, Rename, WorkerFails, StopOnly, recordVars
  <2> QED BY <2>1, <2>2, <2>3 DEF Keeps
<1>13. CASE UNCHANGED vars
  BY <1>13, <1>3, <1>4 DEF vars
<1>14. ASSUME NEW e \in Runs, Acting(e)
       PROVE  \/ lpc'[f] = "failed"
              \/ lpc[f] = "run" /\ lpc'[f] = "save" /\ next'[f] = next[f]
              \/ StartGuard(f)
              \/ /\ \A r \in Ranks : Keeps(f, r)
                 /\ \A r \in Ranks : Started(f, r)' => Started(f, r)
  <2>1. CASE RunContainer(e) \/ RunFails(e) \/ StartGuard(e)
    <3>1. CASE e = f
      BY <2>1, <3>1 DEF RunContainer, RunFails, Goto, LaunchEnds
    <3> QED BY <2>1, <3>1, <1>5
  <2>2. CASE Load(e) \/ SendRow(e) \/ RowCompletes(e)
    BY <2>2, <1>3, <1>4, <1>7
  <2>3. ASSUME NEW q \in Ranks,
          \/ GuardPublishes(e, q) \/ GuardAborts(e, q) \/ GuardLeaves(e, q) \/ GuardKilled(e, q)
          \/ ContainerDies(e, q) \/ TermGuard(e, q) \/ StopContainer(e, q) \/ Rename(e, q)
          \/ WorkerFails(e, q)
        PROVE UNCHANGED <<lpc, next>> /\ \A r \in Ranks : Keeps(f, r)
    BY <2>3, <1>8, <1>9, <1>10, <1>11, <1>12
  <2> QED BY <1>14, <2>1, <2>2, <2>3, <1>3 DEF Acting
<1> QED BY <1>1, <1>2, <1>3, <1>4, <1>13, <1>14, NextCases

LEMMA StartedStaysGuarded ==
    ASSUME TypeOK, StartedIsGuarded, [Next]_vars
    PROVE  StartedIsGuarded'
<1> USE RankFacts DEF TypeOK
<1> SUFFICES ASSUME NEW f \in Runs, spc'[f] = "none", NEW r \in Ranks
             PROVE  /\ Started(f, r)' => Holds(f, r)' /\ Guarded(f, r)'
                    /\ guard'[f][r] # "leaving"
  BY DEF StartedIsGuarded
<1>1. spc[f] = "none"
  BY StopStaysBegun
<1>2. /\ Started(f, r) => Holds(f, r) /\ Guarded(f, r)
      /\ guard[f][r] # "leaving"
  BY <1>1 DEF StartedIsGuarded
<1>3. guard'[f][r] # "leaving"
  BY <1>1, <1>2, OnlyStopsSignal
<1>4. ASSUME Started(f, r)' PROVE Holds(f, r)' /\ Guarded(f, r)'
  <2>1. CASE StartGuard(f)
    <3>1. DEFINE q == next[f] - 1
    <3>2. /\ lpc[f] = "guard" /\ Running(f, q) /\ cont' = cont /\ stopErrors' = stopErrors
          /\ SetsGuard(f, q, "starting")
          /\ next'[f] = (IF next[f] = N THEN 1 ELSE next[f] + 1)
          /\ lpc'[f] = (IF next[f] = N THEN "await" ELSE "guard")
      BY <2>1 DEF StartGuard, Goto, recordVars, SetsGuard
    <3>3. CASE r = q
      <4>1. guard'[f][r] = "starting"
        BY <3>2, <3>3, GuardIsSet DEF Guards, Alive
      <4> QED BY <3>2, <3>3, <4>1 DEF Holds, Guarded, Running, Alive
    <3>4. CASE r # q
      <4>1. r < next[f] - 1
        <5>1. next[f] \in 1 .. N /\ r \in 0 .. N-1 /\ r # next[f] - 1
          BY <3>4 DEF Ranks
        <5>2. \A k \in 1 .. N, j \in 0 .. N-1 :
                 j # k - 1 /\ (k = N \/ j < (k + 1) - 1) => j < k - 1
          BY NAssumption
        <5>3. next[f] = N \/ r < (next[f] + 1) - 1
          BY <1>4, <3>2 DEF Started
        <5> QED BY <5>1, <5>2, <5>3 DEF Ranks
      <4>2. Holds(f, r) /\ Guarded(f, r)
        BY <3>2, <4>1, <1>2 DEF Started
      <4>3. guard'[f][r] = guard[f][r]
        BY <3>2, <3>4, GuardIsSet DEF Guards, Alive
      <4> QED BY <3>2, <4>2, <4>3 DEF Holds, Guarded, Running
    <3> QED BY <3>3, <3>4
  <2>2. CASE Keeps(f, r) /\ Started(f, r)
    BY <2>2, <1>2 DEF Keeps, Holds, Guarded, Running, Alive
  <2>3. CASE lpc'[f] \in {"failed", "save"}
    BY <1>4, <2>3 DEF Started
  <2> QED BY <1>1, <1>4, <2>1, <2>2, <2>3, UnstoppedSteps
<1> QED BY <1>3, <1>4

LEMMA StartedInvariant == Spec => [](TypeOK /\ StartedIsGuarded)
<1>1. Init => StartedIsGuarded
  BY DEF Init, Each, StartedIsGuarded, Started
<1> QED BY <1>1, StartedStaysGuarded, TypeCorrect, PTL DEF Spec

(* From the wait for the guards' first rows on, a container of a run that  *)
(* nobody is stopping runs under a guard, unless the guard was killed or   *)
(* has recorded that it could not stop it.                                 *)
THEOREM ContainersAreGuarded == Spec => []GuardedUntilStopped
<1>1. StartedIsGuarded => GuardedUntilStopped
  BY DEF StartedIsGuarded, GuardedUntilStopped, Started, Guarded
<1> QED BY <1>1, StartedInvariant, PTL

LEMMA OnlyAskingIsReady ==
    ASSUME TypeOK, [Next]_vars, NEW f \in Runs, lpc[f] # "ready", lpc'[f] = "ready"
    PROVE  AskServer(f)
<1> USE DEF TypeOK, Goto, LaunchEnds, launchVars
<1>1. ASSUME NEW e \in Runs, Launching(e) PROVE AskServer(f)
  BY <1>1 DEF Launching, PreflightRank, InspectRank, Begin, PreflightRefuses, NameTaken, Record,
     StartGuardRefused, GuardsReady, RankStopped, AskServer, DeadlinePasses, LaunchFails
<1>2. ASSUME NEW e \in Runs, Stopping(e) PROVE lpc'[f] = lpc[f]
  BY <1>2, StoppingKeepsRest DEF StopOnly
<1>3. ASSUME NEW e \in Runs, Acting(e) PROVE lpc'[f] # "ready"
  BY <1>3 DEF Acting, RunContainer, RunFails, StartGuard, Load, SendRow, RowCompletes,
     GuardPublishes, GuardAborts, GuardLeaves, GuardKilled, ContainerDies, TermGuard,
     StopContainer, Rename, WorkerFails, StopOnly
<1> QED BY <1>1, <1>2, <1>3, NextCases DEF vars

(* Rank 0 is the last that the launcher starts, and past it the container  *)
(* of rank 0 has been started, whatever became of it since.                *)
PastZero(e) ==
    \/ lpc[e] = "save" /\ next[e] = N
    \/ lpc[e] \in {"guard", "await", "load", "ready"}

ZeroIsRun == \A e \in Runs : PastZero(e) => cont[e][0] # "none"

LEMMA PastZeroBefore ==
    ASSUME TypeOK, [Next]_vars, NEW f \in Runs, PastZero(f)'
    PROVE  PastZero(f) \/ cont' = [cont EXCEPT ![f][0] = "running"]
<1> USE DEF TypeOK, Goto, LaunchEnds, PastZero
<1>1. ASSUME UNCHANGED <<lpc, next>> PROVE PastZero(f)
  BY <1>1
<1>2. ASSUME NEW e \in Runs, e # f, Launching(e) PROVE PastZero(f)
  <2>1. lpc'[f] = lpc[f] /\ next'[f] = next[f]
    BY <1>2 DEF Launching, PreflightRank, InspectRank, Begin, PreflightRefuses, NameTaken,
       Record, StartGuardRefused, GuardsReady, RankStopped, AskServer, DeadlinePasses, LaunchFails
  <2> QED BY <2>1
<1>3. ASSUME Launching(f) PROVE PastZero(f)
  <2>1. CASE Record(f)
    BY <2>1 DEF Record
  <2>2. CASE ~Record(f)
    <3>1. \/ lpc'[f] \in {"preflight", "run", "failed"}
          \/ lpc[f] \in {"await", "load"}
      BY <1>3, <2>2 DEF Launching, PreflightRank, InspectRank, Begin, PreflightRefuses, NameTaken,
         StartGuardRefused, GuardsReady, RankStopped, AskServer, DeadlinePasses, LaunchFails
    <3> QED BY <3>1
  <2> QED BY <2>1, <2>2
<1>4. ASSUME NEW e \in Runs, e # f, RunContainer(e) \/ RunFails(e) \/ StartGuard(e)
      PROVE  PastZero(f)
  <2>1. lpc'[f] = lpc[f] /\ next'[f] = next[f]
    BY <1>4 DEF RunContainer, RunFails, StartGuard
  <2> QED BY <2>1
<1>5. CASE RunContainer(f)
  <2>1. lpc'[f] = "save" /\ next'[f] = next[f]
    BY <1>5 DEF RunContainer
  <2>2. Order(next[f]) = 0
    BY <2>1 DEF Order
  <2> QED BY <1>5, <2>2 DEF RunContainer
<1>6. CASE RunFails(f) \/ StartGuard(f)
  BY <1>6 DEF RunFails, StartGuard
<1>7. ASSUME NEW e \in Runs, Stopping(e) PROVE UNCHANGED <<lpc, next>>
  BY <1>7, StoppingKeepsRest DEF StopOnly, launchVars
<1>8. ASSUME NEW e \in Runs, Acting(e), ~(RunContainer(e) \/ RunFails(e) \/ StartGuard(e))
      PROVE  UNCHANGED <<lpc, next>>
  BY <1>8 DEF Acting, Load, SendRow, RowCompletes, GuardPublishes, GuardAborts, GuardLeaves,
     GuardKilled, ContainerDies, TermGuard, StopContainer, Rename, WorkerFails, StopOnly, launchVars
<1>9. ASSUME UNCHANGED vars PROVE UNCHANGED <<lpc, next>>
  BY <1>9 DEF vars
<1> QED BY <1>1, <1>2, <1>3, <1>4, <1>5, <1>6, <1>7, <1>8, <1>9, NextCases

LEMMA ZeroStaysRun == ASSUME TypeOK, ZeroIsRun, [Next]_vars PROVE ZeroIsRun'
<1> SUFFICES ASSUME NEW f \in Runs, PastZero(f)' PROVE cont'[f][0] # "none"
  BY DEF ZeroIsRun
<1>1. CASE cont' = [cont EXCEPT ![f][0] = "running"]
  BY <1>1, RankFacts DEF TypeOK
<1>2. CASE cont[f][0] # "none"
  <2>1. ASSUME NEW e \in Runs, NEW r \in Ranks, cont' = [cont EXCEPT ![e][r] = "running"]
        PROVE  cont'[f][0] # "none"
    BY <1>2, <2>1, RankFacts DEF TypeOK
  <2> QED BY <1>2, <2>1, NameSteps, RankFacts DEF Dwindles
<1> QED BY <1>1, <1>2, PastZeroBefore DEF ZeroIsRun

LEMMA ZeroInvariant == Spec => [](TypeOK /\ ZeroIsRun)
<1>1. Init => ZeroIsRun
  BY DEF Init, ZeroIsRun, PastZero
<1> QED BY <1>1, ZeroStaysRun, TypeCorrect, PTL DEF Spec

(* Though it asks whichever server answers on the port, a launch is made   *)
(* READY by its own: its container of rank 0 has been started and still    *)
(* holds the name there, so no other server can, unless a stop of the same *)
(* run, which its launcher does not know of, has renamed that container.   *)
THEOREM ReadyLaunchesServe == Spec => ReadyIsOwnServer
<1>1. TypeOK /\ ZeroIsRun /\ NameIsUnique /\ [Next]_vars
      => [\A e \in Runs :
            lpc[e] # "ready" /\ lpc'[e] = "ready" => Answers(e) \/ cont[e][0] = "archived"]_vars
  <2> SUFFICES ASSUME TypeOK, ZeroIsRun, NameIsUnique, [Next]_vars,
                      NEW e \in Runs, lpc[e] # "ready", lpc'[e] = "ready",
                      cont[e][0] # "archived"
               PROVE  Answers(e)
    OBVIOUS
  <2>1. AskServer(e)
    BY OnlyAskingIsReady
  <2>2. PICK f \in Runs : Answers(f)
    BY <2>1 DEF AskServer, Goto, TypeOK
  <2>3. cont[e][0] # "none"
    BY <2>1 DEF AskServer, ZeroIsRun, PastZero
  <2>4. Holds(e, 0)
    BY <2>3, RankFacts DEF TypeOK, Holds
  <2>5. Holds(f, 0)
    BY <2>2 DEF Answers, Running, Holds
  <2> QED BY <2>2, <2>4, <2>5, RankFacts DEF NameIsUnique
<1> QED BY <1>1, ZeroInvariant, UniqueNames, PTL DEF Spec, ReadyIsOwnServer

(* The state stays well-formed, no node runs two models, and no run's      *)
(* container is left without a guard before it is stopped.                 *)
THEOREM LaunchesAreSound == Spec => []LaunchInv
<1>1. TypeOK /\ OneModelPerNode /\ GuardedUntilStopped <=> LaunchInv
  BY DEF LaunchInv
<1> QED BY <1>1, TypeCorrect, NodesRunOneModel, ContainersAreGuarded, PTL

-----------------------------------------------------------------------------
(* What EpochGuards sees of run e.                                         *)
Ups(e) == [r \in Ranks |-> Running(e, r)]
Views(e) == [r \in Ranks |-> IF guard[e][r] \in Alive THEN "on" ELSE guard[e][r]]
Begun(e) == spc[e] # "none"

EpochStep(e) == [Epoch(e)!Next]_(Epoch(e)!vars)

LEMMA EpochRanks ==
    ASSUME NEW e \in Runs
    PROVE  Epoch(e)!Ranks = Ranks /\ \A r \in Ranks : Epoch(e)!Peer(r) = Peer(r)
  BY DEF Epoch!Ranks, Ranks, Epoch!Peer, Peer

LEMMA StutterIsAbstract ==
    ASSUME NEW e \in Runs, UNCHANGED <<Ups(e), Views(e), stopErrors[e], Begun(e)>>
    PROVE  EpochStep(e)
  BY DEF EpochStep, Epoch!vars, Ups, Views, Begun

(* One container stops, dies or loses its name, and nothing else is seen.  *)
LEMMA StopIsAbstract ==
    ASSUME TypeOK, NEW e \in Runs, NEW t \in Ranks,
           \A r \in Ranks : r # t => cont'[e][r] = cont[e][r],
           cont'[e][t] # "running",
           UNCHANGED <<guard, stopErrors, spc>>
    PROVE  EpochStep(e)
<1>1. UNCHANGED <<Views(e), stopErrors[e], Begun(e)>>
  BY DEF Views, Begun
<1>2. CASE ~Running(e, t)
  <2>1. \A r \in Ranks : Running(e, r)' = Running(e, r)
    BY <1>2 DEF Running
  <2>2. UNCHANGED Ups(e)
    BY <2>1 DEF Ups
  <2> QED BY <1>1, <2>2, StutterIsAbstract
<1>3. CASE Running(e, t)
  <2>1. Ups(e)[t] /\ Ups(e)' = [Ups(e) EXCEPT ![t] = FALSE]
    <3>1. \A r \in Ranks : Running(e, r)' = IF r = t THEN FALSE ELSE Running(e, r)
      BY DEF Running
    <3> QED BY <1>3, <3>1 DEF Ups
  <2>2. Epoch(e)!Stops(t)
    BY <1>1, <2>1 DEF Epoch!Stops, Ups, Views, Begun
  <2> QED BY <2>2, EpochRanks DEF EpochStep, Epoch!Next
<1> QED BY <1>2, <1>3

(* The step of one run is not seen by another.                             *)
LEMMA OthersStutter ==
    ASSUME TypeOK, NEW e \in Runs, NEW f \in Runs, e # f,
           Launching(e) \/ Stopping(e) \/ Acting(e)
    PROVE  EpochStep(f)
<1> USE DEF TypeOK
<1>1. ASSUME cont'[f] = cont[f], guard'[f] = guard[f], stopErrors'[f] = stopErrors[f],
             spc'[f] = spc[f]
      PROVE  EpochStep(f)
  <2>1. UNCHANGED <<Ups(f), Views(f), Begun(f)>>
    <3>1. \A r \in Ranks : Running(f, r)' = Running(f, r)
      BY <1>1 DEF Running
    <3> QED BY <1>1, <3>1 DEF Ups, Views, Begun
  <2> QED BY <1>1, <2>1, StutterIsAbstract
<1>2. CASE Launching(e)
  BY <1>1, <1>2, LaunchingKeepsRest DEF LaunchOnly, guardVars, recordVars, stopVars
<1>3. CASE Stopping(e)
  <2>1. spc'[f] = spc[f]
    BY <1>3 DEF Stopping, SeesIdle, StopRefused, TermDone, Markers, TeardownDone, StopFails,
       StopBegins, StopGoto, StopEnds
  <2> QED BY <1>1, <1>3, <2>1, StoppingKeepsRest DEF StopOnly, recordVars
<1>4. CASE Acting(e)
  <2>1. CASE RunContainer(e) \/ RunFails(e) \/ StartGuard(e)
    <3>1. cont'[f] = cont[f] /\ guard'[f] = guard[f] /\ UNCHANGED <<stopErrors, spc>>
      BY <2>1 DEF RunContainer, RunFails, StartGuard, guardVars, recordVars, stopVars
    <3> QED BY <1>1, <3>1
  <2>2. CASE Load(e) \/ SendRow(e) \/ RowCompletes(e)
    <3>1. UNCHANGED <<cont, guard, stopErrors, spc>>
      BY <2>2 DEF Load, SendRow, RowCompletes, guardVars, recordVars, stopVars
    <3> QED BY <1>1, <3>1
  <2>3. ASSUME NEW r \in Ranks, GuardPublishes(e, r) \/ GuardLeaves(e, r) \/ GuardKilled(e, r) \/ TermGuard(e, r)
        PROVE  EpochStep(f)
    <3>1. cont'[f] = cont[f] /\ guard'[f] = guard[f] /\ stopErrors'[f] = stopErrors[f] /\ spc'[f] = spc[f]
      BY <2>3 DEF GuardPublishes, GuardLeaves, GuardKilled, TermGuard, guardVars, recordVars, stopVars, StopOnly
    <3> QED BY <1>1, <3>1
  <2>4. ASSUME NEW r \in Ranks, GuardAborts(e, r) PROVE EpochStep(f)
    <3>1. cont'[f] = cont[f] /\ guard'[f] = guard[f] /\ stopErrors'[f] = stopErrors[f] /\ spc'[f] = spc[f]
      BY <2>4 DEF GuardAborts, StopRunning, guardVars, recordVars, stopVars
    <3> QED BY <1>1, <3>1
  <2>5. ASSUME NEW r \in Ranks, ContainerDies(e, r) \/ StopContainer(e, r) \/ Rename(e, r) \/ WorkerFails(e, r)
        PROVE  EpochStep(f)
    <3>1. cont'[f] = cont[f] /\ UNCHANGED <<guard, stopErrors>> /\ spc'[f] = spc[f]
      BY <2>5 DEF ContainerDies, StopContainer, Rename, WorkerFails, StopRunning, guardVars, recordVars,
         stopVars, StopOnly
    <3> QED BY <1>1, <3>1
  <2> QED BY <1>4, <2>1, <2>2, <2>3, <2>4, <2>5 DEF Acting
<1> QED BY <1>2, <1>3, <1>4

(* What becomes of one guard, seen from its epoch.                         *)
LEMMA ViewChanges ==
    ASSUME TypeOK, NEW e \in Runs, NEW r \in Ranks, NEW v \in Guards, SetsGuard(e, r, v)
    PROVE  /\ Views(e)[r] = IF guard[e][r] \in Alive THEN "on" ELSE guard[e][r]
           /\ Views(e)' = [Views(e) EXCEPT ![r] = IF v \in Alive THEN "on" ELSE v]
<1>1. \A q \in Ranks : guard'[e][q] = IF q = r THEN v ELSE guard[e][q]
  BY GuardIsSet
<1> QED BY <1>1 DEF Views

(* The launcher's steps are the start of a container, then of its guard.   *)
LEMMA LauncherIsAbstract ==
    ASSUME TypeOK, GuardsComeLater, NEW e \in Runs,
           Launching(e) \/ RunContainer(e) \/ RunFails(e) \/ StartGuard(e)
    PROVE  EpochStep(e)
<1>1. CASE Launching(e)
  <2>1. UNCHANGED <<cont, guard, stopErrors, spc>>
    BY <1>1, LaunchingKeepsRest DEF LaunchOnly, guardVars, recordVars, stopVars
  <2> QED BY <2>1, StutterIsAbstract DEF Ups, Views, Begun, Running
<1>2. CASE RunContainer(e) \/ RunFails(e)
  <2> DEFINE r == Order(next[e])
  <2>1. r \in Ranks /\ lpc[e] = "run" /\ UNCHANGED <<guard, stopErrors, spc>>
    BY <1>2, RankFacts DEF TypeOK, RunContainer, RunFails, guardVars, recordVars, stopVars
  <2>2. cont' = cont \/ (NameFree(r) /\ SetsCont(e, r, "running"))
    BY <1>2 DEF RunContainer, RunFails, SetsCont
  <2>3. UNCHANGED <<Views(e), stopErrors[e], Begun(e)>>
    BY <2>1 DEF Views, Begun
  <2>4. CASE cont' = cont
    BY <2>3, <2>4, StutterIsAbstract DEF Ups, Running
  <2>5. CASE NameFree(r) /\ SetsCont(e, r, "running")
    <3>1. ~Running(e, r)
      BY <2>5 DEF NameFree, Running
    <3>2. guard[e][r] = "none"
      BY <2>1 DEF GuardsComeLater, Unguarded
    <3>3. ~Ups(e)[r] /\ Views(e)[r] = "none"
      BY <2>1, <3>1, <3>2 DEF Ups, Views, Alive
    <3>4. Ups(e)' = [Ups(e) EXCEPT ![r] = TRUE]
      <4>1. \A q \in Ranks : cont'[e][q] = IF q = r THEN "running" ELSE cont[e][q]
        BY <2>1, <2>5, ContIsSet DEF Conts
      <4>2. \A q \in Ranks : Running(e, q)' = IF q = r THEN TRUE ELSE Running(e, q)
        BY <4>1 DEF Running
      <4> QED BY <2>1, <4>2 DEF Ups
    <3>5. Epoch(e)!Run(r)
      BY <2>3, <3>3, <3>4 DEF Epoch!Run, Ups, Views, Begun
    <3> QED BY <2>1, <3>5, EpochRanks DEF EpochStep, Epoch!Next
  <2> QED BY <2>2, <2>4, <2>5
<1>3. CASE StartGuard(e)
  <2>0. PICK r \in Ranks : r = next[e] - 1
    BY RankFacts DEF TypeOK
  <2>1. /\ lpc[e] = "guard" /\ Running(e, r)
        /\ SetsGuard(e, r, "starting")
        /\ UNCHANGED <<cont, stopErrors, spc>>
    BY <1>3, <2>0 DEF StartGuard, SetsGuard, recordVars, stopVars
  <2>2. guard[e][r] = "none"
    <3>1. Unguarded(e, r)
      BY <2>0, <2>1 DEF TypeOK, Unguarded, Ranks
    <3> QED BY <2>1, <3>1 DEF GuardsComeLater
  <2>3. Views(e)[r] = "none" /\ Views(e)' = [Views(e) EXCEPT ![r] = "on"]
    BY <2>1, <2>2, ViewChanges DEF Guards, Alive
  <2>4. Ups(e)[r] /\ UNCHANGED <<Ups(e), stopErrors[e], Begun(e)>>
    BY <2>1 DEF Ups, Running, Begun
  <2>5. Epoch(e)!Watch(r)
    BY <2>3, <2>4 DEF Epoch!Watch, Ups, Views, Begun
  <2> QED BY <2>5, EpochRanks DEF EpochStep, Epoch!Next
<1> QED BY <1>1, <1>2, <1>3

(* A set of containers stops.                                              *)
LEMMA StopsSeen ==
    ASSUME NEW e \in Runs, NEW S \in SUBSET Ranks, TypeOK, StopRunning(S, e)
    PROVE  /\ \A r \in Ranks : cont'[e][r] = IF r \in S /\ Running(e, r) THEN "stopped" ELSE cont[e][r]
           /\ Ups(e)' = [r \in Ranks |-> IF r \in S THEN FALSE ELSE Ups(e)[r]]
<1>1. \A r \in Ranks : cont'[e][r] = IF r \in S /\ Running(e, r) THEN "stopped" ELSE cont[e][r]
  BY DEF TypeOK, StopRunning
<1>2. \A r \in Ranks : Running(e, r)' = IF r \in S THEN FALSE ELSE Running(e, r)
  BY <1>1 DEF Running
<1>3. \A r \in Ranks : Ups(e)[r] = Running(e, r)
  BY DEF Ups
<1>4. Ups(e)' = [r \in Ranks |-> Running(e, r)']
  BY DEF Ups
<1> QED BY <1>1, <1>2, <1>3, <1>4

LEMMA AbortIsAbstract ==
    ASSUME TypeOK, NEW e \in Runs, NEW r \in Ranks, GuardAborts(e, r)
    PROVE  EpochStep(e)
<1>1. PICK failed \in SUBSET {"local", "peer"}, S \in SUBSET Ranks :
         /\ S \subseteq {r, Peer(r)}
         /\ r \in S \/ "local" \in failed
         /\ Peer(r) \in S \/ "peer" \in failed
         /\ StopRunning(S, e)
         /\ SetsErrors(e, r, failed)
  BY AbortStops
<1>2. /\ guard[e][r] \in Alive /\ SetsGuard(e, r, "ended") /\ UNCHANGED spc
  BY AbortStops DEF stopVars
<1>3. Views(e)[r] = "on" /\ Views(e)' = [Views(e) EXCEPT ![r] = "ended"]
  BY <1>2, ViewChanges DEF Guards, Alive
<1>4. Ups(e)' = [q \in Ranks |-> IF q \in S THEN FALSE ELSE Ups(e)[q]]
  BY <1>1, StopsSeen
<1>5. stopErrors'[e] = [stopErrors[e] EXCEPT ![r] = failed]
  BY <1>1 DEF TypeOK, SetsErrors
<1>6. \E T \in SUBSET {r, Epoch(e)!Peer(r)}, names \in SUBSET {"local", "peer"} :
         /\ Ups(e)' = [q \in Epoch(e)!Ranks |-> IF q \in T THEN FALSE ELSE Ups(e)[q]]
         /\ stopErrors'[e] = [stopErrors[e] EXCEPT ![r] = names]
         /\ Ups(e)'[r] => "local" \in names
         /\ Ups(e)'[Epoch(e)!Peer(r)] => "peer" \in names
  BY <1>1, <1>4, <1>5, EpochRanks, RankFacts
<1>7. Begun(e)' = Begun(e)
  BY <1>2 DEF Begun
<1>8. Epoch(e)!Abort(r)
  BY <1>3, <1>6, <1>7 DEF Epoch!Abort, Ups, Views, Begun
<1> QED BY <1>8, EpochRanks DEF EpochStep, Epoch!Next

(* A guard leaves because it was told to.                                  *)
LEMMA LeaveIsAbstract ==
    ASSUME TypeOK, StartedIsGuarded, NEW e \in Runs, NEW r \in Ranks, GuardLeaves(e, r)
    PROVE  EpochStep(e)
<1>1. /\ guard[e][r] = "leaving" /\ SetsGuard(e, r, "ended")
      /\ UNCHANGED <<cont, stopErrors, spc>>
  BY DEF GuardLeaves, SetsGuard, stopVars
<1>2. Begun(e) /\ Begun(e)'
  BY <1>1 DEF StartedIsGuarded, Begun
<1>3. Views(e)[r] = "on" /\ Views(e)' = [Views(e) EXCEPT ![r] = "ended"]
  BY <1>1, ViewChanges DEF Guards, Alive
<1>4. UNCHANGED <<Ups(e), stopErrors[e]>>
  BY <1>1 DEF Ups, Running
<1>5. Epoch(e)!Leave(r)
  BY <1>2, <1>3, <1>4 DEF Epoch!Leave, Ups, Views, Begun
<1> QED BY <1>5, EpochRanks DEF EpochStep, Epoch!Next

(* A guard goes on, or dies.                                               *)
LEMMA GuardIsAbstract ==
    ASSUME TypeOK, NEW e \in Runs, NEW r \in Ranks,
           GuardPublishes(e, r) \/ GuardKilled(e, r) \/ TermGuard(e, r)
    PROVE  EpochStep(e)
<1>1. UNCHANGED <<cont, stopErrors, spc>>
  BY DEF GuardPublishes, GuardKilled, TermGuard, StopOnly, recordVars, stopVars
<1>2. UNCHANGED <<Ups(e), stopErrors[e], Begun(e)>>
  BY <1>1 DEF Ups, Running, Begun
<1>3. \/ guard' = guard
      \/ guard[e][r] \in Alive /\ \E v \in {"on", "leaving", "killed"} : SetsGuard(e, r, v)
  BY DEF GuardPublishes, GuardKilled, TermGuard, SetsGuard, Alive
<1>4. CASE guard' = guard
  BY <1>2, <1>4, StutterIsAbstract DEF Views
<1>5. ASSUME guard[e][r] \in Alive, NEW v \in {"on", "leaving"}, SetsGuard(e, r, v)
      PROVE  EpochStep(e)
  <2>1. Views(e)[r] = "on" /\ Views(e)' = [Views(e) EXCEPT ![r] = "on"]
    BY <1>5, ViewChanges DEF Guards, Alive
  <2>2. UNCHANGED Views(e)
    BY <2>1 DEF Views
  <2> QED BY <1>2, <2>2, StutterIsAbstract
<1>6. ASSUME guard[e][r] \in Alive, SetsGuard(e, r, "killed") PROVE EpochStep(e)
  <2>1. Views(e)[r] = "on" /\ Views(e)' = [Views(e) EXCEPT ![r] = "killed"]
    BY <1>6, ViewChanges DEF Guards, Alive
  <2>2. Epoch(e)!Kill(r)
    BY <1>2, <2>1 DEF Epoch!Kill, Ups, Views, Begun
  <2> QED BY <2>2, EpochRanks DEF EpochStep, Epoch!Next
<1> QED BY <1>3, <1>4, <1>5, <1>6

(* A container dies, or the operator takes it down.                        *)
LEMMA ContainerIsAbstract ==
    ASSUME TypeOK, NEW e \in Runs, NEW r \in Ranks,
           ContainerDies(e, r) \/ StopContainer(e, r) \/ Rename(e, r) \/ WorkerFails(e, r)
    PROVE  EpochStep(e)
<1>1. UNCHANGED <<guard, stopErrors, spc>>
  BY DEF ContainerDies, StopContainer, Rename, WorkerFails, StopOnly, guardVars, recordVars, stopVars
<1>2. CASE ContainerDies(e, r) \/ StopContainer(e, r)
  <2>1. StopRunning({r}, e)
    BY <1>2 DEF ContainerDies, StopContainer
  <2>2. /\ \A q \in Ranks : q # r => cont'[e][q] = cont[e][q]
        /\ cont'[e][r] # "running"
    <3>1. {r} \in SUBSET Ranks
      OBVIOUS
    <3> QED BY <2>1, <3>1, StopsSeen DEF Running
  <2> QED BY <1>1, <2>2, StopIsAbstract
<1>3. CASE Rename(e, r) \/ WorkerFails(e, r)
  <2>1. cont' = cont \/ SetsCont(e, r, "archived")
    BY <1>3 DEF Rename, WorkerFails, SetsCont
  <2>2. CASE cont' = cont
    BY <1>1, <2>2, StutterIsAbstract DEF Ups, Running, Views, Begun
  <2>3. CASE SetsCont(e, r, "archived")
    <3>1. /\ \A q \in Ranks : q # r => cont'[e][q] = cont[e][q]
          /\ cont'[e][r] # "running"
      BY <2>3, ContIsSet DEF Conts
    <3> QED BY <1>1, <3>1, StopIsAbstract
  <2> QED BY <2>1, <2>2, <2>3
<1> QED BY <1>2, <1>3

(* A stop is begun, and goes on.                                           *)
LEMMA StopperIsAbstract ==
    ASSUME TypeOK, NEW e \in Runs, Stopping(e)
    PROVE  EpochStep(e)
<1>1. UNCHANGED <<cont, guard, stopErrors>>
  BY StoppingKeepsRest DEF StopOnly, recordVars
<1>2. UNCHANGED <<Ups(e), Views(e), stopErrors[e]>>
  BY <1>1 DEF Ups, Running, Views
<1>3. Begun(e)' = TRUE
  BY DEF TypeOK, Begun, StopGoto, StopEnds, Stopping, SeesIdle, StopRefused, TermDone, Markers,
     TeardownDone, StopFails, StopBegins
<1>4. Epoch(e)!BeginStop
  BY <1>2, <1>3 DEF Epoch!BeginStop, Ups, Views, Begun
<1> QED BY <1>4 DEF EpochStep, Epoch!Next

LEMMA StepIsAbstract ==
    ASSUME TypeOK, StartedIsGuarded, GuardsComeLater, [Next]_vars, NEW f \in Runs
    PROVE  EpochStep(f)
<1>1. ASSUME NEW e \in Runs, e # f, Launching(e) \/ Stopping(e) \/ Acting(e) PROVE EpochStep(f)
  BY <1>1, OthersStutter
<1>2. CASE Load(f) \/ SendRow(f) \/ RowCompletes(f)
  <2>1. UNCHANGED <<cont, guard, stopErrors, spc>>
    BY <1>2 DEF Load, SendRow, RowCompletes, guardVars, recordVars, stopVars
  <2> QED BY <2>1, StutterIsAbstract DEF Ups, Running, Views, Begun
<1>3. CASE Acting(f)
  BY <1>2, <1>3, LauncherIsAbstract, AbortIsAbstract, LeaveIsAbstract, GuardIsAbstract,
     ContainerIsAbstract DEF Acting
<1>4. CASE Launching(f) \/ Stopping(f)
  BY <1>4, LauncherIsAbstract, StopperIsAbstract
<1>5. CASE UNCHANGED vars
  BY <1>5, StutterIsAbstract DEF vars, Ups, Running, Views, Begun
<1> QED BY <1>1, <1>3, <1>4, <1>5, NextCases

(* Whatever two launches and stops of the same nodes do to each other,     *)
(* every run by itself is an epoch under its guards: the ring of guards,   *)
(* the scripts that start and stop it, and failures of either, together    *)
(* keep the same promise.                                                  *)
THEOREM LaunchesKeepEpochs == Spec => EpochsAreGuarded
<1>1. ASSUME Init, NEW e \in Runs PROVE Epoch(e)!Init
  BY <1>1 DEF Init, Each, Running, Alive, Epoch!Init, Epoch!Ranks, Ranks
<1>2. TypeOK /\ StartedIsGuarded /\ GuardsComeLater /\ [Next]_vars
        => [\A e \in Runs : [Epoch(e)!Next]_(Epoch(e)!vars)]_vars
  BY StepIsAbstract DEF EpochStep
<1>3. Init => \A e \in Runs : Epoch(e)!Init
  BY <1>1
<1> QED BY <1>2, <1>3, StartedInvariant, GuardsLater, PTL DEF Spec, EpochsAreGuarded

=============================================================================
