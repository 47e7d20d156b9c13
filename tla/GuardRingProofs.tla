-------------------------- MODULE GuardRingProofs --------------------------
(***************************************************************************)
(* The guards' stops, for a ring of any size and any number of failures.   *)
(***************************************************************************)
EXTENDS GuardRing, TLAPS

LEMMA PeerType == \A r \in Ranks : Peer(r) \in Ranks
  BY NAssumption DEF Ranks, Peer

(* Counting a fault or a trigger respects its bound.                       *)
LEMMA CountsStayBounded ==
    ASSUME TypeOK
    PROVE  /\ Fault => faults' \in 0 .. MaxFaults
           /\ Trigger => triggers' \in 0 .. MaxTriggers
  BY BoundAssumption DEF TypeOK, Fault, Trigger

LEMMA StopsKeepType ==
    ASSUME TypeOK, NEW t \in Ranks, MaybeStopped(t)
    PROVE  up' \in [Ranks -> BOOLEAN]
  BY DEF TypeOK, MaybeStopped, Stopped

LEMMA TypeInductive == TypeOK /\ [Next]_vars => TypeOK'
<1> SUFFICES ASSUME TypeOK, [Next]_vars PROVE TypeOK'
  OBVIOUS
<1>1. ASSUME NEW r \in Ranks, Progress(r) PROVE TypeOK'
  BY <1>1, PeerType DEF TypeOK, GoTo, End, Stopped, Progress, SeesContainerStopped,
     HardStopsLocal, HardStopsPeer, ErrorStopsLocal, ErrorStopsPeer
<1>2. ASSUME NEW r \in Ranks, Disturbance(r) PROVE TypeOK'
  <2> USE CountsStayBounded DEF GoTo, End
  <2>1. CASE HardAbort(r) \/ ReadFails(r)
    BY <2>1 DEF TypeOK, HardAbort, ReadFails
  <2>2. CASE ContainerDies(r)
    <3>1. up' \in [Ranks -> BOOLEAN]
      BY <2>2, StopsKeepType DEF ContainerDies, MaybeStopped
    <3> QED BY <2>2, <3>1 DEF TypeOK, ContainerDies
  <2>3. CASE HardStopFails(r)
    <3>1. up' \in [Ranks -> BOOLEAN]
      BY <2>3, StopsKeepType, PeerType DEF HardStopFails
    <3> QED BY <2>3, <3>1 DEF TypeOK, HardStopFails
  <2>4. CASE ErrorLocalFails(r)
    <3>1. up' \in [Ranks -> BOOLEAN]
      BY <2>4, StopsKeepType DEF ErrorLocalFails
    <3> QED BY <2>4, <3>1 DEF TypeOK, ErrorLocalFails
  <2>5. CASE ErrorPeerFails(r)
    <3>1. up' \in [Ranks -> BOOLEAN]
      BY <2>5, StopsKeepType, PeerType DEF ErrorPeerFails
    <3> QED BY <2>5, <3>1 DEF TypeOK, ErrorPeerFails
  <2>6. CASE Terminated(r) \/ Killed(r)
    BY <2>6 DEF TypeOK, Terminated, Killed
  <2> QED BY <1>2, <2>1, <2>2, <2>3, <2>4, <2>5, <2>6 DEF Disturbance
<1>3. CASE UNCHANGED vars
  BY <1>3 DEF vars, TypeOK
<1> QED BY <1>1, <1>2, <1>3 DEF Next

THEOREM TypeCorrect == Spec => []TypeOK
<1>1. Init => TypeOK
  BY BoundAssumption DEF Init, TypeOK
<1> QED BY <1>1, TypeInductive, PTL DEF Spec

-----------------------------------------------------------------------------
(* No action starts a container.                                           *)
LEMMA NothingStarts ==
    ASSUME TypeOK, [Next]_vars, NEW q \in Ranks, up'[q]
    PROVE  up[q]
<1> USE PeerType DEF TypeOK, Stopped, MaybeStopped
<1>1. ASSUME NEW r \in Ranks, Progress(r) PROVE up[q]
  BY <1>1 DEF Progress, SeesContainerStopped, HardStopsLocal, HardStopsPeer, ErrorStopsLocal,
              ErrorStopsPeer
<1>2. ASSUME NEW r \in Ranks, Disturbance(r) PROVE up[q]
  BY <1>2 DEF Disturbance, HardAbort, ReadFails, ContainerDies, HardStopFails, ErrorLocalFails,
              ErrorPeerFails, Terminated, Killed
<1> QED BY <1>1, <1>2 DEF Next, vars

(* What a guard's place in its abort says of the stops behind it.          *)
RankInv(r) ==
    /\ gpc[r] = "hardPeer" => ~up[r]
    /\ gpc[r] = "errorPeer" => (~up[r] \/ "local" \in stopErrors[r])
    /\ (gpc[r] = "done") <=> (outcome[r] # "none")
    /\ outcome[r] = "hard" => ~up[r] /\ ~up[Peer(r)]
    /\ outcome[r] = "error" => (~up[r] \/ "local" \in stopErrors[r])
    /\ outcome[r] = "error" => (~up[Peer(r)] \/ "peer" \in stopErrors[r])

Same(r) == gpc'[r] = gpc[r] /\ outcome'[r] = outcome[r] /\ stopErrors'[r] = stopErrors[r]

(* A guard is disturbed by no other guard's step: those only stop more.    *)
LEMMA OthersKeep ==
    ASSUME TypeOK, [Next]_vars, NEW q \in Ranks, RankInv(q), Same(q)
    PROVE  RankInv(q)'
<1>1. (up'[q] => up[q]) /\ (up'[Peer(q)] => up[Peer(q)]) /\ Peer(q) \in Ranks
  BY NothingStarts, PeerType
<1> QED BY <1>1 DEF RankInv, Same, Peer

LEMMA StepKeeps ==
    ASSUME TypeOK, NEW r \in Ranks, RankInv(r), Progress(r) \/ Disturbance(r)
    PROVE  RankInv(r)'
<1> USE PeerType DEF TypeOK, GoTo, End, Stopped, MaybeStopped, RankInv
<1>p. Peer(r)' = Peer(r)
  BY DEF Peer
<1>1. CASE SeesContainerStopped(r) \/ HardAbort(r) \/ ReadFails(r)
  BY <1>1, <1>p DEF SeesContainerStopped, HardAbort, ReadFails
<1>2. CASE HardStopsLocal(r)
  BY <1>2, <1>p DEF HardStopsLocal
<1>3. CASE HardStopsPeer(r)
  BY <1>3, <1>p DEF HardStopsPeer
<1>4. CASE ErrorStopsLocal(r)
  BY <1>4, <1>p DEF ErrorStopsLocal
<1>5. CASE ErrorStopsPeer(r)
  BY <1>5, <1>p DEF ErrorStopsPeer
<1>6. CASE ContainerDies(r)
  BY <1>6, <1>p DEF ContainerDies
<1>7. CASE HardStopFails(r)
  BY <1>7, <1>p DEF HardStopFails
<1>8. CASE ErrorLocalFails(r)
  BY <1>8, <1>p DEF ErrorLocalFails
<1>9. CASE ErrorPeerFails(r)
  BY <1>9, <1>p DEF ErrorPeerFails
<1>10. CASE Terminated(r) \/ Killed(r)
  BY <1>10, <1>p DEF Terminated, Killed
<1> QED BY <1>1, <1>2, <1>3, <1>4, <1>5, <1>6, <1>7, <1>8, <1>9, <1>10 DEF Progress, Disturbance

(* The others' records are untouched by a step of r.                       *)
LEMMA OthersSame ==
    ASSUME TypeOK, NEW r \in Ranks, Progress(r) \/ Disturbance(r), NEW q \in Ranks, q # r
    PROVE  Same(q)
  BY DEF TypeOK, Same, GoTo, End, Progress, Disturbance, SeesContainerStopped, HardStopsLocal,
         HardStopsPeer, ErrorStopsLocal, ErrorStopsPeer, HardAbort, ReadFails, ContainerDies,
         HardStopFails, ErrorLocalFails, ErrorPeerFails, Terminated, Killed

LEMMA RanksHold == Spec => [](\A r \in Ranks : RankInv(r))
<1>1. Init => \A r \in Ranks : RankInv(r)
  BY DEF Init, RankInv
<1>2. TypeOK /\ (\A r \in Ranks : RankInv(r)) /\ [Next]_vars => (\A r \in Ranks : RankInv(r))'
  <2> SUFFICES ASSUME TypeOK, \A r \in Ranks : RankInv(r), [Next]_vars, NEW q \in Ranks
               PROVE  RankInv(q)'
    BY DEF Ranks
  <2>1. CASE Next
    <3>1. PICK r \in Ranks : Progress(r) \/ Disturbance(r)
      BY <2>1 DEF Next
    <3>2. CASE q = r
      BY <3>1, <3>2, StepKeeps
    <3>3. CASE q # r
      BY <3>1, <3>3, OthersSame, OthersKeep
    <3> QED BY <3>2, <3>3
  <2>2. CASE UNCHANGED vars
    BY <2>2, OthersKeep DEF vars, Same
  <2> QED BY <2>1, <2>2
<1> QED BY <1>1, <1>2, TypeCorrect, PTL DEF Spec

(* Exit codes 2 and 3 and the error record tell the truth about which      *)
(* containers may still run, for any number of failed stops.               *)
THEOREM AbortsTellTheTruth == Spec => []AbortsAreHonest
<1>1. (\A r \in Ranks : RankInv(r)) => AbortsAreHonest
  <2> SUFFICES ASSUME NEW r \in Ranks, RankInv(r), outcome[r] \in {"hard", "error"}
               PROVE  /\ up[r] => outcome[r] = "error" /\ "local" \in stopErrors[r]
                      /\ up[Peer(r)] => outcome[r] = "error" /\ "peer" \in stopErrors[r]
    BY DEF AbortsAreHonest
  <2> QED BY DEF RankInv
<1> QED BY <1>1, RanksHold, PTL

(* No container is left running by a guard that keeps quiet about it.      *)
THEOREM NothingRunsUnguarded == Spec => []RunningIsGuarded
<1>1. TypeOK /\ (\A r \in Ranks : RankInv(r)) => RunningIsGuarded
  <2> SUFFICES ASSUME TypeOK, NEW r \in Ranks, RankInv(r), up[r], gpc[r] = "done"
               PROVE  outcome[r] \in {"term", "killed"} \/ "local" \in stopErrors[r]
    BY DEF RunningIsGuarded
  <2>1. outcome[r] \in {"none", "hard", "error", "term", "killed"}
    BY DEF TypeOK
  <2> QED BY <2>1 DEF RankInv
<1> QED BY <1>1, RanksHold, TypeCorrect, PTL

(* The state stays well-formed, aborts are true of both containers, and no *)
(* container is left without a guard.                                      *)
THEOREM RingsAreSound == Spec => []RingInv
<1>1. TypeOK /\ AbortsAreHonest /\ RunningIsGuarded <=> RingInv
  BY DEF RingInv
<1> QED BY <1>1, TypeCorrect, AbortsTellTheTruth, NothingRunsUnguarded, PTL

-----------------------------------------------------------------------------
(* The ring keeps the promise of EpochGuards.  Its view of the guards:     *)
Ended(r) ==
    CASE outcome[r] = "none" -> "on"
      [] outcome[r] = "killed" -> "killed"
      [] OTHER -> "ended"

Named(r) == IF outcome[r] = "error" THEN stopErrors[r] ELSE {}

Guards == [r \in Ranks |-> Ended(r)]
Failed == [r \in Ranks |-> Named(r)]
Leaving == \E r \in Ranks : outcome[r] = "term"

(* A step after which every guard has ended as before, and which stops at  *)
(* most one container, is the stop of that container.                      *)
LEMMA StopIsAbstract ==
    ASSUME TypeOK, NEW t \in Ranks, MaybeStopped(t), UNCHANGED <<outcome, Failed>>
    PROVE  [Epoch!Next]_Epoch!vars
<1>1. UNCHANGED <<Guards, Leaving>>
  BY DEF Guards, Leaving, Ended
<1>2. CASE UNCHANGED up \/ ~up[t]
  <2>1. UNCHANGED up
    BY <1>2 DEF TypeOK, MaybeStopped, Stopped
  <2> QED BY <1>1, <2>1 DEF Epoch!vars, Guards, Failed, Leaving, Ended, Named
<1>3. CASE up[t] /\ up' = [up EXCEPT ![t] = FALSE]
  <2>1. Epoch!Stops(t)
    BY <1>1, <1>3 DEF Epoch!Stops, Guards, Failed, Leaving, Ended, Named
  <2> QED BY <2>1 DEF Epoch!Next, Epoch!Ranks, Ranks
<1> QED BY <1>2, <1>3 DEF MaybeStopped, Stopped

(* A guard that ends changes nothing for the others.                       *)
LEMMA EndIsAbstract ==
    ASSUME TypeOK, NEW r \in Ranks, outcome[r] = "none",
           NEW how \in {"hard", "error", "term", "killed"}, outcome' = [outcome EXCEPT ![r] = how],
           \A q \in Ranks : q # r => stopErrors'[q] = stopErrors[q]
    PROVE  /\ Guards[r] = "on"
           /\ Guards' = [Guards EXCEPT ![r] = IF how = "killed" THEN "killed" ELSE "ended"]
           /\ Failed' = [Failed EXCEPT ![r] = IF how = "error" THEN stopErrors'[r] ELSE {}]
           /\ Leaving' <=> (Leaving \/ how = "term")
<1>1. /\ outcome'[r] = how
      /\ \A q \in Ranks : q # r => outcome'[q] = outcome[q]
  BY DEF TypeOK
<1>2. Guards[r] = "on"
  BY DEF Guards, Ended
<1>3. Guards' = [Guards EXCEPT ![r] = IF how = "killed" THEN "killed" ELSE "ended"]
  BY <1>1 DEF Guards, Ended
<1>4. Failed' = [Failed EXCEPT ![r] = IF how = "error" THEN stopErrors'[r] ELSE {}]
  BY <1>1 DEF Failed, Named
<1>5. Leaving' <=> (Leaving \/ how = "term")
  BY <1>1 DEF Leaving
<1> QED BY <1>2, <1>3, <1>4, <1>5

(* A set of containers goes down.                                          *)
Downs(S) == up' = [q \in Ranks |-> IF q \in S THEN FALSE ELSE up[q]]

LEMMA StopAsSet ==
    ASSUME TypeOK, NEW t \in Ranks, MaybeStopped(t)
    PROVE  \E S \in SUBSET {t} : Downs(S)
<1>1. up = [q \in Ranks |-> up[q]]
  BY DEF TypeOK
<1>2. CASE UNCHANGED up
  <2>1. Downs({})
    BY <1>1, <1>2 DEF Downs
  <2> QED BY <2>1
<1>3. CASE Stopped(t)
  <2>1. Downs({t})
    BY <1>3 DEF TypeOK, Stopped, Downs
  <2> QED BY <2>1
<1> QED BY <1>2, <1>3 DEF MaybeStopped

(* The last stop of an abort is the abort.                                 *)
LEMMA LastStopIsAbort ==
    ASSUME TypeOK, NEW r \in Ranks, outcome[r] = "none", NEW how \in {"hard", "error"},
           outcome' = [outcome EXCEPT ![r] = how], MaybeStopped(Peer(r)),
           \A q \in Ranks : q # r => stopErrors'[q] = stopErrors[q],
           NEW named \in SUBSET {"local", "peer"},
           named = IF how = "error" THEN stopErrors'[r] ELSE {},
           up[r] => "local" \in named,
           up'[Peer(r)] => "peer" \in named
    PROVE  Epoch!Abort(r)
<1> USE PeerType
<1>1. /\ Guards[r] = "on"
      /\ Guards' = [Guards EXCEPT ![r] = "ended"]
      /\ Failed' = [Failed EXCEPT ![r] = named]
      /\ Leaving' <=> Leaving
  BY EndIsAbstract
<1>2. PICK down \in SUBSET {r, Peer(r)} : Downs(down)
  BY StopAsSet
<1>3. up'[r] => up[r]
  BY <1>2 DEF Downs
<1>4. Epoch!Ranks = Ranks /\ Epoch!Peer(r) = Peer(r)
  BY DEF Epoch!Ranks, Ranks, Epoch!Peer, Peer
<1>5. \E S \in SUBSET {r, Epoch!Peer(r)}, names \in SUBSET {"local", "peer"} :
         /\ up' = [q \in Epoch!Ranks |-> IF q \in S THEN FALSE ELSE up[q]]
         /\ Failed' = [Failed EXCEPT ![r] = names]
         /\ up'[r] => "local" \in names
         /\ up'[Epoch!Peer(r)] => "peer" \in names
  BY <1>1, <1>2, <1>3, <1>4 DEF Downs
<1> QED BY <1>1, <1>5 DEF Epoch!Abort, Guards, Failed, Leaving, Ended, Named

LEMMA RankIsAbstract ==
    ASSUME TypeOK, NEW r \in Ranks, RankInv(r), Progress(r) \/ Disturbance(r)
    PROVE  [Epoch!Next]_Epoch!vars
<1> USE PeerType
<1>1. CASE SeesContainerStopped(r) \/ HardAbort(r) \/ ReadFails(r)
  <2>1. UNCHANGED <<up, outcome, stopErrors>>
    BY <1>1 DEF SeesContainerStopped, HardAbort, ReadFails
  <2> QED BY <2>1, StopIsAbstract DEF MaybeStopped, Failed, Named
<1>2. CASE ContainerDies(r) \/ HardStopsLocal(r) \/ HardStopFails(r) \/ ErrorStopsLocal(r)
  <2>1. PICK t \in Ranks : MaybeStopped(t)
    BY <1>2 DEF ContainerDies, HardStopsLocal, HardStopFails, ErrorStopsLocal, MaybeStopped
  <2>2. UNCHANGED <<outcome, stopErrors>>
    BY <1>2 DEF ContainerDies, HardStopsLocal, HardStopFails, ErrorStopsLocal
  <2> QED BY <2>1, <2>2, StopIsAbstract DEF Failed, Named
<1>3. CASE ErrorLocalFails(r)
  <2>1. outcome[r] = "none"
    BY <1>3 DEF ErrorLocalFails, RankInv
  <2>2. MaybeStopped(r) /\ UNCHANGED outcome
    BY <1>3 DEF ErrorLocalFails
  <2>3. \A q \in Ranks : q # r => stopErrors'[q] = stopErrors[q]
    BY <1>3 DEF TypeOK, ErrorLocalFails
  <2>4. UNCHANGED Failed
    BY <2>1, <2>2, <2>3 DEF Failed, Named
  <2> QED BY <2>2, <2>4, StopIsAbstract
<1>4. CASE HardStopsPeer(r)
  <2>1. outcome[r] = "none" /\ ~up[r]
    BY <1>4 DEF HardStopsPeer, RankInv
  <2>2. /\ outcome' = [outcome EXCEPT ![r] = "hard"] /\ UNCHANGED stopErrors
        /\ MaybeStopped(Peer(r)) /\ ~up'[Peer(r)]
    BY <1>4 DEF TypeOK, HardStopsPeer, End, Stopped, MaybeStopped
  <2>3. Epoch!Abort(r)
    BY <2>1, <2>2, LastStopIsAbort
  <2> QED BY <2>3 DEF Epoch!Next, Epoch!Ranks, Ranks
<1>5. CASE ErrorStopsPeer(r) \/ ErrorPeerFails(r)
  <2>1. outcome[r] = "none" /\ (~up[r] \/ "local" \in stopErrors[r])
    BY <1>5 DEF ErrorStopsPeer, ErrorPeerFails, RankInv
  <2>2. PICK named \in SUBSET {"local", "peer"} :
          /\ stopErrors'[r] = named /\ stopErrors[r] \subseteq named
          /\ \A q \in Ranks : q # r => stopErrors'[q] = stopErrors[q]
          /\ up'[Peer(r)] => "peer" \in named
    <3>1. CASE ErrorStopsPeer(r)
      <4>1. UNCHANGED stopErrors /\ ~up'[Peer(r)]
        BY <3>1 DEF TypeOK, ErrorStopsPeer, Stopped
      <4> QED BY <4>1 DEF TypeOK
    <3>2. CASE ErrorPeerFails(r)
      <4>1. stopErrors' = [stopErrors EXCEPT ![r] = stopErrors[r] \cup {"peer"}]
        BY <3>2 DEF ErrorPeerFails
      <4> QED BY <4>1 DEF TypeOK
    <3> QED BY <1>5, <3>1, <3>2
  <2>3. outcome' = [outcome EXCEPT ![r] = "error"] /\ MaybeStopped(Peer(r))
    BY <1>5 DEF ErrorStopsPeer, ErrorPeerFails, End, MaybeStopped
  <2>4. Epoch!Abort(r)
    BY <2>1, <2>2, <2>3, LastStopIsAbort
  <2> QED BY <2>4 DEF Epoch!Next, Epoch!Ranks, Ranks
<1>6. CASE Terminated(r) \/ Killed(r)
  <2>1. outcome[r] = "none"
    BY <1>6 DEF Terminated, Killed, RankInv
  <2>2. PICK how \in {"term", "killed"} :
          /\ outcome' = [outcome EXCEPT ![r] = how]
          /\ UNCHANGED <<up, stopErrors>>
    BY <1>6 DEF Terminated, Killed, End
  <2>3. /\ Guards[r] = "on"
        /\ Guards' = [Guards EXCEPT ![r] = IF how = "killed" THEN "killed" ELSE "ended"]
        /\ Failed' = [Failed EXCEPT ![r] = {}]
        /\ Leaving' <=> (Leaving \/ how = "term")
    BY <2>1, <2>2, EndIsAbstract
  <2>4. UNCHANGED Failed
    BY <2>1, <2>3 DEF Failed, Named
  <2>5. CASE how = "term"
    <3>1. Epoch!Leave(r)
      BY <2>2, <2>3, <2>4, <2>5 DEF Epoch!Leave, Guards, Failed, Leaving, Ended, Named
    <3> QED BY <3>1 DEF Epoch!Next, Epoch!Ranks, Ranks
  <2>6. CASE how = "killed"
    <3>1. Leaving' = Leaving
      BY <2>3, <2>6 DEF Leaving
    <3>2. Epoch!Kill(r)
      BY <2>2, <2>3, <2>4, <2>6, <3>1 DEF Epoch!Kill, Guards, Failed, Leaving, Ended, Named
    <3> QED BY <3>2 DEF Epoch!Next, Epoch!Ranks, Ranks
  <2> QED BY <2>5, <2>6
<1> QED BY <1>1, <1>2, <1>3, <1>4, <1>5, <1>6 DEF Progress, Disturbance

(* The four guards together keep the promise that a launch relies on: to   *)
(* whoever looks at how they ended, an abort is one step that stops its    *)
(* own and the next container or names the stop that failed, whatever its  *)
(* two stops, their retries and the other guards did in between.           *)
THEOREM RingKeepsEpoch == Spec => EpochSpec
<1>1. Init => Epoch!Init
  BY DEF Init, Epoch!Init, Epoch!Ranks, Ranks
<1>2. TypeOK /\ (\A r \in Ranks : RankInv(r)) /\ [Next]_vars => [Epoch!Next]_Epoch!vars
  <2> SUFFICES ASSUME TypeOK, \A r \in Ranks : RankInv(r), [Next]_vars
               PROVE  [Epoch!Next]_Epoch!vars
    OBVIOUS
  <2>1. CASE Next
    BY <2>1, RankIsAbstract DEF Next
  <2>2. CASE UNCHANGED vars
    BY <2>2 DEF vars, Epoch!vars
  <2> QED BY <2>1, <2>2
<1> QED BY <1>1, <1>2, TypeCorrect, RanksHold, PTL DEF Spec, EpochSpec, Epoch!Spec

=============================================================================
