------------------------ MODULE StageReceiptsProofs ------------------------
(***************************************************************************)
(* Proofs about StageReceipts, for any number of invocations, any set of   *)
(* phases and any number of failures.                                      *)
(***************************************************************************)
EXTENDS StageReceipts, TLAPS

LEMMA PlanType ==
    \A ph \in Phases : /\ Plan[ph] \in Seq(Stages)
                       /\ Len(Plan[ph]) \in Nat \ {0}
  <1> DEFINE Primary == <<"smoke-encoding", "primary">>
             Quality == <<"text180", "bfcl">>
             Qualification ==
                <<"counting", "ladder", "ladder-reconciled", "vision", "text180", "bfcl">>
  <1>1. Primary \in Seq(Stages) /\ Len(Primary) \in Nat \ {0}
    BY DEF Stages
  <1>2. Quality \in Seq(Stages) /\ Len(Quality) \in Nat \ {0}
    BY DEF Stages
  <1>3. Qualification \in Seq(Stages) /\ Len(Qualification) \in Nat \ {0}
    BY DEF Stages
  <1>4. /\ Plan["primary"] = Primary
        /\ Plan["quality"] = Quality
        /\ Plan["qualification"] = Qualification
    BY DEF Plan
  <1> HIDE DEF Primary, Quality, Qualification
  <1>5. SUFFICES ASSUME NEW ph \in Phases
                 PROVE  Plan[ph] \in Seq(Stages) /\ Len(Plan[ph]) \in Nat \ {0}
    OBVIOUS
  <1>6. Plan[ph] \in {Primary, Quality, Qualification}
    BY <1>4, PhasesAssumption
  <1>7. CASE Plan[ph] = Primary
    BY <1>1, <1>7
  <1>8. CASE Plan[ph] = Quality
    BY <1>2, <1>8
  <1>9. CASE Plan[ph] = Qualification
    BY <1>3, <1>9
  <1> QED BY <1>6, <1>7, <1>8, <1>9

LEMMA StageType ==
    ASSUME InvocationTypes, NEW i \in Invocations, pc[i] \in InStage
    PROVE  Stage(i) \in Stages
  <1>1. at[i] \in 1 .. Len(Plan[phase[i]]) /\ phase[i] \in Phases
    BY PlanType DEF InvocationTypes
  <1> QED BY <1>1, PlanType DEF Stage

(* The ways an invocation moves keep its variables well typed.             *)
LEMMA MoveTypes ==
    ASSUME InvocationTypes, NEW i \in Invocations,
           NEW p \in {"ready", "choose", "over"} \cup InStage,
           p \in InStage => at[i] <= Len(Plan[phase[i]]),
           GoTo(i, p), UNCHANGED <<phase, at>>,
           edited' \in [Invocations -> BOOLEAN], done' \subseteq Phases
    PROVE  InvocationTypes'
  BY DEF InvocationTypes, GoTo

LEMMA NextStageTypes ==
    ASSUME InvocationTypes, NEW i \in Invocations,
           at[i] <= Len(Plan[phase[i]]),
           NextStage(i), UNCHANGED <<phase, edited, done>>
    PROVE  InvocationTypes'
  <1>1. "choose" \notin InStage
    BY DEF InStage, Inside
  <1> QED BY <1>1, PlanType DEF InvocationTypes, NextStage, GoTo

LEMMA RaiseTypes ==
    ASSUME InvocationTypes, StageTypes, NEW i \in Invocations, Raise(i)
    PROVE  InvocationTypes' /\ failed' \subseteq Stages
  <1>1. "over" \notin InStage
    BY DEF InStage, Inside
  <1>2. InvocationTypes'
    BY <1>1, MoveTypes DEF Raise, InvocationTypes
  <1>3. failed' \subseteq Stages
    BY StageType DEF Raise, StageTypes, InStage
  <1> QED BY <1>2, <1>3

LEMMA SameTypes ==
    /\ InvocationTypes /\ UNCHANGED invVars => InvocationTypes'
    /\ StageTypes /\ UNCHANGED stageVars => StageTypes'
    /\ ServerTypes /\ UNCHANGED serverVars => ServerTypes'
  BY DEF InvocationTypes, StageTypes, ServerTypes, invVars, stageVars, serverVars

(* What a step of a child, or the end of its request, can change.          *)
LEMMA ChildFrame ==
    ASSUME NEW s \in Stages, ChildStep(s) \/ RowTimesOut(s) \/ LeftEnds(s)
    PROVE  /\ UNCHANGED <<pc, phase, at, edited, done, receipt, ladder, runs, failed, alive>>
           /\ \/ child' = child
              \/ /\ child[s] \in {"run", "row"}
                 /\ \E c \in {"run", "row"} \cup Exited : child' = [child EXCEPT ![s] = c]
  BY DEF ChildStep, RowBegins, RowRefused, RequestBegins, RowEnds, RowTimesOut, LeftEnds, ChildExits,
         invVars, stageVars, serverVars, Exited

LEMMA InvocationStepTypes ==
    ASSUME TypeOK, NEW i \in Invocations,
           Start(i) \/ InvocationStep(i) \/ ReleaseFails(i) \/ Killed(i) \/ Breaks(i)
    PROVE  TypeOK'
  <1> USE DEF NoFault
  <1>t. /\ InvocationTypes /\ StageTypes /\ ServerTypes
        /\ faults \in 0 .. MaxFaults
    BY DEF TypeOK
  <1>in. {"verify", "look", "mkdir", "save", "acquire", "spawn", "wait", "record", "check", "drain"} = InStage
    BY DEF InStage, Inside
  <1>pos. pc[i] \in InStage => at[i] <= Len(Plan[phase[i]])
    BY <1>t DEF InvocationTypes
  <1>st. pc[i] \in InStage => Stage(i) \in Stages
    BY <1>t, StageType
  <1>sets. edited \in [Invocations -> BOOLEAN] /\ done \subseteq Phases /\ phase[i] \in Phases
    BY <1>t DEF InvocationTypes
  <1>flt. Fault => faults' \in 0 .. MaxFaults
    BY <1>t, BoundAssumption DEF Fault
  <1>1. CASE Start(i)
    BY <1>1, <1>t, <1>in, <1>sets, SameTypes, MoveTypes DEF Start, TypeOK
  <1>2. CASE Choose(i)
    <2>1. InvocationTypes'
      BY <1>2, <1>t, <1>in, <1>sets, MoveTypes, NextStageTypes DEF Choose
    <2> QED BY <1>2, <2>1, <1>t, SameTypes DEF Choose, TypeOK
  <1>3. CASE Finish(i)
    <2>1. InvocationTypes'
      BY <1>3, <1>t, <1>in, <1>sets, MoveTypes DEF Finish
    <2> QED BY <1>3, <2>1, <1>t, SameTypes DEF Finish, TypeOK
  <1>4. CASE LaunchVerified(i)
    <2>1. InvocationTypes'
      BY <1>4, <1>t, <1>in, <1>pos, <1>sets, MoveTypes DEF LaunchVerified
    <2> QED BY <1>4, <2>1, <1>t, SameTypes DEF LaunchVerified, TypeOK
  <1>5. CASE Reuse(i)
    <2>1. InvocationTypes'
      BY <1>5, <1>t, <1>in, <1>pos, NextStageTypes DEF Reuse
    <2> QED BY <1>5, <2>1, <1>t, SameTypes DEF Reuse, TypeOK
  <1>6. CASE NoReceipt(i)
    <2>1. InvocationTypes'
      BY <1>6, <1>t, <1>in, <1>pos, <1>sets, MoveTypes DEF NoReceipt
    <2> QED BY <1>6, <2>1, <1>t, SameTypes DEF NoReceipt, TypeOK
  <1>7. CASE ChecksHold(i)
    <2>1. InvocationTypes'
      BY <1>7, <1>t, <1>in, <1>pos, <1>sets, MoveTypes DEF ChecksHold
    <2> QED BY <1>7, <2>1, <1>t, SameTypes DEF ChecksHold, TypeOK
  <1>8. CASE Drained(i)
    <2>1. InvocationTypes'
      BY <1>8, <1>t, <1>in, <1>pos, NextStageTypes DEF Drained
    <2> QED BY <1>8, <2>1, <1>t, SameTypes DEF Drained, TypeOK
  <1>9. CASE /\ Raise(i)
             /\ UNCHANGED <<receipt, child, ladder, runs, serverVars>>
             /\ UNCHANGED faults
    BY <1>9, <1>t, RaiseTypes, SameTypes DEF TypeOK, StageTypes
  <1>10. CASE MakeDirectory(i)
    <2>1. InvocationTypes'
      BY <1>10, <1>t, <1>in, <1>pos, <1>sets, MoveTypes DEF MakeDirectory
    <2>2. StageTypes'
      BY <1>10, <1>t, <1>in, <1>st DEF MakeDirectory, SetReceipt, StageTypes
    <2> QED BY <1>10, <2>1, <2>2, <1>t, SameTypes DEF MakeDirectory, TypeOK
  <1>11. CASE SaveStarted(i)
    <2>1. InvocationTypes'
      BY <1>11, <1>t, <1>in, <1>pos, <1>sets, MoveTypes DEF SaveStarted
    <2>2. StageTypes'
      BY <1>11, <1>t, <1>in, <1>st DEF SaveStarted, SetReceipt, StageTypes
    <2> QED BY <1>11, <2>1, <2>2, <1>t, SameTypes DEF SaveStarted, TypeOK
  <1>12. CASE Record(i)
    <2>1. InvocationTypes'
      BY <1>12, <1>t, <1>in, <1>pos, <1>sets, MoveTypes DEF Record
    <2>2. StageTypes'
      BY <1>12, <1>t, <1>in, <1>st DEF Record, SetReceipt, StageTypes
    <2> QED BY <1>12, <2>1, <2>2, <1>t, SameTypes DEF Record, TypeOK
  <1>13. CASE Acquire(i)
    <2>1. InvocationTypes'
      BY <1>13, <1>t, <1>in, <1>pos, <1>sets, MoveTypes DEF Acquire
    <2>2. ServerTypes'
      BY <1>13, <1>t DEF Acquire, ServerTypes
    <2> QED BY <1>13, <2>1, <2>2, <1>t, SameTypes DEF Acquire, TypeOK
  <1>14. CASE Spawn(i)
    <2>1. InvocationTypes'
      BY <1>14, <1>t, <1>in, <1>pos, <1>sets, MoveTypes DEF Spawn
    <2>2. StageTypes'
      BY <1>14, <1>t, <1>in, <1>st DEF Spawn, StageTypes
    <2> QED BY <1>14, <2>1, <2>2, <1>t, SameTypes DEF Spawn, TypeOK
  <1>15. CASE Collect(i)
    <2>1. InvocationTypes'
      BY <1>15, <1>t, <1>in, <1>pos, <1>sets, MoveTypes DEF Collect
    <2>2. ServerTypes'
      BY <1>15, <1>t DEF Collect, Unlock, ServerTypes
    <2> QED BY <1>15, <2>1, <2>2, <1>t, SameTypes DEF Collect, TypeOK
  <1>16. CASE ReleaseFails(i)
    <2>1. ServerTypes'
      BY <1>16, <1>t DEF ReleaseFails, ServerTypes
    <2> QED BY <1>16, <2>1, <1>t, <1>flt, RaiseTypes DEF ReleaseFails, TypeOK, StageTypes
  <1>17. CASE Killed(i)
    <2>1. InvocationTypes'
      BY <1>17, <1>t, <1>in, <1>sets, MoveTypes DEF Killed
    <2>2. ServerTypes'
      BY <1>17, <1>t DEF Killed, ServerTypes
    <2> QED BY <1>17, <2>1, <2>2, <1>t, <1>flt, SameTypes DEF Killed, TypeOK
  <1>18. CASE Breaks(i)
    <2>1. InvocationTypes' /\ failed' \subseteq Stages
      BY <1>18, <1>t, RaiseTypes DEF Breaks
    <2>2. StageTypes'
      BY <1>18, <2>1, <1>t, <1>st DEF Breaks, StageTypes, Exited
    <2>3. ServerTypes'
      <3>1. left' \subseteq Stages
        BY <1>18, <1>t DEF Breaks, Asking, ServerTypes
      <3>2. lock' \in {lock, "stale", "free"} /\ alive' = alive
        BY <1>18 DEF Breaks, Unlock
      <3> QED BY <1>t, <3>1, <3>2 DEF ServerTypes
    <2> QED BY <1>18, <2>1, <2>2, <2>3, <1>flt DEF Breaks, TypeOK
  <1> QED BY <1>1, <1>2, <1>3, <1>4, <1>5, <1>6, <1>7, <1>8, <1>9, <1>10, <1>11, <1>12, <1>13,
             <1>14, <1>15, <1>16, <1>17, <1>18
          DEF InvocationStep, LaunchRefused, Refuse, DirectoryExists, AcquireFails, CheckRaises, DrainExpires

LEMMA EnvironmentTypes ==
    ASSUME TypeOK,
           \/ \E s \in Stages : ChildStep(s) \/ RowTimesOut(s) \/ LeftEnds(s)
           \/ LadderWrites \/ Edit \/ LaunchDies
    PROVE  TypeOK'
  <1> USE DEF NoFault
  <1>t. /\ InvocationTypes /\ StageTypes /\ ServerTypes
        /\ faults \in 0 .. MaxFaults
    BY DEF TypeOK
  <1>flt. Fault => faults' \in 0 .. MaxFaults
    BY <1>t, BoundAssumption DEF Fault
  <1>1. ASSUME NEW s \in Stages, ChildStep(s) \/ RowTimesOut(s) \/ LeftEnds(s)
        PROVE  TypeOK'
    <2>1. StageTypes'
      BY <1>1, <1>t, ChildFrame DEF StageTypes
    <2>2. ServerTypes'
      BY <1>1, <1>t DEF ChildStep, RowBegins, RowRefused, RequestBegins, RowEnds, RowTimesOut, LeftEnds,
                        ChildExits, EndLease, ServerTypes, serverVars
    <2>3. UNCHANGED invVars
      BY <1>1, ChildFrame DEF invVars
    <2>4. faults' \in 0 .. MaxFaults
      BY <1>1, <1>t, <1>flt
         DEF ChildStep, RowBegins, RowRefused, RequestBegins, RowEnds, RowTimesOut, LeftEnds, ChildExits
    <2> QED BY <2>1, <2>2, <2>3, <2>4, <1>t, SameTypes DEF TypeOK
  <1>2. CASE LadderWrites
    BY <1>2, <1>t, SameTypes DEF LadderWrites, TypeOK, StageTypes
  <1>3. CASE Edit
    <2>1. InvocationTypes'
      BY <1>3, <1>t DEF Edit, InvocationTypes
    <2> QED BY <1>3, <2>1, <1>t, <1>flt, SameTypes DEF Edit, TypeOK
  <1>4. CASE LaunchDies
    BY <1>4, <1>t, <1>flt, SameTypes DEF LaunchDies, TypeOK, ServerTypes
  <1> QED BY <1>1, <1>2, <1>3, <1>4

(* Types of all variables, for any number of invocations and failures.     *)
THEOREM TypeCorrect == Spec => []TypeOK
  <1>1. Init => TypeOK
    <2> SUFFICES ASSUME Init PROVE TypeOK
      OBVIOUS
    <2>1. InvocationTypes
      BY PlanType DEF Init, InvocationTypes, InStage, Inside
    <2>2. StageTypes
      BY DEF Init, StageTypes
    <2>3. ServerTypes
      BY DEF Init, ServerTypes
    <2>4. faults \in 0 .. MaxFaults
      BY BoundAssumption DEF Init
    <2> QED BY <2>1, <2>2, <2>3, <2>4 DEF TypeOK
  <1>2. TypeOK /\ [Next]_vars => TypeOK'
    <2> SUFFICES ASSUME TypeOK, [Next]_vars PROVE TypeOK'
      OBVIOUS
    <2>1. CASE Next
      BY <2>1, InvocationStepTypes, EnvironmentTypes DEF Next
    <2>2. CASE UNCHANGED vars
      BY <2>2, SameTypes DEF vars, TypeOK
    <2> QED BY <2>1, <2>2
  <1> QED BY <1>1, <1>2, PTL DEF Spec

-----------------------------------------------------------------------------
(* An invocation writes only to the stage it owns or is the first to enter, *)
(* so its steps leave the other owners as they are.                         *)
Owns(i) == pc[i] \in Inside \/ (pc[i] = "mkdir" /\ receipt[Stage(i)] = "none")

TouchesOwn(i) ==
    \A s \in Stages : (s = Stage(i) /\ Owns(i)) \/
        (receipt'[s] = receipt[s] /\ child'[s] = child[s] /\ runs'[s] = runs[s])

LEMMA OwnerStep ==
    ASSUME TypeOK, Ownership, NEW i \in Invocations,
           UNCHANGED phase,
           \A j \in Invocations : j # i => pc'[j] = pc[j] /\ at'[j] = at[j],
           pc'[i] \in Inside => at'[i] = at[i] /\ Owns(i),
           TouchesOwn(i),
           OwnerPosition(i)',
           \A s \in Stages : Owns(i) /\ s = Stage(i) => StageHistory(s)'
    PROVE  Ownership'
  <1>1. \A j \in Invocations : pc[j] \in Inside => Stage(j) \in Stages /\ receipt[Stage(j)] # "none"
    <2> SUFFICES ASSUME NEW j \in Invocations, pc[j] \in Inside
                 PROVE  Stage(j) \in Stages /\ receipt[Stage(j)] # "none"
      OBVIOUS
    <2>1. Stage(j) \in Stages
      BY StageType DEF TypeOK, InStage
    <2>2. OwnerPosition(j)
      BY DEF Ownership
    <2> QED BY <2>1, <2>2 DEF OwnerPosition, Inside
  <1>2. ASSUME NEW j \in Invocations, j # i
        PROVE  Stage(j)' = Stage(j) /\ pc'[j] = pc[j]
    BY <1>2 DEF Stage
  <1>3. ASSUME NEW j \in Invocations, j # i, pc[j] \in Inside, Owns(i)
        PROVE  Stage(j) # Stage(i)
    <2>1. CASE pc[i] \in Inside
      BY <1>3, <2>1 DEF Ownership, OwnersDiffer
    <2>2. CASE receipt[Stage(i)] = "none"
      BY <1>1, <1>3, <2>2
    <2> QED BY <2>1, <2>2, <1>3 DEF Owns
  <1>4. OwnersDiffer'
    <2>1. pc'[i] \in Inside => Stage(i)' = Stage(i) /\ Owns(i)
      BY DEF Stage
    <2>2. ASSUME NEW j \in Invocations, j # i, pc'[i] \in Inside, pc'[j] \in Inside
          PROVE  Stage(i)' # Stage(j)'
      BY <1>2, <1>3, <2>1, <2>2
    <2>3. ASSUME NEW j \in Invocations, NEW k \in Invocations, j # i, k # i, j # k,
                 pc'[j] \in Inside, pc'[k] \in Inside
          PROVE  Stage(j)' # Stage(k)'
      BY <1>2, <2>3 DEF Ownership, OwnersDiffer
    <2>4. OwnersDiffer' = (\A j, k \in Invocations :
             pc'[j] \in Inside /\ pc'[k] \in Inside /\ j # k => Stage(j)' # Stage(k)')
      BY DEF OwnersDiffer, Inside
    <2> QED BY <2>2, <2>3, <2>4
  <1>5. ASSUME NEW j \in Invocations
        PROVE  OwnerPosition(j)'
    <2>1. CASE j = i
      BY <2>1
    <2>2. CASE j # i /\ pc[j] \in Inside
      <3>1. /\ Stage(j) \in Stages /\ Stage(j)' = Stage(j) /\ pc'[j] = pc[j]
            /\ OwnerPosition(j)
        BY <1>1, <1>2, <2>2 DEF Ownership
      <3>2. ~(Stage(j) = Stage(i) /\ Owns(i))
        BY <1>3, <2>2
      <3>3. /\ receipt'[Stage(j)] = receipt[Stage(j)]
            /\ child'[Stage(j)] = child[Stage(j)]
            /\ runs'[Stage(j)] = runs[Stage(j)]
        BY <3>1, <3>2 DEF TouchesOwn
      <3> QED BY <3>1, <3>3 DEF OwnerPosition
    <2>3. CASE j # i /\ pc[j] \notin Inside
      BY <1>2, <2>3 DEF OwnerPosition, Inside
    <2> QED BY <2>1, <2>2, <2>3
  <1>6. ASSUME NEW s \in Stages
        PROVE  StageHistory(s)'
    <2>1. CASE s = Stage(i) /\ Owns(i)
      BY <2>1
    <2>2. CASE ~(s = Stage(i) /\ Owns(i))
      <3>1. receipt'[s] = receipt[s] /\ child'[s] = child[s] /\ runs'[s] = runs[s]
        BY <2>2 DEF TouchesOwn
      <3> QED BY <3>1 DEF Ownership, StageHistory
    <2> QED BY <2>1, <2>2
  <1> QED BY <1>4, <1>5, <1>6 DEF Ownership

(* A step that only moves the invocation, out of its stage or not at all   *)
(* into the next position of it.                                           *)
LEMMA OwnerMoves ==
    ASSUME TypeOK, Ownership, NEW i \in Invocations,
           UNCHANGED <<phase, receipt, child, runs>>,
           \A j \in Invocations : j # i => pc'[j] = pc[j] /\ at'[j] = at[j],
           pc'[i] \in Inside => at'[i] = at[i] /\ pc[i] \in Inside,
           OwnerPosition(i)'
    PROVE  Ownership'
  <1>1. TouchesOwn(i)
    BY DEF TouchesOwn
  <1>2. ASSUME NEW s \in Stages
        PROVE  StageHistory(s)'
    BY DEF Ownership, StageHistory
  <1> QED BY <1>1, <1>2, OwnerStep DEF Owns

LEMMA OwnerLeaves ==
    ASSUME TypeOK, Ownership, NEW i \in Invocations, NEW p \in {"choose", "over", "verify", "look", "mkdir"},
           GoTo(i, p), at' = at \/ at' = [at EXCEPT ![i] = @ + 1],
           UNCHANGED <<phase, receipt, child, runs>>
    PROVE  Ownership'
  <1>1. \A j \in Invocations : j # i => pc'[j] = pc[j] /\ at'[j] = at[j]
    BY DEF GoTo, TypeOK, InvocationTypes
  <1>2. pc'[i] = p /\ p \notin Inside
    BY DEF GoTo, TypeOK, InvocationTypes, Inside
  <1>3. OwnerPosition(i)'
    BY <1>2 DEF OwnerPosition
  <1> QED BY <1>1, <1>2, <1>3, OwnerMoves

LEMMA InvocationStepOwnership ==
    ASSUME TypeOK, Ownership, NEW i \in Invocations,
           Start(i) \/ InvocationStep(i) \/ ReleaseFails(i) \/ Killed(i) \/ Breaks(i)
    PROVE  Ownership'
  <1>t. /\ pc \in [Invocations -> {"ready", "choose", "over"} \cup InStage]
        /\ receipt \in [Stages -> {"none", "dir", "started", "failed", "passed"}]
        /\ child \in [Stages -> {"none", "run", "row"} \cup Exited]
        /\ runs \in [Stages -> Nat]
    BY DEF TypeOK, InvocationTypes, StageTypes
  <1>s. pc[i] \in InStage => Stage(i) \in Stages
    BY StageType DEF TypeOK
  <1>p. OwnerPosition(i) /\ \A s \in Stages : StageHistory(s)
    BY DEF Ownership
  <1>m. ASSUME NEW p, GoTo(i, p), UNCHANGED <<phase, at>>
        PROVE  /\ \A j \in Invocations : j # i => pc'[j] = pc[j] /\ at'[j] = at[j]
               /\ pc'[i] = p /\ at'[i] = at[i] /\ Stage(i)' = Stage(i)
    BY <1>m, <1>t DEF GoTo, Stage
  <1>1. CASE Start(i) \/ Choose(i) \/ Finish(i) \/ LaunchVerified(i) \/ Reuse(i) \/ NoReceipt(i) \/ Drained(i)
    BY <1>1, OwnerLeaves
       DEF Start, Choose, Finish, LaunchVerified, Reuse, NoReceipt, Drained, NextStage, stageVars
  <1>2. CASE Raise(i) /\ UNCHANGED <<receipt, child, runs>>
    BY <1>2, OwnerLeaves DEF Raise
  <1>3. CASE Killed(i)
    BY <1>3, OwnerLeaves DEF Killed, stageVars
  <1>4. CASE Breaks(i)
    <2>1. CASE UNCHANGED child
      BY <1>2, <1>4, <2>1 DEF Breaks
    <2>2. CASE /\ pc[i] = "wait" /\ child[Stage(i)] \in {"run", "row"}
               /\ child' = [child EXCEPT ![Stage(i)] = "fail"]
      <3>1. /\ GoTo(i, "over") /\ UNCHANGED <<phase, at, receipt, runs>>
        BY <1>4 DEF Breaks, Raise
      <3>2. Owns(i) /\ TouchesOwn(i)
        BY <1>t, <2>2, <3>1 DEF Owns, TouchesOwn, Inside
      <3>3. Stage(i) \in Stages /\ receipt[Stage(i)] = "started" /\ runs[Stage(i)] = 1
        BY <1>s, <1>p, <2>2 DEF OwnerPosition, InStage, Inside
      <3>4. StageHistory(Stage(i))'
        BY <1>t, <1>p, <1>m, <2>2, <3>1, <3>3 DEF StageHistory
      <3>5. pc'[i] \notin Inside /\ OwnerPosition(i)'
        BY <1>m, <3>1 DEF Inside, OwnerPosition
      <3> QED BY <1>m, <3>1, <3>2, <3>4, <3>5, OwnerStep
    <2> QED BY <1>4, <2>1, <2>2 DEF Breaks
  <1>5. CASE ChecksHold(i)
    <2>1. GoTo(i, "drain") /\ pc[i] = "check" /\ receipt[Stage(i)] = "passed"
          /\ UNCHANGED <<phase, at, receipt, child, runs>>
      BY <1>5 DEF ChecksHold, stageVars
    <2>2. OwnerPosition(i)'
      BY <1>m, <2>1 DEF OwnerPosition
    <2> QED BY <1>m, <2>1, <2>2, OwnerMoves DEF Inside
  <1>6. CASE Acquire(i)
    <2>1. GoTo(i, "spawn") /\ pc[i] = "acquire"
          /\ UNCHANGED <<phase, at, receipt, child, runs>>
      BY <1>6 DEF Acquire, stageVars
    <2>2. OwnerPosition(i)'
      BY <1>m, <1>p, <2>1 DEF OwnerPosition
    <2> QED BY <1>m, <2>1, <2>2, OwnerMoves DEF Inside
  <1>7. CASE Collect(i)
    <2>1. GoTo(i, "record") /\ pc[i] = "wait" /\ child[Stage(i)] \in Exited
          /\ UNCHANGED <<phase, at, receipt, child, runs>>
      BY <1>7 DEF Collect, stageVars
    <2>2. OwnerPosition(i)'
      BY <1>m, <1>p, <2>1 DEF OwnerPosition
    <2> QED BY <1>m, <2>1, <2>2, OwnerMoves DEF Inside
  <1>8. CASE MakeDirectory(i)
    <2>1. GoTo(i, "save") /\ pc[i] = "mkdir" /\ receipt[Stage(i)] = "none" /\ Stage(i) \in Stages
          /\ receipt' = [receipt EXCEPT ![Stage(i)] = "dir"]
          /\ UNCHANGED <<phase, at, child, runs>>
      BY <1>8, <1>s DEF MakeDirectory, SetReceipt, InStage
    <2>2. Owns(i) /\ TouchesOwn(i)
      BY <1>t, <2>1 DEF Owns, TouchesOwn
    <2>3. OwnerPosition(i)'
      BY <1>m, <1>t, <2>1 DEF OwnerPosition
    <2>4. StageHistory(Stage(i))'
      BY <1>t, <1>p, <1>m, <2>1 DEF StageHistory
    <2> QED BY <1>m, <2>1, <2>2, <2>3, <2>4, OwnerStep
  <1>9. CASE SaveStarted(i)
    <2>1. pc[i] = "save" /\ Stage(i) \in Stages
          /\ receipt' = [receipt EXCEPT ![Stage(i)] = "started"]
          /\ UNCHANGED <<phase, at, child, runs>>
      BY <1>9, <1>s DEF SaveStarted, SetReceipt, InStage, Inside
    <2>2. PICK p \in {"acquire", "spawn"} : GoTo(i, p)
      BY <1>9 DEF SaveStarted
    <2>3. Owns(i) /\ TouchesOwn(i)
      BY <1>t, <2>1 DEF Owns, TouchesOwn, Inside
    <2>4. receipt[Stage(i)] = "dir" /\ runs[Stage(i)] = 0
      BY <1>p, <2>1 DEF OwnerPosition, StageHistory
    <2>5. OwnerPosition(i)'
      BY <1>m, <1>t, <2>1, <2>2, <2>4 DEF OwnerPosition
    <2>6. StageHistory(Stage(i))'
      BY <1>t, <1>p, <1>m, <2>1, <2>2, <2>4 DEF StageHistory
    <2> QED BY <1>m, <2>1, <2>2, <2>3, <2>5, <2>6, OwnerStep
  <1>10. CASE Spawn(i)
    <2>1. GoTo(i, "wait") /\ pc[i] = "spawn" /\ Stage(i) \in Stages
          /\ child' = [child EXCEPT ![Stage(i)] = "run"]
          /\ runs' = [runs EXCEPT ![Stage(i)] = @ + 1]
          /\ UNCHANGED <<phase, at, receipt>>
      BY <1>10, <1>s DEF Spawn, InStage, Inside
    <2>2. Owns(i) /\ TouchesOwn(i)
      BY <1>t, <2>1 DEF Owns, TouchesOwn, Inside
    <2>3. receipt[Stage(i)] = "started" /\ runs[Stage(i)] = 0
      BY <1>p, <2>1 DEF OwnerPosition
    <2>4. OwnerPosition(i)'
      BY <1>m, <1>t, <2>1, <2>3 DEF OwnerPosition
    <2>5. StageHistory(Stage(i))'
      BY <1>t, <1>p, <1>m, <2>1, <2>3 DEF StageHistory
    <2> QED BY <1>m, <2>1, <2>2, <2>4, <2>5, OwnerStep
  <1>11. CASE Record(i)
    <2>1. GoTo(i, "check") /\ pc[i] = "record" /\ Stage(i) \in Stages
          /\ receipt' = [receipt EXCEPT ![Stage(i)] =
                            IF child[Stage(i)] = "fail" THEN "failed" ELSE "passed"]
          /\ UNCHANGED <<phase, at, child, runs>>
      BY <1>11, <1>s DEF Record, SetReceipt, InStage, Inside
    <2>2. Owns(i) /\ TouchesOwn(i)
      BY <1>t, <2>1 DEF Owns, TouchesOwn, Inside
    <2>3. child[Stage(i)] \in Exited
      BY <1>p, <2>1 DEF OwnerPosition
    <2>4. OwnerPosition(i)'
      BY <1>m, <1>t, <2>1 DEF OwnerPosition
    <2>5. StageHistory(Stage(i))'
      BY <1>t, <1>p, <1>m, <2>1, <2>3 DEF StageHistory, Exited
    <2> QED BY <1>m, <2>1, <2>2, <2>4, <2>5, OwnerStep
  <1> QED BY <1>1, <1>2, <1>3, <1>4, <1>5, <1>6, <1>7, <1>8, <1>9, <1>10, <1>11
          DEF InvocationStep, ReleaseFails, LaunchRefused, Refuse, DirectoryExists, AcquireFails,
              CheckRaises, DrainExpires

(* A child that lives is neither new nor recorded, and its steps leave the *)
(* receipts alone.                                                         *)
LEMMA EnvironmentOwnership ==
    ASSUME TypeOK, Ownership,
           \/ \E s \in Stages : ChildStep(s) \/ RowTimesOut(s) \/ LeftEnds(s)
           \/ LadderWrites \/ Edit \/ LaunchDies
    PROVE  Ownership'
  <1>t. child \in [Stages -> {"none", "run", "row"} \cup Exited]
    BY DEF TypeOK, StageTypes
  <1>1. UNCHANGED <<pc, phase, at, receipt, runs>>
    BY ChildFrame DEF LadderWrites, Edit, LaunchDies, invVars, stageVars
  <1>2. \A s \in Stages : child'[s] = child[s] \/ (child[s] \in {"run", "row"} /\ child'[s] # "none")
    <2>1. CASE UNCHANGED child
      BY <2>1
    <2>2. CASE \E s \in Stages : ChildStep(s) \/ RowTimesOut(s) \/ LeftEnds(s)
      BY <1>t, <2>2, ChildFrame DEF Exited
    <2> QED BY <2>1, <2>2 DEF LadderWrites, Edit, LaunchDies, stageVars
  <1>3. \A s \in Stages : child'[s] # child[s] => child[s] \notin Exited
    BY <1>2 DEF Exited
  <1>4. OwnersDiffer'
    BY <1>1 DEF Ownership, OwnersDiffer, Stage
  <1>5. ASSUME NEW i \in Invocations
        PROVE  OwnerPosition(i)'
    <2>1. OwnerPosition(i) /\ Stage(i)' = Stage(i)
      BY <1>1 DEF Ownership, Stage
    <2>2. pc[i] = "record" => Stage(i) \in Stages
      BY StageType DEF TypeOK, InStage, Inside
    <2> QED BY <1>1, <1>3, <2>1, <2>2 DEF OwnerPosition
  <1>6. ASSUME NEW s \in Stages
        PROVE  StageHistory(s)'
    <2>1. StageHistory(s)
      BY DEF Ownership
    <2> QED BY <1>1, <1>2, <2>1 DEF StageHistory
  <1> QED BY <1>4, <1>5, <1>6 DEF Ownership

LEMMA OwnershipInvariant == Spec => [](TypeOK /\ Ownership)
  <1>1. Init => Ownership
    BY DEF Init, Ownership, OwnersDiffer, OwnerPosition, StageHistory, Inside
  <1>2. TypeOK /\ Ownership /\ [Next]_vars => Ownership'
    <2> SUFFICES ASSUME TypeOK, Ownership, [Next]_vars PROVE Ownership'
      OBVIOUS
    <2>1. CASE Next
      BY <2>1, InvocationStepOwnership, EnvironmentOwnership DEF Next
    <2>2. CASE UNCHANGED vars
      BY <2>2 DEF vars, invVars, stageVars, Ownership, OwnersDiffer, OwnerPosition, StageHistory, Stage
    <2> QED BY <2>1, <2>2
  <1> QED BY <1>1, <1>2, TypeCorrect, PTL DEF Spec

(* No stage is ever run twice, whatever is rerun, run concurrently or      *)
(* killed.                                                                 *)
THEOREM StagesRunOnce == Spec => []StageRunsOnce
  <1>1. Ownership => StageRunsOnce
    BY DEF Ownership, StageHistory, StageRunsOnce
  <1> QED BY <1>1, OwnershipInvariant, PTL

(* Receipts are true of the children they are about.                       *)
THEOREM ReceiptsAreTrue == Spec => []ReceiptTellsTheRun
  <1>1. Ownership => ReceiptTellsTheRun
    BY DEF Ownership, StageHistory, ReceiptTellsTheRun
  <1> QED BY <1>1, OwnershipInvariant, PTL

-----------------------------------------------------------------------------
(* Names of invocations, stages and the two idle values of the lock never  *)
(* coincide.                                                               *)
LEMMA NamesDiffer ==
    /\ \A i \in Invocations : i # "free" /\ i # "stale" /\ i \notin Stages
    /\ \A s \in Stages : s # "free" /\ s # "stale" /\ s \notin Invocations
    /\ DirectStages \subseteq Stages /\ RowStages \subseteq Stages
    /\ DirectStages \cap RowStages = {}
  BY InvocationsAssumption DEF Stages, DirectStages, RowStages

(* A step that keeps lock and children, and neither takes the invocation   *)
(* to one of the positions around its child nor away from one.             *)
LEMMA LeaseFrame ==
    ASSUME TypeOK, Leases, NEW i \in Invocations,
           UNCHANGED <<phase, lock, child>>,
           \A j \in Invocations : j # i => pc'[j] = pc[j] /\ at'[j] = at[j],
           pc[i] \notin {"spawn", "wait"},
           pc'[i] \in {"acquire", "spawn"} =>
               (pc'[i] = "acquire") = (Stage(i)' \in DirectStages)
    PROVE  Leases'
  <1>1. \A j \in Invocations : j # i => Stage(j)' = Stage(j) /\ pc'[j] = pc[j]
    BY DEF Stage
  <1>2. lock # i
    BY DEF Leases
  <1>3. ASSUME NEW s \in DirectStages, Alive(s)
        PROVE  LeasedTo(s)'
    <2>1. LeasedTo(s)
      BY <1>3 DEF Leases
    <2> QED BY <1>1, <1>2, <2>1 DEF LeasedTo
  <1>4. ASSUME NEW j \in Invocations
        PROVE  /\ pc'[j] = "acquire" => Stage(j)' \in DirectStages
               /\ pc'[j] = "spawn" /\ Stage(j)' \in DirectStages => lock' = j
               /\ lock' = j => pc'[j] \in {"spawn", "wait"} /\ Stage(j)' \in DirectStages
    BY <1>1, <1>2 DEF Leases
  <1>5. /\ \A s \in Stages : Alive(s)' = Alive(s)
        /\ Asking' = Asking
    BY DEF Alive, Asking
  <1> QED BY <1>3, <1>4, <1>5, NamesDiffer DEF Leases

LEMMA InvocationStepLeases ==
    ASSUME TypeOK, Leases, NEW i \in Invocations,
           Start(i) \/ InvocationStep(i) \/ ReleaseFails(i) \/ Killed(i) \/ Breaks(i)
    PROVE  Leases'
  <1>t. /\ pc \in [Invocations -> {"ready", "choose", "over"} \cup InStage]
        /\ at \in [Invocations -> Nat \ {0}]
        /\ child \in [Stages -> {"none", "run", "row"} \cup Exited]
        /\ lock \in {"free", "stale"} \cup Invocations \cup RowStages
    BY DEF TypeOK, InvocationTypes, StageTypes, ServerTypes
  <1>s. pc[i] \in InStage => Stage(i) \in Stages
    BY StageType DEF TypeOK
  <1>m. ASSUME NEW p, GoTo(i, p), UNCHANGED <<phase, at>>
        PROVE  /\ \A j \in Invocations : j # i => pc'[j] = pc[j] /\ at'[j] = at[j]
               /\ pc'[i] = p
               /\ \A j \in Invocations : Stage(j)' = Stage(j)
    BY <1>m, <1>t DEF GoTo, Stage
  <1>n. ASSUME NextStage(i), UNCHANGED phase
        PROVE  /\ \A j \in Invocations : j # i => pc'[j] = pc[j] /\ at'[j] = at[j]
               /\ pc'[i] = "choose"
    BY <1>n, <1>t DEF NextStage, GoTo
  <1>1. ASSUME UNCHANGED <<phase, at, lock, child>>, pc[i] \notin {"spawn", "wait"},
               NEW p \in {"choose", "over", "verify", "look", "mkdir", "save", "check", "drain"}, GoTo(i, p)
        PROVE  Leases'
    BY <1>1, <1>m, LeaseFrame
  <1>2. CASE Start(i) \/ Finish(i) \/ LaunchVerified(i) \/ NoReceipt(i) \/ MakeDirectory(i)
             \/ Record(i) \/ ChecksHold(i)
    BY <1>2, <1>1 DEF Start, Finish, LaunchVerified, NoReceipt, MakeDirectory, Record, ChecksHold,
                      stageVars, serverVars
  <1>3. CASE LaunchRefused(i) \/ Refuse(i) \/ DirectoryExists(i) \/ AcquireFails(i) \/ CheckRaises(i)
             \/ DrainExpires(i)
    BY <1>3, <1>1 DEF LaunchRefused, Refuse, DirectoryExists, AcquireFails, CheckRaises, DrainExpires,
                      Raise, serverVars
  <1>4. CASE Choose(i) \/ Reuse(i) \/ Drained(i)
    <2>1. UNCHANGED <<phase, lock, child>> /\ pc[i] \notin {"spawn", "wait"}
      BY <1>4 DEF Choose, Reuse, Drained, stageVars, serverVars
    <2>2. NextStage(i) \/ (GoTo(i, "verify") /\ UNCHANGED at)
      BY <1>4 DEF Choose, Reuse, Drained
    <2>3. CASE NextStage(i)
      BY <2>1, <2>3, <1>n, LeaseFrame
    <2> QED BY <1>1, <2>1, <2>2, <2>3
  <1>5. CASE SaveStarted(i)
    <2>1. pc[i] = "save" /\ UNCHANGED <<phase, at, lock, child>>
          /\ GoTo(i, IF Stage(i) \in DirectStages THEN "acquire" ELSE "spawn")
      BY <1>5 DEF SaveStarted, OwnLease, serverVars
    <2> QED BY <1>m, <2>1, LeaseFrame
  <1>6. CASE Acquire(i)
    <2>1. pc[i] = "acquire" /\ lock = "free" /\ lock' = i /\ GoTo(i, "spawn")
          /\ UNCHANGED <<phase, at, child>>
      BY <1>6 DEF Acquire, stageVars
    <2>2. \A s \in RowStages : child'[s] # "row"
      BY <2>1, NamesDiffer DEF Leases
    <2>3. \A s \in DirectStages : ~Alive(s)'
      BY <2>1, NamesDiffer DEF Leases, LeasedTo, Alive
    <2>4. Stage(i)' \in DirectStages
      BY <1>m, <2>1 DEF Leases
    <2>5. \A s \in Asking' : s \in RowStages \cup DirectStages
      BY <2>1 DEF Leases, Asking
    <2>6. ASSUME NEW j \in Invocations
          PROVE  /\ pc'[j] = "acquire" => Stage(j)' \in DirectStages
                 /\ pc'[j] = "spawn" /\ Stage(j)' \in DirectStages => lock' = j
                 /\ lock' = j => pc'[j] \in {"spawn", "wait"} /\ Stage(j)' \in DirectStages
      BY <1>m, <2>1, <2>4, NamesDiffer DEF Leases
    <2> QED BY <2>2, <2>3, <2>5, <2>6 DEF Leases
  <1>7. CASE Spawn(i)
    <2>1. pc[i] = "spawn" /\ Stage(i) \in Stages /\ GoTo(i, "wait")
          /\ child' = [child EXCEPT ![Stage(i)] = "run"]
          /\ UNCHANGED <<phase, at, lock>>
      BY <1>7, <1>s DEF Spawn, serverVars, InStage, Inside
    <2>2. \A s \in Stages : child'[s] = "row" => child[s] = "row"
      BY <1>t, <2>1
    <2>r. \A s \in RowStages : child'[s] = "row" => lock' = s
      BY <2>1, <2>2, NamesDiffer DEF Leases
    <2>a. \A s \in Asking' : s \in RowStages \cup DirectStages
      BY <2>2 DEF Leases, Asking
    <2>o. \A s \in Stages : s # Stage(i) => Alive(s)' = Alive(s)
      BY <1>t, <2>1 DEF Alive
    <2>3. ASSUME Stage(i) \in DirectStages
          PROVE  lock = i /\ \A s \in DirectStages : ~Alive(s)
      <3>1. lock = i
        BY <2>1, <2>3 DEF Leases
      <3> QED BY <2>1, <3>1, NamesDiffer DEF Leases, LeasedTo
    <2>4. ASSUME NEW s \in DirectStages, Alive(s)'
          PROVE  LeasedTo(s)'
      <3>1. CASE s = Stage(i)
        BY <1>m, <2>1, <2>3, <3>1 DEF LeasedTo
      <3>2. CASE s # Stage(i)
        <4>1. LeasedTo(s)
          BY <2>o, <2>4, <3>2, NamesDiffer DEF Leases
        <4> QED BY <1>m, <2>1, <4>1 DEF LeasedTo
      <3> QED BY <3>1, <3>2
    <2>5. ASSUME NEW s \in DirectStages, NEW t \in DirectStages, Alive(s)', Alive(t)'
          PROVE  s = t
      <3>1. CASE Stage(i) \in DirectStages
        BY <2>o, <2>3, <2>5, <3>1, NamesDiffer
      <3>2. CASE Stage(i) \notin DirectStages
        BY <2>o, <2>5, <3>2, NamesDiffer DEF Leases
      <3> QED BY <3>1, <3>2
    <2>6. ASSUME NEW j \in Invocations
          PROVE  /\ pc'[j] = "acquire" => Stage(j)' \in DirectStages
                 /\ pc'[j] = "spawn" /\ Stage(j)' \in DirectStages => lock' = j
                 /\ lock' = j => pc'[j] \in {"spawn", "wait"} /\ Stage(j)' \in DirectStages
      <3>1. Stage(j)' = Stage(j) /\ lock' = lock /\ pc'[i] = "wait"
        BY <1>m, <2>1
      <3>2. j # i => pc'[j] = pc[j]
        BY <1>m, <2>1
      <3>3. CASE j = i
        BY <3>1, <3>3 DEF Leases
      <3>4. CASE j # i
        BY <3>1, <3>2, <3>4 DEF Leases
      <3> QED BY <3>3, <3>4
    <2> QED BY <2>r, <2>a, <2>4, <2>5, <2>6 DEF Leases
  <1>8. ASSUME GoTo(i, "record") \/ GoTo(i, "over"), UNCHANGED <<phase, at>>,
               \A s \in Stages : child'[s] = child[s] \/ child'[s] = "fail",
               lock' = lock \/ lock' = "free" \/ lock' = "stale",
               lock' = i => FALSE,
               lock = i /\ lock' # "stale" =>
                   lock' = "free" /\ \A s \in DirectStages : ~Alive(s)',
               lock # i /\ lock' # lock =>
                   lock \notin Invocations /\ lock' = "stale" /\ \A s \in RowStages : child'[s] # "row",
               lock = i => \A s \in RowStages : child[s] # "row"
        PROVE  Leases'
    <2>1. PICK p \in {"record", "over"} : GoTo(i, p)
      BY <1>8
    <2>2. /\ \A j \in Invocations : j # i => pc'[j] = pc[j]
          /\ pc'[i] \in {"record", "over"}
          /\ \A j \in Invocations : Stage(j)' = Stage(j)
      BY <1>8, <1>m, <2>1
    <2>3. \A s \in Stages : child'[s] \in {"run", "row"} => child'[s] = child[s]
      BY <1>8
    <2>v. \A s \in Stages : Alive(s)' => Alive(s)
      BY <2>3 DEF Alive
    <2>4. \A s \in RowStages : child'[s] = "row" => lock' = s
      BY <1>8, <2>3, NamesDiffer DEF Leases
    <2>a. \A s \in Asking' : s \in RowStages \cup DirectStages
      BY <2>3 DEF Leases, Asking
    <2>5. ASSUME NEW s \in DirectStages, Alive(s)'
          PROVE  LeasedTo(s)'
      <3>1. LeasedTo(s)
        BY <2>v, <2>5, NamesDiffer DEF Leases
      <3> QED BY <1>8, <2>2, <2>5, <3>1 DEF LeasedTo
    <2>6. \A s, t \in DirectStages : Alive(s)' /\ Alive(t)' => s = t
      BY <2>v, NamesDiffer DEF Leases
    <2>7. ASSUME NEW j \in Invocations
          PROVE  /\ pc'[j] = "acquire" => Stage(j)' \in DirectStages
                 /\ pc'[j] = "spawn" /\ Stage(j)' \in DirectStages => lock' = j
                 /\ lock' = j => pc'[j] \in {"spawn", "wait"} /\ Stage(j)' \in DirectStages
      <3>1. CASE j = i
        BY <1>8, <2>2, <3>1
      <3>2. CASE j # i
        <4>1. pc'[j] = pc[j] /\ Stage(j)' = Stage(j)
          BY <2>2, <3>2
        <4>2. (lock = j) = (lock' = j)
          BY <1>8, <3>2, NamesDiffer
        <4> QED BY <4>1, <4>2 DEF Leases
      <3> QED BY <3>1, <3>2
    <2> QED BY <2>4, <2>a, <2>5, <2>6, <2>7 DEF Leases
  <1>own. /\ lock = i => \A s \in RowStages : child[s] # "row"
          /\ lock = i /\ pc[i] = "spawn" => \A s \in DirectStages : ~Alive(s)
          /\ lock = i => \A s \in DirectStages : Alive(s) => s = Stage(i)
          /\ lock = i => pc[i] \in {"spawn", "wait"}
    BY NamesDiffer DEF Leases, LeasedTo
  <1>exit. child[Stage(i)] \in Exited => ~Alive(Stage(i))
    BY DEF Exited, Alive
  <1>keep. UNCHANGED child => \A s \in Stages : Alive(s)' = Alive(s)
    BY DEF Alive
  <1>9. CASE Collect(i)
    <2>1. pc[i] = "wait" /\ child[Stage(i)] \in Exited /\ GoTo(i, "record")
          /\ lock' = (IF lock = i THEN "free" ELSE lock) /\ UNCHANGED <<phase, at, child>>
      BY <1>9 DEF Collect, Unlock, stageVars
    <2>2. lock' # i
      BY <2>1, NamesDiffer
    <2>3. lock = i => \A s \in DirectStages : ~Alive(s)'
      BY <1>own, <1>exit, <1>keep, <2>1, NamesDiffer
    <2> QED BY <1>8, <1>own, <2>1, <2>2, <2>3
  <1>10. CASE ReleaseFails(i)
    <2>1. lock = i /\ lock' = "stale" /\ GoTo(i, "over") /\ UNCHANGED <<phase, at, child>>
      BY <1>10 DEF ReleaseFails, Raise
    <2> QED BY <1>8, <1>own, <2>1, NamesDiffer
  <1>11. CASE Killed(i)
    <2>1. GoTo(i, "over") /\ lock' = (IF lock = i THEN "stale" ELSE lock)
          /\ UNCHANGED <<phase, at, child>>
      BY <1>11 DEF Killed, stageVars
    <2> QED BY <1>8, <1>own, <2>1, NamesDiffer
  <1>12. CASE Breaks(i)
    <2>1. GoTo(i, "over") /\ UNCHANGED <<phase, at>> /\ pc[i] \in InStage
      BY <1>12 DEF Breaks, Raise
    <2>2. CASE /\ pc[i] = "wait" /\ child[Stage(i)] \in {"run", "row"}
               /\ child' = [child EXCEPT ![Stage(i)] = "fail"]
               /\ lock' = IF lock = Stage(i) THEN "stale" ELSE IF lock = i THEN "free" ELSE lock
      <3>1. Stage(i) \in Stages
        BY <1>s, <2>1
      <3>2. child'[Stage(i)] = "fail" /\ \A s \in Stages : s # Stage(i) => child'[s] = child[s]
        BY <1>t, <2>2, <3>1
      <3>3. lock' # i
        BY <2>2, NamesDiffer
      <3>4. lock = i => \A s \in DirectStages : ~Alive(s)'
        BY <1>own, <3>2, NamesDiffer DEF Alive
      <3>5. lock = Stage(i) => lock # i /\ \A s \in RowStages : child'[s] # "row"
        BY <3>1, <3>2, NamesDiffer DEF Leases
      <3>6. lock # i /\ lock' # lock =>
              lock \notin Invocations /\ lock' = "stale" /\ \A s \in RowStages : child'[s] # "row"
        BY <2>2, <3>1, <3>5, NamesDiffer
      <3>7. lock = i /\ lock' # "stale" => lock' = "free" /\ \A s \in DirectStages : ~Alive(s)'
        BY <2>2, <3>4
      <3>8. lock' = lock \/ lock' = "free" \/ lock' = "stale"
        BY <2>2
      <3> QED BY <1>8, <1>own, <2>1, <3>2, <3>3, <3>6, <3>7, <3>8
    <2>3. CASE /\ ~(pc[i] = "wait" /\ child[Stage(i)] \in {"run", "row"})
               /\ lock' = (IF lock = i THEN "free" ELSE lock) /\ UNCHANGED child
      <3>1. lock' # i
        BY <2>3, NamesDiffer
      <3>2. lock = i => \A s \in DirectStages : ~Alive(s)'
        BY <1>own, <1>keep, <2>3, NamesDiffer DEF Alive
      <3> QED BY <1>8, <1>own, <2>1, <2>3, <3>1, <3>2
    <2> QED BY <1>12, <2>2, <2>3 DEF Breaks, Unlock
  <1> QED BY <1>2, <1>3, <1>4, <1>5, <1>6, <1>7, <1>9, <1>10, <1>11, <1>12 DEF InvocationStep

(* Steps of children: a row begins only while the lock is free, only its   *)
(* end frees it, and a direct child has its lease from birth to end.       *)
LEMMA ChildLeases ==
    ASSUME TypeOK, Leases, NEW s \in Stages, ChildStep(s) \/ RowTimesOut(s) \/ LeftEnds(s)
    PROVE  Leases'
  <1>t. /\ child \in [Stages -> {"none", "run", "row"} \cup Exited]
        /\ UNCHANGED <<pc, phase, at>>
    BY ChildFrame DEF TypeOK, StageTypes
  <1>st. \A j \in Invocations : Stage(j)' = Stage(j)
    BY <1>t DEF Stage
  <1>v. \A u \in Stages : Alive(u)' => Alive(u)
    BY <1>t, ChildFrame DEF Alive
  <1>c. \A u, w \in DirectStages : Alive(u)' /\ Alive(w)' => u = w
    BY <1>v, NamesDiffer DEF Leases
  <1>frame. ASSUME \A u \in RowStages : child'[u] = "row" => lock' = u,
                   \A u \in Asking' : u \in RowStages \cup DirectStages,
                   \/ lock' = lock
                   \/ /\ lock' \notin Invocations /\ lock \notin Invocations
                      /\ lock # "stale"
            PROVE  Leases'
    <2>1. \A j \in Invocations : (lock' = j) = (lock = j)
      BY <1>frame
    <2>2. lock = "stale" => lock' = "stale"
      BY <1>frame
    <2>3. ASSUME NEW u \in DirectStages, Alive(u)'
          PROVE  LeasedTo(u)'
      <3>1. LeasedTo(u)
        BY <1>v, <2>3, NamesDiffer DEF Leases
      <3> QED BY <1>t, <1>st, <2>1, <2>2, <3>1 DEF LeasedTo
    <2>4. ASSUME NEW j \in Invocations
          PROVE  /\ pc'[j] = "acquire" => Stage(j)' \in DirectStages
                 /\ pc'[j] = "spawn" /\ Stage(j)' \in DirectStages => lock' = j
                 /\ lock' = j => pc'[j] \in {"spawn", "wait"} /\ Stage(j)' \in DirectStages
      BY <1>t, <1>st, <2>1 DEF Leases
    <2> QED BY <1>frame, <1>c, <2>3, <2>4 DEF Leases
  <1>1. CASE RowBegins(s)
    <2>1. /\ lock = "free" /\ lock' = s /\ s \in RowStages
          /\ child' = [child EXCEPT ![s] = "row"]
      BY <1>1 DEF RowBegins
    <2>2. \A u \in RowStages : child[u] # "row"
      BY <2>1, NamesDiffer DEF Leases
    <2>3. \A u \in RowStages : child'[u] = "row" => u = s
      BY <1>t, <2>1, <2>2, NamesDiffer
    <2>4. \A u \in Asking' : u \in RowStages \cup DirectStages
      BY <1>t, <2>1 DEF Leases, Asking
    <2> QED BY <1>frame, <2>1, <2>3, <2>4, NamesDiffer
  <1>2. CASE RequestBegins(s)
    <2>1. lock' = lock /\ s \in DirectStages /\ child' = [child EXCEPT ![s] = "row"]
      BY <1>2 DEF RequestBegins, serverVars
    <2>2. \A u \in RowStages : child'[u] = "row" => lock' = u
      BY <1>t, <2>1, NamesDiffer DEF Leases
    <2>3. \A u \in Asking' : u \in RowStages \cup DirectStages
      BY <1>t, <2>1 DEF Leases, Asking
    <2> QED BY <1>frame, <2>1, <2>2, <2>3
  <1>3. CASE RowEnds(s) \/ RowTimesOut(s)
    <2>1. /\ child[s] = "row" /\ lock' = IF s \in RowStages THEN "free" ELSE lock
          /\ \E c \in {"run", "fail"} : child' = [child EXCEPT ![s] = c]
      BY <1>3 DEF RowEnds, RowTimesOut, EndLease
    <2>2. s \in RowStages => lock = s
      BY <2>1, NamesDiffer DEF Leases
    <2>3. \A u \in Stages : child'[u] = "row" => child[u] = "row" /\ u # s
      BY <1>t, <2>1
    <2>4. \A u \in RowStages : child'[u] = "row" => lock' = u
      <3>1. ASSUME NEW u \in RowStages, child'[u] = "row"
            PROVE  lock' = u
        <4>1. lock = u /\ u # s
          BY <2>3, <3>1, NamesDiffer DEF Leases
        <4> QED BY <2>1, <2>2, <4>1
      <3> QED BY <3>1
    <2>5. \A u \in Asking' : u \in RowStages \cup DirectStages
      BY <2>3 DEF Leases, Asking
    <2> QED BY <1>frame, <2>1, <2>2, <2>4, <2>5, NamesDiffer
  <1>4. CASE RowRefused(s) \/ ChildExits(s) \/ LeftEnds(s)
    <2>1. lock' = lock
      BY <1>4 DEF RowRefused, ChildExits, LeftEnds, serverVars
    <2>2. \A u \in Stages : child'[u] = "row" => child[u] = "row"
      BY <1>4, <1>t DEF RowRefused, ChildExits, LeftEnds, stageVars, Exited
    <2>3. \A u \in RowStages : child'[u] = "row" => lock' = u
      BY <2>1, <2>2, NamesDiffer DEF Leases
    <2>4. \A u \in Asking' : u \in RowStages \cup DirectStages
      BY <2>2 DEF Leases, Asking
    <2> QED BY <1>frame, <2>1, <2>3, <2>4
  <1> QED BY <1>1, <1>2, <1>3, <1>4 DEF ChildStep

LEMMA LeasesInvariant == Spec => [](TypeOK /\ Leases)
  <1>1. Init => Leases
    BY NamesDiffer DEF Init, Leases, LeasedTo, Alive, Asking
  <1>same. Leases /\ UNCHANGED <<pc, phase, at, child, lock>> => Leases'
    BY DEF Leases, LeasedTo, Stage, Alive, Asking
  <1>2. TypeOK /\ Leases /\ [Next]_vars => Leases'
    <2> SUFFICES ASSUME TypeOK, Leases, [Next]_vars PROVE Leases'
      OBVIOUS
    <2>1. CASE \E i \in Invocations :
                  Start(i) \/ InvocationStep(i) \/ ReleaseFails(i) \/ Killed(i) \/ Breaks(i)
      BY <2>1, InvocationStepLeases
    <2>2. CASE \E s \in Stages : ChildStep(s) \/ RowTimesOut(s) \/ LeftEnds(s)
      BY <2>2, ChildLeases
    <2>3. CASE LadderWrites \/ Edit \/ LaunchDies \/ UNCHANGED vars
      BY <2>3, <1>same DEF LadderWrites, Edit, LaunchDies, vars, invVars, stageVars, serverVars
    <2> QED BY <2>1, <2>2, <2>3 DEF Next
  <1> QED BY <1>1, <1>2, TypeCorrect, PTL DEF Spec

(* The children of no two stages wait for the server together, with any    *)
(* number of invocations, killed ones whose children live on included.     *)
(* Requests that nobody waits for are not counted.                         *)
THEOREM StagesAskAlone == Spec => []OneStageAsks
  <1>1. TypeOK /\ Leases => OneStageAsks
    <2> SUFFICES ASSUME TypeOK, Leases, NEW s \in Asking, NEW t \in Asking
                 PROVE  s = t
      BY DEF OneStageAsks
    <2>0. /\ s \in RowStages \cup DirectStages /\ child[s] = "row"
          /\ t \in RowStages \cup DirectStages /\ child[t] = "row"
      BY DEF Leases, Asking
    <2>1. CASE s \in RowStages \/ t \in RowStages
      <3>1. \A u \in RowStages, w \in DirectStages : child[u] = "row" => ~Alive(w)
        BY NamesDiffer DEF Leases, LeasedTo
      <3>2. Alive(s) /\ Alive(t)
        BY <2>0 DEF Alive
      <3>3. s \in RowStages /\ t \in RowStages
        BY <2>0, <2>1, <3>1, <3>2
      <3> QED BY <2>0, <3>3 DEF Leases
    <2>2. CASE s \notin RowStages /\ t \notin RowStages
      BY <2>0, <2>2 DEF Leases, Alive
    <2> QED BY <2>1, <2>2
  <1> QED BY <1>1, LeasesInvariant, PTL

(* A stage that takes leases row by row is never run under one.            *)
THEOREM NoLeaseIsNested == Spec => []RowsMeetNoParent
  <1>1. Leases => RowsMeetNoParent
    BY NamesDiffer DEF Leases, RowsMeetNoParent
  <1> QED BY <1>1, LeasesInvariant, PTL

-----------------------------------------------------------------------------
(* Nothing that passed is taken back, and the ladder file only grows.      *)
LEMMA NothingIsTakenBack ==
    ASSUME TypeOK, Ownership, [Next]_vars
    PROVE  /\ \A s \in Stages : receipt[s] = "passed" => receipt'[s] = "passed"
           /\ \A s \in Stages : child[s] \in Exited => child'[s] = child[s]
           /\ ladder' = ladder \/ ladder # "whole"
           /\ ladder # "none" => ladder' # "none"
  <1>t. /\ receipt \in [Stages -> {"none", "dir", "started", "failed", "passed"}]
        /\ child \in [Stages -> {"none", "run", "row"} \cup Exited]
    BY DEF TypeOK, StageTypes
  <1>1. ASSUME NEW i \in Invocations, MakeDirectory(i) \/ SaveStarted(i) \/ Record(i)
        PROVE  /\ \A s \in Stages : receipt[s] = "passed" => receipt'[s] = "passed"
               /\ UNCHANGED <<child, ladder>>
    <2>1. OwnerPosition(i) /\ Stage(i) \in Stages
      BY <1>1, StageType DEF Ownership, TypeOK, MakeDirectory, SaveStarted, Record, InStage, Inside
    <2>2. receipt[Stage(i)] # "passed" /\ \E r \in {"dir", "started", "failed", "passed"} : SetReceipt(i, r)
      BY <1>1, <2>1 DEF MakeDirectory, SaveStarted, Record, OwnerPosition
    <2> QED BY <1>1, <1>t, <2>2 DEF SetReceipt, MakeDirectory, SaveStarted, Record
  <1>2. ASSUME NEW i \in Invocations, Spawn(i) \/ Breaks(i)
        PROVE  /\ \A s \in Stages : child[s] \in Exited => child'[s] = child[s]
               /\ UNCHANGED <<receipt, ladder>>
    <2>1. OwnerPosition(i) /\ (pc[i] \in {"spawn", "wait"} => Stage(i) \in Stages)
      BY StageType DEF Ownership, TypeOK, InStage, Inside
    <2>2. CASE Spawn(i)
      <3>1. pc[i] = "spawn" /\ child' = [child EXCEPT ![Stage(i)] = "run"]
        BY <2>2 DEF Spawn
      <3>2. child[Stage(i)] = "none"
        BY <2>1, <3>1 DEF OwnerPosition, Ownership, StageHistory
      <3> QED BY <1>t, <2>2, <3>1, <3>2 DEF Spawn, Exited
    <2>3. CASE Breaks(i)
      BY <1>t, <2>3 DEF Breaks, Exited
    <2> QED BY <1>2, <2>2, <2>3
  <1>3. ASSUME NEW s \in Stages, ChildStep(s) \/ RowTimesOut(s) \/ LeftEnds(s)
        PROVE  /\ \A u \in Stages : child[u] \in Exited => child'[u] = child[u]
               /\ UNCHANGED <<receipt, ladder>>
    <2>1. \A u \in Stages : child'[u] = child[u] \/ child[u] \in {"run", "row"}
      BY <1>3, <1>t, ChildFrame
    <2> QED BY <1>3, <2>1, ChildFrame DEF Exited
  <1>4. CASE LadderWrites
    BY <1>4 DEF LadderWrites
  <1>5. ASSUME NEW i \in Invocations,
               \/ Start(i) \/ Choose(i) \/ Finish(i) \/ LaunchVerified(i) \/ Reuse(i) \/ NoReceipt(i)
               \/ ChecksHold(i) \/ Drained(i) \/ Acquire(i) \/ Collect(i) \/ Killed(i) \/ ReleaseFails(i)
               \/ LaunchRefused(i) \/ Refuse(i) \/ DirectoryExists(i) \/ AcquireFails(i)
               \/ CheckRaises(i) \/ DrainExpires(i)
        PROVE  UNCHANGED <<receipt, child, ladder>>
    BY <1>5 DEF Start, Choose, Finish, LaunchVerified, Reuse, NoReceipt, ChecksHold, Drained, Acquire, Collect,
                Killed, ReleaseFails, LaunchRefused, Refuse, DirectoryExists, AcquireFails, CheckRaises,
                DrainExpires, stageVars
  <1>6. CASE Edit \/ LaunchDies \/ UNCHANGED vars
    BY <1>6 DEF Edit, LaunchDies, vars, stageVars
  <1> QED BY <1>1, <1>2, <1>3, <1>4, <1>5, <1>6 DEF Next, InvocationStep

(* An invocation leaves a stage behind only when it passed or is skipped.  *)
LEMMA StagesLeftBehind ==
    ASSUME TypeOK, Ownership, [Next]_vars, NEW i \in Invocations
    PROVE  /\ phase'[i] = phase[i]
           /\ at'[i] = at[i] \/ (at'[i] = at[i] + 1 /\ Covered(Stage(i)))
  <1>t. at \in [Invocations -> Nat \ {0}]
    BY DEF TypeOK, InvocationTypes
  <1>1. ASSUME NEW j \in Invocations, Choose(j) \/ Reuse(j) \/ Drained(j)
        PROVE  /\ phase' = phase
               /\ at' = at \/ (at' = [at EXCEPT ![j] = @ + 1] /\ Covered(Stage(j)))
    <2>1. pc[j] = "drain" => receipt[Stage(j)] = "passed"
      BY DEF Ownership, OwnerPosition
    <2> QED BY <1>1, <2>1 DEF Choose, Reuse, Drained, NextStage, SkipsLadder, Covered
  <1>2. ASSUME NEW j \in Invocations,
               \/ Start(j) \/ Finish(j) \/ LaunchVerified(j) \/ NoReceipt(j) \/ ChecksHold(j) \/ Acquire(j)
               \/ MakeDirectory(j) \/ SaveStarted(j) \/ Record(j) \/ Spawn(j) \/ Collect(j) \/ Killed(j)
               \/ Breaks(j) \/ ReleaseFails(j) \/ LaunchRefused(j) \/ Refuse(j) \/ DirectoryExists(j)
               \/ AcquireFails(j) \/ CheckRaises(j) \/ DrainExpires(j)
        PROVE  UNCHANGED <<phase, at>>
    BY <1>2 DEF Start, Finish, LaunchVerified, NoReceipt, ChecksHold, Acquire, MakeDirectory, SaveStarted, Record,
                Spawn, Collect, Killed, Breaks, ReleaseFails, LaunchRefused, Refuse, DirectoryExists,
                AcquireFails, CheckRaises, DrainExpires, Raise
  <1>3. ASSUME \/ \E s \in Stages : ChildStep(s) \/ RowTimesOut(s) \/ LeftEnds(s)
               \/ LadderWrites \/ Edit \/ LaunchDies \/ UNCHANGED vars
        PROVE  UNCHANGED <<phase, at>>
    BY <1>3, ChildFrame DEF LadderWrites, Edit, LaunchDies, vars, invVars
  <1>4. \/ UNCHANGED <<phase, at>>
        \/ \E j \in Invocations :
              /\ phase' = phase
              /\ at' = [at EXCEPT ![j] = @ + 1] /\ Covered(Stage(j))
    BY <1>1, <1>2, <1>3 DEF Next, InvocationStep
  <1> QED BY <1>4, <1>t

(* The ladder is followed, in every plan that has it, by the stage that    *)
(* reads its file.                                                         *)
LEMMA LadderIsReconciled ==
    \A ph \in Phases : \A n \in DOMAIN Plan[ph] :
        Plan[ph][n] = "ladder" =>
            3 \in DOMAIN Plan[ph] /\ Plan[ph][3] = "ladder-reconciled"
  <1>1. Plan["primary"] = <<"smoke-encoding", "primary">>
    BY DEF Plan
  <1>2. Plan["quality"] = <<"text180", "bfcl">>
    BY DEF Plan
  <1>3. Plan["qualification"] = <<"counting", "ladder", "ladder-reconciled", "vision", "text180", "bfcl">>
    BY DEF Plan
  <1>4. \A n \in DOMAIN Plan["primary"] : Plan["primary"][n] # "ladder"
    BY <1>1
  <1>5. \A n \in DOMAIN Plan["quality"] : Plan["quality"][n] # "ladder"
    BY <1>2
  <1>6. 3 \in DOMAIN Plan["qualification"] /\ Plan["qualification"][3] = "ladder-reconciled"
    BY <1>3
  <1> QED BY <1>4, <1>5, <1>6, PhasesAssumption

LEMMA FinishedPlanPassed ==
    ASSUME TypeOK, Ownership, Progress, NEW i \in Invocations, Finish(i),
           NEW n \in DOMAIN Plan[phase[i]]
    PROVE  LET s == Plan[phase[i]][n] IN
           receipt[s] = "passed" \/ (s = "ladder" /\ ladder = "whole")
  <1>1. /\ phase[i] \in Phases
        /\ Plan[phase[i]] \in Seq(Stages)
        /\ at[i] = Len(Plan[phase[i]]) + 1
    BY PlanType DEF Finish, TypeOK, InvocationTypes
  <1>2. \A k \in DOMAIN Plan[phase[i]] : k < at[i]
    BY <1>1
  <1>3. \A k \in DOMAIN Plan[phase[i]] : Covered(Plan[phase[i]][k])
    BY <1>2 DEF Progress
  <1>4. CASE Plan[phase[i]][n] # "ladder"
    BY <1>3, <1>4 DEF Covered
  <1>5. CASE Plan[phase[i]][n] = "ladder"
    <2>1. Covered("ladder-reconciled")
      BY <1>1, <1>3, <1>5, LadderIsReconciled
    <2>2. receipt["ladder-reconciled"] = "passed"
      BY <2>1 DEF Covered
    <2>3. "ladder-reconciled" \in Stages
      BY DEF Stages
    <2>4. child["ladder-reconciled"] = "pass"
      BY <2>2, <2>3 DEF Ownership, StageHistory, Progress
    <2> QED BY <1>5, <2>4 DEF Progress
  <1> QED BY <1>4, <1>5

LEMMA ProgressStep ==
    ASSUME TypeOK, Ownership, Progress, [Next]_vars
    PROVE  Progress'
  <1>t. /\ phase \in [Invocations -> Phases] /\ at \in [Invocations -> Nat \ {0}]
        /\ \A ph \in Phases : Plan[ph] \in Seq(Stages)
    BY PlanType DEF TypeOK, InvocationTypes
  <1>stable. /\ \A s \in Stages : receipt[s] = "passed" => receipt'[s] = "passed"
             /\ \A s \in Stages : child[s] \in Exited => child'[s] = child[s]
             /\ ladder' = ladder \/ ladder # "whole"
             /\ ladder # "none" => ladder' # "none"
    BY NothingIsTakenBack
  <1>1. ASSUME NEW i \in Invocations, NEW n \in DOMAIN Plan[phase'[i]], n < at'[i]
        PROVE  \/ receipt'[Plan[phase'[i]][n]] = "passed"
               \/ (Plan[phase'[i]][n] = "ladder" /\ ladder' # "none")
    <2>1. /\ phase'[i] = phase[i]
          /\ at'[i] = at[i] \/ (at'[i] = at[i] + 1 /\ Covered(Stage(i)))
      BY StagesLeftBehind
    <2>2. n \in Nat /\ Plan[phase[i]][n] \in Stages /\ at[i] \in Nat
      BY <1>1, <1>t, <2>1
    <2>3. Covered(Plan[phase[i]][n])
      <3>1. CASE n < at[i]
        BY <1>1, <2>1, <3>1 DEF Progress
      <3>2. CASE ~(n < at[i])
        <4>1. n = at[i] /\ Covered(Stage(i))
          BY <1>1, <2>1, <2>2, <3>2
        <4> QED BY <4>1 DEF Stage
      <3> QED BY <3>1, <3>2
    <2> QED BY <1>stable, <2>1, <2>2, <2>3 DEF Covered
  <1>2. ASSUME NEW s \in Stages
        PROVE  /\ child'[s] = "ungraded" => s = "text180"
               /\ s = "ladder-reconciled" /\ child'[s] = "pass" => ladder' = "whole"
    <2>t. child \in [Stages -> {"none", "run", "row"} \cup Exited]
      BY DEF TypeOK, StageTypes
    <2>1. CASE child'[s] = child[s]
      BY <1>stable, <2>1 DEF Progress
    <2>2. CASE \E u \in Stages : ChildExits(u)
      BY <1>2, <2>t, <2>1, <2>2 DEF ChildExits, Passes, Exited, stageVars
    <2>3. ASSUME NEW i \in Invocations,
                 Start(i) \/ InvocationStep(i) \/ ReleaseFails(i) \/ Killed(i) \/ Breaks(i)
          PROVE  child'[s] = child[s] \/ child'[s] \in {"run", "fail"}
      BY <2>3, <2>t DEF Start, InvocationStep, ReleaseFails, Killed, Breaks, Choose, Finish, LaunchVerified,
           LaunchRefused, Reuse, Refuse, NoReceipt, MakeDirectory, DirectoryExists, SaveStarted, Acquire,
           AcquireFails, Spawn, Collect, Record, ChecksHold, CheckRaises, Drained, DrainExpires, stageVars
    <2>4. ASSUME NEW u \in Stages,
                 \/ RowBegins(u) \/ RowRefused(u) \/ RequestBegins(u) \/ RowEnds(u)
                 \/ RowTimesOut(u) \/ LeftEnds(u)
          PROVE  child'[s] = child[s] \/ child'[s] \in {"row", "run", "fail"}
      BY <2>4, <2>t DEF RowBegins, RowRefused, RequestBegins, RowEnds, RowTimesOut, LeftEnds, stageVars
    <2>5. CASE LadderWrites \/ Edit \/ LaunchDies \/ UNCHANGED vars
      BY <2>1, <2>5 DEF LadderWrites, Edit, LaunchDies, vars, stageVars
    <2> QED BY <2>1, <2>2, <2>3, <2>4, <2>5 DEF Next, ChildStep
  <1>3. DonePhasePassed'
    <2>d. \A ph \in done : \A n \in DOMAIN Plan[ph] : Plan[ph][n] \in Stages
      BY <1>t DEF TypeOK, InvocationTypes
    <2>old. ASSUME NEW ph \in done, NEW n \in DOMAIN Plan[ph]
            PROVE  receipt'[Plan[ph][n]] = "passed" \/ (Plan[ph][n] = "ladder" /\ ladder' = "whole")
      BY <1>stable, <2>d DEF Progress, DonePhasePassed
    <2>1. CASE \E i \in Invocations : Finish(i)
      <3>1. PICK i \in Invocations : Finish(i)
        BY <2>1
      <3>2. done' = done \cup {phase[i]} /\ receipt' = receipt /\ ladder' = ladder
        BY <3>1 DEF Finish, stageVars
      <3> QED BY <2>old, <3>1, <3>2, FinishedPlanPassed DEF DonePhasePassed
    <2>2. CASE ~\E i \in Invocations : Finish(i)
      <3>1. ASSUME NEW i \in Invocations,
                   Start(i) \/ InvocationStep(i) \/ ReleaseFails(i) \/ Killed(i) \/ Breaks(i)
            PROVE  done' = done
        BY <2>2, <3>1 DEF Start, InvocationStep, ReleaseFails, Killed, Breaks, Choose, LaunchVerified,
           LaunchRefused, Reuse, Refuse, NoReceipt, MakeDirectory, DirectoryExists, SaveStarted, Acquire,
           AcquireFails, Spawn, Collect, Record, ChecksHold, CheckRaises, Drained, DrainExpires, Raise
      <3>2. ASSUME \/ \E u \in Stages : ChildStep(u) \/ RowTimesOut(u) \/ LeftEnds(u)
                   \/ LadderWrites \/ Edit \/ LaunchDies \/ UNCHANGED vars
            PROVE  done' = done
        BY <3>2, ChildFrame DEF LadderWrites, Edit, LaunchDies, vars, invVars
      <3>3. done' = done
        BY <3>1, <3>2 DEF Next
      <3> QED BY <2>old, <3>3 DEF DonePhasePassed
    <2> QED BY <2>1, <2>2
  <1>4. "ladder-reconciled" \in Stages
    BY DEF Stages
  <1> QED BY <1>1, <1>2, <1>3, <1>4 DEF Progress, Covered

LEMMA ProgressInvariant == Spec => []Progress
  <1>1. Init => Progress
    <2> SUFFICES ASSUME Init PROVE Progress
      OBVIOUS
    <2>1. \A i \in Invocations : \A n \in DOMAIN Plan[phase[i]] : n \in Nat \ {0} /\ at[i] = 1
      BY PlanType DEF Init
    <2>2. "ladder-reconciled" \in Stages
      BY DEF Stages
    <2> QED BY <2>1, <2>2 DEF Init, Progress, DonePhasePassed
  <1>2. TypeOK /\ Ownership /\ Progress /\ [Next]_vars => Progress'
    BY ProgressStep
  <1> QED BY <1>1, <1>2, OwnershipInvariant, PTL DEF Spec

(* A phase is only marked as done when each of its stages passed, and a    *)
(* skipped or failed ladder left a whole file.                             *)
THEOREM DonePhasesPassed == Spec => []DonePhasePassed
  <1>1. Progress => DonePhasePassed
    BY DEF Progress
  <1> QED BY <1>1, ProgressInvariant, PTL

-----------------------------------------------------------------------------
(* A request stays on the server only when it was there with its child.    *)
LEMMA LeftComesFromAsking ==
    ASSUME [Next]_vars
    PROVE  left' \subseteq left \cup Asking
  <1>1. ASSUME NEW s \in Stages, ChildStep(s) \/ RowTimesOut(s) \/ LeftEnds(s)
        PROVE  left' \subseteq left \cup Asking
    BY <1>1 DEF ChildStep, RowBegins, RowRefused, RequestBegins, RowEnds, RowTimesOut, LeftEnds, ChildExits,
                serverVars, Asking
  <1>2. CASE \E i \in Invocations : Breaks(i)
    BY <1>2 DEF Breaks
  <1>3. CASE \E i \in Invocations : Start(i) \/ InvocationStep(i) \/ ReleaseFails(i) \/ Killed(i)
    <2>1. UNCHANGED left
      BY <1>3 DEF Start, InvocationStep, ReleaseFails, Killed, Choose, Finish, LaunchVerified,
           LaunchRefused, Reuse, Refuse, NoReceipt, MakeDirectory, DirectoryExists, SaveStarted, Acquire,
           AcquireFails, Spawn, Collect, Record, ChecksHold, CheckRaises, Drained, DrainExpires, serverVars
    <2> QED BY <2>1
  <1>4. CASE LadderWrites \/ Edit \/ LaunchDies \/ UNCHANGED vars
    BY <1>4 DEF LadderWrites, Edit, LaunchDies, vars, serverVars
  <1> QED BY <1>1, <1>2, <1>3, <1>4 DEF Next

(* An invocation comes past its look at the server only by way of it.      *)
LEMMA EntersQuietly ==
    ASSUME TypeOK, [Next]_vars, NEW i \in Invocations, pc'[i] \in InStage \ {"verify"}
    PROVE  \/ LaunchVerified(i)
           \/ pc[i] \in InStage \ {"verify"} /\ at'[i] = at[i]
  <1>t. /\ pc \in [Invocations -> {"ready", "choose", "over"} \cup InStage]
        /\ at \in [Invocations -> Nat \ {0}]
    BY DEF TypeOK, InvocationTypes
  <1>in. {"look", "mkdir", "save", "acquire", "spawn", "wait", "record", "check", "drain"} = InStage \ {"verify"}
    BY DEF InStage, Inside
  <1>1. ASSUME NEW j \in Invocations,
               \E p : GoTo(j, p), at' = at \/ at' = [at EXCEPT ![j] = @ + 1], j # i
        PROVE  pc'[i] = pc[i] /\ at'[i] = at[i]
    BY <1>1, <1>t DEF GoTo
  <1>2. ASSUME NEW j \in Invocations,
               \/ Start(j) \/ Choose(j) \/ Finish(j) \/ Reuse(j) \/ Drained(j) \/ Killed(j) \/ Breaks(j)
               \/ ReleaseFails(j) \/ LaunchRefused(j) \/ Refuse(j) \/ DirectoryExists(j)
               \/ AcquireFails(j) \/ CheckRaises(j) \/ DrainExpires(j)
        PROVE  pc[i] \in InStage \ {"verify"} /\ at'[i] = at[i]
    <2>1. /\ \E p \in {"choose", "verify", "over"} : GoTo(j, p)
          /\ at' = at \/ at' = [at EXCEPT ![j] = @ + 1]
      BY <1>2 DEF Start, Choose, Finish, Reuse, Drained, Killed, Breaks, ReleaseFails, LaunchRefused, Refuse,
                  DirectoryExists, AcquireFails, CheckRaises, DrainExpires, Raise, NextStage
    <2>2. j # i
      BY <1>in, <1>t, <2>1 DEF GoTo
    <2> QED BY <1>1, <2>1, <2>2
  <1>3. ASSUME NEW j \in Invocations,
               \/ NoReceipt(j) \/ ChecksHold(j) \/ Acquire(j) \/ MakeDirectory(j) \/ SaveStarted(j)
               \/ Record(j) \/ Spawn(j) \/ Collect(j)
        PROVE  pc[i] \in InStage \ {"verify"} /\ at'[i] = at[i]
    <2>1. (\E p : GoTo(j, p)) /\ at' = at /\ pc[j] \in InStage \ {"verify"}
      BY <1>3, <1>in DEF NoReceipt, ChecksHold, Acquire, MakeDirectory, SaveStarted, Record, Spawn, Collect
    <2> QED BY <1>1, <2>1
  <1>4. ASSUME NEW j \in Invocations, LaunchVerified(j), j # i
        PROVE  pc[i] \in InStage \ {"verify"} /\ at'[i] = at[i]
    BY <1>1, <1>4 DEF LaunchVerified
  <1>5. CASE \/ \E s \in Stages : ChildStep(s) \/ RowTimesOut(s) \/ LeftEnds(s)
             \/ LadderWrites \/ Edit \/ LaunchDies \/ UNCHANGED vars
    <2>1. UNCHANGED <<pc, at>>
      BY <1>5, ChildFrame DEF LadderWrites, Edit, LaunchDies, vars, invVars
    <2> QED BY <2>1
  <1> QED BY <1>2, <1>3, <1>4, <1>5 DEF Next, InvocationStep

(* While an invocation works on a stage the server has done with those     *)
(* before it, requests that nobody waits for included: it saw the server   *)
(* idle, and what passed asks no more.                                     *)
THEOREM EarlierStagesStayQuiet == Spec => []EarlierStagesAreQuiet
  <1>1. Init => EarlierStagesAreQuiet
    BY DEF Init, EarlierStagesAreQuiet, InStage, Inside
  <1>2. TypeOK /\ Ownership /\ Progress /\ EarlierStagesAreQuiet /\ [Next]_vars => EarlierStagesAreQuiet'
    <2> SUFFICES ASSUME TypeOK, Ownership, Progress, EarlierStagesAreQuiet, [Next]_vars,
                        NEW i \in Invocations, pc'[i] \in InStage \ {"verify"},
                        NEW n \in DOMAIN Plan[phase'[i]], n < at'[i], Plan[phase'[i]][n] # "ladder"
                 PROVE  Plan[phase'[i]][n] \notin left' \cup Asking'
      BY DEF EarlierStagesAreQuiet, InStage, Inside
    <2>1. phase'[i] = phase[i] /\ left' \subseteq left \cup Asking
      BY StagesLeftBehind, LeftComesFromAsking
    <2>2. CASE LaunchVerified(i)
      <3>1. left' = {} /\ Asking' = {}
        BY <2>2 DEF LaunchVerified, Idle, Asking, stageVars, serverVars
      <3> QED BY <3>1
    <2>3. CASE pc[i] \in InStage \ {"verify"} /\ at'[i] = at[i]
      <3>1. PICK s \in Stages : s = Plan[phase[i]][n]
        BY <2>1, PlanType DEF TypeOK, InvocationTypes
      <3>2. receipt[s] = "passed" /\ s \notin left \cup Asking
        BY <2>1, <2>3, <3>1 DEF Progress, Covered, EarlierStagesAreQuiet
      <3>3. child[s] \in Exited
        BY <3>2 DEF Ownership, StageHistory, Exited
      <3>4. child'[s] = child[s]
        BY <3>3, NothingIsTakenBack
      <3>5. s \notin Asking'
        BY <3>3, <3>4 DEF Asking, Exited
      <3> QED BY <2>1, <3>1, <3>2, <3>5
    <2> QED BY <2>2, <2>3, EntersQuietly
  <1> QED BY <1>1, <1>2, OwnershipInvariant, ProgressInvariant, PTL DEF Spec

(* Stages run once and ask alone, what came before them is over, their     *)
(* receipts tell what they did, and none waits for a lease of its own.     *)
THEOREM StagesAreSound == Spec => []StageInv
  <1>1. /\ TypeOK /\ StageRunsOnce /\ ReceiptTellsTheRun
        /\ OneStageAsks /\ EarlierStagesAreQuiet /\ RowsMeetNoParent
        <=> StageInv
    BY DEF StageInv
  <1> QED BY <1>1, TypeCorrect, StagesRunOnce, ReceiptsAreTrue, StagesAskAlone, EarlierStagesStayQuiet,
             NoLeaseIsNested, PTL

-----------------------------------------------------------------------------
(* The invocations keep the promise of OneShotStages.  Its view of them:   *)
Work == [s \in Stages |-> Working(child[s])]
Verdicts == [s \in Stages |-> Judged(receipt[s])]
Serving == Asking

LEMMA PromiseUnfolds ==
    /\ \A s \in Stages : Work[s] = Working(child[s]) /\ Verdicts[s] = Judged(receipt[s])
    /\ UNCHANGED <<child, receipt, ladder, done>> => UNCHANGED OneShot!vars
    /\ OneShot!vars = <<Work, Verdicts, Serving, ladder, done>>
  BY DEF Work, Verdicts, Serving, OneShot!vars, Asking

LEMMA WorkingIs ==
    /\ Working("none") = "none"
    /\ Working("run") = "busy" /\ Working("row") = "busy"
    /\ Working("pass") = "good" /\ Working("ungraded") = "good"
    /\ Working("fail") = "bad"
  BY DEF Working

(* One child changes: so does its work, and whether it waits.              *)
LEMMA ChildIsWork ==
    ASSUME TypeOK, NEW s \in Stages, NEW c, child' = [child EXCEPT ![s] = c]
    PROVE  /\ Work' = [Work EXCEPT ![s] = Working(c)]
           /\ Serving' = IF c = "row" THEN Serving \cup {s} ELSE Serving \ {s}
  <1>1. child'[s] = c /\ \A t \in Stages \ {s} : child'[t] = child[t]
    BY DEF TypeOK, StageTypes
  <1>2. Work' = [Work EXCEPT ![s] = Working(c)]
    <2>1. Work' = [t \in Stages |-> Working(child'[t])]
      BY DEF Work, Working
    <2>2. [Work EXCEPT ![s] = Working(c)] = [t \in Stages |-> IF t = s THEN Working(c) ELSE Working(child[t])]
      BY DEF Work
    <2>3. \A t \in Stages : Working(child'[t]) = IF t = s THEN Working(c) ELSE Working(child[t])
      BY <1>1
    <2> QED BY <2>1, <2>2, <2>3
  <1>3. Serving' = IF c = "row" THEN Serving \cup {s} ELSE Serving \ {s}
    BY <1>1 DEF Serving, Asking
  <1> QED BY <1>2, <1>3

LEMMA ChildRuns ==
    ASSUME TypeOK, NEW s \in Stages, child' = [child EXCEPT ![s] = "run"]
    PROVE  Work' = [Work EXCEPT ![s] = "busy"] /\ Serving' = Serving \ {s}
  <1>1. /\ Work' = [Work EXCEPT ![s] = Working("run")]
        /\ Serving' = IF "run" = "row" THEN Serving \cup {s} ELSE Serving \ {s}
    BY ChildIsWork
  <1>2. Working("run") = "busy" /\ "run" # "row"
    BY WorkingIs
  <1> QED BY <1>1, <1>2

(* One receipt changes.                                                    *)
LEMMA ReceiptIsVerdict ==
    ASSUME TypeOK, NEW s \in Stages, NEW r, receipt' = [receipt EXCEPT ![s] = r]
    PROVE  Verdicts' = [Verdicts EXCEPT ![s] = Judged(r)]
  <1>1. receipt'[s] = r /\ \A t \in Stages \ {s} : receipt'[t] = receipt[t]
    BY DEF TypeOK, StageTypes
  <1>2. Verdicts' = [t \in Stages |-> Judged(receipt'[t])]
    BY DEF Verdicts, Judged
  <1>3. [Verdicts EXCEPT ![s] = Judged(r)] = [t \in Stages |-> IF t = s THEN Judged(r) ELSE Judged(receipt[t])]
    BY DEF Verdicts
  <1>4. \A t \in Stages : Judged(receipt'[t]) = IF t = s THEN Judged(r) ELSE Judged(receipt[t])
    BY <1>1
  <1> QED BY <1>2, <1>3, <1>4

(* Nothing waits for the server when a row or a request begins.            *)
LEMMA ServerIsFree ==
    ASSUME TypeOK, Leases, NEW s \in Stages, RowBegins(s) \/ RequestBegins(s)
    PROVE  Serving = {}
  <1>1. SUFFICES ASSUME NEW t \in Stages, child[t] = "row" PROVE FALSE
    BY DEF Serving, Asking
  <1>2. t \in RowStages \cup DirectStages /\ Alive(t)
    BY <1>1 DEF Leases, Asking, Alive
  <1>3. CASE RowBegins(s)
    BY <1>1, <1>2, <1>3, NamesDiffer DEF RowBegins, Leases, LeasedTo
  <1>4. CASE RequestBegins(s)
    <2>1. s \in DirectStages /\ child[s] = "run" /\ Alive(s)
      BY <1>4 DEF RequestBegins, Alive
    <2>2. t \notin DirectStages
      BY <1>1, <1>2, <2>1 DEF Leases
    <2> QED BY <1>1, <1>2, <2>1, <2>2, NamesDiffer DEF Leases, LeasedTo
  <1> QED BY <1>3, <1>4

(* A child is started in its turn.                                         *)
LEMMA SpawnIsBegin ==
    ASSUME TypeOK, Ownership, Progress, NEW i \in Invocations, Spawn(i)
    PROVE  OneShot!Begin(Stage(i))
  <1>1. Stage(i) \in Stages /\ pc[i] = "spawn"
    BY StageType DEF Spawn, TypeOK, InStage, Inside
  <1>2. child[Stage(i)] = "none"
    BY <1>1 DEF Ownership, OwnerPosition, StageHistory
  <1>3. OneShot!InTurn(Stage(i))
    <2>1. at[i] \in DOMAIN Plan[phase[i]] /\ phase[i] \in Phases /\ Plan[phase[i]] \in Seq(Stages)
      BY <1>1, PlanType DEF TypeOK, InvocationTypes, InStage, Inside
    <2>2. ASSUME NEW m \in DOMAIN Plan[phase[i]], m < at[i]
          PROVE  OneShot!Behind(Plan[phase[i]][m])
      <3>1. Covered(Plan[phase[i]][m]) /\ Plan[phase[i]][m] \in Stages
        BY <2>1, <2>2 DEF Progress
      <3> QED BY <3>1 DEF Covered, OneShot!Behind, Judged
    <2> QED BY <2>1, <2>2 DEF OneShot!InTurn, Stage
  <1>4. Work' = [Work EXCEPT ![Stage(i)] = "busy"] /\ Serving' = Serving \ {Stage(i)}
    <2>1. child' = [child EXCEPT ![Stage(i)] = "run"]
      BY DEF Spawn
    <2>2. PICK s \in Stages : s = Stage(i)
      BY <1>1
    <2>3. Work' = [Work EXCEPT ![s] = "busy"] /\ Serving' = Serving \ {s}
      BY <2>1, <2>2, ChildRuns
    <2> QED BY <2>2, <2>3
  <1>5. Serving' = Serving
    BY <1>2, <1>4 DEF Serving, Asking
  <1>6. Work[Stage(i)] = "none"
    BY <1>1, <1>2, WorkingIs DEF Work
  <1>7. UNCHANGED <<Verdicts, ladder, done>>
    BY DEF Spawn, Verdicts
  <1> QED BY <1>3, <1>4, <1>5, <1>6, <1>7 DEF OneShot!Begin, Work, Verdicts, Serving

(* A child that worked ends.                                               *)
LEMMA ChildIsEnd ==
    ASSUME TypeOK, NEW s \in Stages, child[s] \in {"run", "row"},
           NEW c \in Exited, child' = [child EXCEPT ![s] = c],
           c # "fail" /\ s \in {"ladder", "ladder-reconciled"} => ladder = "whole",
           UNCHANGED <<receipt, ladder, done>>
    PROVE  \E how \in {"good", "bad"} : OneShot!End(s, how)
  <1> DEFINE how == Working(c)
  <1>1. how \in {"good", "bad"} /\ (how = "good" => c # "fail")
    BY WorkingIs DEF Exited
  <1>2. Work' = [Work EXCEPT ![s] = how] /\ Serving' = Serving \ {s}
    BY ChildIsWork DEF Exited
  <1>3. Work[s] = "busy"
    BY WorkingIs DEF Work
  <1>4. UNCHANGED <<Verdicts, ladder, done>>
    BY DEF Verdicts
  <1> HIDE DEF how
  <1>5. OneShot!End(s, how)
    BY <1>1, <1>2, <1>3, <1>4 DEF OneShot!End, Work, Verdicts, Serving
  <1> QED BY <1>1, <1>5

(* What an invocation records is its child's own end.                      *)
LEMMA RecordIsJudge ==
    ASSUME TypeOK, Ownership, NEW i \in Invocations, Record(i)
    PROVE  OneShot!Judge(Stage(i))
  <1>1. Stage(i) \in Stages /\ pc[i] = "record"
    BY StageType DEF Record, TypeOK, InStage, Inside
  <1>2. receipt[Stage(i)] = "started" /\ child[Stage(i)] \in Exited
    BY <1>1 DEF Ownership, OwnerPosition
  <1>3. Verdicts[Stage(i)] = "none"
    BY <1>1, <1>2 DEF Verdicts, Judged
  <1>4. /\ Work[Stage(i)] \in {"good", "bad"}
        /\ child[Stage(i)] = "fail" <=> Work[Stage(i)] = "bad"
    BY <1>1, <1>2, WorkingIs DEF Work, Exited
  <1>5. Verdicts' = [Verdicts EXCEPT ![Stage(i)] = IF Work[Stage(i)] = "good" THEN "passed" ELSE "failed"]
    <2>1. receipt' = [receipt EXCEPT ![Stage(i)] = IF Work[Stage(i)] = "good" THEN "passed" ELSE "failed"]
      BY <1>4 DEF Record, SetReceipt
    <2>2. Judged("passed") = "passed" /\ Judged("failed") = "failed"
      BY DEF Judged
    <2> QED BY <1>1, <2>1, <2>2, ReceiptIsVerdict
  <1>6. UNCHANGED <<Work, Serving, ladder, done>>
    BY DEF Record, Work, Serving, Asking
  <1> QED BY <1>3, <1>4, <1>5, <1>6 DEF OneShot!Judge, Work, Verdicts, Serving

(* A directory or a receipt of a start is no verdict.                      *)
LEMMA PreparingIsSilent ==
    ASSUME TypeOK, Ownership, NEW i \in Invocations, MakeDirectory(i) \/ SaveStarted(i)
    PROVE  UNCHANGED OneShot!vars
  <1>1. Stage(i) \in Stages /\ receipt[Stage(i)] \in {"none", "dir"}
    BY StageType DEF MakeDirectory, SaveStarted, TypeOK, InStage, Inside, Ownership, OwnerPosition
  <1>2. PICK r \in {"dir", "started"} : receipt' = [receipt EXCEPT ![Stage(i)] = r]
    BY DEF MakeDirectory, SaveStarted, SetReceipt
  <1>3. Verdicts' = [Verdicts EXCEPT ![Stage(i)] = Judged(r)]
    BY <1>1, <1>2, ReceiptIsVerdict
  <1>4. Judged(r) = "none" /\ Verdicts[Stage(i)] = "none" /\ Verdicts = [s \in Stages |-> Verdicts[s]]
    BY <1>1 DEF Judged, Verdicts
  <1>5. Verdicts' = Verdicts
    BY <1>1, <1>3, <1>4
  <1>6. UNCHANGED <<Work, Serving, ladder, done>>
    BY DEF MakeDirectory, SaveStarted, Work, Serving, Asking
  <1> QED BY <1>5, <1>6 DEF OneShot!vars, Work, Verdicts, Serving

LEMMA FinishIsMark ==
    ASSUME TypeOK, Ownership, Progress, NEW i \in Invocations, Finish(i)
    PROVE  phase[i] \in Phases /\ OneShot!Mark(phase[i])
  <1>1. phase[i] \in Phases /\ Plan[phase[i]] \in Seq(Stages)
    BY PlanType DEF TypeOK, InvocationTypes
  <1>2. ASSUME NEW n \in DOMAIN Plan[phase[i]]
        PROVE  OneShot!Sound(Plan[phase[i]][n])
    <2>1. Plan[phase[i]][n] \in Stages
      BY <1>1
    <2> QED BY <2>1, FinishedPlanPassed DEF OneShot!Sound, Judged
  <1>3. done' = done \cup {phase[i]} /\ UNCHANGED <<child, receipt, ladder>>
    BY DEF Finish, stageVars
  <1> QED BY <1>1, <1>2, <1>3 DEF OneShot!Mark, Asking

LEMMA InvocationKeepsPromise ==
    ASSUME TypeOK, Ownership, Progress, NEW i \in Invocations,
           Start(i) \/ InvocationStep(i) \/ ReleaseFails(i) \/ Killed(i) \/ Breaks(i)
    PROVE  [OneShot!Next]_OneShot!vars
  <1>1. CASE Spawn(i)
    <2>1. Stage(i) \in Stages
      BY <1>1, StageType DEF Spawn, TypeOK, InStage, Inside
    <2> QED BY <1>1, <2>1, SpawnIsBegin DEF OneShot!Next
  <1>2. CASE Record(i)
    <2>1. Stage(i) \in Stages
      BY <1>2, StageType DEF Record, TypeOK, InStage, Inside
    <2> QED BY <1>2, <2>1, RecordIsJudge DEF OneShot!Next
  <1>3. CASE Finish(i)
    BY <1>3, FinishIsMark DEF OneShot!Next
  <1>4. CASE MakeDirectory(i) \/ SaveStarted(i)
    BY <1>4, PreparingIsSilent
  <1>5. CASE Breaks(i)
    <2>1. UNCHANGED <<receipt, ladder, done>>
      BY <1>5 DEF Breaks, Raise
    <2>2. CASE UNCHANGED child
      BY <2>1, <2>2, PromiseUnfolds
    <2>3. CASE /\ pc[i] = "wait" /\ child[Stage(i)] \in {"run", "row"}
               /\ child' = [child EXCEPT ![Stage(i)] = "fail"]
      <3>1. Stage(i) \in Stages
        BY <2>3, StageType DEF TypeOK, InStage, Inside
      <3> QED BY <2>1, <2>3, <3>1, ChildIsEnd DEF Exited, OneShot!Next
    <2> QED BY <1>5, <2>2, <2>3 DEF Breaks
  <1>6. CASE \/ Start(i) \/ Choose(i) \/ LaunchVerified(i) \/ Reuse(i) \/ NoReceipt(i)
             \/ ChecksHold(i) \/ Drained(i) \/ Acquire(i) \/ Collect(i) \/ Killed(i) \/ ReleaseFails(i)
             \/ LaunchRefused(i) \/ Refuse(i) \/ DirectoryExists(i) \/ AcquireFails(i)
             \/ CheckRaises(i) \/ DrainExpires(i)
    <2>1. UNCHANGED <<child, receipt, ladder, done>>
      BY <1>6 DEF Start, Choose, LaunchVerified, Reuse, NoReceipt, ChecksHold, Drained, Acquire, Collect,
                  Killed, ReleaseFails, LaunchRefused, Refuse, DirectoryExists, AcquireFails, CheckRaises,
                  DrainExpires, Raise, stageVars
    <2> QED BY <2>1, PromiseUnfolds
  <1> QED BY <1>1, <1>2, <1>3, <1>4, <1>5, <1>6 DEF InvocationStep

LEMMA ChildKeepsPromise ==
    ASSUME TypeOK, Leases, NEW s \in Stages, ChildStep(s) \/ RowTimesOut(s) \/ LeftEnds(s)
    PROVE  [OneShot!Next]_OneShot!vars
  <1>t. UNCHANGED <<receipt, ladder, done>>
    BY ChildFrame
  <1>v. UNCHANGED Verdicts
    BY <1>t DEF Verdicts
  <1>1. CASE RowBegins(s) \/ RequestBegins(s)
    <2>0. child[s] = "run" /\ child' = [child EXCEPT ![s] = "row"]
      BY <1>1 DEF RowBegins, RequestBegins
    <2>1. Serving = {} /\ Work[s] = "busy" /\ Work = [t \in Stages |-> Work[t]]
      BY <1>1, <2>0, ServerIsFree, WorkingIs DEF Work
    <2>2. Work' = [Work EXCEPT ![s] = "busy"] /\ Serving' = Serving \cup {s}
      BY ZenonT(60), <2>0, ChildIsWork, WorkingIs
    <2>3. Work' = Work /\ Serving' = {s}
      BY <2>1, <2>2
    <2>4. OneShot!Enter(s)
      BY <1>t, <1>v, <2>1, <2>3 DEF OneShot!Enter, Work, Verdicts, Serving
    <2> QED BY <2>4 DEF OneShot!Next
  <1>2. CASE child[s] = "row" /\ child' = [child EXCEPT ![s] = "run"]
    <2>1. Work[s] = "busy" /\ Work = [t \in Stages |-> Work[t]]
      BY <1>2, WorkingIs DEF Work
    <2>2. Work' = [Work EXCEPT ![s] = "busy"] /\ Serving' = Serving \ {s}
      BY <1>2, ChildRuns
    <2>3. OneShot!Leave(s)
      BY <1>t, <1>v, <2>1, <2>2 DEF OneShot!Leave, Work, Verdicts, Serving
    <2> QED BY <2>3 DEF OneShot!Next
  <1>3. CASE child[s] \in {"run", "row"} /\ child' = [child EXCEPT ![s] = "fail"]
    BY <1>t, <1>3, ChildIsEnd DEF Exited, OneShot!Next
  <1>4. CASE ChildExits(s)
    <2>1. PICK how \in Exited : Passes(s, how) /\ child' = [child EXCEPT ![s] = how]
      BY <1>4 DEF ChildExits
    <2>2. how # "fail" /\ s \in {"ladder", "ladder-reconciled"} => ladder = "whole"
      BY <2>1 DEF Passes, Exited
    <2> QED BY <1>t, <1>4, <2>1, <2>2, ChildIsEnd DEF ChildExits, OneShot!Next
  <1>5. CASE LeftEnds(s)
    BY <1>5, <1>t, PromiseUnfolds DEF LeftEnds, stageVars
  <1> QED BY <1>1, <1>2, <1>3, <1>4, <1>5 DEF ChildStep, RowRefused, RowEnds, RowTimesOut

(* However many invocations run, overlap, are killed or repeated, and      *)
(* whatever their children do, a stage is worked on once, in the turn of   *)
(* its phase, one stage's work waits for the server at a time, a verdict   *)
(* is what was done, and a phase is marked only for stages that passed.    *)
THEOREM StagesKeepPromise == Spec => StagePromise
  <1>1. Init => OneShot!Init
    <2> SUFFICES ASSUME Init PROVE OneShot!Init
      OBVIOUS
    <2>1. /\ \A s \in Stages : Working(child[s]) = "none" /\ Judged(receipt[s]) = "none"
          /\ Asking = {}
      BY WorkingIs DEF Init, Judged, Asking
    <2> QED BY <2>1 DEF Init, OneShot!Init
  <1>2. TypeOK /\ Ownership /\ Leases /\ Progress /\ [Next]_vars => [OneShot!Next]_OneShot!vars
    <2> SUFFICES ASSUME TypeOK, Ownership, Leases, Progress, [Next]_vars
                 PROVE  [OneShot!Next]_OneShot!vars
      OBVIOUS
    <2>1. CASE \E i \in Invocations :
                  Start(i) \/ InvocationStep(i) \/ ReleaseFails(i) \/ Killed(i) \/ Breaks(i)
      BY <2>1, InvocationKeepsPromise
    <2>2. CASE \E s \in Stages : ChildStep(s) \/ RowTimesOut(s) \/ LeftEnds(s)
      BY <2>2, ChildKeepsPromise
    <2>3. CASE LadderWrites
      <3>1. Working(child["ladder"]) = "busy" /\ "ladder" \in Stages
        BY <2>3, WorkingIs DEF LadderWrites, Stages
      <3>2. OneShot!WriteLadder
        BY <2>3, <3>1 DEF LadderWrites, invVars, OneShot!WriteLadder, Asking
      <3> QED BY <3>2 DEF OneShot!Next
    <2>4. CASE Edit \/ LaunchDies \/ UNCHANGED vars
      BY <2>4, PromiseUnfolds DEF Edit, LaunchDies, vars, invVars, stageVars
    <2> QED BY <2>1, <2>2, <2>3, <2>4 DEF Next
  <1> QED BY <1>1, <1>2, OwnershipInvariant, LeasesInvariant, ProgressInvariant,
             PTL DEF Spec, StagePromise, OneShot!Spec

=============================================================================
