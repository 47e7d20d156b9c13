------------------------ MODULE AdmissionLeaseProofs ------------------------
(***************************************************************************)
(* Machine-checked proofs about AdmissionLease for every number of ranks,  *)
(* controllers and leases, and every bound on the failures.                *)
(***************************************************************************)
EXTENDS AdmissionLease, TLAPS

USE DEF lockVars, fileVars, guardVars, coordVars, serverVars

(***************************************************************************)
(* What the building blocks of the steps do to the types.                  *)
(***************************************************************************)
LEMMA FaultTypes ==
    ASSUME faults \in 0 .. MaxFaults, Fault \/ NoFault
    PROVE  (faults \in 0 .. MaxFaults)'
  BY FaultAssumption DEF Fault, NoFault

LEMMA EnterTypes ==
    ASSUME CoordType, NEW c \in Coords, NEW p \in CoordPC, Enter(c, p),
           lease' = lease, lim' = lim, why' = why
    PROVE  CoordType'
  BY NAssumption DEF CoordType, Enter

LEMMA LeaveTypes ==
    ASSUME CoordType, NEW c \in Coords, NEW p \in CoordPC, Leave(c, p)
    PROVE  CoordType'
  BY NAssumption DEF CoordType, Enter, Leave

LEMMA AdvanceTypes ==
    ASSUME CoordType, NEW c \in Coords, at[c] \in 0 .. N-1, Advance(c),
           NEW m \in BOOLEAN, miss' = miss \/ miss' = [miss EXCEPT ![c] = m]
    PROVE  CoordType'
  BY NAssumption DEF CoordType, Advance

LEMMA CleanupTarget ==
    ASSUME NEW c \in Coords
    PROVE  AfterCleanup(c) \in CoordPC
  BY DEF AfterCleanup, CoordPC

LEMMA WriteTypes ==
    ASSUME FileType, NEW r \in Ranks, NEW v \in Leases \cup {NoLease, Torn}, Write(r, v)
    PROVE  FileType'
  BY DEF FileType, Write

LEMMA FailedWriteTypes ==
    ASSUME FileType, NEW r \in Ranks, NEW v \in Leases \cup {NoLease}, FailedWrite(r, v)
    PROVE  FileType'
  BY DEF FileType, FailedWrite, Write

(***************************************************************************)
(* Types.                                                                  *)
(***************************************************************************)
LEMMA AckRaisesTypes ==
    ASSUME CoordType, LockType, NEW c \in Coords, NEW reason \in {"denied", "error"},
           AckRaises(c, reason)
    PROVE  CoordType' /\ LockType'
<1>1. CASE pc[c] = "ackOn"
  <2>1. Enter(c, "clear") /\ why' = [why EXCEPT ![c] = reason]
        /\ UNCHANGED <<lease, lim, lockVars>>
    BY <1>1 DEF AckRaises
  <2> QED
    BY <2>1, NAssumption DEF CoordType, CoordPC, Enter, LockType
<1>2. CASE pc[c] = "ackOff"
  BY <1>2, LeaveTypes, CleanupTarget DEF AckRaises, KeepLock, LockType
<1> QED
  BY <1>1, <1>2 DEF AckRaises

LEMMA CoordStepTypes ==
    ASSUME TypeOK, NEW c \in Coords, CoordStep(c)
    PROVE  TypeOK'
<1> USE NAssumption, LeaseAssumption DEF TypeOK
<1>1. GuardType'
  <2>1. UNCHANGED guardVars
    BY DEF CoordStep, TakeLock, LockWriteFails, RetryEnds, PreflightRead, PreflightError,
           PreflightDone, WaitRetry, WaitExpires, ActivateWrite, ActivateDone,
           ActivateFails, UndoWrite, UndoDone, AckRead, AckMissed, AckDenied,
           AckReadTimesOut, AckComplete, AckPollAgain, AckExpires, Submit, Decline,
           Finish, GiveUp, ClearWrite, ClearDone, ClearFails, Crash
  <2> QED
    BY <2>1 DEF GuardType
<1>2. at[c] \in 0 .. N /\ lim[c] \in 0 .. N /\ pc[c] \in CoordPC
      /\ lease[c] \in Leases \cup {NoLease}
  BY DEF CoordType
<1>3. at[c] < N => at[c] \in Ranks /\ at[c] \in 0 .. N-1
  BY <1>2 DEF Ranks
<1>4. ASSUME NEW l \in Leases, TakeLock(c, l) PROVE TypeOK'
  BY <1>1, <1>4, FaultTypes DEF TakeLock, Enter, CoordType, CoordPC, LockType, FileType, ServerType
<1>5. ASSUME NEW l \in Leases, LockWriteFails(c, l) PROVE TypeOK'
  BY <1>1, <1>5, FaultTypes, LeaveTypes DEF LockWriteFails, CoordPC, LockType, FileType, ServerType
<1>6. CASE RetryEnds(c)
  BY <1>1, <1>2, <1>3, <1>6, FaultTypes, LeaveTypes
     DEF RetryEnds, CoordPC, LockType, FileType, ServerType
<1>7. CASE PreflightRead(c)
  BY <1>1, <1>2, <1>3, <1>7, FaultTypes, EnterTypes, AdvanceTypes
     DEF PreflightRead, CoordPC, LockType, FileType, ServerType
<1>8. CASE PreflightError(c)
  BY <1>1, <1>2, <1>3, <1>8, FaultTypes, LeaveTypes
     DEF PreflightError, Unlock, CoordPC, LockType, FileType, ServerType
<1>9. CASE PreflightDone(c)
  BY <1>1, <1>2, <1>3, <1>9, FaultTypes, EnterTypes, LeaveTypes
     DEF PreflightDone, Unlock, CoordPC, LockType, FileType, ServerType
<1>10. CASE WaitRetry(c)
  BY <1>1, <1>2, <1>3, <1>10, FaultTypes, EnterTypes
     DEF WaitRetry, CoordPC, LockType, FileType, ServerType
<1>11. CASE WaitExpires(c)
  BY <1>1, <1>2, <1>3, <1>11, FaultTypes, LeaveTypes
     DEF WaitExpires, Unlock, CoordPC, LockType, FileType, ServerType
<1>12. CASE ActivateWrite(c)
  BY <1>1, <1>2, <1>3, <1>12, FaultTypes, AdvanceTypes, WriteTypes
     DEF ActivateWrite, CoordPC, LockType, ServerType
<1>13. CASE ActivateDone(c)
  BY <1>1, <1>2, <1>3, <1>13, FaultTypes, EnterTypes
     DEF ActivateDone, CoordPC, LockType, FileType, ServerType
<1>14. CASE ActivateFails(c)
  BY <1>1, <1>2, <1>3, <1>14, FaultTypes, FailedWriteTypes
     DEF ActivateFails, Enter, CoordType, CoordPC, LockType, ServerType
<1>15. CASE UndoWrite(c)
  BY <1>1, <1>2, <1>3, <1>15, FaultTypes, AdvanceTypes, WriteTypes, FailedWriteTypes
     DEF UndoWrite, CoordPC, LockType, ServerType
<1>16. CASE UndoDone(c)
  BY <1>1, <1>2, <1>3, <1>16, FaultTypes, LeaveTypes
     DEF UndoDone, Unlock, CoordPC, LockType, FileType, ServerType
<1>17. CASE AckRead(c)
  BY <1>1, <1>2, <1>3, <1>17, FaultTypes, AdvanceTypes
     DEF AckRead, CoordPC, LockType, FileType, ServerType
<1>18. CASE AckMissed(c)
  BY <1>1, <1>2, <1>3, <1>18, FaultTypes, AdvanceTypes
     DEF AckMissed, CoordPC, LockType, FileType, ServerType
<1>19. CASE AckDenied(c)
  BY <1>1, <1>2, <1>3, <1>19, FaultTypes, AckRaisesTypes
     DEF AckDenied, CoordPC, LockType, FileType, ServerType
<1>20. CASE AckReadTimesOut(c)
  BY <1>1, <1>2, <1>3, <1>20, FaultTypes, AckRaisesTypes
     DEF AckReadTimesOut, CoordPC, LockType, FileType, ServerType
<1>21. CASE AckComplete(c)
  BY <1>1, <1>2, <1>3, <1>21, FaultTypes, EnterTypes, LeaveTypes, CleanupTarget
     DEF AckComplete, Unlock, CoordPC, LockType, FileType, ServerType
<1>22. CASE AckPollAgain(c)
  BY <1>1, <1>2, <1>3, <1>22, FaultTypes, EnterTypes
     DEF AckPollAgain, CoordPC, LockType, FileType, ServerType
<1>23. CASE AckExpires(c)
  BY <1>1, <1>2, <1>3, <1>23, FaultTypes, AckRaisesTypes
     DEF AckExpires, CoordPC, LockType, FileType, ServerType
<1>24. CASE Submit(c)
  BY <1>1, <1>2, <1>3, <1>24, FaultTypes, EnterTypes
     DEF Submit, CoordPC, LockType, FileType, ServerType
<1>25. CASE Decline(c)
  BY <1>1, <1>2, <1>3, <1>25, FaultTypes, EnterTypes
     DEF Decline, CoordPC, LockType, FileType, ServerType
<1>26. CASE Finish(c)
  BY <1>1, <1>2, <1>3, <1>26, FaultTypes, EnterTypes
     DEF Finish, CoordPC, LockType, FileType, ServerType
<1>27. CASE GiveUp(c)
  BY <1>1, <1>2, <1>3, <1>27, FaultTypes, EnterTypes
     DEF GiveUp, CoordPC, LockType, FileType, ServerType
<1>28. CASE ClearWrite(c)
  BY <1>1, <1>2, <1>3, <1>28, FaultTypes, AdvanceTypes, WriteTypes
     DEF ClearWrite, CoordPC, LockType, ServerType
<1>29. CASE ClearDone(c)
  BY <1>1, <1>2, <1>3, <1>29, FaultTypes, EnterTypes
     DEF ClearDone, CoordPC, LockType, FileType, ServerType
<1>30. CASE ClearFails(c)
  BY <1>1, <1>2, <1>3, <1>30, FaultTypes, LeaveTypes, CleanupTarget, FailedWriteTypes
     DEF ClearFails, KeepLock, CoordPC, LockType, ServerType
<1>31. CASE Crash(c)
  BY <1>1, <1>2, <1>3, <1>31, FaultTypes, LeaveTypes
     DEF Crash, CoordPC, LockType, FileType, ServerType
<1> QED
  BY <1>4, <1>5, <1>6, <1>7, <1>8, <1>9, <1>10, <1>11, <1>12, <1>13, <1>14, <1>15, <1>16, <1>17, <1>18, <1>19, <1>20, <1>21, <1>22, <1>23, <1>24, <1>25, <1>26, <1>27, <1>28, <1>29, <1>30, <1>31 DEF CoordStep

LEMMA GuardStepTypes ==
    ASSUME TypeOK, NEW r \in Ranks, GuardStep(r)
    PROVE  TypeOK'
<1> USE DEF TypeOK
<1>1. LockType' /\ FileType' /\ CoordType'
  BY DEF GuardStep, GuardRead, GuardPublish, GuardAborts, GuardFails, RowAges, GuardLeaves,
         LockType, FileType, CoordType
<1>2. CASE GuardRead(r)
  BY <1>1, <1>2, FaultTypes DEF GuardRead, FileType, GuardType, ServerType
<1>3. ASSUME NEW v \in {"ADMIT", "DENY", "HARD"}, GuardPublish(r, v) PROVE TypeOK'
  BY <1>1, <1>3, FaultTypes DEF GuardPublish, GuardType, ServerType
<1>4. CASE GuardAborts(r)
  BY <1>1, <1>4, FaultTypes DEF GuardAborts, GuardLeaves, StopModel, GuardType, ServerType
<1>5. CASE GuardFails(r)
  BY <1>1, <1>5, FaultTypes DEF GuardFails, GuardLeaves, StopModel, GuardType, ServerType
<1>6. CASE RowAges(r)
  BY <1>1, <1>6, FaultTypes DEF RowAges, GuardType, ServerType
<1> QED
  BY <1>2, <1>3, <1>4, <1>5, <1>6 DEF GuardStep

LEMMA EnvStepTypes ==
    ASSUME TypeOK, EnvStep
    PROVE  TypeOK'
  BY FaultTypes DEF EnvStep, ServerDone, LateWrite, TypeOK, LockType, FileType, GuardType,
                    CoordType, ServerType

LEMMA StutterTypes ==
    ASSUME TypeOK, UNCHANGED vars
    PROVE  TypeOK'
  BY DEF vars, TypeOK, LockType, FileType, GuardType, CoordType, ServerType

LEMMA InitTypes == Init => TypeOK
  BY NAssumption, LeaseAssumption, FaultAssumption
     DEF Init, TypeOK, LockType, FileType, GuardType, CoordType, ServerType, CoordPC, Ranks

\* Every variable of the protocol keeps its type: in particular no loop over
\* the ranks leaves 0 .. N and the failures never exceed their bound.
THEOREM TypeCorrect == Spec => []TypeOK
<1>1. TypeOK /\ [Next]_vars => TypeOK'
  BY CoordStepTypes, GuardStepTypes, EnvStepTypes, StutterTypes DEF Next
<1> QED
  BY InitTypes, <1>1, PTL DEF Spec

(***************************************************************************)
(* The lease lock.                                                         *)
(***************************************************************************)

\* What a step of coordinator c can do to the lock: take it with a lease never
\* drawn before, keep it, give it up (never while its row is being executed,
\* unless it dies and leaves it behind), or have nothing to do with it.
TakesLock(c) ==
    /\ ~Owning(c) /\ lock = NoLease
    /\ \E l \in Leases \ used :
          /\ lock' = l /\ used' = used \cup {l}
          /\ (pc'[c] = "preflight" /\ lease'[c] = l) \/ pc'[c] = "idle"

KeepsLock(c) ==
    /\ Owning(c) /\ pc'[c] \notin {"idle", "again"}
    /\ lease'[c] = lease[c]
    /\ UNCHANGED lockVars

LeavesCall(c) ==
    /\ Owning(c) /\ pc'[c] \in {"idle", "again"}
    /\ used' = used
    /\ lock' = lock \/ (lock' = NoLease /\ pc[c] # "running")

StaysOut(c) ==
    /\ ~Owning(c) /\ pc'[c] = "idle"
    /\ UNCHANGED lockVars

LockEffect(c) == TakesLock(c) \/ KeepsLock(c) \/ LeavesCall(c) \/ StaysOut(c)

LEMMA CoordLockEffect ==
    ASSUME TypeOK, NEW c \in Coords, CoordStep(c)
    PROVE  LockEffect(c)
<1> USE DEF LockEffect, Owning, TypeOK, CoordType
<1>1. ASSUME NEW l \in Leases, TakeLock(c, l) PROVE TakesLock(c)
  BY <1>1 DEF TakeLock, Enter, TakesLock
<1>2. ASSUME NEW l \in Leases, LockWriteFails(c, l) PROVE TakesLock(c)
  BY <1>2 DEF LockWriteFails, Leave, Enter, TakesLock
<1>3. ASSUME RetryEnds(c) PROVE StaysOut(c)
  BY <1>3 DEF RetryEnds, StaysOut, Leave, Enter
<1>4. ASSUME PreflightError(c) PROVE LeavesCall(c)
  BY <1>4 DEF PreflightError, LeavesCall, Leave, Enter, Unlock
<1>5. ASSUME WaitExpires(c) PROVE LeavesCall(c)
  BY <1>5 DEF WaitExpires, LeavesCall, Leave, Enter, Unlock
<1>6. ASSUME UndoDone(c) PROVE LeavesCall(c)
  BY <1>6 DEF UndoDone, LeavesCall, Leave, Enter, Unlock
<1>7. ASSUME ClearFails(c) PROVE LeavesCall(c)
  BY <1>7 DEF ClearFails, LeavesCall, KeepLock, AfterCleanup, Leave, Enter
<1>8. ASSUME PreflightRead(c) PROVE KeepsLock(c)
  BY <1>8 DEF PreflightRead, KeepsLock, Enter, Advance
<1>9. ASSUME WaitRetry(c) PROVE KeepsLock(c)
  BY <1>9 DEF WaitRetry, KeepsLock, Enter, Advance
<1>10. ASSUME ActivateWrite(c) PROVE KeepsLock(c)
  BY <1>10 DEF ActivateWrite, KeepsLock, Enter, Advance
<1>11. ASSUME ActivateDone(c) PROVE KeepsLock(c)
  BY <1>11 DEF ActivateDone, KeepsLock, Enter, Advance
<1>12. ASSUME ActivateFails(c) PROVE KeepsLock(c)
  BY <1>12 DEF ActivateFails, KeepsLock, Enter, Advance
<1>13. ASSUME UndoWrite(c) PROVE KeepsLock(c)
  BY <1>13 DEF UndoWrite, KeepsLock, Enter, Advance
<1>14. ASSUME AckRead(c) PROVE KeepsLock(c)
  BY <1>14 DEF AckRead, KeepsLock, Enter, Advance
<1>15. ASSUME AckMissed(c) PROVE KeepsLock(c)
  BY <1>15 DEF AckMissed, KeepsLock, Enter, Advance
<1>16. ASSUME AckPollAgain(c) PROVE KeepsLock(c)
  BY <1>16 DEF AckPollAgain, KeepsLock, Enter, Advance
<1>17. ASSUME Submit(c) PROVE KeepsLock(c)
  BY <1>17 DEF Submit, KeepsLock, Enter, Advance
<1>18. ASSUME Decline(c) PROVE KeepsLock(c)
  BY <1>18 DEF Decline, KeepsLock, Enter, Advance
<1>19. ASSUME Finish(c) PROVE KeepsLock(c)
  BY <1>19 DEF Finish, KeepsLock, Enter, Advance
<1>20. ASSUME GiveUp(c) PROVE KeepsLock(c)
  BY <1>20 DEF GiveUp, KeepsLock, Enter, Advance
<1>21. ASSUME ClearWrite(c) PROVE KeepsLock(c)
  BY <1>21 DEF ClearWrite, KeepsLock, Enter, Advance
<1>22. ASSUME ClearDone(c) PROVE KeepsLock(c)
  BY <1>22 DEF ClearDone, KeepsLock, Enter, Advance
<1>23. ASSUME PreflightDone(c) PROVE LockEffect(c)
  BY <1>23 DEF PreflightDone, KeepsLock, LeavesCall, Leave, Enter, Unlock
<1>24. ASSUME AckDenied(c) PROVE LockEffect(c)
  BY <1>24 DEF AckDenied, AckRaises, KeepsLock, LeavesCall, KeepLock, AfterCleanup, Leave, Enter
<1>25. ASSUME AckReadTimesOut(c) PROVE LockEffect(c)
  BY <1>25 DEF AckReadTimesOut, AckRaises, KeepsLock, LeavesCall, KeepLock, AfterCleanup, Leave, Enter
<1>26. ASSUME AckExpires(c) PROVE LockEffect(c)
  BY <1>26 DEF AckExpires, AckRaises, KeepsLock, LeavesCall, KeepLock, AfterCleanup, Leave, Enter
<1>27. ASSUME AckComplete(c) PROVE LockEffect(c)
  BY <1>27 DEF AckComplete, AfterCleanup, KeepsLock, LeavesCall, Leave, Enter, Unlock
<1>28. ASSUME Crash(c) PROVE LockEffect(c)
  BY <1>28 DEF Crash, LeavesCall, StaysOut, Leave, Enter
<1> QED
  BY <1>1, <1>2, <1>3, <1>4, <1>5, <1>6, <1>7, <1>8, <1>9, <1>10, <1>11, <1>12, <1>13, <1>14, <1>15, <1>16, <1>17, <1>18, <1>19, <1>20, <1>21, <1>22, <1>23, <1>24, <1>25, <1>26, <1>27, <1>28 DEF CoordStep

\* A coordinator's step is its own.
LEMMA OthersUnchanged ==
    ASSUME TypeOK, NEW c \in Coords, CoordStep(c), NEW d \in Coords \ {c}
    PROVE  /\ pc'[d] = pc[d] /\ lease'[d] = lease[d] /\ at'[d] = at[d]
           /\ miss'[d] = miss[d] /\ why'[d] = why[d]
<1> USE DEF TypeOK, CoordType
<1>1. ASSUME NEW p, NEW q \in Coords, q = c, Enter(q, p)
      PROVE  pc'[d] = pc[d] /\ at'[d] = at[d] /\ miss'[d] = miss[d]
  BY <1>1 DEF Enter
<1>2. ASSUME NEW p, Leave(c, p)
      PROVE  /\ pc'[d] = pc[d] /\ lease'[d] = lease[d] /\ at'[d] = at[d]
             /\ miss'[d] = miss[d] /\ why'[d] = why[d]
  BY <1>2 DEF Leave, Enter
<1>3. ASSUME NEW l \in Leases, LockWriteFails(c, l)
      PROVE  /\ pc'[d] = pc[d] /\ lease'[d] = lease[d] /\ at'[d] = at[d]
             /\ miss'[d] = miss[d] /\ why'[d] = why[d]
  BY <1>3, <1>2 DEF LockWriteFails
<1>4. ASSUME RetryEnds(c)
      PROVE  /\ pc'[d] = pc[d] /\ lease'[d] = lease[d] /\ at'[d] = at[d]
             /\ miss'[d] = miss[d] /\ why'[d] = why[d]
  BY <1>4, <1>2 DEF RetryEnds
<1>5. ASSUME PreflightError(c)
      PROVE  /\ pc'[d] = pc[d] /\ lease'[d] = lease[d] /\ at'[d] = at[d]
             /\ miss'[d] = miss[d] /\ why'[d] = why[d]
  BY <1>5, <1>2 DEF PreflightError
<1>6. ASSUME WaitExpires(c)
      PROVE  /\ pc'[d] = pc[d] /\ lease'[d] = lease[d] /\ at'[d] = at[d]
             /\ miss'[d] = miss[d] /\ why'[d] = why[d]
  BY <1>6, <1>2 DEF WaitExpires
<1>7. ASSUME UndoDone(c)
      PROVE  /\ pc'[d] = pc[d] /\ lease'[d] = lease[d] /\ at'[d] = at[d]
             /\ miss'[d] = miss[d] /\ why'[d] = why[d]
  BY <1>7, <1>2 DEF UndoDone
<1>8. ASSUME Crash(c)
      PROVE  /\ pc'[d] = pc[d] /\ lease'[d] = lease[d] /\ at'[d] = at[d]
             /\ miss'[d] = miss[d] /\ why'[d] = why[d]
  BY <1>8, <1>2 DEF Crash
<1>9. ASSUME NEW l \in Leases, TakeLock(c, l)
      PROVE  /\ pc'[d] = pc[d] /\ lease'[d] = lease[d] /\ at'[d] = at[d]
             /\ miss'[d] = miss[d] /\ why'[d] = why[d]
  BY <1>9, <1>1 DEF TakeLock
<1>10. ASSUME PreflightRead(c)
      PROVE  /\ pc'[d] = pc[d] /\ lease'[d] = lease[d] /\ at'[d] = at[d]
             /\ miss'[d] = miss[d] /\ why'[d] = why[d]
  BY <1>10, <1>1 DEF PreflightRead, Advance
<1>11. ASSUME PreflightDone(c)
      PROVE  /\ pc'[d] = pc[d] /\ lease'[d] = lease[d] /\ at'[d] = at[d]
             /\ miss'[d] = miss[d] /\ why'[d] = why[d]
  BY <1>11, <1>1, <1>2 DEF PreflightDone
<1>12. ASSUME AckComplete(c)
      PROVE  /\ pc'[d] = pc[d] /\ lease'[d] = lease[d] /\ at'[d] = at[d]
             /\ miss'[d] = miss[d] /\ why'[d] = why[d]
  BY <1>12, <1>1, <1>2 DEF AckComplete
<1>13. ASSUME WaitRetry(c)
      PROVE  /\ pc'[d] = pc[d] /\ lease'[d] = lease[d] /\ at'[d] = at[d]
             /\ miss'[d] = miss[d] /\ why'[d] = why[d]
  BY <1>13, <1>1 DEF WaitRetry
<1>14. ASSUME ActivateDone(c)
      PROVE  /\ pc'[d] = pc[d] /\ lease'[d] = lease[d] /\ at'[d] = at[d]
             /\ miss'[d] = miss[d] /\ why'[d] = why[d]
  BY <1>14, <1>1 DEF ActivateDone
<1>15. ASSUME ActivateFails(c)
      PROVE  /\ pc'[d] = pc[d] /\ lease'[d] = lease[d] /\ at'[d] = at[d]
             /\ miss'[d] = miss[d] /\ why'[d] = why[d]
  BY <1>15, <1>1 DEF ActivateFails
<1>16. ASSUME AckPollAgain(c)
      PROVE  /\ pc'[d] = pc[d] /\ lease'[d] = lease[d] /\ at'[d] = at[d]
             /\ miss'[d] = miss[d] /\ why'[d] = why[d]
  BY <1>16, <1>1 DEF AckPollAgain
<1>17. ASSUME Submit(c)
      PROVE  /\ pc'[d] = pc[d] /\ lease'[d] = lease[d] /\ at'[d] = at[d]
             /\ miss'[d] = miss[d] /\ why'[d] = why[d]
  BY <1>17, <1>1 DEF Submit
<1>18. ASSUME Decline(c)
      PROVE  /\ pc'[d] = pc[d] /\ lease'[d] = lease[d] /\ at'[d] = at[d]
             /\ miss'[d] = miss[d] /\ why'[d] = why[d]
  BY <1>18, <1>1 DEF Decline
<1>19. ASSUME Finish(c)
      PROVE  /\ pc'[d] = pc[d] /\ lease'[d] = lease[d] /\ at'[d] = at[d]
             /\ miss'[d] = miss[d] /\ why'[d] = why[d]
  BY <1>19, <1>1 DEF Finish
<1>20. ASSUME GiveUp(c)
      PROVE  /\ pc'[d] = pc[d] /\ lease'[d] = lease[d] /\ at'[d] = at[d]
             /\ miss'[d] = miss[d] /\ why'[d] = why[d]
  BY <1>20, <1>1 DEF GiveUp
<1>21. ASSUME ClearDone(c)
      PROVE  /\ pc'[d] = pc[d] /\ lease'[d] = lease[d] /\ at'[d] = at[d]
             /\ miss'[d] = miss[d] /\ why'[d] = why[d]
  BY <1>21, <1>1 DEF ClearDone
<1>22. ASSUME ActivateWrite(c)
      PROVE  /\ pc'[d] = pc[d] /\ lease'[d] = lease[d] /\ at'[d] = at[d]
             /\ miss'[d] = miss[d] /\ why'[d] = why[d]
  BY <1>22 DEF ActivateWrite, Advance
<1>23. ASSUME UndoWrite(c)
      PROVE  /\ pc'[d] = pc[d] /\ lease'[d] = lease[d] /\ at'[d] = at[d]
             /\ miss'[d] = miss[d] /\ why'[d] = why[d]
  BY <1>23 DEF UndoWrite, Advance
<1>24. ASSUME AckRead(c)
      PROVE  /\ pc'[d] = pc[d] /\ lease'[d] = lease[d] /\ at'[d] = at[d]
             /\ miss'[d] = miss[d] /\ why'[d] = why[d]
  BY <1>24 DEF AckRead, Advance
<1>25. ASSUME AckMissed(c)
      PROVE  /\ pc'[d] = pc[d] /\ lease'[d] = lease[d] /\ at'[d] = at[d]
             /\ miss'[d] = miss[d] /\ why'[d] = why[d]
  BY <1>25 DEF AckMissed, Advance
<1>26. ASSUME ClearWrite(c)
      PROVE  /\ pc'[d] = pc[d] /\ lease'[d] = lease[d] /\ at'[d] = at[d]
             /\ miss'[d] = miss[d] /\ why'[d] = why[d]
  BY <1>26 DEF ClearWrite, Advance
<1>27. ASSUME AckDenied(c)
      PROVE  /\ pc'[d] = pc[d] /\ lease'[d] = lease[d] /\ at'[d] = at[d]
             /\ miss'[d] = miss[d] /\ why'[d] = why[d]
  BY <1>27, <1>1, <1>2 DEF AckDenied, AckRaises, KeepLock
<1>28. ASSUME AckReadTimesOut(c)
      PROVE  /\ pc'[d] = pc[d] /\ lease'[d] = lease[d] /\ at'[d] = at[d]
             /\ miss'[d] = miss[d] /\ why'[d] = why[d]
  BY <1>28, <1>1, <1>2 DEF AckReadTimesOut, AckRaises, KeepLock
<1>29. ASSUME AckExpires(c)
      PROVE  /\ pc'[d] = pc[d] /\ lease'[d] = lease[d] /\ at'[d] = at[d]
             /\ miss'[d] = miss[d] /\ why'[d] = why[d]
  BY <1>29, <1>1, <1>2 DEF AckExpires, AckRaises, KeepLock
<1>30. ASSUME ClearFails(c)
      PROVE  /\ pc'[d] = pc[d] /\ lease'[d] = lease[d] /\ at'[d] = at[d]
             /\ miss'[d] = miss[d] /\ why'[d] = why[d]
  BY <1>30, <1>2 DEF ClearFails, KeepLock
<1> QED
  BY <1>3, <1>4, <1>5, <1>6, <1>7, <1>8, <1>9, <1>10, <1>11, <1>12, <1>13, <1>14, <1>15, <1>16, <1>17, <1>18, <1>19, <1>20, <1>21, <1>22, <1>23, <1>24, <1>25, <1>26, <1>27, <1>28, <1>29, <1>30 DEF CoordStep

\* Guards, the server and the network leave the lock and the coordinators alone.
LEMMA OutsideSteps ==
    ASSUME (\E r \in Ranks : GuardStep(r)) \/ EnvStep \/ UNCHANGED vars
    PROVE  UNCHANGED <<lock, used, pc, lease, at, lim, miss, why>>
  BY DEF GuardStep, GuardRead, GuardPublish, GuardAborts, GuardFails, RowAges, GuardLeaves,
         EnvStep, ServerDone, LateWrite, vars

\* Every coordinator between taking the lease lock and leaving acquire or
\* release owns the lock file, and no two are there: the exclusive creation,
\* the unlink on every failure path of acquire and after release, and the
\* retries of acquire never free or take a lock that is another's.
THEOREM OwnersExclude == Spec => []OwnerHoldsLock
<1>1. Init => OwnerHoldsLock
  BY DEF Init, OwnerHoldsLock, Owning
<1>2. TypeOK /\ OwnerHoldsLock /\ [Next]_vars => OwnerHoldsLock'
  <2> SUFFICES ASSUME TypeOK, OwnerHoldsLock, [Next]_vars
               PROVE  OwnerHoldsLock'
    OBVIOUS
  <2>1. ASSUME NEW c \in Coords, CoordStep(c) PROVE OwnerHoldsLock'
    <3>1. \A d \in Coords \ {c} : pc'[d] = pc[d] /\ lease'[d] = lease[d]
      BY <2>1, OthersUnchanged
    <3>2. LockEffect(c)
      BY <2>1, CoordLockEffect
    <3>3. CASE TakesLock(c)
      <4>1. \A d \in Coords : ~Owning(d)
        BY <3>3, LeaseAssumption DEF TakesLock, OwnerHoldsLock
      <4> QED
        BY <3>1, <3>3, <4>1, LeaseAssumption DEF TakesLock, OwnerHoldsLock, Owning
    <3>4. CASE KeepsLock(c)
      BY <3>1, <3>4 DEF KeepsLock, OwnerHoldsLock, Owning
    <3>5. CASE LeavesCall(c)
      <4>1. \A d \in Coords \ {c} : ~Owning(d)
        BY <3>5 DEF LeavesCall, OwnerHoldsLock
      <4> QED
        BY <3>1, <3>5, <4>1 DEF LeavesCall, OwnerHoldsLock, Owning
    <3>6. CASE StaysOut(c)
      BY <3>1, <3>6 DEF StaysOut, OwnerHoldsLock, Owning
    <3> QED
      BY <3>2, <3>3, <3>4, <3>5, <3>6 DEF LockEffect
  <2>2. CASE (\E r \in Ranks : GuardStep(r)) \/ EnvStep \/ UNCHANGED vars
    BY <2>2, OutsideSteps DEF OwnerHoldsLock, Owning
  <2> QED
    BY <2>1, <2>2 DEF Next
<1> QED
  BY <1>1, <1>2, TypeCorrect, PTL DEF Spec

(***************************************************************************)
(* Rows on the server.                                                     *)
(***************************************************************************)

\* What a coordinator's step does to the rows in service, when no client gives
\* up on a row: only Submit adds one, and "running" is left for another point
\* of the protocol only once the row has ended.
WorkEffect(c) ==
    /\ up' = up
    /\ \/ work' = work
       \/ /\ pc[c] = "granted" /\ pc'[c] = "running"
          /\ work' = work \cup {lease[c]}
    /\ pc[c] = "running" /\ Owning(c)' => lease[c] \notin work

LEMMA CoordWorkEffect ==
    ASSUME ~ClientTimeouts, TypeOK, NEW c \in Coords, CoordStep(c)
    PROVE  WorkEffect(c)
<1> USE DEF WorkEffect, Owning, TypeOK, CoordType
<1>1. ASSUME NEW l \in Leases, TakeLock(c, l) PROVE WorkEffect(c)
  BY <1>1 DEF TakeLock
<1>2. ASSUME NEW l \in Leases, LockWriteFails(c, l) PROVE WorkEffect(c)
  BY <1>2 DEF LockWriteFails
<1>3. ASSUME RetryEnds(c) PROVE WorkEffect(c)
  BY <1>3 DEF RetryEnds
<1>4. ASSUME PreflightRead(c) PROVE WorkEffect(c)
  BY <1>4 DEF PreflightRead
<1>5. ASSUME PreflightError(c) PROVE WorkEffect(c)
  BY <1>5 DEF PreflightError
<1>6. ASSUME PreflightDone(c) PROVE WorkEffect(c)
  BY <1>6 DEF PreflightDone
<1>7. ASSUME WaitRetry(c) PROVE WorkEffect(c)
  BY <1>7 DEF WaitRetry
<1>8. ASSUME WaitExpires(c) PROVE WorkEffect(c)
  BY <1>8 DEF WaitExpires
<1>9. ASSUME ActivateWrite(c) PROVE WorkEffect(c)
  BY <1>9 DEF ActivateWrite
<1>10. ASSUME ActivateDone(c) PROVE WorkEffect(c)
  BY <1>10 DEF ActivateDone
<1>11. ASSUME ActivateFails(c) PROVE WorkEffect(c)
  BY <1>11 DEF ActivateFails
<1>12. ASSUME UndoWrite(c) PROVE WorkEffect(c)
  BY <1>12 DEF UndoWrite
<1>13. ASSUME UndoDone(c) PROVE WorkEffect(c)
  BY <1>13 DEF UndoDone
<1>14. ASSUME AckRead(c) PROVE WorkEffect(c)
  BY <1>14 DEF AckRead
<1>15. ASSUME AckMissed(c) PROVE WorkEffect(c)
  BY <1>15 DEF AckMissed
<1>16. ASSUME AckDenied(c) PROVE WorkEffect(c)
  BY <1>16 DEF AckDenied
<1>17. ASSUME AckReadTimesOut(c) PROVE WorkEffect(c)
  BY <1>17 DEF AckReadTimesOut
<1>18. ASSUME AckComplete(c) PROVE WorkEffect(c)
  BY <1>18 DEF AckComplete
<1>19. ASSUME AckPollAgain(c) PROVE WorkEffect(c)
  BY <1>19 DEF AckPollAgain
<1>20. ASSUME AckExpires(c) PROVE WorkEffect(c)
  BY <1>20 DEF AckExpires
<1>21. ASSUME Submit(c) PROVE WorkEffect(c)
  BY <1>21 DEF Submit, Enter
<1>22. ASSUME Decline(c) PROVE WorkEffect(c)
  BY <1>22 DEF Decline
<1>23. ASSUME Finish(c) PROVE WorkEffect(c)
  BY <1>23 DEF Finish
<1>24. ASSUME GiveUp(c) PROVE WorkEffect(c)
  BY <1>24 DEF GiveUp
<1>25. ASSUME ClearWrite(c) PROVE WorkEffect(c)
  BY <1>25 DEF ClearWrite
<1>26. ASSUME ClearDone(c) PROVE WorkEffect(c)
  BY <1>26 DEF ClearDone
<1>27. ASSUME ClearFails(c) PROVE WorkEffect(c)
  BY <1>27 DEF ClearFails
<1>28. ASSUME Crash(c) PROVE WorkEffect(c)
  BY <1>28 DEF Crash, Leave, Enter
<1> QED
  BY <1>1, <1>2, <1>3, <1>4, <1>5, <1>6, <1>7, <1>8, <1>9, <1>10, <1>11, <1>12, <1>13, <1>14, <1>15, <1>16, <1>17, <1>18, <1>19, <1>20, <1>21, <1>22, <1>23, <1>24, <1>25, <1>26, <1>27, <1>28 DEF CoordStep

\* Guards, the server and the network only ever take rows out of service.
LEMMA OutsideWork ==
    ASSUME (\E r \in Ranks : GuardStep(r)) \/ EnvStep \/ UNCHANGED vars
    PROVE  work' \subseteq work
  BY DEF GuardStep, GuardRead, GuardPublish, GuardAborts, GuardFails, RowAges, GuardLeaves,
         StopModel, EnvStep, ServerDone, LateWrite, vars

\* A row on the server keeps the lease lock, whatever fails or dies.
THEOREM ServedRowKeepsLock ==
    ASSUME ~ClientTimeouts
    PROVE  Spec => []ServedRowIsLocked
<1>1. Init => ServedRowIsLocked
  BY DEF Init, ServedRowIsLocked
<1>2. TypeOK /\ OwnerHoldsLock /\ ServedRowIsLocked /\ [Next]_vars => ServedRowIsLocked'
  <2> SUFFICES ASSUME TypeOK, OwnerHoldsLock, ServedRowIsLocked, [Next]_vars
               PROVE  ServedRowIsLocked'
    OBVIOUS
  <2>1. ASSUME NEW c \in Coords, CoordStep(c) PROVE ServedRowIsLocked'
    <3>1. \A d \in Coords \ {c} : pc'[d] = pc[d] /\ lease'[d] = lease[d]
      BY <2>1, OthersUnchanged
    <3>2. LockEffect(c) /\ WorkEffect(c)
      BY <2>1, CoordLockEffect, CoordWorkEffect
    <3>3. CASE TakesLock(c)
      <4>1. work = {} /\ work' = {}
        BY <3>2, <3>3 DEF TakesLock, WorkEffect, Owning, ServedRowIsLocked
      <4> QED
        BY <4>1 DEF ServedRowIsLocked
    <3>4. CASE KeepsLock(c)
      <4>1. \A d \in Coords \ {c} : ~Owning(d)'
        BY <3>1, <3>4 DEF KeepsLock, OwnerHoldsLock, Owning
      <4>2. lock' = lock /\ lock = lease[c] /\ lease'[c] = lease[c] /\ lock # NoLease
            /\ Owning(c) /\ Owning(c)'
        BY <3>4, LeaseAssumption DEF KeepsLock, OwnerHoldsLock, Owning
      <4>3. CASE work' = work
        BY <3>2, <4>1, <4>2, <4>3 DEF ServedRowIsLocked, WorkEffect
      <4>4. CASE pc'[c] = "running" /\ work' = work \cup {lease[c]}
        BY <4>1, <4>2, <4>4 DEF ServedRowIsLocked
      <4> QED
        BY <3>2, <4>3, <4>4 DEF WorkEffect
    <3>5. CASE LeavesCall(c)
      <4>1. work' = work /\ lock = lease[c] /\ Owning(c)
        BY <3>2, <3>5 DEF LeavesCall, WorkEffect, OwnerHoldsLock
      <4>2. \A d \in Coords : ~Owning(d)'
        BY <3>1, <3>5 DEF LeavesCall, OwnerHoldsLock, Owning
      <4> QED
        BY <3>5, <4>1, <4>2 DEF LeavesCall, ServedRowIsLocked
    <3>6. CASE StaysOut(c)
      BY <3>1, <3>2, <3>6 DEF StaysOut, WorkEffect, ServedRowIsLocked, Owning
    <3> QED
      BY <3>2, <3>3, <3>4, <3>5, <3>6 DEF LockEffect
  <2>2. CASE (\E r \in Ranks : GuardStep(r)) \/ EnvStep \/ UNCHANGED vars
    BY <2>2, OutsideSteps, OutsideWork DEF ServedRowIsLocked, Owning
  <2> QED
    BY <2>1, <2>2 DEF Next
<1> QED
  BY <1>1, <1>2, TypeCorrect, OwnersExclude, PTL DEF Spec

\* The model server never executes the rows of two leases at a time.
THEOREM ServesOneRow ==
    ASSUME ~ClientTimeouts
    PROVE  Spec => []OneRowInService
<1>1. ServedRowIsLocked => OneRowInService
  BY DEF ServedRowIsLocked, OneRowInService
<1> QED
  BY <1>1, ServedRowKeepsLock, PTL

\* The four-rank protocol keeps the promise of ExclusiveAdmission: leases are
\* handed out one at a time and never twice, a row is served under the lease
\* that exists, and the lease ends only after its row.
THEOREM KeepsPromise ==
    ASSUME ~ClientTimeouts
    PROVE  Spec => PromiseSpec
<1>1. Init => Promise!Init
  BY DEF Init, Promise!Init
<1>2. TypeOK /\ OwnerHoldsLock /\ ServedRowIsLocked /\ [Next]_vars
      => [Promise!Next]_(Promise!vars)
  <2> SUFFICES ASSUME TypeOK, OwnerHoldsLock, ServedRowIsLocked, [Next]_vars
               PROVE  [Promise!Next]_(Promise!vars)
    OBVIOUS
  <2> USE DEF Promise!Next, Promise!vars
  <2>1. ASSUME NEW c \in Coords, CoordStep(c) PROVE [Promise!Next]_(Promise!vars)
    <3>1. LockEffect(c) /\ WorkEffect(c)
      BY <2>1, CoordLockEffect, CoordWorkEffect
    <3>2. Owning(c) => lock = lease[c] /\ lock \in Leases /\ lock # NoLease
      BY LeaseAssumption DEF OwnerHoldsLock
    <3>3. CASE TakesLock(c)
      <4>1. work' = work
        BY <3>1, <3>3 DEF TakesLock, WorkEffect, Owning
      <4>2. \E l \in Leases : Promise!Claim(l)
        BY <3>3, <4>1 DEF TakesLock, Promise!Claim
      <4> QED
        BY <4>2
    <3>4. CASE KeepsLock(c)
      <4>1. lock' = lock /\ used' = used /\ Owning(c)
        BY <3>4 DEF KeepsLock
      <4>2. CASE work' = work
        BY <4>1, <4>2
      <4>3. CASE pc[c] = "granted" /\ work' = work \cup {lease[c]}
        <5>1. work = {}
          BY <3>2, <4>1, <4>3 DEF ServedRowIsLocked
        <5>2. Promise!Serve
          BY <3>2, <4>1, <4>3, <5>1 DEF Promise!Serve
        <5> QED
          BY <5>2
      <4> QED
        BY <3>1, <4>2, <4>3 DEF WorkEffect
    <3>5. CASE LeavesCall(c)
      <4>1. work' = work /\ used' = used /\ Owning(c)
        BY <3>1, <3>5 DEF LeavesCall, WorkEffect
      <4>2. CASE lock' = lock
        BY <4>1, <4>2
      <4>3. CASE lock' = NoLease /\ pc[c] # "running"
        <5>1. work = {}
          BY <3>2, <4>1, <4>3 DEF ServedRowIsLocked
        <5>2. Promise!Vacate
          BY <3>2, <4>1, <4>3, <5>1 DEF Promise!Vacate
        <5> QED
          BY <5>2
      <4> QED
        BY <3>5, <4>2, <4>3 DEF LeavesCall
    <3>6. CASE StaysOut(c)
      BY <3>1, <3>6 DEF StaysOut, WorkEffect, Owning
    <3> QED
      BY <3>1, <3>3, <3>4, <3>5, <3>6 DEF LockEffect
  <2>2. CASE (\E r \in Ranks : GuardStep(r)) \/ EnvStep \/ UNCHANGED vars
    <3>1. lock' = lock /\ used' = used /\ work' \subseteq work
      BY <2>2, OutsideSteps, OutsideWork
    <3>2. CASE work' = work
      BY <3>1, <3>2
    <3>3. CASE work' # work
      <4>1. work # {} /\ work' = {}
        BY <3>1, <3>3 DEF ServedRowIsLocked
      <4>2. Promise!Complete
        BY <3>1, <4>1 DEF Promise!Complete
      <4> QED
        BY <4>2
    <3> QED
      BY <3>2, <3>3
  <2> QED
    BY <2>1, <2>2 DEF Next
<1> QED
  BY <1>1, <1>2, TypeCorrect, OwnersExclude, ServedRowKeepsLock, PTL
     DEF Spec, PromiseSpec, Promise!Spec

(***************************************************************************)
(* The handshake with the guards.                                          *)
(***************************************************************************)

\* What a coordinator's step does to the files, when no write can be late.
FileEffect(c) ==
    /\ late' = late
    /\ UNCHANGED guardVars
    /\ ~Owning(c) => req' = req
    /\ \A r \in Ranks : \/ req'[r] = req[r]
                        \/ req'[r] \in {NoLease, Torn}
                        \/ Owning(c) /\ req'[r] = lease[c]

LEMMA CoordFileEffect ==
    ASSUME "late" \notin WriteOutcomes, TypeOK, NEW c \in Coords, CoordStep(c)
    PROVE  FileEffect(c)
<1> USE DEF FileEffect, Owning, TypeOK, FileType
<1>1. ASSUME NEW l \in Leases, TakeLock(c, l) PROVE FileEffect(c)
  BY <1>1 DEF TakeLock
<1>2. ASSUME NEW l \in Leases, LockWriteFails(c, l) PROVE FileEffect(c)
  BY <1>2 DEF LockWriteFails
<1>3. ASSUME RetryEnds(c) PROVE FileEffect(c)
  BY <1>3 DEF RetryEnds
<1>4. ASSUME PreflightRead(c) PROVE FileEffect(c)
  BY <1>4 DEF PreflightRead
<1>5. ASSUME PreflightError(c) PROVE FileEffect(c)
  BY <1>5 DEF PreflightError
<1>6. ASSUME PreflightDone(c) PROVE FileEffect(c)
  BY <1>6 DEF PreflightDone
<1>7. ASSUME WaitRetry(c) PROVE FileEffect(c)
  BY <1>7 DEF WaitRetry
<1>8. ASSUME WaitExpires(c) PROVE FileEffect(c)
  BY <1>8 DEF WaitExpires
<1>9. ASSUME ActivateWrite(c) PROVE FileEffect(c)
  BY <1>9 DEF ActivateWrite, Write
<1>10. ASSUME ActivateDone(c) PROVE FileEffect(c)
  BY <1>10 DEF ActivateDone
<1>11. ASSUME ActivateFails(c) PROVE FileEffect(c)
  BY <1>11 DEF ActivateFails, FailedWrite, Write
<1>12. ASSUME UndoWrite(c) PROVE FileEffect(c)
  BY <1>12 DEF UndoWrite, FailedWrite, Write
<1>13. ASSUME UndoDone(c) PROVE FileEffect(c)
  BY <1>13 DEF UndoDone
<1>14. ASSUME AckRead(c) PROVE FileEffect(c)
  BY <1>14 DEF AckRead
<1>15. ASSUME AckMissed(c) PROVE FileEffect(c)
  BY <1>15 DEF AckMissed
<1>16. ASSUME AckDenied(c) PROVE FileEffect(c)
  BY <1>16 DEF AckDenied
<1>17. ASSUME AckReadTimesOut(c) PROVE FileEffect(c)
  BY <1>17 DEF AckReadTimesOut
<1>18. ASSUME AckComplete(c) PROVE FileEffect(c)
  BY <1>18 DEF AckComplete
<1>19. ASSUME AckPollAgain(c) PROVE FileEffect(c)
  BY <1>19 DEF AckPollAgain
<1>20. ASSUME AckExpires(c) PROVE FileEffect(c)
  BY <1>20 DEF AckExpires
<1>21. ASSUME Submit(c) PROVE FileEffect(c)
  BY <1>21 DEF Submit
<1>22. ASSUME Decline(c) PROVE FileEffect(c)
  BY <1>22 DEF Decline
<1>23. ASSUME Finish(c) PROVE FileEffect(c)
  BY <1>23 DEF Finish
<1>24. ASSUME GiveUp(c) PROVE FileEffect(c)
  BY <1>24 DEF GiveUp
<1>25. ASSUME ClearWrite(c) PROVE FileEffect(c)
  BY <1>25 DEF ClearWrite, Write
<1>26. ASSUME ClearDone(c) PROVE FileEffect(c)
  BY <1>26 DEF ClearDone
<1>27. ASSUME ClearFails(c) PROVE FileEffect(c)
  BY <1>27 DEF ClearFails, FailedWrite, Write
<1>28. ASSUME Crash(c) PROVE FileEffect(c)
  BY <1>28 DEF Crash
<1> QED
  BY <1>1, <1>2, <1>3, <1>4, <1>5, <1>6, <1>7, <1>8, <1>9, <1>10, <1>11, <1>12, <1>13, <1>14, <1>15, <1>16, <1>17, <1>18, <1>19, <1>20, <1>21, <1>22, <1>23, <1>24, <1>25, <1>26, <1>27, <1>28 DEF CoordStep

\* A coordinator's step and its own handshake with one rank.
LEMMA OwnHandshake ==
    ASSUME "late" \notin WriteOutcomes, TypeOK, OwnerHoldsLock, HandshakeInv,
           NEW c \in Coords, CoordStep(c), NEW r \in Ranks
    PROVE  Handshake(c, r)'
<1>1. Handshake(c, r) /\ Drawn(r)
  BY DEF HandshakeInv
<1>2. UNCHANGED guardVars
  BY CoordFileEffect DEF FileEffect
<1>3. r \in Int /\ r >= 0 /\ r < N /\ at[c] \in 0 .. N /\ at[c] \in Int /\ N \in Nat
  BY NAssumption DEF Ranks, TypeOK, CoordType
<1> USE <1>1, <1>2, <1>3 DEF Handshake, TypeOK, CoordType
<1>4. ASSUME NEW p, Leave(c, p), p \in {"idle", "again"} PROVE Handshake(c, r)'
  BY <1>4 DEF Leave, Enter
<1>5. ASSUME NEW l \in Leases, TakeLock(c, l) PROVE Handshake(c, r)'
  BY <1>5, LeaseAssumption DEF TakeLock, Enter, Untouched, Drawn
<1>6. ASSUME NEW l \in Leases, LockWriteFails(c, l) PROVE Handshake(c, r)'
  BY <1>4, <1>6 DEF LockWriteFails
<1>7. ASSUME RetryEnds(c) PROVE Handshake(c, r)'
  BY <1>4, <1>7 DEF RetryEnds
<1>8. ASSUME PreflightRead(c) PROVE Handshake(c, r)'
  BY <1>8 DEF PreflightRead, Advance, Enter, Untouched
<1>9. ASSUME PreflightError(c) PROVE Handshake(c, r)'
  BY <1>4, <1>9 DEF PreflightError
<1>10. ASSUME PreflightDone(c) PROVE Handshake(c, r)'
  BY <1>4, <1>10 DEF PreflightDone, Enter, Untouched
<1>11. ASSUME WaitRetry(c) PROVE Handshake(c, r)'
  BY <1>11 DEF WaitRetry, Enter, Untouched
<1>12. ASSUME WaitExpires(c) PROVE Handshake(c, r)'
  BY <1>4, <1>12 DEF WaitExpires
<1>13. ASSUME ActivateWrite(c) PROVE Handshake(c, r)'
  BY <1>13, LeaseAssumption DEF ActivateWrite, Advance, Write, FileType, Untouched, Activating
<1>14. ASSUME ActivateDone(c) PROVE Handshake(c, r)'
  BY <1>14 DEF ActivateDone, Enter, Activating
<1>15. ASSUME ActivateFails(c) PROVE Handshake(c, r)'
  BY <1>15 DEF ActivateFails, Enter
<1>16. ASSUME UndoWrite(c) PROVE Handshake(c, r)'
  BY <1>16 DEF UndoWrite, Advance
<1>17. ASSUME UndoDone(c) PROVE Handshake(c, r)'
  BY <1>4, <1>17 DEF UndoDone
<1>18. ASSUME AckRead(c) PROVE Handshake(c, r)'
  BY <1>18 DEF AckRead, Advance, Acked, Activating, Clearing
<1>19. ASSUME AckMissed(c) PROVE Handshake(c, r)'
  BY <1>19 DEF AckMissed, Advance, Activating, Clearing
<1>20. ASSUME AckDenied(c) PROVE Handshake(c, r)'
  BY <1>20 DEF AckDenied, Enter, AckRaises
<1>21. ASSUME AckReadTimesOut(c) PROVE Handshake(c, r)'
  BY <1>4, <1>21 DEF AckReadTimesOut, Enter, AckRaises, KeepLock, AfterCleanup
<1>22. ASSUME AckComplete(c) PROVE Handshake(c, r)'
  BY <1>4, <1>22 DEF AckComplete, Enter, Activating, GuardedAt, AfterCleanup
<1>23. ASSUME AckPollAgain(c) PROVE Handshake(c, r)'
  BY <1>23 DEF AckPollAgain, Enter, Activating, Clearing
<1>24. ASSUME AckExpires(c) PROVE Handshake(c, r)'
  BY <1>4, <1>24 DEF AckExpires, Enter, AckRaises, KeepLock, AfterCleanup
<1>25. ASSUME Submit(c) PROVE Handshake(c, r)'
  BY <1>25 DEF Submit, Enter, GuardedAt
<1>26. ASSUME Decline(c) PROVE Handshake(c, r)'
  BY <1>26 DEF Decline, Enter, GuardedAt
<1>27. ASSUME Finish(c) PROVE Handshake(c, r)'
  BY <1>27 DEF Finish, Enter, GuardedAt
<1>28. ASSUME GiveUp(c) PROVE Handshake(c, r)'
  BY <1>28 DEF GiveUp, Enter, GuardedAt
<1>29. ASSUME ClearWrite(c) PROVE Handshake(c, r)'
  BY <1>29, LeaseAssumption DEF ClearWrite, Advance, Write, FileType, GuardedAt, Clearing, OwnerHoldsLock, Owning
<1>30. ASSUME ClearDone(c) PROVE Handshake(c, r)'
  BY <1>30 DEF ClearDone, Enter, Clearing
<1>31. ASSUME ClearFails(c) PROVE Handshake(c, r)'
  BY <1>4, <1>31 DEF ClearFails, KeepLock, AfterCleanup
<1>32. ASSUME Crash(c) PROVE Handshake(c, r)'
  BY <1>4, <1>32 DEF Crash
<1> QED
  BY <1>5, <1>6, <1>7, <1>8, <1>9, <1>10, <1>11, <1>12, <1>13, <1>14, <1>15, <1>16, <1>17, <1>18, <1>19, <1>20, <1>21, <1>22, <1>23, <1>24, <1>25, <1>26, <1>27, <1>28, <1>29, <1>30, <1>31, <1>32 DEF CoordStep

\* A guard's step and every handshake with its rank.
LEMMA GuardHandshake ==
    ASSUME TypeOK, HandshakeInv, NEW r \in Ranks, GuardStep(r)
    PROVE  HandshakeInv'
<1>1. /\ UNCHANGED <<fileVars, coordVars, lockVars>>
      /\ \A q \in Ranks \ {r} : /\ gpc'[q] = gpc[q] /\ seen'[q] = seen[q]
                               /\ rowLease'[q] = rowLease[q]
  BY DEF GuardStep, GuardRead, GuardPublish, GuardAborts, GuardFails, RowAges, GuardLeaves,
         TypeOK, GuardType
<1>2. \/ /\ gpc[r] = "top" /\ gpc'[r] = "eval" /\ seen'[r] = req[r] /\ req[r] # Torn
         /\ rowLease'[r] = rowLease[r]
      \/ /\ gpc[r] = "eval" /\ gpc'[r] # "eval"
         /\ rowLease'[r] = seen[r] /\ seen'[r] = seen[r]
      \/ /\ gpc'[r] # "eval" \/ gpc'[r] = gpc[r]
         /\ rowLease'[r] = rowLease[r] /\ seen'[r] = seen[r]
  <2> USE DEF TypeOK, GuardType
  <2>1. CASE GuardRead(r)
    BY <2>1 DEF GuardRead
  <2>2. ASSUME NEW v \in {"ADMIT", "DENY", "HARD"}, GuardPublish(r, v)
        PROVE  /\ gpc[r] = "eval" /\ gpc'[r] # "eval"
               /\ rowLease'[r] = seen[r] /\ seen'[r] = seen[r]
    BY <2>2 DEF GuardPublish
  <2>3. CASE GuardAborts(r) \/ GuardFails(r)
    BY <2>3 DEF GuardAborts, GuardFails, GuardLeaves
  <2>4. CASE RowAges(r)
    BY <2>4 DEF RowAges
  <2> QED
    BY <2>1, <2>2, <2>3, <2>4 DEF GuardStep
<1>3. ASSUME NEW q \in Ranks, NEW c \in Coords PROVE Handshake(c, q)'
  <2>1. Handshake(c, q)
    BY DEF HandshakeInv
  <2>2. CASE q # r
    BY <1>1, <2>1, <2>2 DEF Handshake, Untouched, Activating, Clearing, GuardedAt
  <2>3. CASE q = r
    BY <1>1, <1>2, <2>1, <2>3 DEF Handshake, Untouched, Activating, Clearing, GuardedAt
  <2> QED
    BY <2>2, <2>3
<1>4. ASSUME NEW q \in Ranks PROVE Drawn(q)'
  BY <1>1, <1>2, <1>4 DEF HandshakeInv, Drawn
<1> QED
  BY <1>3, <1>4 DEF HandshakeInv

LEMMA CoordHandshake ==
    ASSUME "late" \notin WriteOutcomes, TypeOK, OwnerHoldsLock, HandshakeInv,
           NEW c \in Coords, CoordStep(c)
    PROVE  HandshakeInv'
<1>1. FileEffect(c) /\ LockEffect(c)
  BY CoordFileEffect, CoordLockEffect
<1>2. ASSUME NEW r \in Ranks, NEW d \in Coords PROVE Handshake(d, r)'
  <2>1. CASE d = c
    BY <2>1, OwnHandshake
  <2>2. CASE d # c
    <3>1. /\ pc'[d] = pc[d] /\ lease'[d] = lease[d] /\ at'[d] = at[d]
          /\ miss'[d] = miss[d] /\ why'[d] = why[d]
      BY <2>2, OthersUnchanged
    <3>2. Handshake(d, r)
      BY DEF HandshakeInv
    <3>3. CASE Owning(c)
      <4>1. pc[d] \in {"idle", "again"}
        BY <2>2, <3>3 DEF OwnerHoldsLock, Owning
      <4> QED
        BY <3>1, <3>2, <4>1 DEF Handshake
    <3>4. CASE ~Owning(c)
      BY <1>1, <3>1, <3>2, <3>4
         DEF FileEffect, Handshake, Untouched, Activating, Clearing, GuardedAt
    <3> QED
      BY <3>3, <3>4
  <2> QED
    BY <2>1, <2>2
<1>3. ASSUME NEW r \in Ranks PROVE Drawn(r)'
  <2>1. used \subseteq used'
    BY <1>1 DEF LockEffect, TakesLock, KeepsLock, LeavesCall, StaysOut
  <2>2. Owning(c) => lease[c] \in used
    BY LeaseAssumption DEF OwnerHoldsLock
  <2> QED
    BY <1>1, <2>1, <2>2 DEF FileEffect, HandshakeInv, Drawn
<1> QED
  BY <1>2, <1>3 DEF HandshakeInv

LEMMA OtherHandshake ==
    ASSUME HandshakeInv, EnvStep \/ UNCHANGED vars
    PROVE  HandshakeInv'
<1>1. UNCHANGED <<lockVars, fileVars, guardVars, coordVars>>
  <2>1. ASSUME NEW r \in Ranks, NEW v, LateWrite(r, v) PROVE FALSE
    BY <2>1 DEF LateWrite, HandshakeInv, Drawn
  <2>2. CASE EnvStep
    BY <2>1, <2>2 DEF EnvStep, ServerDone
  <2> QED
    BY <2>2 DEF vars
<1> QED
  BY <1>1 DEF HandshakeInv, Drawn, Handshake, Untouched, Activating, Clearing, GuardedAt

\* At every point of the protocol each rank's files and guard are where the
\* coordinator's position says, if a write that is abandoned is really over.
THEOREM HandshakeHolds ==
    ASSUME "late" \notin WriteOutcomes
    PROVE  Spec => []HandshakeInv
<1>1. Init => HandshakeInv
  BY LeaseAssumption DEF Init, HandshakeInv, Drawn, Handshake
<1>2. TypeOK /\ OwnerHoldsLock /\ HandshakeInv /\ [Next]_vars => HandshakeInv'
  BY CoordHandshake, GuardHandshake, OtherHandshake DEF Next
<1> QED
  BY <1>1, <1>2, TypeCorrect, OwnersExclude, PTL DEF Spec

\* While a row may be sent or runs, every guard's row names exactly its lease.
THEOREM AdmittedRowsAreGuarded ==
    ASSUME "late" \notin WriteOutcomes
    PROVE  Spec => []AdmittedRowIsGuarded
<1>1. HandshakeInv => AdmittedRowIsGuarded
  BY DEF HandshakeInv, Handshake, AdmittedRowIsGuarded
<1> QED
  BY <1>1, HandshakeHolds, PTL

\* After release has removed the lock no file and no guard carries a lease.
THEOREM ReleasesQuiesce ==
    ASSUME "late" \notin WriteOutcomes
    PROVE  Spec => ReleaseQuiesces
<1>1. TypeOK /\ OwnerHoldsLock /\ HandshakeInv /\ [Next]_vars
      => [\A c \in Coords :
             pc[c] = "ackOff" /\ why[c] = "done" /\ lock # NoLease /\ lock' = NoLease
             => \A r \in Ranks : Quiet(r)]_vars
  <2> SUFFICES ASSUME TypeOK, OwnerHoldsLock, HandshakeInv, [Next]_vars, NEW c \in Coords,
                      pc[c] = "ackOff", why[c] = "done", lock # NoLease, lock' = NoLease,
                      NEW r \in Ranks
               PROVE  Quiet(r)
    OBVIOUS
  <2>1. PICK d \in Coords : CoordStep(d)
    BY OutsideSteps DEF Next
  <2>2. d = c
    BY <2>1, CoordLockEffect DEF LockEffect, TakesLock, KeepsLock, LeavesCall, StaysOut,
                                 OwnerHoldsLock, Owning
  <2>3. AckComplete(c)
    BY <2>1, <2>2 DEF CoordStep, TakeLock, LockWriteFails, RetryEnds, PreflightRead,
       PreflightError, PreflightDone, WaitRetry, WaitExpires, ActivateWrite, ActivateDone,
       ActivateFails, UndoWrite, UndoDone, AckRead, AckMissed, AckDenied, AckReadTimesOut,
       AckPollAgain, AckExpires, AckRaises, KeepLock, Submit, Decline, Finish, GiveUp,
       ClearWrite, ClearDone, ClearFails, Crash
  <2>4. at[c] = N /\ ~miss[c] /\ r < at[c]
    BY <2>3, NAssumption DEF AckComplete, Ranks
  <2>5. Handshake(c, r)
    BY DEF HandshakeInv
  <2> QED
    BY <2>4, <2>5 DEF Handshake, Clearing, Quiet
<1> QED
  BY <1>1, TypeCorrect, OwnersExclude, HandshakeHolds, PTL DEF Spec, ReleaseQuiesces

(***************************************************************************)
(* Without failures no request-state outlives its lock.                    *)
(***************************************************************************)

\* What a step that does not fail does with one rank's request-state: it is
\* inactive wherever the coordinator must leave it so.
Tidy(c, r) ==
    /\ late' = late /\ pc'[c] # "undo"
    /\ ~Owning(c) => req' = req
    /\ Vacant(c, r)' => req'[r] = NoLease
    /\ lock' = NoLease => req'[r] = NoLease

LEMMA FaultlessSteps ==
    ASSUME TypeOK, NEW c \in Coords, CoordStep(c), faults' = 0, faults = 0, NEW r \in Ranks,
           pc[c] # "undo", Vacant(c, r) => req[r] = NoLease, lock = NoLease => req[r] = NoLease,
           Owning(c) => lock # NoLease
    PROVE  Tidy(c, r)
<1> USE NAssumption, LeaseAssumption
    DEF TypeOK, CoordType, FileType, Tidy, Vacant, Owning, Ranks, Fault, NoFault
<1>1. ASSUME NEW l \in Leases, TakeLock(c, l) PROVE Tidy(c, r)
  BY <1>1 DEF TakeLock, Enter
<1>2. CASE RetryEnds(c)
  BY <1>2 DEF RetryEnds, Leave, Enter
<1>3. CASE PreflightRead(c)
  BY <1>3 DEF PreflightRead, Enter, Advance
<1>4. CASE PreflightError(c)
  BY <1>4 DEF PreflightError, Unlock, Leave, Enter
<1>5. CASE PreflightDone(c)
  BY <1>5 DEF PreflightDone, Unlock, Leave, Enter
<1>6. CASE WaitRetry(c)
  BY <1>6 DEF WaitRetry, Enter
<1>7. CASE WaitExpires(c)
  BY <1>7 DEF WaitExpires, Unlock, Leave, Enter
<1>8. CASE ActivateWrite(c)
  BY <1>8 DEF ActivateWrite, Write, Advance
<1>9. CASE ActivateDone(c)
  BY <1>9 DEF ActivateDone, Enter
<1>10. CASE UndoWrite(c)
  BY <1>10 DEF UndoWrite
<1>11. CASE UndoDone(c)
  BY <1>11 DEF UndoDone
<1>12. CASE AckRead(c)
  BY <1>12 DEF AckRead, Advance
<1>13. CASE AckMissed(c)
  BY <1>13 DEF AckMissed, Advance
<1>14. CASE AckDenied(c)
  BY <1>14 DEF AckDenied, AckRaises, Enter
<1>15. CASE AckComplete(c)
  BY <1>15 DEF AckComplete, Unlock, AfterCleanup, Leave, Enter
<1>16. CASE AckPollAgain(c)
  BY <1>16 DEF AckPollAgain, Enter
<1>17. CASE AckExpires(c)
  BY <1>17 DEF AckExpires, AckRaises, KeepLock, AfterCleanup, Leave, Enter
<1>18. CASE Submit(c)
  BY <1>18 DEF Submit, Enter
<1>19. CASE Decline(c)
  BY <1>19 DEF Decline, Enter
<1>20. CASE Finish(c)
  BY <1>20 DEF Finish, Enter
<1>21. CASE ClearWrite(c)
  BY <1>21 DEF ClearWrite, Write, Advance
<1>22. CASE ClearDone(c)
  BY <1>22 DEF ClearDone, Enter
<1>50. ASSUME NEW l \in Leases PROVE ~LockWriteFails(c, l)
  BY DEF LockWriteFails
<1>51. ~(ActivateFails(c) \/ AckReadTimesOut(c) \/ GiveUp(c) \/ ClearFails(c) \/ Crash(c))
  BY DEF ActivateFails, AckReadTimesOut, GiveUp, ClearFails, Crash
<1> QED
  BY <1>1, <1>2, <1>3, <1>4, <1>5, <1>6, <1>7, <1>8, <1>9, <1>10, <1>11, <1>12, <1>13, <1>14, <1>15, <1>16, <1>17, <1>18, <1>19, <1>20, <1>21, <1>22, <1>50, <1>51 DEF CoordStep

LEMMA FaultsNeverFall ==
    ASSUME TypeOK, [Next]_vars
    PROVE  faults' = 0 => faults = 0
<1> USE FaultAssumption DEF TypeOK, Fault, NoFault
<1>1. ASSUME NEW c \in Coords, CoordStep(c) PROVE faults' = 0 => faults = 0
  BY <1>1 DEF CoordStep, TakeLock, LockWriteFails, RetryEnds, PreflightRead, PreflightError,
     PreflightDone, WaitRetry, WaitExpires, ActivateWrite, ActivateDone, ActivateFails,
     UndoWrite, UndoDone, AckRead, AckMissed, AckDenied, AckReadTimesOut, AckComplete,
     AckPollAgain, AckExpires, Submit, Decline, Finish, GiveUp, ClearWrite, ClearDone,
     ClearFails, Crash
<1>2. ASSUME NEW r \in Ranks, GuardStep(r) PROVE faults' = 0 => faults = 0
  BY <1>2 DEF GuardStep, GuardRead, GuardPublish, GuardAborts, GuardFails, RowAges
<1>3. CASE EnvStep
  BY <1>3 DEF EnvStep, ServerDone, LateWrite
<1> QED BY <1>1, <1>2, <1>3 DEF Next, vars

LEMMA RanksStayClean ==
    ASSUME TypeOK, OwnerHoldsLock, CleanRanks, [Next]_vars
    PROVE  CleanRanks'
<1> SUFFICES ASSUME faults' = 0 PROVE CleanRanks'
  BY DEF CleanRanks
<1>1. faults = 0
  BY FaultsNeverFall
<1>2. ASSUME NEW c \in Coords, CoordStep(c) PROVE CleanRanks'
  <2>1. \A r \in Ranks : Tidy(c, r)
    <3>1. Owning(c) => lock # NoLease
      BY LeaseAssumption DEF OwnerHoldsLock
    <3> QED BY <1>1, <1>2, <3>1, FaultlessSteps DEF CleanRanks, UnlockedIsInactive
  <2>2. ASSUME NEW d \in Coords \ {c}, NEW r \in Ranks
        PROVE  pc'[d] # "undo" /\ (Vacant(d, r)' => req'[r] = NoLease)
    <3>1. pc'[d] = pc[d] /\ at'[d] = at[d]
      BY <1>2, OthersUnchanged
    <3>2. CASE Owning(c)
      <4>1. ~Owning(d)
        BY <3>2 DEF OwnerHoldsLock
      <4> QED BY <3>1, <4>1 DEF Owning, Vacant
    <3>3. CASE ~Owning(c)
      BY <1>1, <2>1, <3>1, <3>3 DEF Tidy, CleanRanks, Vacant
    <3> QED BY <3>2, <3>3
  <2>3. 0 \in Ranks
    BY NAssumption DEF Ranks
  <2> QED BY <1>1, <2>1, <2>2, <2>3 DEF CleanRanks, UnlockedIsInactive, Tidy
<1>3. CASE (\E r \in Ranks : GuardStep(r)) \/ UNCHANGED vars \/ \E l \in Leases : ServerDone(l)
  <2>1. UNCHANGED <<lock, pc, at, req, late>>
    BY <1>3 DEF GuardStep, GuardRead, GuardPublish, GuardAborts, GuardFails, RowAges, GuardLeaves,
       ServerDone, vars
  <2> QED BY <1>1, <2>1 DEF CleanRanks, UnlockedIsInactive, Vacant
<1>4. ASSUME NEW r \in Ranks, NEW v \in Leases \cup {NoLease} PROVE ~LateWrite(r, v)
  BY <1>1 DEF LateWrite, CleanRanks
<1> QED BY <1>2, <1>3, <1>4 DEF Next, EnvStep

\* With nothing failing, a request-state is active only under the lock: no
\* path of acquire and release gives the lock up before every rank is
\* cleared, whoever retries, is denied, declines or waits in vain.
THEOREM UnlockedIsClean == Spec => []UnlockedIsInactiveUnlessFaulty
<1>1. Init => CleanRanks
  BY DEF Init, CleanRanks, UnlockedIsInactive, Vacant
<1>2. TypeOK /\ OwnerHoldsLock /\ CleanRanks /\ [Next]_vars => CleanRanks'
  BY RanksStayClean
<1>3. CleanRanks => UnlockedIsInactiveUnlessFaulty
  BY DEF CleanRanks, UnlockedIsInactiveUnlessFaulty
<1> QED
  BY <1>1, <1>2, <1>3, TypeCorrect, OwnersExclude, PTL DEF Spec

\* The lock has one owner and a row on the server its lock, and the request-
\* states and the guards' rows stand where the owner's position says, if no
\* client gives up on a row that is served and an abandoned write is over.
THEOREM LeasesAreSound ==
    ASSUME ~ClientTimeouts, "late" \notin WriteOutcomes
    PROVE  Spec => []LeaseInv
<1>1. TypeOK /\ OwnerHoldsLock /\ ServedRowIsLocked /\ HandshakeInv <=> LeaseInv
  BY DEF LeaseInv
<1> QED BY <1>1, TypeCorrect, OwnersExclude, ServedRowKeepsLock, HandshakeHolds, PTL

=============================================================================
