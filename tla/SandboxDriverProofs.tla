------------------------ MODULE SandboxDriverProofs ------------------------
(***************************************************************************)
(* Proofs about SandboxDriver: its types, that a verdict is earned, and    *)
(* that what the driver ended is gone when it reports; for any number of   *)
(* helpers, any output limit and any number of failures.                   *)
(***************************************************************************)
EXTENDS SandboxDriver, TLAPS

(* What each step of the driver itself does to the types.                  *)
LEMMA DriverTypes ==
    ASSUME TypeOK, Driver \/ SupervisorFails
    PROVE  TypeOK'
<1> USE DEF TypeOK, LoopType, ReadType, ProcType
<1>1. CASE Refuse
  BY <1>1 DEF Refuse, Others, Stay, NoFault, procVars, clockVars, readVars, Terminate, Statuses, Pipes, Streams
<1>2. CASE Spawn
  BY <1>2 DEF Spawn, Others, Stay, NoFault, procVars, clockVars, readVars, Terminate, Procs
<1>3. CASE Top
  BY <1>3 DEF Top, Others, Stay, NoFault, procVars, clockVars, readVars, Terminate, Statuses, Pipes, Streams
<1>4. CASE LateTest
  <2>1. LoopType'
    BY <1>4 DEF LateTest, Stay, Terminate, Statuses
  <2>2. ReadType' /\ ProcType'
    BY <1>4 DEF LateTest, Others, procVars, readVars
  <2>3. deadlineOver' \in BOOLEAN /\ settleOver' \in BOOLEAN /\ inTime' \in BOOLEAN
    BY <1>4 DEF LateTest, Others, clockVars
  <2>4. signalled' \in BOOLEAN /\ faults' \in 0 .. MaxFaults
    BY <1>4 DEF LateTest, NoFault, Terminate
  <2> QED BY <2>1, <2>2, <2>3, <2>4
<1>5. CASE SetSettle
  BY <1>5 DEF SetSettle, Others, Stay, NoFault, procVars, clockVars, readVars, Terminate, Statuses, Pipes, Streams
<1>6. CASE SettleTest
  <2>1. LoopType'
    BY <1>6 DEF SettleTest, Stay, Terminate, Statuses
  <2>2. ReadType' /\ ProcType'
    BY <1>6 DEF SettleTest, Others, procVars, readVars
  <2>3. deadlineOver' \in BOOLEAN /\ settleOver' \in BOOLEAN /\ inTime' \in BOOLEAN
    BY <1>6 DEF SettleTest, Others, clockVars
  <2>4. signalled' \in BOOLEAN /\ faults' \in 0 .. MaxFaults
    BY <1>6 DEF SettleTest, NoFault, Terminate
  <2> QED BY <2>1, <2>2, <2>3, <2>4
<1>7. CASE Select
  BY <1>7 DEF Select, Others, Stay, NoFault, procVars, clockVars, readVars, Terminate, Statuses, Pipes, Streams
<1>8. CASE ReadMarker
  BY <1>8 DEF ReadMarker, Others, Stay, NoFault, procVars, clockVars, readVars, Terminate, Statuses, Pipes, Streams
<1>9. CASE ReadDone
  BY <1>9 DEF ReadDone, Others, Stay, NoFault, procVars, clockVars, readVars, Terminate, Statuses, Pipes, Streams
<1>10. CASE After
  BY <1>10 DEF After, Others, Stay, NoFault, procVars, clockVars, readVars, Terminate, Statuses, Pipes, Streams
<1>11. CASE Kill
  BY <1>11 DEF Kill, Others, Stay, NoFault, procVars, clockVars, readVars, Terminate, Procs
<1>12. CASE Final
  <2>1. LoopType'
    BY <1>12 DEF Final, Stay, Terminate, Statuses
  <2>2. ReadType' /\ ProcType'
    BY <1>12 DEF Final, Others, procVars, readVars
  <2>3. deadlineOver' \in BOOLEAN /\ settleOver' \in BOOLEAN /\ inTime' \in BOOLEAN
    BY <1>12 DEF Final, Others, clockVars
  <2>4. signalled' \in BOOLEAN /\ faults' \in 0 .. MaxFaults
    BY <1>12 DEF Final, NoFault, Terminate
  <2> QED BY <2>1, <2>2, <2>3, <2>4
<1>13. CASE Verdict
  <2>1. LoopType'
    BY <1>13 DEF Verdict, Stay, Terminate, Statuses
  <2>2. ReadType' /\ ProcType'
    BY <1>13 DEF Verdict, Others, procVars, readVars
  <2>3. deadlineOver' \in BOOLEAN /\ settleOver' \in BOOLEAN /\ inTime' \in BOOLEAN
    BY <1>13 DEF Verdict, Others, clockVars
  <2>4. signalled' \in BOOLEAN /\ faults' \in 0 .. MaxFaults
    BY <1>13 DEF Verdict, NoFault, Terminate
  <2> QED BY <2>1, <2>2, <2>3, <2>4
<1>14. ASSUME NEW q \in Pipes, ReadEnd(q) PROVE TypeOK'
  BY <1>14 DEF ReadEnd, Others, Stay, NoFault, procVars, clockVars, readVars, Terminate, Statuses, Pipes, Streams
<1>15. ASSUME NEW q \in Streams, ReadStream(q) PROVE TypeOK'
  <2>1. LoopType'
    BY <1>15 DEF ReadStream, Terminate, Statuses
  <2>2. unread' \in [Pipes -> Nat] /\ count' \in [Streams -> Nat]
    BY <1>15 DEF ReadStream, Pipes
  <2>3. ReadType' /\ ProcType'
    BY <1>15, <2>2 DEF ReadStream, Others, procVars
  <2>4. /\ deadlineOver' \in BOOLEAN /\ settleOver' \in BOOLEAN /\ inTime' \in BOOLEAN
        /\ signalled' \in BOOLEAN /\ faults' \in 0 .. MaxFaults
    BY <1>15 DEF ReadStream, Others, clockVars, NoFault, Terminate
  <2> QED BY <2>1, <2>3, <2>4
<1>16. CASE SupervisorFails
  BY <1>16, FaultAssumption DEF SupervisorFails, Fault, Others, Stay, procVars, clockVars, readVars, Terminate, Statuses
<1> QED BY <1>1, <1>2, <1>3, <1>4, <1>5, <1>6, <1>7, <1>8, <1>9, <1>10, <1>11, <1>12, <1>13, <1>14, <1>15, <1>16 DEF Driver

LEMMA ProcessTypes ==
    ASSUME TypeOK, Processes \/ DeadlinePasses \/ SettlePasses
    PROVE  TypeOK'
<1> USE DEF TypeOK, LoopType, ReadType, ProcType
<1>1. ASSUME NEW p \in Procs, NEW q \in Streams, Write(p, q) PROVE TypeOK'
  BY <1>1, FaultAssumption DEF Write, Pipes, Streams, Acts, Idle, NoFault, loopVars, procVars, readVars, clockVars
<1>2. ASSUME NEW p \in Procs, Mark(p) PROVE TypeOK'
  BY <1>2, FaultAssumption DEF Mark, Pipes, Acts, Idle, NoFault, loopVars, procVars, readVars, clockVars
<1>3. ASSUME NEW p \in Procs, NEW h \in Helpers, Fork(p, h) PROVE TypeOK'
  BY <1>3, FaultAssumption DEF Fork, Procs, Acts, Idle, NoFault, loopVars, procVars, readVars, clockVars
<1>4. ASSUME NEW h \in Helpers, Adopted(h) PROVE TypeOK'
  BY <1>4, FaultAssumption DEF Adopted, Acts, Idle, NoFault, loopVars, procVars, readVars, clockVars
<1>5. ASSUME NEW h \in Helpers, HelperExits(h) PROVE TypeOK'
  BY <1>5, FaultAssumption DEF HelperExits, Procs, Acts, Idle, NoFault, loopVars, procVars, readVars, clockVars
<1>6. CASE ProgramExits
  BY <1>6, FaultAssumption DEF ProgramExits, ProgramEnds, Procs, Acts, Idle, NoFault, loopVars, procVars, readVars, clockVars
<1>7. ASSUME NEW p \in Procs, Dies(p) PROVE TypeOK'
  <2>1. CASE p = "program"
    <3>1. ProgramEnds("kill")
      BY <1>7, <2>1 DEF Dies
    <3> QED BY <3>1 DEF ProgramEnds, Procs, Idle, NoFault, loopVars, readVars, clockVars
  <2>2. CASE p # "program"
    BY <1>7, <2>2 DEF Dies, Idle, NoFault, loopVars, readVars, clockVars
  <2> QED BY <2>1, <2>2
<1>8. CASE DeadlinePasses
  BY <1>8, FaultAssumption DEF DeadlinePasses, Acts, Idle, NoFault, loopVars, procVars, readVars, clockVars
<1>9. CASE SettlePasses
  BY <1>9, FaultAssumption DEF SettlePasses, Fault, Acts, Idle, NoFault, loopVars, procVars, readVars, clockVars
<1> QED BY <1>1, <1>2, <1>3, <1>4, <1>5, <1>6, <1>7, <1>8, <1>9 DEF Processes

LEMMA InitTypes == Init => TypeOK
<1> SUFFICES ASSUME Init PROVE TypeOK
  OBVIOUS
<1>1. LoopType
  BY DEF Init, LoopType, Statuses
<1>2. ReadType /\ ProcType
  BY DEF Init, ReadType, ProcType
<1>3. /\ deadlineOver \in BOOLEAN /\ settleOver \in BOOLEAN
      /\ signalled \in BOOLEAN /\ inTime \in BOOLEAN
  BY DEF Init
<1>4. faults = 0 /\ 0 \in 0 .. MaxFaults
  BY FaultAssumption DEF Init
<1> QED BY <1>1, <1>2, <1>3, <1>4 DEF TypeOK

(* The driver's and the processes' state keep their types, for any number  *)
(* of helpers and failures.                                                *)
THEOREM TypeCorrect == Spec => []TypeOK
<1>1. TypeOK /\ UNCHANGED vars => TypeOK'
  BY DEF TypeOK, LoopType, ReadType, ProcType, vars, loopVars, readVars, procVars, clockVars
<1>2. TypeOK /\ [Next]_vars => TypeOK'
  BY <1>1, DriverTypes, ProcessTypes DEF Next
<1> QED BY InitTypes, <1>2, PTL DEF Spec

(* Every step of the driver, the program and the clock keeps each of the  *)
(* five parts of the invariant.                                            *)

LEMMA FlowKept ==
    ASSUME TypeOK, Flow, Lifetime, [Next]_vars
    PROVE  Flow'
<1> USE HelperAssumption DEF Flow, TypeOK, LoopType, ReadType, ProcType, Runs, Polled, Streams
<1>1. CASE Refuse
  <2>1. proc' = proc /\ proc["program"] = "unborn"
    BY <1>1 DEF Refuse, Others, procVars, Lifetime, Procs
  <2> QED BY <2>1, <1>1 DEF Refuse, Stay, readVars
<1>2. CASE Spawn
  BY <1>2 DEF Spawn, Others, Stay, NoFault, procVars, clockVars, readVars, Terminate
<1>3. CASE Top
  BY <1>3 DEF Top, Others, Stay, NoFault, procVars, clockVars, readVars, Terminate
<1>4. CASE LateTest
  BY <1>4 DEF LateTest, Others, Stay, NoFault, procVars, clockVars, readVars, Terminate
<1>5. CASE SetSettle
  BY <1>5 DEF SetSettle, Others, Stay, NoFault, procVars, clockVars, readVars, Terminate
<1>6. CASE SettleTest
  <2>1. settle => Polled
    BY DEF Lifetime
  <2>2. UNCHANGED <<proc, marks, code>>
    BY <1>6 DEF SettleTest, Others, procVars, readVars
  <2>3. CASE status' = "retained" /\ Terminate("final")
    BY <2>2, <2>3, <1>6 DEF SettleTest, Stay, Terminate
  <2>4. CASE settle /\ registered \cap Streams = {} /\ pc' = "final" /\ UNCHANGED <<status, back, signalled>>
    BY <2>1, <2>2, <2>4, <1>6 DEF SettleTest, Stay
  <2>5. CASE pc' = "select" /\ UNCHANGED <<status, back, signalled>>
    BY <2>2, <2>5, <1>6 DEF SettleTest, Stay
  <2> QED BY <2>3, <2>4, <2>5, <1>6 DEF SettleTest
<1>7. CASE Select
  BY <1>7 DEF Select, Others, Stay, NoFault, procVars, clockVars, readVars, Terminate
<1>8. CASE ReadMarker
  BY <1>8 DEF ReadMarker, Others, Stay, NoFault, procVars, clockVars, readVars, Terminate
<1>9. CASE ReadDone
  BY <1>9 DEF ReadDone, Others, Stay, NoFault, procVars, clockVars, readVars, Terminate
<1>10. CASE After
  BY <1>10 DEF After, Others, Stay, NoFault, procVars, clockVars, readVars, Terminate
<1>11. CASE Kill
  BY <1>11 DEF Kill, Others, Stay, NoFault, procVars, clockVars, readVars, Terminate
<1>12. CASE Final
  BY <1>12 DEF Final, Others, Stay, NoFault, procVars, clockVars, readVars, Terminate
<1>13. CASE Verdict
  BY <1>13 DEF Verdict, Others, Stay, NoFault, procVars, clockVars, readVars, Terminate
<1>14. ASSUME NEW q \in Pipes, ReadEnd(q) PROVE Flow'
  BY <1>14 DEF ReadEnd, Others, procVars, readVars
<1>15. ASSUME NEW q \in Streams, ReadStream(q) PROVE Flow'
  BY <1>15 DEF ReadStream, Others, procVars, Terminate
<1>16. CASE SupervisorFails
  BY <1>16 DEF SupervisorFails, Others, Stay, procVars, readVars, Terminate
<1>17. ASSUME NEW p \in Procs, NEW q \in Streams, Write(p, q) PROVE Flow'
  BY <1>17 DEF Write, Acts, Idle, procVars, loopVars, readVars
<1>18. ASSUME NEW p \in Procs, Mark(p) PROVE Flow'
  BY <1>18 DEF Mark, Acts, Idle, loopVars, readVars
<1>19. ASSUME NEW p \in Procs, NEW h \in Helpers, Fork(p, h) PROVE Flow'
  BY <1>19 DEF Fork, Acts, Idle, loopVars, readVars
<1>20. ASSUME NEW h \in Helpers, Adopted(h) PROVE Flow'
  BY <1>20 DEF Adopted, Idle, loopVars, readVars
<1>21. ASSUME NEW h \in Helpers, HelperExits(h) PROVE Flow'
  BY <1>21 DEF HelperExits, Acts, Idle, loopVars, readVars
<1>22. ASSUME NEW c \in {"zero", "other", "kill"}, Runs("program"), ProgramEnds(c) PROVE Flow'
  BY <1>22 DEF ProgramEnds, Idle, loopVars, readVars
<1>23. ASSUME NEW p \in Helpers, p # "program", Dies(p) PROVE Flow'
  <2>1. /\ proc' = [proc EXCEPT ![p] = "zombie"] /\ code' = code
        /\ UNCHANGED <<loopVars, readVars, signalled>>
    BY <1>23 DEF Dies, Idle
  <2>2. proc'["program"] = proc["program"]
    BY <2>1, <1>23 DEF Procs
  <2> QED BY <2>1, <2>2 DEF loopVars, readVars
<1>24. CASE DeadlinePasses
  BY <1>24 DEF DeadlinePasses, loopVars, readVars, procVars
<1>25. CASE SettlePasses
  BY <1>25 DEF SettlePasses, loopVars, readVars, procVars
<1>26. CASE UNCHANGED vars
  BY <1>26 DEF vars, loopVars, readVars, procVars
<1>27. ASSUME NEW p \in Procs, Dies(p) PROVE Flow'
  BY <1>27, <1>22, <1>23 DEF Dies, Procs
<1>28. CASE ProgramExits
  BY <1>28, <1>22 DEF ProgramExits, Acts
<1> QED
  BY <1>1, <1>2, <1>3, <1>4, <1>5, <1>6, <1>7, <1>8, <1>9, <1>10, <1>11, <1>12, <1>13, <1>14, <1>15, <1>16, <1>17, <1>18, <1>19, <1>20, <1>21, <1>22, <1>23, <1>24, <1>25, <1>26, <1>27, <1>28
     DEF Next, Driver, Processes

LEMMA LifetimeKept ==
    ASSUME TypeOK, Flow, Lifetime, [Next]_vars
    PROVE  Lifetime'
<1> USE HelperAssumption DEF Lifetime, TypeOK, LoopType, ReadType, ProcType, Runs, Polled, Streams, Procs
<1>1. CASE Refuse
  BY <1>1 DEF Refuse, Others, Stay, NoFault, procVars, clockVars, readVars, Terminate
<1>2. CASE Spawn
  BY <1>2 DEF Spawn, Others, Stay, NoFault, procVars, clockVars, readVars, Terminate
<1>3. CASE Top
  BY <1>3 DEF Top, Others, Stay, NoFault, procVars, clockVars, readVars, Terminate
<1>4. CASE LateTest
  BY <1>4 DEF LateTest, Others, Stay, NoFault, procVars, clockVars, readVars, Terminate
<1>5. CASE SetSettle
  BY <1>5 DEF SetSettle, Others, Stay, NoFault, procVars, clockVars, readVars, Terminate
<1>6. CASE SettleTest
  BY <1>6 DEF SettleTest, Others, Stay, NoFault, procVars, clockVars, readVars, Terminate
<1>7. CASE Select
  BY <1>7 DEF Select, Others, Stay, NoFault, procVars, clockVars, readVars, Terminate
<1>8. CASE ReadMarker
  BY <1>8 DEF ReadMarker, Others, Stay, NoFault, procVars, clockVars, readVars, Terminate
<1>9. CASE ReadDone
  BY <1>9 DEF ReadDone, Others, Stay, NoFault, procVars, clockVars, readVars, Terminate
<1>10. CASE After
  BY <1>10 DEF After, Others, Stay, NoFault, procVars, clockVars, readVars, Terminate
<1>11. CASE Kill
  BY <1>11 DEF Kill, Others, Stay, NoFault, procVars, clockVars, readVars, Terminate
<1>12. CASE Final
  BY <1>12 DEF Final, Others, Stay, NoFault, procVars, clockVars, readVars, Terminate
<1>13. CASE Verdict
  BY <1>13 DEF Verdict, Others, Stay, NoFault, procVars, clockVars, readVars, Terminate
<1>14. ASSUME NEW q \in Pipes, ReadEnd(q) PROVE Lifetime'
  BY <1>14 DEF ReadEnd, Others, procVars, readVars
<1>15. ASSUME NEW q \in Streams, ReadStream(q) PROVE Lifetime'
  BY <1>15 DEF ReadStream, Others, procVars, Terminate
<1>16. CASE SupervisorFails
  BY <1>16 DEF SupervisorFails, Others, Stay, procVars, readVars, Terminate
<1>17. ASSUME NEW p \in Procs, NEW q \in Streams, Write(p, q) PROVE Lifetime'
  BY <1>17 DEF Write, Acts, Idle, procVars, loopVars, readVars
<1>18. ASSUME NEW p \in Procs, Mark(p) PROVE Lifetime'
  BY <1>18 DEF Mark, Acts, Idle, loopVars, readVars
<1>19. ASSUME NEW p \in Procs, NEW h \in Helpers, Fork(p, h) PROVE Lifetime'
  BY <1>19 DEF Fork, Acts, Idle, loopVars, readVars
<1>20. ASSUME NEW h \in Helpers, Adopted(h) PROVE Lifetime'
  BY <1>20 DEF Adopted, Idle, loopVars, readVars
<1>21. ASSUME NEW h \in Helpers, HelperExits(h) PROVE Lifetime'
  BY <1>21 DEF HelperExits, Acts, Idle, loopVars, readVars
<1>22. ASSUME NEW c \in {"zero", "other", "kill"}, Runs("program"), ProgramEnds(c) PROVE Lifetime'
  BY <1>22 DEF ProgramEnds, Idle, loopVars, readVars
<1>23. ASSUME NEW p \in Helpers, p # "program", Dies(p) PROVE Lifetime'
  BY <1>23 DEF Dies, Idle, loopVars, readVars
<1>24. CASE DeadlinePasses
  BY <1>24 DEF DeadlinePasses, loopVars, readVars, procVars
<1>25. CASE SettlePasses
  BY <1>25 DEF SettlePasses, loopVars, readVars, procVars
<1>26. CASE UNCHANGED vars
  BY <1>26 DEF vars, loopVars, readVars, procVars
<1>27. ASSUME NEW p \in Procs, Dies(p) PROVE Lifetime'
  BY <1>27, <1>22, <1>23 DEF Dies, Procs
<1>28. CASE ProgramExits
  BY <1>28, <1>22 DEF ProgramExits, Acts
<1> QED
  BY <1>1, <1>2, <1>3, <1>4, <1>5, <1>6, <1>7, <1>8, <1>9, <1>10, <1>11, <1>12, <1>13, <1>14, <1>15, <1>16, <1>17, <1>18, <1>19, <1>20, <1>21, <1>22, <1>23, <1>24, <1>25, <1>26, <1>27, <1>28
     DEF Next, Driver, Processes

LEMMA PipesEndKept ==
    ASSUME TypeOK, Flow, Lifetime, PipesEnd, [Next]_vars
    PROVE  PipesEnd'
<1> USE HelperAssumption DEF PipesEnd, TypeOK, LoopType, ReadType, ProcType, Runs, Polled, Streams, Held, Ready, Pipes, Procs
<1>1. CASE Refuse
  <2>1. /\ unread' = unread /\ holds' = holds /\ proc' = proc
        /\ UNCHANGED <<registered, events, count>> /\ pc = "request" /\ pc' = "done"
    BY <1>1 DEF Refuse, Others, Stay, procVars, readVars
  <2>2. \A p \in Procs : holds[p] = {}
    BY <2>1 DEF Lifetime
  <2>3. status' # "ok"
    BY <1>1 DEF Refuse
  <2> QED BY <2>1, <2>2, <2>3
<1>2. CASE Spawn
  BY <1>2 DEF Spawn, Others, Stay, NoFault, procVars, clockVars, readVars, Terminate
<1>3. CASE Top
  BY <1>3 DEF Top, Others, Stay, NoFault, procVars, clockVars, readVars, Terminate
<1>4. CASE LateTest
  BY <1>4 DEF LateTest, Others, Stay, NoFault, procVars, clockVars, readVars, Terminate
<1>5. CASE SetSettle
  BY <1>5 DEF SetSettle, Others, Stay, NoFault, procVars, clockVars, readVars, Terminate
<1>6. CASE SettleTest
  BY <1>6 DEF SettleTest, Others, Stay, NoFault, procVars, clockVars, readVars, Terminate
<1>7. CASE Select
  BY <1>7 DEF Select, Others, Stay, NoFault, procVars, clockVars, readVars, Terminate
<1>8. CASE ReadMarker
  BY <1>8 DEF ReadMarker, Others, Stay, NoFault, procVars, clockVars, readVars, Terminate
<1>9. CASE ReadDone
  BY <1>9 DEF ReadDone, Others, Stay, NoFault, procVars, clockVars, readVars, Terminate
<1>10. CASE After
  BY <1>10 DEF After, Others, Stay, NoFault, procVars, clockVars, readVars, Terminate
<1>11. CASE Kill
  BY <1>11 DEF Kill, Others, Stay, NoFault, procVars, clockVars, readVars, Terminate
<1>12. CASE Final
  BY <1>12 DEF Final, Others, Stay, NoFault, procVars, clockVars, readVars, Terminate
<1>13. CASE Verdict
  BY <1>13 DEF Verdict, Others, Stay, NoFault, procVars, clockVars, readVars, Terminate
<1>14. ASSUME NEW q \in Pipes, ReadEnd(q) PROVE PipesEnd'
  BY <1>14 DEF ReadEnd, Others, procVars, readVars
<1>15. ASSUME NEW q \in Streams, ReadStream(q) PROVE PipesEnd'
  <2>1. /\ unread' = [unread EXCEPT ![q] = @ - 1] /\ count' = [count EXCEPT ![q] = @ + 1]
        /\ events' = events \ {q} /\ UNCHANGED <<registered, holds, proc>>
        /\ q \in events /\ pc = "read"
    BY <1>15 DEF ReadStream, Others, procVars
  <2>a. pc' # "request"
    BY <1>15 DEF ReadStream, Terminate
  <2>2. q \in registered /\ \A x \in Pipes \ {q} : unread'[x] = unread[x]
    BY <2>1
  <2>3. \A x \in Streams : count'[x] > Limit => status' # "ok"
    <3>1. count'[q] > Limit => status' # "ok"
      <4>1. CASE status' = "output_limit"
        BY <4>1
      <4>2. CASE (count'[q] <= Limit \/ status # "ok") /\ status' = status
        <5>1. count'[q] \in Nat
          BY <2>1
        <5> QED BY <4>2, <5>1, LimitAssumption
      <4> QED BY <4>1, <4>2, <1>15 DEF ReadStream
    <3>2. status = "ok" \/ status' # "ok"
      BY <1>15 DEF ReadStream
    <3>3. \A x \in Streams \ {q} : count'[x] = count[x]
      BY <2>1
    <3> QED BY <3>1, <3>2, <3>3
  <2>4. \A x \in events' : Ready(x)'
    <3>1. \A x \in events' : Ready(x) /\ unread'[x] = unread[x]
      BY <2>1, <2>2
    <3> QED BY <3>1, <2>1
  <2>5. \A x \in Pipes \ registered' : unread'[x] = 0 /\ ~Held(x)'
    <3>1. \A x \in Pipes \ registered : unread'[x] = unread[x]
      BY <2>2
    <3> QED BY <3>1, <2>1
  <2> QED BY <2>1, <2>a, <2>3, <2>4, <2>5
<1>16. CASE SupervisorFails
  BY <1>16 DEF SupervisorFails, Others, Stay, procVars, readVars, Terminate
<1>17. ASSUME NEW p \in Procs, NEW q \in Streams, Write(p, q) PROVE PipesEnd'
  <2>1. /\ unread' = [unread EXCEPT ![q] = @ + 1] /\ UNCHANGED <<proc, holds, pc, registered, events, count, status>>
        /\ q \in holds[p] /\ Runs(p)
    BY <1>17 DEF Write, Acts, Idle, procVars, loopVars, readVars
  <2>2. pc # "request" /\ q \in registered
    BY <2>1 DEF Lifetime
  <2>3. unread'[q] > 0 /\ \A x \in Pipes \ {q} : unread'[x] = unread[x]
    BY <2>1
  <2>4. \A x \in events' : Ready(x)'
    BY <2>1, <2>3
  <2>5. \A x \in Pipes \ registered' : unread'[x] = 0 /\ ~Held(x)'
    BY <2>1, <2>2, <2>3
  <2> QED BY <2>1, <2>2, <2>4, <2>5
<1>18. ASSUME NEW p \in Procs, Mark(p) PROVE PipesEnd'
  <2>1. /\ unread' = [unread EXCEPT !["completion"] = @ + 1]
        /\ holds' = [holds EXCEPT ![p] = @ \ {"completion"}]
        /\ UNCHANGED <<proc, pc, registered, events, count, status>>
        /\ "completion" \in holds[p] /\ Runs(p)
    BY <1>18 DEF Mark, Acts, Idle, loopVars, readVars
  <2>2. pc # "request" /\ "completion" \in registered
    BY <2>1 DEF Lifetime
  <2>3. unread'["completion"] > 0 /\ \A x \in Pipes \ {"completion"} : unread'[x] = unread[x]
    BY <2>1
  <2>4. \A r \in Procs : holds'[r] \subseteq holds[r]
    BY <2>1
  <2>5. \A x \in Pipes : ~Held(x) => ~Held(x)'
    BY <2>4
  <2>6. \A x \in events' : Ready(x)'
    BY <2>1, <2>3, <2>5
  <2>7. \A x \in Pipes \ registered' : unread'[x] = 0 /\ ~Held(x)'
    BY <2>1, <2>2, <2>3, <2>5
  <2>8. \A r \in Procs : ~Runs(r)' => holds'[r] = {}
    BY <2>1, <2>4
  <2> QED BY <2>1, <2>2, <2>6, <2>7, <2>8
<1>19. ASSUME NEW p \in Procs, NEW h \in Helpers, Fork(p, h) PROVE PipesEnd'
  BY <1>19 DEF Fork, Acts, Idle, loopVars, readVars
<1>20. ASSUME NEW h \in Helpers, Adopted(h) PROVE PipesEnd'
  BY <1>20 DEF Adopted, Idle, loopVars, readVars
<1>21. ASSUME NEW h \in Helpers, HelperExits(h) PROVE PipesEnd'
  BY <1>21 DEF HelperExits, Acts, Idle, loopVars, readVars
<1>22. ASSUME NEW c \in {"zero", "other", "kill"}, Runs("program"), ProgramEnds(c) PROVE PipesEnd'
  BY <1>22 DEF ProgramEnds, Idle, loopVars, readVars
<1>23. ASSUME NEW p \in Helpers, p # "program", Dies(p) PROVE PipesEnd'
  <2>1. /\ proc' = [proc EXCEPT ![p] = "zombie"] /\ holds' = [holds EXCEPT ![p] = {}]
        /\ UNCHANGED <<unread, pc, registered, events, count, status>>
    BY <1>23 DEF Dies, Idle, loopVars, readVars
  <2>4. \A r \in Procs : holds'[r] \subseteq holds[r]
    BY <2>1
  <2>5. \A x \in Pipes : ~Held(x) => ~Held(x)'
    BY <2>4
  <2>6. \A r \in Procs : ~Runs(r)' => holds'[r] = {}
    BY <2>1
  <2>7. \A x \in events' : Ready(x)'
    BY <2>1, <2>5
  <2> QED BY <2>1, <2>5, <2>6, <2>7
<1>24. CASE DeadlinePasses
  BY <1>24 DEF DeadlinePasses, loopVars, readVars, procVars
<1>25. CASE SettlePasses
  BY <1>25 DEF SettlePasses, loopVars, readVars, procVars
<1>26. CASE UNCHANGED vars
  BY <1>26 DEF vars, loopVars, readVars, procVars
<1>27. ASSUME NEW p \in Procs, Dies(p) PROVE PipesEnd'
  BY <1>27, <1>22, <1>23 DEF Dies, Procs
<1>28. CASE ProgramExits
  BY <1>28, <1>22 DEF ProgramExits, Acts
<1> QED
  BY <1>1, <1>2, <1>3, <1>4, <1>5, <1>6, <1>7, <1>8, <1>9, <1>10, <1>11, <1>12, <1>13, <1>14, <1>15, <1>16, <1>17, <1>18, <1>19, <1>20, <1>21, <1>22, <1>23, <1>24, <1>25, <1>26, <1>27, <1>28
     DEF Next, Driver, Processes

LEMMA SignalsKept ==
    ASSUME TypeOK, Flow, Lifetime, Signals, [Next]_vars
    PROVE  Signals'
<1> USE HelperAssumption DEF Signals, TypeOK, LoopType, ReadType, ProcType, Runs, Polled, Streams, Procs, Live
<1>1. CASE Refuse
  BY <1>1 DEF Refuse, Others, Stay, NoFault, procVars, clockVars, readVars, Terminate
<1>2. CASE Spawn
  <2>1. ~signalled' /\ owned' = owned /\ owned = {}
    BY <1>2 DEF Spawn, Flow, Lifetime, Procs
  <2> QED BY <2>1
<1>3. CASE Top
  <2>1. ~signalled' /\ proc' = proc /\ owned' = owned \cup {h \in below : Live(h)}
    BY <1>3 DEF Top, Others, procVars, Flow
  <2> QED BY <2>1
<1>4. CASE LateTest
  BY <1>4 DEF LateTest, Others, Stay, NoFault, procVars, clockVars, readVars, Terminate
<1>5. CASE SetSettle
  BY <1>5 DEF SetSettle, Others, Stay, NoFault, procVars, clockVars, readVars, Terminate
<1>6. CASE SettleTest
  BY <1>6 DEF SettleTest, Others, Stay, NoFault, procVars, clockVars, readVars, Terminate
<1>7. CASE Select
  BY <1>7 DEF Select, Others, Stay, NoFault, procVars, clockVars, readVars, Terminate
<1>8. CASE ReadMarker
  BY <1>8 DEF ReadMarker, Others, Stay, NoFault, procVars, clockVars, readVars, Terminate
<1>9. CASE ReadDone
  BY <1>9 DEF ReadDone, Others, Stay, NoFault, procVars, clockVars, readVars, Terminate
<1>10. CASE After
  BY <1>10 DEF After, Others, Stay, NoFault, procVars, clockVars, readVars, Terminate
<1>11. CASE Kill
  BY <1>11 DEF Kill, Others, Stay, NoFault, procVars, clockVars, readVars, Terminate
<1>12. CASE Final
  BY <1>12 DEF Final, Others, Stay, NoFault, procVars, clockVars, readVars, Terminate
<1>13. CASE Verdict
  BY <1>13 DEF Verdict, Others, Stay, NoFault, procVars, clockVars, readVars, Terminate
<1>14. ASSUME NEW q \in Pipes, ReadEnd(q) PROVE Signals'
  BY <1>14 DEF ReadEnd, Others, procVars, readVars
<1>15. ASSUME NEW q \in Streams, ReadStream(q) PROVE Signals'
  BY <1>15 DEF ReadStream, Others, procVars, Terminate
<1>16. CASE SupervisorFails
  BY <1>16 DEF SupervisorFails, Others, Stay, procVars, readVars, Terminate
<1>17. ASSUME NEW p \in Procs, NEW q \in Streams, Write(p, q) PROVE Signals'
  BY <1>17 DEF Write, Acts, Idle, procVars, loopVars, readVars
<1>18. ASSUME NEW p \in Procs, Mark(p) PROVE Signals'
  BY <1>18 DEF Mark, Acts, Idle, loopVars, readVars
<1>19. ASSUME NEW p \in Procs, NEW h \in Helpers, Fork(p, h) PROVE Signals'
  BY <1>19 DEF Fork, Acts, Idle, loopVars, readVars
<1>20. ASSUME NEW h \in Helpers, Adopted(h) PROVE Signals'
  BY <1>20 DEF Adopted, Idle, loopVars, readVars
<1>21. ASSUME NEW h \in Helpers, HelperExits(h) PROVE Signals'
  BY <1>21 DEF HelperExits, Acts, Idle, loopVars, readVars
<1>22. ASSUME NEW c \in {"zero", "other", "kill"}, Runs("program"), ProgramEnds(c) PROVE Signals'
  BY <1>22 DEF ProgramEnds, Idle, loopVars, readVars
<1>23. ASSUME NEW p \in Helpers, p # "program", Dies(p) PROVE Signals'
  BY <1>23 DEF Dies, Idle, loopVars, readVars
<1>24. CASE DeadlinePasses
  BY <1>24 DEF DeadlinePasses, loopVars, readVars, procVars
<1>25. CASE SettlePasses
  BY <1>25 DEF SettlePasses, loopVars, readVars, procVars
<1>26. CASE UNCHANGED vars
  BY <1>26 DEF vars, loopVars, readVars, procVars
<1>27. ASSUME NEW p \in Procs, Dies(p) PROVE Signals'
  BY <1>27, <1>22, <1>23 DEF Dies, Procs
<1>28. CASE ProgramExits
  BY <1>28, <1>22 DEF ProgramExits, Acts
<1> QED
  BY <1>1, <1>2, <1>3, <1>4, <1>5, <1>6, <1>7, <1>8, <1>9, <1>10, <1>11, <1>12, <1>13, <1>14, <1>15, <1>16, <1>17, <1>18, <1>19, <1>20, <1>21, <1>22, <1>23, <1>24, <1>25, <1>26, <1>27, <1>28
     DEF Next, Driver, Processes

(* Faults only accumulate, and a helper that was started stays known as    *)
(* one: what excuses a status goes on excusing it.                         *)
LEMMA FaultsGrow ==
    ASSUME TypeOK, [Next]_vars
    PROVE  faults' = 0 => faults = 0
<1> USE FaultAssumption DEF TypeOK, NoFault, Fault, Idle
<1>1. CASE Driver
  BY <1>1 DEF Driver, Refuse, Spawn, Top, LateTest, SetSettle, SettleTest, Select, ReadMarker,
     ReadDone, After, Kill, Final, Verdict, ReadEnd, ReadStream
<1>2. CASE SupervisorFails
  BY <1>2 DEF SupervisorFails
<1>3. CASE Processes
  BY <1>3 DEF Processes, Mark, Dies, Write, Adopted, HelperExits, Fork, ProgramExits, ProgramEnds
<1>4. CASE DeadlinePasses \/ SettlePasses
  BY <1>4 DEF DeadlinePasses, SettlePasses
<1> QED BY <1>1, <1>2, <1>3, <1>4 DEF Next, vars

LEMMA HelpersStay ==
    ASSUME TypeOK, [Next]_vars, Helped
    PROVE  Helped'
<1> USE HelperAssumption DEF TypeOK, ProcType, Procs, Idle, Helped
<1>1. CASE Driver \/ SupervisorFails
  BY <1>1 DEF Driver, Refuse, Spawn, Top, LateTest, SetSettle, SettleTest, Select, ReadMarker,
     ReadDone, After, Kill, Final, Verdict, ReadEnd, ReadStream, SupervisorFails, Others, procVars
<1>2. CASE Processes
  <2>1. CASE \E p \in Procs : Mark(p) \/ Dies(p) \/ \E q \in Streams : Write(p, q)
    BY <2>1 DEF Mark, Dies, Write, ProgramEnds, procVars
  <2>2. CASE \E h \in Helpers : Adopted(h) \/ HelperExits(h)
    BY <2>2 DEF Adopted, HelperExits
  <2>3. ASSUME NEW h \in Helpers, NEW p \in Procs, Fork(p, h) PROVE Helped'
    BY <2>3 DEF Fork
  <2>4. CASE ProgramExits
    BY <2>4 DEF ProgramExits, ProgramEnds
  <2> QED BY <1>2, <2>1, <2>2, <2>3, <2>4 DEF Processes
<1>3. CASE DeadlinePasses \/ SettlePasses
  BY <1>3 DEF DeadlinePasses, SettlePasses, procVars
<1> QED BY <1>1, <1>2, <1>3 DEF Next, vars, procVars

(* Only a helper can hold a pipe once the program is gone.                 *)
LEMMA HeldByHelper ==
    ASSUME TypeOK, Lifetime, PipesEnd, settle, NEW q \in Pipes, Held(q)
    PROVE  Helped
BY DEF TypeOK, ProcType, Lifetime, PipesEnd, Held, Helped, Procs, Runs

LEMMA ExcusesKept ==
    ASSUME TypeOK, Flow, Lifetime, PipesEnd, Excuses, [Next]_vars
    PROVE  Excuses'
<1> USE HelperAssumption, FaultsGrow, HelpersStay DEF Excuses, TypeOK, LoopType, ReadType, ProcType, Streams, Idle, Stay
<1>1. CASE Refuse
  <2>1. /\ UNCHANGED <<settled, settleOver, proc, count, faults>> /\ proc["program"] = "unborn"
        /\ status' = "grader_error" /\ pc' = "done" /\ status = "ok"
    BY <1>1 DEF Refuse, Others, procVars, clockVars, readVars, NoFault, Lifetime, Procs, Flow
  <2> QED BY <2>1
<1>2. CASE Spawn
  <2>1. status = "ok" /\ UNCHANGED <<status, settled, settleOver, faults>> /\ pc' = "top"
    BY <1>2 DEF Spawn, Flow, clockVars, NoFault
  <2> QED BY <2>1
<1>3. CASE Top
  BY <1>3 DEF Top, Others, NoFault, procVars, clockVars, readVars
<1>4. CASE LateTest
  BY <1>4 DEF LateTest, Others, NoFault, procVars, clockVars, readVars, Terminate
<1>5. CASE SetSettle
  BY <1>5 DEF SetSettle, Others, NoFault, procVars, clockVars, readVars
<1>6. CASE SettleTest
  BY <1>6 DEF SettleTest, Others, NoFault, procVars, clockVars, readVars, Terminate
<1>7. CASE Select
  BY <1>7 DEF Select, Others, NoFault, procVars, clockVars, readVars
<1>8. CASE ReadMarker
  BY <1>8 DEF ReadMarker, Others, NoFault, procVars, clockVars, Flow
<1>9. CASE ReadDone
  BY <1>9 DEF ReadDone, Others, NoFault, procVars, clockVars, readVars
<1>10. CASE After
  BY <1>10 DEF After, Others, NoFault, procVars, clockVars, readVars
<1>11. CASE Kill
  <2>1. signalled /\ pc = "terminate" /\ status # "ok"
    BY <1>11 DEF Kill, Flow
  <2> QED BY <1>11, <2>1 DEF Kill, Others, NoFault, procVars, clockVars, readVars
<1>12. CASE Final
  BY <1>12 DEF Final, Others, NoFault, procVars, clockVars, readVars, Terminate
<1>13. CASE Verdict
  <2>1. /\ UNCHANGED <<settled, settleOver, proc, code, count, marks, unread, registered, faults>>
        /\ pc = "verdict" /\ pc' = "done"
    BY <1>13 DEF Verdict, Others, NoFault, procVars, clockVars, readVars
  <2>2. \/ status # "ok" /\ status' = status
        \/ status = "ok" /\ code = "kill" /\ status' = "oom"
        \/ status = "ok" /\ code \notin {"zero", "kill"} /\ status' = "exit"
        \/ status = "ok" /\ code = "zero" /\ marks = 1 /\ status' = "ok"
        \/ status = "ok" /\ code = "zero" /\ marks # 1 /\ status' = "marker"
    BY <1>13 DEF Verdict
  <2>3. registered = {} => unread["completion"] = 0
    BY <2>1 DEF PipesEnd, Pipes
  <2> QED BY <2>1, <2>2, <2>3
<1>14. ASSUME NEW q \in Pipes, ReadEnd(q) PROVE Excuses'
  BY <1>14 DEF ReadEnd, Others, NoFault, procVars, clockVars, readVars
<1>15. ASSUME NEW q \in Streams, ReadStream(q) PROVE Excuses'
  <2>1. /\ UNCHANGED <<settled, settleOver, proc, code, registered, faults>> /\ pc = "read"
        /\ count' = [count EXCEPT ![q] = @ + 1]
        /\ \/ count'[q] > Limit /\ status' = "output_limit" /\ pc' = "terminate"
           \/ UNCHANGED <<status, pc>>
    BY <1>15 DEF ReadStream, Others, NoFault, procVars, clockVars, Terminate
  <2>2. \A x \in Streams : count[x] > Limit => count'[x] > Limit
    BY <2>1, LimitAssumption
  <2>3. status' \notin {"exit", "oom", "marker"}
    BY <2>1 DEF Flow
  <2> QED BY <2>1, <2>2, <2>3
<1>16. CASE SupervisorFails
  BY <1>16, FaultAssumption DEF SupervisorFails, Fault, Others, procVars, clockVars, readVars, Terminate
<1>17. ASSUME NEW p \in Procs, NEW q \in Streams, Write(p, q) PROVE Excuses'
  BY <1>17 DEF Write, NoFault, procVars, loopVars, readVars, clockVars, Flow
<1>18. ASSUME NEW p \in Procs, Mark(p) PROVE Excuses'
  BY <1>18 DEF Mark, NoFault, loopVars, readVars, clockVars, Flow
<1>19. ASSUME NEW p \in Procs, NEW h \in Helpers, Fork(p, h) PROVE Excuses'
  <2>1. /\ UNCHANGED <<loopVars, readVars, clockVars, code, unread, faults>>
        /\ proc' = [proc EXCEPT ![h] = "run"] /\ h # "program"
    BY <1>19 DEF Fork, NoFault
  <2>2. proc'["program"] = proc["program"]
    BY <2>1 DEF Procs
  <2> QED BY <2>1, <2>2 DEF loopVars, readVars, clockVars
<1>20. ASSUME NEW h \in Helpers, Adopted(h) PROVE Excuses'
  BY <1>20 DEF Adopted, NoFault, loopVars, readVars, clockVars
<1>21. ASSUME NEW h \in Helpers, HelperExits(h) PROVE Excuses'
  <2>1. /\ UNCHANGED <<loopVars, readVars, clockVars, code, unread, faults>>
        /\ \E s \in {"zombie", "gone"} : proc' = [proc EXCEPT ![h] = s]
        /\ h # "program"
    BY <1>21 DEF HelperExits, NoFault
  <2>2. proc'["program"] = proc["program"]
    BY <2>1 DEF Procs
  <2> QED BY <2>1, <2>2 DEF loopVars, readVars, clockVars
<1>22. ASSUME NEW c \in {"zero", "other", "kill"}, Runs("program"), ProgramEnds(c) PROVE Excuses'
  <2>1. /\ UNCHANGED <<loopVars, readVars, clockVars, unread, faults>> /\ pc # "done"
        /\ proc["program"] = "run"
    BY <1>22 DEF ProgramEnds, NoFault, Runs
  <2>2. status \notin {"exit", "oom", "marker"}
    BY <2>1 DEF Flow
  <2> QED BY <2>1, <2>2 DEF loopVars, readVars, clockVars
<1>23. ASSUME NEW p \in Helpers, p # "program", Dies(p) PROVE Excuses'
  <2>1. /\ UNCHANGED <<loopVars, readVars, clockVars, code, unread, faults>>
        /\ proc' = [proc EXCEPT ![p] = "zombie"]
    BY <1>23 DEF Dies, NoFault
  <2>2. proc'["program"] = proc["program"]
    BY <2>1, <1>23 DEF Procs
  <2> QED BY <2>1, <2>2 DEF loopVars, readVars, clockVars
<1>24. CASE DeadlinePasses
  BY <1>24 DEF DeadlinePasses, NoFault, loopVars, readVars, procVars
<1>25. CASE SettlePasses
  <2>1. /\ UNCHANGED <<loopVars, readVars, procVars, unread>> /\ settle /\ settleOver' = TRUE
        /\ IF \E q \in registered : Held(q) THEN faults' = faults ELSE faults' = faults + 1
    BY <1>25 DEF SettlePasses, NoFault, Fault
  <2>2. CASE \E q \in registered : Held(q)
    <3>1. Helped
      BY <2>1, <2>2, HeldByHelper
    <3> QED BY <2>1, <2>2, <3>1 DEF loopVars, readVars, procVars
  <2>3. CASE ~\E q \in registered : Held(q)
    BY <2>1, <2>3, FaultAssumption DEF loopVars, readVars, procVars
  <2> QED BY <2>2, <2>3
<1>26. CASE UNCHANGED vars
  BY <1>26 DEF vars, loopVars, readVars, procVars, clockVars
<1>27. ASSUME NEW p \in Procs, Dies(p) PROVE Excuses'
  BY <1>27, <1>22, <1>23 DEF Dies, Procs
<1>28. CASE ProgramExits
  BY <1>28, <1>22 DEF ProgramExits, Acts
<1> QED
  BY <1>1, <1>2, <1>3, <1>4, <1>5, <1>6, <1>7, <1>8, <1>9, <1>10, <1>11, <1>12, <1>13, <1>14, <1>15, <1>16, <1>17, <1>18, <1>19, <1>20, <1>21, <1>22, <1>23, <1>24, <1>25, <1>26, <1>27, <1>28
     DEF Next, Driver, Processes

IInv == TypeOK /\ Flow /\ Lifetime /\ PipesEnd /\ Signals /\ Excuses

LEMMA InitInv == Init => IInv
<1> SUFFICES ASSUME Init PROVE IInv
  OBVIOUS
<1>1. TypeOK
  BY InitTypes
<1>2. Flow
  BY DEF Init, Flow, Polled, Runs, Procs
<1>3. Lifetime
  BY DEF Init, Lifetime, Procs
<1>4. PipesEnd
  <2>1. /\ pc = "request" /\ registered = {} /\ events = {}
        /\ status = "ok" /\ \A p \in Procs : holds[p] = {}
    BY DEF Init
  <2>2. \A q \in Pipes : unread[q] = 0
    BY DEF Init
  <2>3. \A q \in Streams : count[q] = 0
    BY DEF Init
  <2> QED BY <2>1, <2>2, <2>3, LimitAssumption DEF PipesEnd
<1>5. Signals
  BY DEF Init, Signals
<1>6. Excuses
  BY DEF Init, Excuses
<1> QED BY <1>1, <1>2, <1>3, <1>4, <1>5, <1>6 DEF IInv

(* The five parts hold together in every reachable state.                  *)
LEMMA Invariant == Spec => []IInv
<1>1. IInv /\ [Next]_vars => IInv'
  <2> SUFFICES ASSUME IInv, [Next]_vars PROVE IInv'
    OBVIOUS
  <2>1. TypeOK'
    <3>1. CASE UNCHANGED vars
      BY <3>1 DEF IInv, TypeOK, LoopType, ReadType, ProcType, vars, loopVars, readVars,
                  procVars, clockVars
    <3> QED BY <3>1, DriverTypes, ProcessTypes DEF IInv, Next
  <2> QED BY <2>1, FlowKept, LifetimeKept, PipesEndKept, SignalsKept, ExcusesKept DEF IInv
<1> QED BY InitInv, <1>1, PTL DEF Spec

(* A verdict about the program is earned, whatever the program, its        *)
(* helpers and the system calls do: for any number of helpers and any      *)
(* limit on output.                                                        *)
THEOREM VerdictsAreEarned == Spec => []VerdictIsEarned
<1>1. IInv => VerdictIsEarned
  <2> SUFFICES ASSUME IInv, pc = "done" PROVE VerdictIsEarned
    BY DEF VerdictIsEarned
  <2>1. ASSUME status = "ok" PROVE Passed
    <3>1. code = "zero" /\ marks = 1 /\ registered \cap Streams = {}
      BY <2>1 DEF IInv, Flow
    <3>2. ASSUME NEW q \in Streams
          PROVE  count[q] <= Limit /\ unread[q] = 0 /\ ~Held(q)
      <4>1. q \in Pipes \ registered
        BY <3>1 DEF Pipes
      <4>2. unread[q] = 0 /\ ~Held(q)
        BY <4>1 DEF IInv, PipesEnd
      <4>3. ~(count[q] > Limit) /\ count[q] \in Nat
        BY <2>1 DEF IInv, PipesEnd, TypeOK, ReadType
      <4> QED BY <4>2, <4>3, LimitAssumption
    <3> QED BY <3>1, <3>2 DEF Passed
  <2>2. status \in {"ok", "exit", "oom", "marker"} => ~signalled
    BY DEF IInv, Flow
  <2>3. status = "timeout" => ~inTime
    BY DEF IInv, Lifetime
  <2> QED BY <2>1, <2>2, <2>3 DEF VerdictIsEarned
<1> QED BY <1>1, Invariant, PTL

(* When the receipt is written the program has ended or was sent SIGKILL,  *)
(* and so was every helper the driver knew of if it ended the program.     *)
THEOREM SignalledAreGone == Spec => []SignalledIsGone
<1>1. IInv => SignalledIsGone
  BY DEF IInv, Flow, Signals, SignalledIsGone, Polled
<1> QED BY <1>1, Invariant, PTL

(* A program that started no helper, reached its last line, ended with     *)
(* code zero in time and stayed within the limit is passed, unless the     *)
(* driver itself failed or was too slow.                                   *)
THEOREM GoodProgramsPass == Spec => []GoodProgramPasses
<1>1. IInv => GoodProgramPasses
  <2> SUFFICES ASSUME IInv, pc = "done", DidEverythingRight, faults = 0 PROVE status = "ok"
    BY DEF GoodProgramPasses
  <2>1. code = "zero" /\ inTime /\ ~Helped /\ marks + unread["completion"] = 1
    BY DEF DidEverythingRight, Helped
  <2>2. \A q \in Streams : ~(count[q] > Limit)
    <3>1. \A q \in Streams : count[q] \in Nat /\ unread[q] \in Nat
      BY DEF IInv, TypeOK, ReadType, ProcType, Pipes
    <3> QED BY <3>1, LimitAssumption DEF DidEverythingRight
  <2>3. status \notin {"output_limit", "exit", "oom", "retained"}
    BY <2>1, <2>2 DEF IInv, Excuses
  <2>4. status # "grader_error"
    BY <2>1 DEF IInv, Excuses, Lifetime
  <2>5. status # "marker"
    <3>1. status = "marker" => marks # 1 /\ unread["completion"] = 0
      BY <2>1 DEF IInv, Excuses
    <3>2. marks \in Nat
      BY DEF IInv, TypeOK, ReadType
    <3> QED BY <2>1, <3>1, <3>2
  <2>6. status # "timeout"
    BY <2>1 DEF IInv, Lifetime
  <2> QED BY <2>3, <2>4, <2>5, <2>6 DEF IInv, TypeOK, LoopType, Statuses
<1> QED BY <1>1, Invariant, PTL

(* The state stays well-formed, and what the driver signalled is gone.     *)
THEOREM DriversAreSound == Spec => []SandboxInv
<1>1. TypeOK /\ SignalledIsGone <=> SandboxInv
  BY DEF SandboxInv
<1> QED BY <1>1, TypeCorrect, SignalledAreGone, PTL

=============================================================================
