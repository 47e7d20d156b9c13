-------------------------- MODULE GuardLoopProofs --------------------------
(***************************************************************************)
(* What the guard promises for any floors, window, limits and counts.      *)
(***************************************************************************)
EXTENDS GuardLoop, TLAPS

(* A sliding window keeps its type and never exceeds its length.           *)
LEMMA PushType ==
    ASSUME NEW S, NEW n \in Nat \ {0}, NEW h \in Seq(S), Len(h) <= n, NEW u \in S
    PROVE  Push(h, n, u) \in Seq(S) /\ Len(Push(h, n, u)) <= n
<1>1. CASE Len(h) < n
  BY <1>1 DEF Push
<1>2. CASE ~(Len(h) < n)
  <2>1. Len(h) = n /\ h # <<>>
    BY <1>2
  <2>2. Tail(h) \in Seq(S) /\ Len(Tail(h)) = n - 1
    BY <2>1
  <2> QED BY <1>2, <2>2 DEF Push
<1> QED BY <1>1, <1>2

(* Its entries: the newest is last, the others move down once it is full.  *)
LEMMA PushEntries ==
    ASSUME NEW S, NEW n \in Nat \ {0}, NEW h \in Seq(S), Len(h) <= n, NEW u \in S
    PROVE  /\ Len(h) < n => /\ Len(Push(h, n, u)) = Len(h) + 1
                            /\ Push(h, n, u)[Len(h) + 1] = u
                            /\ \A i \in 1 .. Len(h) : Push(h, n, u)[i] = h[i]
           /\ Len(h) = n => /\ Len(Push(h, n, u)) = n
                            /\ Push(h, n, u)[n] = u
                            /\ \A i \in 1 .. n - 1 : Push(h, n, u)[i] = h[i + 1]
<1>1. CASE Len(h) < n
  BY <1>1 DEF Push
<1>2. CASE Len(h) = n
  <2>1. h # <<>>
    BY <1>2
  <2>2. /\ Tail(h) \in Seq(S) /\ Len(Tail(h)) = n - 1
        /\ \A i \in 1 .. n - 1 : Tail(h)[i] = h[i + 1]
    BY <1>2, <2>1
  <2> QED BY <1>2, <2>2 DEF Push
<1> QED BY <1>1, <1>2

(* Decision returns a row, whatever it is asked about.                     *)
LEMMA DecisionType ==
    ASSUME NEW mem \in 0 .. MaxMem, NEW low \in Nat, NEW psi \in BOOLEAN, NEW growth,
           NEW active \in BOOLEAN, NEW enabled \in BOOLEAN
    PROVE  Decision(mem, low, psi, growth, active, enabled) \in Rows
<1>1. HardReasons(mem, low, psi, growth, active, enabled) \in SUBSET Reasons
  BY DEF HardReasons, EventReasons, Reasons
<1> QED BY <1>1 DEF Decision, Rows

THEOREM TypeCorrect == Spec => []TypeOK
<1>1. Init => TypeOK
  <2>1. NoRow \in Rows
    BY LimitAssumption DEF NoRow, Rows
  <2>2. <<>> \in Seq(0 .. MaxSwap) /\ Len(<<>>) <= SwapWindow
    BY SamplesAssumption
  <2>7. <<>> \in Seq({"below", "above"}) /\ Len(<<>>) <= LowMemorySamples
    BY SamplesAssumption
  <2> SUFFICES ASSUME Init PROVE TypeOK
    OBVIOUS
  <2>3. swapHistory \in Seq(0 .. MaxSwap) /\ Len(swapHistory) <= SwapWindow
    BY <2>2 DEF Init
  <2>4. row \in Rows
    BY <2>1 DEF Init
  <2>5. oldMessages \in 0 .. MaxNvrm /\ newMessages \in 0 .. MaxNvrm /\ oom \in 0 .. MaxOom
    BY CountAssumption DEF Init
  <2>6. baseline \in [oom : Nat, nvrm : Nat]
    BY LimitAssumption DEF Init
  <2>8. lows \in Seq({"below", "above"}) /\ Len(lows) <= LowMemorySamples
    BY <2>7 DEF Init
  <2> QED BY <2>3, <2>4, <2>5, <2>6, <2>8 DEF Init, TypeOK
<1>2. TypeOK /\ [Next]_vars => TypeOK'
  <2> SUFFICES ASSUME TypeOK, [Next]_vars PROVE TypeOK'
    OBVIOUS
  <2>1. CASE Handoff
    BY <2>1, CountAssumption
    DEF Handoff, TypeOK, Ended, NvrmCount, fileVars, kernelVars
  <2>2. CASE SampleAndPublish
    <3>1. PICK mem \in 0 .. MaxMem, used \in 0 .. MaxSwap, psi \in BOOLEAN :
            /\ swapHistory' = Push(swapHistory, SwapWindow, used)
            /\ lowSamples' = CountLow(mem)
            /\ row' = Decision(mem, CountLow(mem), psi, SwapGrowth(Push(swapHistory, SwapWindow, used)),
                               request, psiHardArmed \/ ready \/ SeesActive)
            /\ lows' = Push(lows, LowMemorySamples, Side(mem))
      BY <2>2 DEF SampleAndPublish
    <3>2. swapHistory' \in Seq(0 .. MaxSwap) /\ Len(swapHistory') <= SwapWindow
      BY <3>1, PushType, SamplesAssumption DEF TypeOK
    <3>3. CountLow(mem) \in Nat
      BY DEF TypeOK, CountLow
    <3>4. row' \in Rows
      BY <3>1, <3>3, DecisionType DEF TypeOK, SeesActive
    <3>5. pc' \in {"hard", "top"} /\ UNCHANGED <<running, request, baseline, fileVars, kernelVars>>
          /\ psiHardArmed' \in BOOLEAN /\ requestSeenActive' \in BOOLEAN
      BY <2>2 DEF SampleAndPublish, TypeOK
    <3>6. lows' \in Seq({"below", "above"}) /\ Len(lows') <= LowMemorySamples
      <4>1. Side(mem) \in {"below", "above"}
        BY DEF Side
      <4> QED BY <3>1, <4>1, PushType, SamplesAssumption DEF TypeOK
    <3> QED BY <3>1, <3>2, <3>3, <3>4, <3>5, <3>6 DEF TypeOK, Ended, fileVars, kernelVars
  <2>3. CASE OutOfMemory
    BY <2>3, CountAssumption DEF OutOfMemory, TypeOK, loopVars, policyVars, fileVars
  <2>4. CASE AllocationFails
    BY <2>4, CountAssumption DEF AllocationFails, TypeOK, loopVars, policyVars, fileVars
  <2>5. CASE RotateJournal
    BY <2>5, CountAssumption DEF RotateJournal, TypeOK, loopVars, policyVars, fileVars
  <2>6. CASE LeaveLoop \/ ReadFails
    BY <2>6 DEF LeaveLoop, ReadFails, TypeOK, Ended, policyVars, fileVars, kernelVars
  <2>10. CASE ReadRequest \/ Terminate
    BY <2>10 DEF ReadRequest, Terminate, TypeOK, policyVars, fileVars, kernelVars
  <2>9. CASE DockerSeesOom
    BY <2>9 DEF DockerSeesOom, TypeOK, loopVars, policyVars, fileVars
  <2>7. CASE Activate \/ Deactivate \/ PublishReady
    BY <2>7 DEF Activate, Deactivate, PublishReady, TypeOK, loopVars, policyVars, kernelVars
  <2>8. CASE UNCHANGED vars
    BY <2>8 DEF vars, TypeOK
  <2> QED BY <2>1, <2>2, <2>3, <2>4, <2>5, <2>6, <2>7, <2>8, <2>9, <2>10 DEF Next, Guard, Environment
<1> QED BY <1>1, <1>2, PTL DEF Spec

-----------------------------------------------------------------------------
(* A row the controller would admit on has no reason to stop and none to   *)
(* pause.                                                                  *)
LEMMA AdmissibleDecision ==
    ASSUME NEW mem \in 0 .. MaxMem, NEW low \in Nat, NEW psi \in BOOLEAN, NEW growth,
           NEW active \in BOOLEAN, NEW enabled \in BOOLEAN, active => enabled,
           Admissible(Decision(mem, low, psi, growth, active, enabled))
    PROVE  /\ Decision(mem, low, psi, growth, active, enabled).mem >= AdmissionFloor
           /\ (\/ Decision(mem, low, psi, growth, active, enabled).active
               \/ Decision(mem, low, psi, growth, active, enabled).enabled)
              => ~Decision(mem, low, psi, growth, active, enabled).psi
<1> DEFINE d == Decision(mem, low, psi, growth, active, enabled)
<1>1. d.hard = HardReasons(mem, low, psi, growth, active, enabled) /\ d.mem = mem
      /\ d.psi = psi /\ d.active = active /\ d.enabled = enabled
  BY DEF Decision
<1>2. HardReasons(mem, low, psi, growth, active, enabled) = {}
  BY <1>1 DEF Admissible
<1>3. mem >= AdmissionFloor
  BY <1>1 DEF Admissible, Decision
<1>4. ASSUME enabled, psi PROVE FALSE
  <2>1. CASE PressureAdmissionOnly
    BY <1>2, <1>4, <2>1 DEF Admissible, Decision, MustPause
  <2>2. CASE ~PressureAdmissionOnly
    BY <1>2, <1>4, <2>2 DEF HardReasons, PressureAborts
  <2> QED BY <2>1, <2>2
<1> QED BY <1>1, <1>3, <1>4

(* No row is ever published that the controller could admit on below the   *)
(* floor, or that acknowledges a request under pressure.                   *)
THEOREM AdmissibleRowsAreSafe == Spec => []AdmissibleRowIsSafe
<1>1. Init => AdmissibleRowIsSafe
  BY DEF Init, NoRow, Admissible, AdmissibleRowIsSafe
<1>2. TypeOK /\ AdmissibleRowIsSafe /\ [Next]_vars => AdmissibleRowIsSafe'
  <2> SUFFICES ASSUME TypeOK, AdmissibleRowIsSafe, [Next]_vars PROVE AdmissibleRowIsSafe'
    OBVIOUS
  <2>1. CASE SampleAndPublish
    <3>1. PICK mem \in 0 .. MaxMem, used \in 0 .. MaxSwap, psi \in BOOLEAN :
            row' = Decision(mem, CountLow(mem), psi, SwapGrowth(Push(swapHistory, SwapWindow, used)),
                            request, psiHardArmed \/ ready \/ SeesActive)
      BY <2>1 DEF SampleAndPublish
    <3>2. CountLow(mem) \in Nat /\ (psiHardArmed \/ ready \/ SeesActive) \in BOOLEAN
          /\ request \in BOOLEAN
      BY DEF TypeOK, CountLow, SeesActive
    <3>3. request => psiHardArmed \/ ready \/ SeesActive
      BY DEF SeesActive
    <3> QED BY <3>1, <3>2, <3>3, AdmissibleDecision DEF AdmissibleRowIsSafe
  <2>2. CASE ~SampleAndPublish
    <3>1. row' = row
      BY <2>2 DEF Next, Guard, Environment, Handoff, LeaveLoop, ReadRequest, Terminate, ReadFails,
                  Activate, Deactivate, PublishReady, OutOfMemory, DockerSeesOom, AllocationFails, RotateJournal, vars
    <3> QED BY <3>1 DEF AdmissibleRowIsSafe, Admissible
  <2> QED BY <2>1, <2>2
<1> QED BY <1>1, <1>2, TypeCorrect, PTL DEF Spec

-----------------------------------------------------------------------------
(* Messages from before the handoff never outnumber the baseline; the      *)
(* count of low samples is about the last entries of the window; docker    *)
(* marks no container that had no OOM event.                               *)
LowsCounted ==
    /\ Len(lows) < LowMemorySamples => lowSamples <= Len(lows)
    /\ \A i \in 1 .. Len(lows) : i + lowSamples > Len(lows) => lows[i] = "below"

CountInv ==
    /\ pc \in {"top", "sample", "hard", "term"} => oldMessages <= baseline.nvrm
    /\ LowsCounted
    /\ oomKilled => oom > 0

(* A sample keeps the count and the window in step.                        *)
LEMMA SampleKeepsLows ==
    ASSUME TypeOK, LowsCounted, NEW mem \in 0 .. MaxMem,
           lowSamples' = CountLow(mem), lows' = Push(lows, LowMemorySamples, Side(mem))
    PROVE  LowsCounted'
<1> DEFINE n == LowMemorySamples
           b == Side(mem)
<1>1. b \in {"below", "above"} /\ n \in Nat \ {0} /\ lows \in Seq({"below", "above"}) /\ Len(lows) <= n
      /\ lowSamples \in Nat /\ Len(lows) \in Nat
  BY SamplesAssumption DEF TypeOK, Side
<1>8. lows' = Push(lows, n, b)
  OBVIOUS
<1>5. lowSamples' = IF b = "below" THEN lowSamples + 1 ELSE 0
  BY DEF CountLow, Side
<1> HIDE DEF b, n
<1>2. /\ Len(lows) < n => /\ Len(lows') = Len(lows) + 1
                          /\ lows'[Len(lows) + 1] = b
                          /\ \A i \in 1 .. Len(lows) : lows'[i] = lows[i]
      /\ Len(lows) = n => /\ Len(lows') = n
                          /\ lows'[n] = b
                          /\ \A i \in 1 .. n - 1 : lows'[i] = lows[i + 1]
  BY <1>1, <1>8, PushEntries
<1>3. lows' \in Seq({"below", "above"})
  BY <1>1, <1>8, PushType
<1>6. CASE Len(lows) < n
  <2>1. lowSamples' <= Len(lows')
    BY <1>1, <1>2, <1>5, <1>6 DEF LowsCounted, n
  <2>2. ASSUME NEW i \in 1 .. Len(lows'), i + lowSamples' > Len(lows') PROVE lows'[i] = "below"
    <3>1. b = "below"
      BY <1>1, <1>2, <1>5, <1>6, <2>2
    <3>2. CASE i = Len(lows) + 1
      BY <1>2, <1>6, <3>1, <3>2
    <3>3. CASE i \in 1 .. Len(lows)
      <4>1. i + lowSamples > Len(lows)
        BY <1>1, <1>2, <1>5, <1>6, <2>2, <3>1
      <4>2. lows[i] = "below"
        BY <3>3, <4>1 DEF LowsCounted
      <4> QED BY <1>2, <1>6, <3>3, <4>2
    <3> QED BY <1>1, <1>2, <1>6, <3>2, <3>3
  <2> QED BY <2>1, <2>2 DEF LowsCounted, n
<1>7. CASE Len(lows) = n
  <2>1. ASSUME NEW i \in 1 .. Len(lows'), i + lowSamples' > Len(lows') PROVE lows'[i] = "below"
    <3>1. b = "below"
      BY <1>1, <1>2, <1>5, <1>7, <2>1
    <3>2. CASE i = n
      BY <1>2, <1>7, <3>1, <3>2
    <3>3. CASE i \in 1 .. n - 1
      <4>1. i + 1 \in 1 .. Len(lows) /\ (i + 1) + lowSamples > Len(lows)
        BY <1>1, <1>2, <1>5, <1>7, <2>1, <3>1, <3>3
      <4>2. lows[i + 1] = "below"
        BY <4>1 DEF LowsCounted
      <4> QED BY <1>2, <1>7, <3>3, <4>2
    <3> QED BY <1>1, <1>2, <1>7, <3>2, <3>3
  <2> QED BY <1>1, <1>2, <1>7, <2>1 DEF LowsCounted, n
<1> QED BY <1>1, <1>6, <1>7

LEMMA DecisionFacts ==
    ASSUME NEW mem, NEW low, NEW psi, NEW growth, NEW active, NEW enabled
    PROVE  LET d == Decision(mem, low, psi, growth, active, enabled) IN
           /\ d.mem = mem /\ d.psi = psi
           /\ d.hard = HardReasons(mem, low, psi, growth, active, enabled)
           /\ d.status = "HARD_ABORT" => d.hard # {}
BY DEF Decision

LEMMA CountsHold == Spec => []CountInv
<1>1. Init => CountInv
  <2> SUFFICES ASSUME Init PROVE CountInv
    OBVIOUS
  <2>1. lowSamples = 0 /\ Len(lows) = 0
    BY DEF Init
  <2> QED BY <2>1 DEF Init, CountInv, LowsCounted
<1>2. TypeOK /\ CountInv /\ [Next]_vars => CountInv'
  <2> SUFFICES ASSUME TypeOK, CountInv, [Next]_vars PROVE CountInv'
    OBVIOUS
  <2>1. CASE Handoff
    <3>1. newMessages >= 0 /\ baseline'.nvrm = oldMessages + newMessages /\ oldMessages' = oldMessages
          /\ UNCHANGED <<lowSamples, lows, oom, oomKilled>>
      BY <2>1 DEF Handoff, NvrmCount, TypeOK, kernelVars
    <3> QED BY <3>1, CountAssumption DEF CountInv, LowsCounted, TypeOK
  <2>2. CASE SampleAndPublish
    <3>1. PICK mem \in 0 .. MaxMem, used \in 0 .. MaxSwap, psi \in BOOLEAN :
            /\ lowSamples' = CountLow(mem)
            /\ lows' = Push(lows, LowMemorySamples, Side(mem))
      BY <2>2 DEF SampleAndPublish
    <3>2. LowsCounted'
      BY <3>1, SampleKeepsLows DEF CountInv
    <3>3. pc = "sample" /\ UNCHANGED <<oldMessages, baseline, oom, oomKilled>>
      BY <2>2 DEF SampleAndPublish, kernelVars
    <3> QED BY <3>2, <3>3 DEF CountInv
  <2>3. CASE ~Handoff /\ ~SampleAndPublish
    <3>1. UNCHANGED <<lowSamples, lows, baseline>> /\ oldMessages' <= oldMessages
          /\ oldMessages' \in Int
      BY <2>3, CountAssumption DEF Next, Guard, Environment, LeaveLoop, ReadRequest, Terminate, ReadFails,
         Activate, Deactivate, PublishReady, OutOfMemory, DockerSeesOom, AllocationFails, RotateJournal,
         vars, policyVars, kernelVars, TypeOK
    <3>2. pc' \in {"top", "sample", "hard", "term"} => pc \in {"top", "sample", "hard", "term"}
      BY <2>3 DEF Next, Guard, Environment, LeaveLoop, ReadRequest, Terminate, ReadFails,
         Activate, Deactivate, PublishReady, OutOfMemory, DockerSeesOom, AllocationFails, RotateJournal,
         vars, loopVars
    <3>3. (oomKilled => oom > 0)'
      <4>1. CASE OutOfMemory
        BY <4>1, CountAssumption DEF OutOfMemory, TypeOK, CountInv
      <4>2. CASE DockerSeesOom
        BY <4>2 DEF DockerSeesOom
      <4>3. CASE ~OutOfMemory /\ ~DockerSeesOom
        <5>1. UNCHANGED <<oom, oomKilled>>
          BY <2>3, <4>3 DEF Next, Guard, Environment, LeaveLoop, ReadRequest, Terminate, ReadFails,
             Activate, Deactivate, PublishReady, AllocationFails, RotateJournal, vars, kernelVars
        <5> QED BY <5>1 DEF CountInv
      <4> QED BY <4>1, <4>2, <4>3
    <3>4. LowsCounted'
      BY <3>1 DEF CountInv, LowsCounted
    <3> QED BY <3>1, <3>2, <3>3, <3>4, CountAssumption DEF CountInv, TypeOK
  <2> QED BY <2>1, <2>2, <2>3
<1> QED BY <1>1, <1>2, TypeCorrect, PTL DEF Spec

(* A count that reached the window's length makes the whole window low.    *)
LEMMA FullWindow ==
    ASSUME NEW n \in Nat \ {0}, NEW count \in Nat, count >= n, NEW w, NEW size \in Nat, size <= n,
           size < n => count <= size,
           \A i \in 1 .. size : i + count > size => w[i] = "below"
    PROVE  size = n /\ \A i \in 1 .. n : w[i] = "below"
OBVIOUS

(* Each reason of the sample that stops the model has its cause.           *)
LEMMA SampleHasACause ==
    ASSUME TypeOK, CountInv, CountInv', TypeOK', SampleAndPublish, pc' = "hard"
    PROVE  StopHasACause'
<1>1. PICK mem \in 0 .. MaxMem, used \in 0 .. MaxSwap, psi \in BOOLEAN :
        /\ swapHistory' = Push(swapHistory, SwapWindow, used)
        /\ lowSamples' = CountLow(mem)
        /\ row' = Decision(mem, CountLow(mem), psi, SwapGrowth(Push(swapHistory, SwapWindow, used)),
                           request, psiHardArmed \/ ready \/ SeesActive)
  BY DEF SampleAndPublish
<1> DEFINE enabled == psiHardArmed \/ ready \/ SeesActive
           reasons == HardReasons(mem, CountLow(mem), psi, SwapGrowth(swapHistory'), request, enabled)
<1>2. row'.psi = psi /\ row'.mem = mem /\ row'.hard = reasons
      /\ (row'.status = "HARD_ABORT" => reasons # {})
  BY <1>1, DecisionFacts
<1>3. row'.status = "HARD_ABORT" /\ UNCHANGED <<oom, oldMessages, newMessages, oomKilled, baseline>>
      /\ pc = "sample"
  BY DEF SampleAndPublish, kernelVars
<1>4. enabled <=> psiHardArmed' \/ requestSeenActive'
  BY DEF SampleAndPublish, SeesActive
<1>5. SwapGrowth(swapHistory)' = SwapGrowth(swapHistory')
  BY DEF SwapGrowth
<1>6. ASSUME NEW why \in reasons PROVE Caused(why)'
  <2>1. CASE why = "low"
    <3>1. CountLow(mem) >= LowMemorySamples
      BY <1>6, <2>1 DEF HardReasons, EventReasons
    <3>2. lowSamples' >= LowMemorySamples /\ lowSamples' \in Nat /\ LowMemorySamples \in Nat \ {0}
      BY <1>1, <3>1, SamplesAssumption DEF TypeOK
    <3>5. lows' \in Seq({"below", "above"}) /\ Len(lows') <= LowMemorySamples
      BY DEF TypeOK
    <3>6. Len(lows') \in Nat
      BY <3>5
    <3>7. Len(lows') < LowMemorySamples => lowSamples' <= Len(lows')
      BY DEF CountInv, LowsCounted
    <3>8. \A i \in 1 .. Len(lows') : i + lowSamples' > Len(lows') => lows'[i] = "below"
      BY DEF CountInv, LowsCounted
    <3> QED BY <2>1, <3>2, <3>5, <3>6, <3>7, <3>8, FullWindow DEF Caused
  <2>2. CASE why = "psi"
    <3>1. enabled /\ ~PressureAdmissionOnly /\ psi
      BY <1>6, <2>2 DEF HardReasons, EventReasons, PressureAborts
    <3> QED BY <1>2, <1>4, <2>2, <3>1 DEF Caused
  <2>3. CASE why = "swap"
    <3>1. ~LoadSwapTolerated(mem, request, enabled) /\ SwapGrowth(swapHistory') > SwapLimit
      BY <1>6, <2>3 DEF HardReasons, EventReasons
    <3>2. request => enabled
      BY DEF SeesActive
    <3>3. AllowLoadSwap => enabled \/ mem < ReserveFloor
      BY <3>1, <3>2, FloorAssumption DEF LoadSwapTolerated
    <3> QED BY <1>2, <1>4, <1>5, <2>3, <3>1, <3>3 DEF Caused
  <2>4. CASE why = "oom"
    <3>1. oom > baseline.oom
      BY <1>6, <2>4 DEF HardReasons, EventReasons
    <3> QED BY <1>3, <2>4, <3>1 DEF Caused
  <2>5. CASE why = "nvrm"
    <3>1. oldMessages + newMessages > baseline.nvrm
      BY <1>6, <2>5 DEF HardReasons, EventReasons, NvrmCount
    <3>2. newMessages > 0
      BY <1>3, <3>1, CountAssumption DEF CountInv, TypeOK
    <3> QED BY <1>3, <2>5, <3>2 DEF Caused
  <2>6. CASE why = "oomkilled"
    <3>1. oomKilled
      BY <1>6, <2>6 DEF HardReasons, EventReasons
    <3> QED BY <1>3, <2>6, <3>1 DEF Caused, CountInv
  <2>7. why \in Reasons
    BY <1>6 DEF HardReasons, EventReasons, Reasons
  <2> QED BY <2>1, <2>2, <2>3, <2>4, <2>5, <2>6, <2>7 DEF Reasons
<1> HIDE DEF reasons
<1> QED BY <1>2, <1>3, <1>6 DEF StopHasACause

(* The guard stops the model only for reasons that are true: memory below  *)
(* the hard floor at every one of the last samples, an event since the     *)
(* handoff, docker's mark, swap that grew, or pressure if asked to.        *)
THEOREM StopsHaveACause == Spec => []StopHasACause
<1>1. Init => StopHasACause
  BY DEF Init, StopHasACause
<1>2. TypeOK /\ TypeOK' /\ CountInv /\ CountInv' /\ StopHasACause /\ [Next]_vars => StopHasACause'
  <2> SUFFICES ASSUME TypeOK, TypeOK', CountInv, CountInv', StopHasACause, [Next]_vars
               PROVE  StopHasACause'
    OBVIOUS
  <2>1. CASE SampleAndPublish
    BY <2>1, SampleHasACause DEF StopHasACause
  <2>2. CASE ~SampleAndPublish
    <3>1. pc' = "hard" => pc = "hard"
      BY <2>2 DEF Next, Guard, Environment, Handoff, LeaveLoop, ReadRequest, Terminate, ReadFails,
         Activate, Deactivate, PublishReady, OutOfMemory, DockerSeesOom, AllocationFails, RotateJournal,
         vars, loopVars
    <3>2. UNCHANGED <<lows, swapHistory, row, psiHardArmed, requestSeenActive>>
          /\ (pc = "hard" => baseline' = baseline)
      BY <2>2 DEF Next, Guard, Environment, Handoff, LeaveLoop, ReadRequest, Terminate, ReadFails,
         Activate, Deactivate, PublishReady, OutOfMemory, DockerSeesOom, AllocationFails, RotateJournal,
         vars, policyVars
    <3>4. /\ oom' \in Int /\ oom' >= oom
          /\ newMessages' \in Int /\ newMessages' >= newMessages
          /\ oomKilled => oomKilled'
      <4>1. CASE OutOfMemory \/ AllocationFails \/ DockerSeesOom
        BY <4>1, CountAssumption DEF OutOfMemory, AllocationFails, DockerSeesOom, TypeOK
      <4>2. CASE ~(OutOfMemory \/ AllocationFails \/ DockerSeesOom)
        <5>1. UNCHANGED <<oom, newMessages, oomKilled>>
          BY <2>2, <4>2 DEF Next, Guard, Environment, Handoff, LeaveLoop, ReadRequest, Terminate,
             ReadFails, Activate, Deactivate, PublishReady, RotateJournal, vars, kernelVars
        <5> QED BY <5>1, CountAssumption DEF TypeOK
      <4> QED BY <4>1, <4>2
    <3>3. ASSUME pc' = "hard", NEW why \in row.hard, Caused(why) PROVE Caused(why)'
      <4>1. oom \in Int /\ baseline.oom \in Int /\ newMessages \in Int
        BY CountAssumption DEF TypeOK
      <4>2. UNCHANGED <<lows, baseline, swapHistory, row, psiHardArmed, requestSeenActive>>
            /\ oom' \in Int /\ oom' >= oom /\ newMessages' \in Int /\ newMessages' >= newMessages
            /\ (oomKilled => oomKilled')
        BY <3>1, <3>2, <3>3, <3>4
      <4>3. SwapGrowth(swapHistory)' = SwapGrowth(swapHistory)
        BY <4>2 DEF SwapGrowth
      <4> QED BY <3>3, <4>1, <4>2, <4>3 DEF Caused
    <3>5. pc' = "hard" => row'.hard = row.hard
      BY <3>2
    <3> QED BY <3>1, <3>3, <3>5 DEF StopHasACause
  <2> QED BY <2>1, <2>2
<1> QED BY <1>1, <1>2, TypeCorrect, CountsHold, PTL DEF Spec

(* The state stays well-formed, and no stop is without a cause.            *)
THEOREM GuardsAreSound == Spec => []GuardInv
<1>1. TypeOK /\ StopHasACause <=> GuardInv
  BY DEF GuardInv
<1> QED BY <1>1, TypeCorrect, StopsHaveACause, PTL

=============================================================================
