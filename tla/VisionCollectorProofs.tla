----------------------- MODULE VisionCollectorProofs -----------------------
(***************************************************************************)
(* Proofs about VisionCollector: its types, that a resume can read what an *)
(* interrupted run left, that no row is asked again without need, and that *)
(* a summary stands on kept responses; for every number of rows, launches  *)
(* and faults.                                                             *)
(***************************************************************************)
EXTENDS VisionCollector, TLAPS, FiniteSetTheorems, FunctionTheorems, SequenceTheorems

Piece == Record \cup {Half}

(* A record stands on a kept response of the launch the directory names.   *)
Earned(x) ==
    /\ identity # 0 /\ x.launch = identity
    /\ raw[x.row] = [good |-> TRUE, launch |-> identity]

Running == pc \notin {"off", "identity", "name", "read"}

(* The identity is the first launch a collector started under; every       *)
(* response and record is of it.                                           *)
IdentityInv ==
    /\ pc = "name" => identity = 0
    /\ pc \notin {"off", "identity", "name"} => identity = mine
    /\ \A r \in Rows : raw[r] # NoAnswer => identity # 0 /\ raw[r].launch = identity
    /\ \A x \in done \cup summary : Earned(x)
    /\ \A x \in Record : \A i \in 1 .. Len(lines) : \A k \in 1 .. Len(lines[i]) :
          x = lines[i][k] => Earned(x)

(* What the collector holds while it is at a row.                          *)
RowInv ==
    /\ pc \in {"lease", "ask", "keep", "release", "grade", "append"} =>
          at \in Rows /\ at \notin Known(done)
    /\ pc \in {"lease", "ask", "keep"} => raw[at] = NoAnswer
    /\ pc = "keep" => answer \in Answers /\ answer.launch = mine
    /\ pc \in {"release", "grade", "append"} => answer # NoAnswer /\ raw[at] = answer
    /\ pc = "append" => answer.good
    /\ pc = "giveup" => at \in Rows
    /\ pc \in {"identity", "name", "read"} => at = 1
    /\ pc # "off" => \A r \in 1 .. at - 1 : pc \in {"identity", "name", "read"} \/ r \in Known(done)
    /\ pc = "sum" => at = N + 1

(* A file no write of which was cut short holds one record in every line,  *)
(* of a row of its own, and a collector past its start knows them all.     *)
FileInv ==
    /\ open => torn /\ Len(lines) > 0
    /\ ~torn =>
         /\ \A i \in 1 .. Len(lines) : Len(lines[i]) = 1 /\ lines[i][1] \in Record
         /\ \A i, j \in 1 .. Len(lines) : i # j => lines[i][1].row # lines[j][1].row
         /\ Running => \A i \in 1 .. Len(lines) : lines[i][1] \in done

CInv ==
    /\ TypeOK /\ IdentityInv /\ RowInv /\ FileInv
    /\ AskedAgainOnlyIfLost /\ SummaryIsEarned

(***************************************************************************)
(* Lines                                                                   *)
(***************************************************************************)

LEMMA HalfIsNoRecord == Half \notin Record
<1>1. Half.row = 0
  BY DEF Half
<1>2. \A x \in Record : x.row \in Rows
  BY DEF Record
<1>3. 0 \notin Rows
  BY RowsAssumption DEF Rows
<1> QED BY <1>1, <1>2, <1>3

(* Writing a piece adds it to the file and changes nothing else in it.     *)
LEMMA WrittenAdds ==
    ASSUME lines \in Seq(Seq(Piece)), open => Len(lines) > 0, NEW x \in Piece
    PROVE  /\ Written(x) \in Seq(Seq(Piece))
           /\ Len(Written(x)) = IF open THEN Len(lines) ELSE Len(lines) + 1
           /\ Len(Written(x)) > 0
           /\ \A i \in 1 .. Len(Written(x)) : \A k \in 1 .. Len(Written(x)[i]) :
                 \/ Written(x)[i][k] = x
                 \/ i \in 1 .. Len(lines) /\ k \in 1 .. Len(lines[i])
                    /\ Written(x)[i][k] = lines[i][k]
           /\ ~open => /\ \A i \in 1 .. Len(lines) : Written(x)[i] = lines[i]
                       /\ Written(x)[Len(lines) + 1] = <<x>>
<1>1. Len(lines) \in Nat /\ \A i \in 1 .. Len(lines) : lines[i] \in Seq(Piece) /\ Len(lines[i]) \in Nat
  BY ElementOfSeq, LenProperties
<1>2. CASE ~open
  <2> DEFINE w == Append(lines, <<x>>)
  <2>1. <<x>> \in Seq(Piece) /\ Len(<<x>>) = 1 /\ <<x>>[1] = x
    OBVIOUS
  <2>2. Written(x) = w
    BY <1>2 DEF Written
  <2>3. /\ w \in Seq(Seq(Piece)) /\ Len(w) = Len(lines) + 1
        /\ \A i \in 1 .. Len(lines) : w[i] = lines[i]
        /\ w[Len(lines) + 1] = <<x>>
    BY <2>1, AppendProperties
  <2> HIDE DEF w
  <2>4. ASSUME NEW i \in 1 .. Len(w), NEW k \in 1 .. Len(w[i])
        PROVE  \/ w[i][k] = x
               \/ i \in 1 .. Len(lines) /\ k \in 1 .. Len(lines[i]) /\ w[i][k] = lines[i][k]
    <3>1. CASE i \in 1 .. Len(lines)
      BY <2>3, <3>1
    <3>2. CASE i = Len(lines) + 1
      <4>1. w[i] = <<x>>
        BY <2>3, <3>2
      <4>2. k = 1
        BY <4>1, <2>1
      <4> QED BY <4>1, <4>2, <2>1
    <3> QED BY <1>1, <2>3, <3>1, <3>2
  <2> QED BY <1>1, <1>2, <2>2, <2>3, <2>4
<1>3. CASE open
  <2> DEFINE n == Len(lines)
             last == Append(lines[n], x)
             w == [lines EXCEPT ![n] = last]
  <2>1. n \in 1 .. Len(lines)
    BY <1>1, <1>3
  <2>2. lines[n] \in Seq(Piece)
    BY <1>1, <2>1
  <2>3. /\ last \in Seq(Piece) /\ Len(last) = Len(lines[n]) + 1
        /\ \A k \in 1 .. Len(lines[n]) : last[k] = lines[n][k]
        /\ last[Len(lines[n]) + 1] = x
    BY <2>2, AppendProperties
  <2>4. Written(x) = w
    BY <1>3 DEF Written
  <2> HIDE DEF last
  <2>5. /\ w \in Seq(Seq(Piece)) /\ Len(w) = Len(lines)
        /\ \A i \in 1 .. Len(lines) : w[i] = IF i = n THEN last ELSE lines[i]
    BY <2>1, <2>3, ExceptSeq
  <2> HIDE DEF w, n
  <2>6. ASSUME NEW i \in 1 .. Len(w), NEW k \in 1 .. Len(w[i])
        PROVE  \/ w[i][k] = x
               \/ i \in 1 .. Len(lines) /\ k \in 1 .. Len(lines[i]) /\ w[i][k] = lines[i][k]
    <3>1. i \in 1 .. Len(lines)
      BY <2>5
    <3>2. CASE i # n
      BY <2>5, <3>1, <3>2
    <3>3. CASE i = n
      <4>1. w[i] = last /\ k \in 1 .. Len(lines[n]) + 1
        BY <2>3, <2>5, <3>1, <3>3
      <4>2. CASE k = Len(lines[n]) + 1
        BY <4>1, <4>2, <2>3
      <4>3. CASE k \in 1 .. Len(lines[n])
        BY <4>1, <4>3, <3>1, <3>3, <2>3
      <4>4. Len(lines[n]) \in Nat
        BY <1>1, <2>1
      <4> QED BY <4>1, <4>2, <4>3, <4>4
    <3> QED BY <3>2, <3>3
  <2> QED BY <1>1, <1>3, <2>1, <2>4, <2>5, <2>6 DEF n
<1> QED BY <1>2, <1>3

(* A file with one record per line and no row twice can be read back.      *)
LEMMA WholeLinesAreReadable ==
    ASSUME TypeOK, \A i \in 1 .. Len(lines) : Len(lines[i]) = 1 /\ lines[i][1] \in Record,
           \A i, j \in 1 .. Len(lines) : i # j => lines[i][1].row # lines[j][1].row
    PROVE  Readable
<1> DEFINE D == 1 .. Len(lines)
           T == Known(Retained)
           f == [i \in D |-> lines[i][1].row]
<1>1. Len(lines) \in Nat
  BY LenProperties DEF TypeOK
<1>2. IsFiniteSet(D) /\ Cardinality(D) = Len(lines)
  <2>1. ASSUME NEW n \in Nat PROVE IsFiniteSet(1 .. n) /\ Cardinality(1 .. n) = n
    BY FS_Interval
  <2> QED BY <1>1, <2>1
<1>3. \A i \in D : lines[i][1] \in Retained /\ lines[i][1].row \in T
  BY DEF Retained, Known
<1>4. f \in [D -> T] /\ \A a, b \in D : f[a] = f[b] => a = b
  BY <1>3
<1>5. \A t \in T : \E i \in D : f[i] = t
  <2> SUFFICES ASSUME NEW t \in T PROVE \E i \in D : lines[i][1].row = t
    OBVIOUS
  <2>1. PICK y \in Retained : t = y.row
    BY DEF Known
  <2>2. PICK i \in D : y = lines[i][1]
    BY <2>1 DEF Retained
  <2> QED BY <2>1, <2>2
<1> HIDE DEF f, D, T
<1>6. f \in Bijection(D, T)
  BY <1>4, <1>5, Fun_IsBij
<1>7. ExistsBijection(D, T)
  BY <1>6, Fun_ExistsBij
<1>8. Cardinality(T) = Len(lines)
  BY <1>2, <1>7, FS_Bijection
<1>9. \A x \in Retained : x \in Record
  BY DEF Retained
<1>10. T \subseteq Rows
  BY <1>9 DEF T, Known, Record
<1>11. Cardinality(Known(Retained)) = Len(lines) /\ Known(Retained) \subseteq Rows
  BY <1>8, <1>10 DEF T
<1>12. ASSUME NEW i \in 1 .. Len(lines) PROVE Parses(lines[i])
  BY DEF Parses
<1> QED BY <1>11, <1>12 DEF Readable

LEMMA ReadableRetains ==
    ASSUME Readable
    PROVE  Retained \subseteq Record /\ \A i \in 1 .. Len(lines) : lines[i][1] \in Retained
  BY Zenon DEF Readable, Retained, Parses

(***************************************************************************)
(* The invariant                                                           *)
(***************************************************************************)

LEMMA CInvInit == Init => CInv
<1> SUFFICES ASSUME Init PROVE CInv
  OBVIOUS
<1>1. Len(lines) = 0 /\ lines \in Seq(Seq(Piece))
  BY DEF Init
<1>2. TypeOK
  <2>1. 1 \in 1 .. N + 1 /\ 1 \in Launches /\ 0 \in 0 .. MaxLaunch /\ 0 \in 0 .. MaxFaults
    BY RowsAssumption, BoundsAssumption DEF Launches
  <2>2. lines \in Seq(Seq(Record \cup {Half}))
    BY <1>1 DEF Piece
  <2> QED BY <2>1, <2>2 DEF Init, TypeOK, PCs
<1>3. 1 .. Len(lines) = {}
  BY <1>1
<1>4. IdentityInv /\ FileInv
  BY <1>3 DEF Init, IdentityInv, FileInv
<1>5. RowInv /\ AskedAgainOnlyIfLost /\ SummaryIsEarned
  BY DEF Init, RowInv, AskedAgainOnlyIfLost, SummaryIsEarned
<1> QED BY <1>2, <1>4, <1>5 DEF CInv

LEMMA TypesStep == CInv /\ [Next]_vars => TypeOK'
<1> SUFFICES ASSUME CInv, [Next]_vars PROVE TypeOK'
  OBVIOUS
<1> USE DEF TypeOK, PCs, Goto, Outside, Memory, NoFault, files, ghosts
<1>1. TypeOK /\ RowInv /\ FileInv
  BY DEF CInv
<1>2. faults + 1 \in 0 .. MaxFaults \/ faults = MaxFaults
  BY <1>1, BoundsAssumption
<1>3. CASE Start
  BY <1>1, <1>3, RowsAssumption DEF Start
<1>4. CASE CheckIdentity
  BY <1>1, <1>4 DEF CheckIdentity
<1>5. CASE WriteIdentity
  BY <1>1, <1>5, BoundsAssumption DEF WriteIdentity, Launches
<1>6. CASE ReadRows
  BY <1>1, <1>6, ReadableRetains DEF ReadRows
<1>7. CASE NextRow
  <2>1. at' \in 1 .. N + 1
    <3>1. CASE at' = at
      BY <1>1, <3>1
    <3>2. CASE at \in Known(done) /\ at' = at + 1
      <4>1. at \in Rows
        BY <1>1, <3>2 DEF Known, Record
      <4> QED BY <3>2, <4>1, RowsAssumption DEF Rows
    <3> QED BY <1>7, <3>1, <3>2 DEF NextRow
  <2>2. answer' \in Answers \cup {NoAnswer}
    <3>1. CASE answer' = answer
      BY <1>1, <3>1
    <3>2. CASE at <= N /\ answer' = raw[at]
      <4>1. at \in Rows
        BY <1>1, <3>2, RowsAssumption DEF Rows
      <4> QED BY <1>1, <3>2, <4>1
    <3> QED BY <1>7, <3>1, <3>2 DEF NextRow
  <2>3. pc' \in PCs
    BY <1>1, <1>7 DEF NextRow
  <2> QED BY <1>1, <1>7, <2>1, <2>2, <2>3 DEF NextRow
<1>8. CASE AcquireLease
  BY <1>1, <1>8 DEF AcquireLease
<1>9. CASE Ask
  <2>1. asked' \in [Rows -> Nat]
    BY <1>1, <1>9 DEF Ask, RowInv
  <2>2. answer' \in Answers
    BY <1>1, <1>9 DEF Ask, Answers
  <2> QED BY <1>1, <1>9, <2>1, <2>2 DEF Ask
<1>10. CASE AskFails
  BY <1>1, <1>2, <1>10 DEF AskFails, Fault
<1>11. CASE Keep
  BY <1>1, <1>11 DEF Keep
<1>12. CASE KeepFails
  <2>1. lost' \in [Rows -> Nat]
    BY <1>1, <1>12 DEF KeepFails, RowInv
  <2> QED BY <1>1, <1>2, <1>12, <2>1 DEF KeepFails, Fault
<1>13. CASE Release
  BY <1>1, <1>13 DEF Release
<1>14. CASE ReleaseFails
  BY <1>1, <1>2, <1>14 DEF ReleaseFails, Fault
<1>15. CASE Grade
  BY <1>1, <1>15 DEF Grade
<1>16. \A x \in Piece : Written(x) \in Seq(Seq(Record \cup {Half}))
  <2>1. lines \in Seq(Seq(Piece)) /\ (open => Len(lines) > 0)
    BY <1>1 DEF Piece, FileInv
  <2>2. \A x \in Piece : Written(x) \in Seq(Seq(Piece))
    BY <2>1, WrittenAdds
  <2> QED BY <2>2 DEF Piece
<1>17. pc = "append" => Mine \in Record /\ at + 1 \in 1 .. N + 1
  BY <1>1, RowsAssumption DEF Mine, Record, RowInv, Rows
<1>18. CASE AppendRow
  <2>1. lines' \in Seq(Seq(Record \cup {Half}))
    BY <1>16, <1>17, <1>18 DEF AppendRow, Piece
  <2> QED BY <1>1, <1>17, <1>18, <2>1 DEF AppendRow
<1>19. CASE AppendTorn
  <2>1. lines' \in Seq(Seq(Record \cup {Half}))
    BY <1>16, <1>17, <1>19 DEF AppendTorn, Piece
  <2>2. open' \in BOOLEAN /\ torn' \in BOOLEAN /\ faults' = faults + 1 /\ pc' = "off"
        /\ faults < MaxFaults
    BY <1>1, <1>19 DEF AppendTorn, Fault
  <2>3. UNCHANGED <<at, mine, done, answer, lock, identity, raw, summary, launch, asked, lost>>
    BY <1>19 DEF AppendTorn
  <2>4. faults' \in 0 .. MaxFaults
    BY <1>1, <2>2, BoundsAssumption
  <2> QED BY <1>1, <2>1, <2>2, <2>3, <2>4
<1>20. CASE Sum
  BY <1>1, <1>20 DEF Sum
<1>21. CASE Crash
  <2>1. lost' \in [Rows -> Nat]
    BY <1>1, <1>21 DEF Crash, RowInv
  <2> QED BY <1>1, <1>2, <1>21, <2>1 DEF Crash, Fault
<1>22. CASE ClearLease
  BY <1>1, <1>22 DEF ClearLease
<1>23. CASE Relaunch
  BY <1>1, <1>23, BoundsAssumption DEF Relaunch, Launches
<1>24. CASE UNCHANGED vars
  BY <1>1, <1>24 DEF vars
<1> QED BY <1>3, <1>4, <1>5, <1>6, <1>7, <1>8, <1>9, <1>10, <1>11, <1>12, <1>13, <1>14, <1>15,
           <1>18, <1>19, <1>20, <1>21, <1>22, <1>23, <1>24 DEF Next, Collector

(* No step takes back an identity or a response that was written.          *)
LEMMA Steady ==
    ASSUME CInv, [Next]_vars
    PROVE  /\ identity # 0 => identity' = identity
           /\ \A r \in Rows : raw[r] # NoAnswer => raw'[r] = raw[r]
<1> USE DEF Goto, Outside, Memory, NoFault, Fault, files, ghosts
<1>1. CASE UNCHANGED <<identity, raw>>
  BY <1>1
<1>2. CASE WriteIdentity
  BY <1>2 DEF WriteIdentity, CInv, IdentityInv
<1>3. CASE Keep
  BY <1>3 DEF Keep, CInv, RowInv, TypeOK
<1>4. CASE ~WriteIdentity /\ ~Keep
  <2>1. UNCHANGED <<identity, raw>>
    BY <1>4 DEF Next, Collector, Start, CheckIdentity, ReadRows, NextRow, AcquireLease, Ask,
       AskFails, KeepFails, Release, ReleaseFails, Grade, AppendRow, AppendTorn, Sum, Crash,
       ClearLease, Relaunch, vars
  <2> QED BY <2>1
<1> QED BY <1>2, <1>3, <1>4

LEMMA StaysEarned ==
    ASSUME CInv, [Next]_vars, NEW x \in Record, Earned(x)
    PROVE  Earned(x)'
<1>1. x.row \in Rows
  BY DEF Record
<1>2. raw[x.row] = [good |-> TRUE, launch |-> identity] /\ identity # 0 /\ x.launch = identity
  BY DEF Earned
<1>3. raw[x.row] # NoAnswer
  <2>1. raw[x.row].good = TRUE /\ NoAnswer.good = FALSE
    BY <1>2 DEF NoAnswer
  <2> QED BY <2>1
<1> QED BY <1>1, <1>2, <1>3, Steady DEF Earned

(* A record that is written is earned: its response is the kept one.       *)
LEMMA MineIsEarned ==
    ASSUME CInv, pc = "append"
    PROVE  Mine \in Record /\ Mine.row = at /\ Earned(Mine)
<1>1. at \in Rows /\ raw[at] = answer /\ answer.good /\ raw[at] # NoAnswer /\ identity = mine
  BY DEF CInv, RowInv, IdentityInv
<1>2. raw[at].launch = identity /\ raw[at] \in Answers /\ identity # 0
  BY <1>1 DEF CInv, IdentityInv, TypeOK
<1>3. raw[at] = [good |-> TRUE, launch |-> identity]
  <2>1. \A a \in Answers : a.good /\ a.launch = identity => a = [good |-> TRUE, launch |-> identity]
    BY DEF Answers
  <2> QED BY <1>1, <1>2, <2>1
<1>4. Mine \in Record /\ Mine.row = at /\ Mine.launch = mine
  BY <1>1 DEF Mine, Record, CInv, TypeOK
<1> QED BY <1>1, <1>2, <1>3, <1>4 DEF Earned

LEMMA IdentityStep == CInv /\ [Next]_vars => IdentityInv'
<1> SUFFICES ASSUME CInv, [Next]_vars PROVE IdentityInv'
  OBVIOUS
<1> USE DEF Goto, Outside, Memory, NoFault, Fault, files, ghosts
<1>1. /\ pc = "name" => identity = 0
      /\ pc \notin {"off", "identity", "name"} => identity = mine
      /\ mine \in Launches
      /\ \/ identity' = identity
         \/ pc = "name" /\ identity' = mine /\ pc' = "read" /\ mine' = mine
  <2>1. CASE WriteIdentity
    BY <2>1 DEF WriteIdentity, CInv, IdentityInv, TypeOK
  <2>2. CASE ~WriteIdentity
    BY <2>2 DEF CInv, IdentityInv, TypeOK, Next, Collector, Start, CheckIdentity, ReadRows, NextRow,
       AcquireLease, Ask, AskFails, Keep, KeepFails, Release, ReleaseFails, Grade, AppendRow,
       AppendTorn, Sum, Crash, ClearLease, Relaunch, vars
  <2> QED BY <2>1, <2>2
<1>2. /\ pc' = "name" => identity' = 0
      /\ pc' \notin {"off", "identity", "name"} => identity' = mine'
  <2>1. CASE WriteIdentity
    BY <2>1 DEF WriteIdentity
  <2>2. CASE CheckIdentity
    BY <2>2 DEF CheckIdentity
  <2>3. CASE Start \/ ReadRows \/ NextRow \/ AcquireLease \/ Ask \/ AskFails \/ Keep
    BY <2>3, <1>1 DEF Start, ReadRows, NextRow, AcquireLease, Ask, AskFails, Keep
  <2>4. CASE KeepFails \/ Release \/ ReleaseFails \/ Grade \/ AppendRow \/ AppendTorn \/ Sum
    BY <2>4, <1>1 DEF KeepFails, Release, ReleaseFails, Grade, AppendRow, AppendTorn, Sum
  <2>5. CASE Crash \/ ClearLease \/ Relaunch \/ UNCHANGED vars
    BY <2>5, <1>1 DEF Crash, ClearLease, Relaunch, vars
  <2> QED BY <2>1, <2>2, <2>3, <2>4, <2>5 DEF Next, Collector
<1>3. \A r \in Rows : raw'[r] # NoAnswer => identity' # 0 /\ raw'[r].launch = identity'
  <2>1. CASE Keep
    <3>1. /\ raw' = [raw EXCEPT ![at] = answer] /\ identity' = identity /\ identity = mine
          /\ answer.launch = mine /\ at \in Rows /\ raw \in [Rows -> Answers \cup {NoAnswer}]
      BY <2>1, <1>1 DEF Keep, CInv, RowInv, TypeOK
    <3>2. mine # 0
      BY BoundsAssumption DEF CInv, TypeOK, Launches
    <3> QED BY <3>1, <3>2 DEF CInv, IdentityInv
  <2>2. CASE ~Keep
    <3>1. raw' = raw
      BY <2>2 DEF Next, Collector, Start, CheckIdentity, WriteIdentity, ReadRows, NextRow,
         AcquireLease, Ask, AskFails, KeepFails, Release, ReleaseFails, Grade, AppendRow,
         AppendTorn, Sum, Crash, ClearLease, Relaunch, vars
    <3> QED BY <3>1, Steady DEF CInv, IdentityInv
  <2> QED BY <2>1, <2>2
<1>4. \A x \in done' \cup summary' : Earned(x)'
  <2> SUFFICES ASSUME NEW x \in done' \cup summary' PROVE Earned(x)'
    OBVIOUS
  <2>1. x \in Record /\ Earned(x)
    <3>1. \A y \in done \cup summary : y \in Record /\ Earned(y)
      BY DEF CInv, TypeOK, IdentityInv
    <3>2. CASE ReadRows
      <4>1. CASE x \in Retained /\ Readable
        <5>1. PICK i \in 1 .. Len(lines) : x = lines[i][1]
          BY <4>1 DEF Retained
        <5>2. Len(lines[i]) = 1 /\ lines[i][1] \in Record
          BY <4>1 DEF Readable, Parses
        <5>3. Earned(lines[i][1])
          BY <5>2 DEF CInv, IdentityInv
        <5> QED BY <5>1, <5>2, <5>3
      <4>2. CASE x \in done \cup summary
        BY <3>1, <4>2
      <4> QED BY <3>2, <4>1, <4>2 DEF ReadRows
    <3>3. CASE AppendRow
      <4>1. pc = "append" /\ done' = done \cup {Mine} /\ summary' = summary
        BY <3>3 DEF AppendRow
      <4> QED BY <4>1, <3>1, MineIsEarned
    <3>4. CASE Start \/ Sum
      BY <3>1, <3>4 DEF Start, Sum
    <3>5. CASE ~ReadRows /\ ~AppendRow /\ ~Start /\ ~Sum
      <4>1. UNCHANGED <<done, summary>>
        BY <3>5 DEF Next, Collector, CheckIdentity, WriteIdentity, NextRow, AcquireLease, Ask,
           AskFails, Keep, KeepFails, Release, ReleaseFails, Grade, AppendTorn, Crash, ClearLease,
           Relaunch, vars
      <4> QED BY <3>1, <4>1
    <3> QED BY <3>2, <3>3, <3>4, <3>5
  <2> QED BY <2>1, StaysEarned
<1>5. \A x \in Record : \A i \in 1 .. Len(lines') : \A k \in 1 .. Len(lines'[i]) :
          x = lines'[i][k] => Earned(x)'
  <2> SUFFICES ASSUME NEW x \in Record, NEW i \in 1 .. Len(lines'), NEW k \in 1 .. Len(lines'[i]),
                      x = lines'[i][k]
               PROVE  Earned(x)'
    OBVIOUS
  <2>1. CASE \E y \in {Half, Mine} : lines' = Written(y) /\ pc = "append"
    <3>1. PICK y \in {Half, Mine} : lines' = Written(y) /\ pc = "append"
      BY <2>1
    <3>2. lines \in Seq(Seq(Piece)) /\ (open => Len(lines) > 0) /\ y \in Piece
      BY <3>1, MineIsEarned DEF CInv, TypeOK, FileInv, Piece
    <3>3. x = y \/ (i \in 1 .. Len(lines) /\ k \in 1 .. Len(lines[i]) /\ x = lines[i][k])
      BY <3>1, <3>2, WrittenAdds
    <3>4. CASE x = y
      BY <3>1, <3>4, MineIsEarned, HalfIsNoRecord, StaysEarned
    <3>5. CASE i \in 1 .. Len(lines) /\ k \in 1 .. Len(lines[i]) /\ x = lines[i][k]
      BY <3>5, StaysEarned DEF CInv, IdentityInv
    <3> QED BY <3>3, <3>4, <3>5
  <2>2. CASE lines' = lines
    BY <2>2, StaysEarned DEF CInv, IdentityInv
  <2>3. CASE AppendRow \/ AppendTorn
    BY <2>1, <2>3 DEF AppendRow, AppendTorn
  <2>4. CASE ~AppendRow /\ ~AppendTorn
    <3>1. lines' = lines
      BY <2>4 DEF Next, Collector, Start, CheckIdentity, WriteIdentity, ReadRows, NextRow,
         AcquireLease, Ask, AskFails, Keep, KeepFails, Release, ReleaseFails, Grade, Sum, Crash,
         ClearLease, Relaunch, vars
    <3> QED BY <3>1, <2>2
  <2> QED BY <2>3, <2>4
<1> QED BY <1>2, <1>3, <1>4, <1>5 DEF IdentityInv

LEMMA RowStep == CInv /\ [Next]_vars => RowInv'
<1> SUFFICES ASSUME CInv, [Next]_vars PROVE RowInv'
  OBVIOUS
<1> USE DEF Goto, Outside, Memory, NoFault, Fault, files, ghosts
<1>1. TypeOK /\ RowInv /\ IdentityInv
  BY DEF CInv
<1>2. CASE Start
  <2>1. at' = 1 /\ pc' = "identity"
    BY <1>2 DEF Start
  <2> QED BY <2>1 DEF RowInv
<1>3. CASE CheckIdentity
  BY <1>1, <1>3 DEF CheckIdentity, RowInv
<1>4. CASE WriteIdentity
  BY <1>1, <1>4 DEF WriteIdentity, RowInv
<1>5. CASE ReadRows
  <2>1. at' = 1 /\ pc' \in {"loop", "off"}
    BY <1>1, <1>5 DEF ReadRows, RowInv
  <2>2. \A r \in 1 .. at' - 1 : FALSE
    BY <2>1
  <2> QED BY <2>1, <2>2 DEF RowInv
<1>6. CASE NextRow
  <2>1. pc = "loop" /\ UNCHANGED <<done, raw, mine>> /\ at \in 1 .. N + 1
        /\ \A r \in 1 .. at - 1 : r \in Known(done)
    BY <1>1, <1>6 DEF NextRow, RowInv, TypeOK
  <2>2. CASE at > N /\ pc' = "sum" /\ at' = at
    <3>1. at = N + 1
      BY <2>1, <2>2, RowsAssumption
    <3> QED BY <2>1, <2>2, <3>1 DEF RowInv
  <2>3. CASE at \in Known(done) /\ at' = at + 1 /\ pc' = "loop"
    <3>1. \A r \in 1 .. at' - 1 : r \in 1 .. at - 1 \/ r = at
      BY <2>1, <2>3
    <3> QED BY <2>1, <2>3, <3>1 DEF RowInv
  <2>4. CASE at <= N /\ at \notin Known(done) /\ at' = at /\ raw[at] # NoAnswer
             /\ answer' = raw[at] /\ pc' \in {"grade", "off"}
    <3>1. at \in Rows
      BY <2>1, <2>4, RowsAssumption DEF Rows
    <3> QED BY <2>1, <2>4, <3>1 DEF RowInv
  <2>5. CASE at <= N /\ at \notin Known(done) /\ at' = at /\ raw[at] = NoAnswer /\ pc' = "lease"
    <3>1. at \in Rows
      BY <2>1, <2>5, RowsAssumption DEF Rows
    <3> QED BY <2>1, <2>5, <3>1 DEF RowInv
  <2> QED BY <1>6, <2>1, <2>2, <2>3, <2>4, <2>5 DEF NextRow
<1>7. CASE AcquireLease
  BY <1>1, <1>7 DEF AcquireLease, RowInv
<1>8. CASE Ask
  <2>1. answer' \in Answers /\ answer'.launch = mine
    BY <1>1, <1>8 DEF Ask, Answers, TypeOK
  <2> QED BY <1>1, <1>8, <2>1 DEF Ask, RowInv
<1>9. CASE AskFails
  BY <1>1, <1>9 DEF AskFails, RowInv
<1>10. CASE Keep
  <2>1. raw'[at] = answer /\ answer # NoAnswer
    <3>1. raw'[at] = answer /\ answer \in Answers /\ mine \in Launches /\ answer.launch = mine
      BY <1>1, <1>10 DEF Keep, RowInv, TypeOK
    <3>2. NoAnswer.launch = 0 /\ 0 \notin Launches
      BY BoundsAssumption DEF NoAnswer, Launches
    <3> QED BY <3>1, <3>2
  <2> QED BY <1>1, <1>10, <2>1 DEF Keep, RowInv
<1>11. CASE KeepFails
  BY <1>1, <1>11 DEF KeepFails, RowInv
<1>12. CASE Release
  BY <1>1, <1>12 DEF Release, RowInv
<1>13. CASE ReleaseFails
  BY <1>1, <1>13 DEF ReleaseFails, RowInv
<1>14. CASE Grade
  BY <1>1, <1>14 DEF Grade, RowInv
<1>15. CASE AppendRow
  <2>1. /\ pc = "append" /\ at' = at + 1 /\ done' = done \cup {Mine} /\ pc' = "loop" /\ at \in Rows
        /\ \A r \in 1 .. at - 1 : r \in Known(done)
    BY <1>1, <1>15 DEF AppendRow, RowInv
  <2>2. at \in Known(done') /\ \A r \in Known(done) : r \in Known(done')
    BY <2>1, MineIsEarned DEF Known
  <2>3. \A r \in 1 .. at' - 1 : r \in 1 .. at - 1 \/ r = at
    BY <2>1 DEF Rows
  <2> QED BY <2>1, <2>2, <2>3 DEF RowInv
<1>16. CASE AppendTorn
  BY <1>1, <1>16 DEF AppendTorn, RowInv
<1>17. CASE Sum
  BY <1>1, <1>17 DEF Sum, RowInv
<1>18. CASE Crash
  BY <1>1, <1>18 DEF Crash, RowInv
<1>19. CASE ClearLease
  BY <1>1, <1>19 DEF ClearLease, RowInv
<1>20. CASE Relaunch
  BY <1>1, <1>20 DEF Relaunch, RowInv
<1>21. CASE UNCHANGED vars
  BY <1>1, <1>21 DEF vars, RowInv
<1> QED BY <1>2, <1>3, <1>4, <1>5, <1>6, <1>7, <1>8, <1>9, <1>10, <1>11, <1>12, <1>13, <1>14, <1>15,
           <1>16, <1>17, <1>18, <1>19, <1>20, <1>21 DEF Next, Collector

LEMMA FileStep == CInv /\ [Next]_vars => FileInv'
<1> SUFFICES ASSUME CInv, [Next]_vars PROVE FileInv'
  OBVIOUS
<1> USE DEF Goto, Outside, Memory, NoFault, Fault, files, ghosts
<1>1. TypeOK /\ RowInv /\ FileInv
  BY DEF CInv
<1>2. lines \in Seq(Seq(Piece)) /\ (open => Len(lines) > 0) /\ Len(lines) \in Nat
  BY <1>1, LenProperties DEF TypeOK, FileInv, Piece
<1>3. CASE AppendRow \/ AppendTorn
  <2> DEFINE n == Len(lines)
  <2>1. pc = "append" /\ Mine \in Piece /\ Mine \in Record /\ Mine.row = at /\ Half \in Piece
    BY <1>3, MineIsEarned DEF AppendRow, AppendTorn, Piece
  <2>2. /\ torn' \/ (lines' = Written(Mine) /\ open' = FALSE /\ torn' = torn)
        /\ open' => torn'
        /\ Len(lines') > 0
    BY <1>2, <1>3, <2>1, WrittenAdds DEF AppendRow, AppendTorn
  <2>3. CASE torn'
    BY <2>2, <2>3 DEF FileInv
  <2>4. CASE ~torn'
    <3>1. ~torn /\ ~open /\ lines' = Written(Mine) /\ ~open'
      BY <1>1, <2>2, <2>4 DEF FileInv
    <3>2. /\ Len(lines') = n + 1 /\ \A i \in 1 .. n : lines'[i] = lines[i]
          /\ lines'[n + 1] = <<Mine>>
      BY <1>2, <2>1, <3>1, WrittenAdds
    <3>3. lines'[n + 1][1] = Mine /\ Len(lines'[n + 1]) = 1
      BY <3>2
    <3>4. \A i \in 1 .. n : Len(lines[i]) = 1 /\ lines[i][1] \in Record /\ lines[i][1] \in done
      BY <1>1, <2>1, <3>1 DEF FileInv, Running
    <3>5. \A i, j \in 1 .. n : i # j => lines[i][1].row # lines[j][1].row
      BY <1>1, <3>1 DEF FileInv
    <3>6. \A i \in 1 .. n : lines[i][1].row # at
      BY <1>1, <2>1, <3>4 DEF RowInv, Known
    <3>7. Running' => done' = done \cup {Mine}
      BY <1>3 DEF AppendRow, AppendTorn, Running
    <3>8. 1 .. Len(lines') = (1 .. n) \cup {n + 1}
      BY <1>2, <3>2
    <3>9. \A i \in 1 .. Len(lines') :
             Len(lines'[i]) = 1 /\ lines'[i][1] \in Record /\ (Running' => lines'[i][1] \in done')
      <4> SUFFICES ASSUME NEW i \in 1 .. Len(lines')
                   PROVE  Len(lines'[i]) = 1 /\ lines'[i][1] \in Record
                          /\ (Running' => lines'[i][1] \in done')
        OBVIOUS
      <4>1. CASE i \in 1 .. n
        BY <4>1, <3>2, <3>4, <3>7
      <4>2. CASE i = n + 1
        BY <4>2, <2>1, <3>3, <3>7
      <4> QED BY <3>8, <4>1, <4>2
    <3>10. \A i, j \in 1 .. Len(lines') : i # j => lines'[i][1].row # lines'[j][1].row
      <4> SUFFICES ASSUME NEW i \in 1 .. Len(lines'), NEW j \in 1 .. Len(lines'), i # j
                   PROVE  lines'[i][1].row # lines'[j][1].row
        OBVIOUS
      <4>1. CASE i \in 1 .. n /\ j \in 1 .. n
        BY <4>1, <3>2, <3>5
      <4>2. CASE i = n + 1 /\ j \in 1 .. n
        BY <4>2, <2>1, <3>2, <3>3, <3>6
      <4>3. CASE j = n + 1 /\ i \in 1 .. n
        BY <4>3, <2>1, <3>2, <3>3, <3>6
      <4> QED BY <3>8, <4>1, <4>2, <4>3
    <3> QED BY <2>4, <3>1, <3>9, <3>10 DEF FileInv
  <2> QED BY <2>3, <2>4
<1>4. CASE ReadRows
  <2>1. UNCHANGED <<lines, open, torn>>
    BY <1>4 DEF ReadRows
  <2>2. Running' => \A i \in 1 .. Len(lines) : lines[i][1] \in done'
    <3>1. Running' => Readable /\ done' = Retained
      BY <1>4 DEF ReadRows, Running
    <3> QED BY <3>1, ReadableRetains
  <2> QED BY <1>1, <2>1, <2>2 DEF FileInv
<1>5. CASE ~AppendRow /\ ~AppendTorn /\ ~ReadRows
  <2>1. UNCHANGED <<lines, open, torn>>
    BY <1>5 DEF Next, Collector, Start, CheckIdentity, WriteIdentity, NextRow, AcquireLease, Ask,
       AskFails, Keep, KeepFails, Release, ReleaseFails, Grade, Sum, Crash, ClearLease, Relaunch, vars
  <2>2. Running' => Running /\ done' = done
    BY <1>5 DEF Running, Next, Collector, Start, CheckIdentity, WriteIdentity, NextRow, AcquireLease,
       Ask, AskFails, Keep, KeepFails, Release, ReleaseFails, Grade, Sum, Crash, ClearLease,
       Relaunch, vars
  <2> QED BY <1>1, <2>1, <2>2 DEF FileInv
<1> QED BY <1>3, <1>4, <1>5

LEMMA AskedStep == CInv /\ [Next]_vars => AskedAgainOnlyIfLost'
<1> SUFFICES ASSUME CInv, [Next]_vars PROVE AskedAgainOnlyIfLost'
  OBVIOUS
<1> USE DEF Goto, Outside, Memory, NoFault, Fault, files, ghosts
<1>1. /\ AskedAgainOnlyIfLost /\ raw \in [Rows -> Answers \cup {NoAnswer}]
      /\ asked \in [Rows -> Nat] /\ lost \in [Rows -> Nat]
  BY DEF CInv, TypeOK
<1>2. CASE Ask
  <2>1. at \in Rows /\ raw[at] = NoAnswer
    BY <1>2 DEF Ask, CInv, RowInv
  <2> QED BY <1>1, <1>2, <2>1 DEF Ask, AskedAgainOnlyIfLost
<1>3. CASE Keep
  <2>1. at \in Rows /\ raw[at] = NoAnswer /\ raw'[at] = answer /\ answer \in Answers
        /\ mine \in Launches /\ answer.launch = mine
    BY <1>1, <1>3 DEF Keep, CInv, RowInv, TypeOK
  <2>2. NoAnswer.launch = 0 /\ 0 \notin Launches
    BY BoundsAssumption DEF NoAnswer, Launches
  <2>3. raw'[at] # NoAnswer /\ \A r \in Rows \ {at} : raw'[r] = raw[r]
    BY <1>1, <1>3, <2>1, <2>2 DEF Keep
  <2> QED BY <1>1, <1>3, <2>1, <2>3 DEF Keep, AskedAgainOnlyIfLost
<1>4. CASE KeepFails
  <2>1. at \in Rows /\ raw[at] = NoAnswer
    BY <1>4 DEF KeepFails, CInv, RowInv
  <2> QED BY <1>1, <1>4, <2>1 DEF KeepFails, AskedAgainOnlyIfLost
<1>5. CASE Crash
  <2>1. pc = "keep" => at \in Rows /\ raw[at] = NoAnswer
    BY DEF CInv, RowInv
  <2> QED BY <1>1, <1>5, <2>1 DEF Crash, AskedAgainOnlyIfLost
<1>6. CASE ~Ask /\ ~Keep /\ ~KeepFails /\ ~Crash
  <2>1. UNCHANGED <<asked, lost, raw>>
    BY <1>6 DEF Next, Collector, Start, CheckIdentity, WriteIdentity, ReadRows, NextRow,
       AcquireLease, AskFails, Release, ReleaseFails, Grade, AppendRow, AppendTorn, Sum,
       ClearLease, Relaunch, vars
  <2>2. (pc' = "keep" <=> pc = "keep") /\ (pc = "keep" => at' = at)
    BY <1>6 DEF Next, Collector, Start, CheckIdentity, WriteIdentity, ReadRows, NextRow,
       AcquireLease, AskFails, Release, ReleaseFails, Grade, AppendRow, AppendTorn, Sum,
       ClearLease, Relaunch, vars
  <2> QED BY <1>1, <2>1, <2>2 DEF AskedAgainOnlyIfLost
<1> QED BY <1>2, <1>3, <1>4, <1>5, <1>6

(* A set of earned records has no two of one row.                          *)
LEMMA OneRecordPerRow ==
    ASSUME CInv, Known(done) = Rows
    PROVE  Cardinality(done) = N
<1> DEFINE f == [x \in done |-> x.row]
<1>1. \A x \in done : x \in Record /\ x.launch = identity
  BY DEF CInv, TypeOK, IdentityInv, Earned
<1>2. \A x, y \in done : x.row = y.row => x = y
  BY <1>1 DEF Record
<1>3. f \in [done -> Rows] /\ \A x, y \in done : f[x] = f[y] => x = y
  BY <1>1, <1>2 DEF Record
<1>4. \A r \in Rows : \E x \in done : f[x] = r
  BY DEF Known
<1> HIDE DEF f
<1>5. f \in Bijection(done, Rows)
  BY <1>3, <1>4, Fun_IsBij
<1>6. ExistsBijection(Rows, done)
  BY <1>5, Fun_ExistsBij, Fun_ExistsBijSymmetric
<1>7. IsFiniteSet(Rows) /\ Cardinality(Rows) = N
  BY RowsAssumption, FS_Interval DEF Rows
<1> QED BY <1>6, <1>7, FS_Bijection

LEMMA SummaryStep == CInv /\ [Next]_vars => SummaryIsEarned'
<1> SUFFICES ASSUME CInv, [Next]_vars PROVE SummaryIsEarned'
  OBVIOUS
<1> USE DEF Goto, Outside, Memory, NoFault, Fault, files, ghosts
<1>1. CASE Sum
  <2>1. at = N + 1 /\ \A r \in 1 .. at - 1 : r \in Known(done)
    BY <1>1 DEF Sum, CInv, RowInv
  <2>2. Rows \subseteq Known(done)
    BY <2>1, RowsAssumption DEF Rows
  <2>3. Known(done) = Rows
    BY <2>2 DEF Known, Record, CInv, TypeOK
  <2>4. Cardinality(done) = N
    BY <2>3, OneRecordPerRow
  <2>5. \A x \in done : Earned(x)
    BY DEF CInv, IdentityInv
  <2>6. summary' = done /\ UNCHANGED <<raw, identity>>
    BY <1>1 DEF Sum
  <2> QED BY <2>3, <2>4, <2>5, <2>6 DEF SummaryIsEarned, Earned
<1>2. CASE ~Sum
  <2>1. summary' = summary
    BY <1>2 DEF Next, Collector, Start, CheckIdentity, WriteIdentity, ReadRows, NextRow,
       AcquireLease, Ask, AskFails, Keep, KeepFails, Release, ReleaseFails, Grade, AppendRow,
       AppendTorn, Crash, ClearLease, Relaunch, vars
  <2>2. \A x \in summary : x \in Record /\ Earned(x)
    BY DEF CInv, TypeOK, IdentityInv
  <2>3. \A x \in summary : Earned(x)'
    BY <2>2, StaysEarned
  <2> QED BY <2>1, <2>3 DEF SummaryIsEarned, CInv, Earned
<1> QED BY <1>1, <1>2

LEMMA CInvStep == CInv /\ [Next]_vars => CInv'
  BY TypesStep, IdentityStep, RowStep, FileStep, AskedStep, SummaryStep DEF CInv

LEMMA CInvAlways == Spec => []CInv
  BY CInvInit, CInvStep, PTL DEF Spec

(* The state is well-formed and, unless a write to rows.jsonl itself was   *)
(* cut short, a resume can read what any interrupted run has left.         *)
THEOREM CollectionsAreSound == Spec => []CollectionInv
<1>1. CInv => CollectionInv
  <2> SUFFICES ASSUME CInv, ~torn PROVE Readable
    BY DEF CInv, CollectionInv, ResumeReads
  <2> QED BY WholeLinesAreReadable DEF CInv, FileInv
<1> QED BY <1>1, CInvAlways, PTL

(* No row is asked again except for an answer that died before it could be *)
(* written, through any number of crashes, failures and resumes.           *)
THEOREM AnswersAreKept == Spec => []AskedAgainOnlyIfLost
<1>1. CInv => AskedAgainOnlyIfLost
  BY DEF CInv
<1> QED BY <1>1, CInvAlways, PTL

(* A summary has one record per row, each from a kept and graded response  *)
(* of the launch the directory is named for.                               *)
THEOREM SummariesAreEarned == Spec => []SummaryIsEarned
<1>1. CInv => SummaryIsEarned
  BY DEF CInv
<1> QED BY <1>1, CInvAlways, PTL

=============================================================================
