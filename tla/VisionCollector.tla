-------------------------- MODULE VisionCollector --------------------------
(***************************************************************************)
(* The serial, resumable vision collector: main() of                       *)
(* scripts/final_vision.py, run again by the operator after every failure. *)
(* A step is one file written, read or renamed, or one call of the lease   *)
(* or of the server; the process may die between any two.  One collector   *)
(* runs at a time (final_eval.py makes the stage directory exclusively).   *)
(***************************************************************************)
EXTENDS Integers, Sequences, FiniteSets

CONSTANTS
    N,          \* rows of the suite, in the order of its loader
    MaxLaunch,  \* bound: launches of the server (epochs) during a collection
    MaxFaults   \* bound: crashes and calls that raise

ASSUME RowsAssumption == N \in Nat \ {0}
ASSUME BoundsAssumption == MaxLaunch \in Nat \ {0} /\ MaxFaults \in Nat

Rows == 1 .. N
Launches == 1 .. MaxLaunch

(* A record names its row and the launch whose identity it carries.        *)
Record == [row : Rows, launch : Launches]
Half == [row |-> 0, launch |-> 0]   \* the part of a record a torn write left

NoAnswer == [good |-> FALSE, launch |-> 0]
Answers == [good : BOOLEAN, launch : Launches]

VARIABLES
    pc,        \* where the collector is; "off" between two invocations
    at,        \* the row its loop is at
    mine,      \* the launch its identity was computed from
    done,      \* records it holds in memory
    answer,    \* the response it holds
    lock,      \* the lease: free, held, or left behind by a dead holder
    identity,  \* identity.json: the launch it names, 0 before it exists
    raw,       \* raw[r]: the response file of row r
    lines,     \* rows.jsonl: what each line holds
    open,      \* its last line has no newline
    summary,   \* the records summed up in summary.json
    launch,    \* the launch that serves
    asked,     \* asked[r]: answers the server gave to row r
    lost,      \* lost[r]: those that died with the collector or its disk
    torn,      \* a write to rows.jsonl was cut short
    faults

files == <<identity, raw, lines, open, summary>>
ghosts == <<asked, lost, torn>>
vars == <<pc, at, mine, done, answer, lock, identity, raw, lines, open, summary,
          launch, asked, lost, torn, faults>>

PCs == {"off", "identity", "name", "read", "loop", "lease", "ask", "keep",
        "release", "giveup", "grade", "append", "sum"}

TypeOK ==
    /\ pc \in PCs /\ at \in 1 .. N+1 /\ mine \in Launches
    /\ done \subseteq Record
    /\ answer \in Answers \cup {NoAnswer}
    /\ lock \in {"free", "held", "left"}
    /\ identity \in 0 .. MaxLaunch
    /\ raw \in [Rows -> Answers \cup {NoAnswer}]
    /\ lines \in Seq(Seq(Record \cup {Half})) /\ open \in BOOLEAN
    /\ summary \in SUBSET Record
    /\ launch \in Launches
    /\ asked \in [Rows -> Nat] /\ lost \in [Rows -> Nat]
    /\ torn \in BOOLEAN /\ faults \in 0 .. MaxFaults

Init ==
    /\ pc = "off" /\ at = 1 /\ mine = 1 /\ done = {} /\ answer = NoAnswer
    /\ lock = "free" /\ identity = 0 /\ raw = [r \in Rows |-> NoAnswer]
    /\ lines = <<>> /\ open = FALSE /\ summary = {} /\ launch = 1
    /\ asked = [r \in Rows |-> 0] /\ lost = [r \in Rows |-> 0]
    /\ torn = FALSE /\ faults = 0

Fault == faults < MaxFaults /\ faults' = faults + 1
NoFault == UNCHANGED faults

Goto(p) == pc' = p
Outside == UNCHANGED <<launch, ghosts>>
Memory == UNCHANGED <<at, mine, done, answer>>

-----------------------------------------------------------------------------
(* Start: identity and retained rows                                       *)

(* Also the operator's part: run it again while there is no summary.       *)
Start ==
    /\ pc = "off" /\ summary = {}
    /\ Goto("identity") /\ mine' = launch
    /\ at' = 1 /\ done' = {} /\ answer' = NoAnswer
    /\ UNCHANGED <<lock, files>> /\ Outside /\ NoFault

(* Bug: a directory with an identity in it is refused.                     *)
CheckIdentityNew ==
    /\ pc = "identity"
    /\ Goto(IF identity = 0 THEN "name" ELSE "off")
    /\ Memory /\ UNCHANGED <<lock, files>> /\ Outside /\ NoFault

(* resume identity mismatch: raised outside the loop, nothing is written.  *)
CheckIdentity ==
    /\ pc = "identity"
    /\ Goto(CASE identity = 0    -> "name"
              [] identity = mine -> "read"
              [] OTHER           -> "off")
    /\ Memory /\ UNCHANGED <<lock, files>> /\ Outside /\ NoFault

WriteIdentity ==
    /\ pc = "name"
    /\ identity' = mine /\ Goto("read")
    /\ Memory /\ UNCHANGED <<lock, raw, lines, open, summary>> /\ Outside /\ NoFault

(* Every line is one JSON value: not half of one, nor two.                 *)
Parses(line) == Len(line) = 1 /\ line[1] \in Record

Retained == {lines[i][1] : i \in 1 .. Len(lines)}
Known(recs) == {x.row : x \in recs}

(* json.loads per line; no id twice; every id known to the loader.         *)
Readable ==
    /\ \A i \in 1 .. Len(lines) : Parses(lines[i])
    /\ Cardinality(Known(Retained)) = Len(lines)
    /\ Known(Retained) \subseteq Rows

ReadRows ==
    /\ pc = "read"
    /\ IF Readable
       THEN done' = Retained /\ Goto("loop")
       ELSE UNCHANGED done /\ Goto("off")
    /\ UNCHANGED <<at, mine, answer, lock, files>> /\ Outside /\ NoFault

-----------------------------------------------------------------------------
(* One row                                                                 *)

(* Bug: a row is looked up among the raw responses only.                   *)
NextRowUnretained ==
    /\ pc = "loop"
    /\ UNCHANGED at
    /\ CASE at > N -> Goto("sum") /\ UNCHANGED answer
         [] at <= N /\ raw[at] # NoAnswer ->
                /\ answer' = raw[at]
                /\ Goto(IF raw[at].launch = mine THEN "grade" ELSE "off")
         [] OTHER -> Goto("lease") /\ UNCHANGED answer
    /\ UNCHANGED <<mine, done, lock, files>> /\ Outside /\ NoFault

(* A retained row is skipped; a kept response is used if it carries the    *)
(* identity of this collection; any other row needs the lease.             *)
NextRow ==
    /\ pc = "loop"
    /\ \/ at > N /\ Goto("sum") /\ UNCHANGED <<at, answer>>
       \/ at \in Known(done) /\ at' = at + 1 /\ UNCHANGED <<pc, answer>>
       \/ /\ at <= N /\ at \notin Known(done) /\ raw[at] # NoAnswer
          /\ answer' = raw[at]
          /\ Goto(IF raw[at].launch = mine THEN "grade" ELSE "off")
          /\ UNCHANGED at
       \/ /\ at <= N /\ at \notin Known(done) /\ raw[at] = NoAnswer
          /\ Goto("lease") /\ UNCHANGED <<at, answer>>
    /\ UNCHANGED <<mine, done, lock, files>> /\ Outside /\ NoFault

(* The coordinator refuses a launch other than its own, and a taken lock.  *)
AcquireLease ==
    /\ pc = "lease"
    /\ IF lock = "free" /\ launch = mine
       THEN lock' = "held" /\ Goto("ask")
       ELSE UNCHANGED lock /\ Goto("off")
    /\ Memory /\ UNCHANGED files /\ Outside /\ NoFault

(* Any answer counts: with usage and content that can be graded, or not.   *)
Ask ==
    /\ pc = "ask" /\ launch = mine
    /\ \E g \in BOOLEAN : answer' = [good |-> g, launch |-> mine]
    /\ asked' = [asked EXCEPT ![at] = @ + 1]
    /\ Goto("keep")
    /\ UNCHANGED <<at, mine, done, lock, files, launch, lost, torn>> /\ NoFault

(* chat() raises: the lease is released on the way out.                    *)
AskFails ==
    /\ pc = "ask"
    /\ \/ launch # mine /\ NoFault
       \/ Fault
    /\ Goto("giveup")
    /\ Memory /\ UNCHANGED <<lock, files>> /\ Outside

(* Bug: the response is written once the lease is released.                *)
KeepAfterRelease ==
    /\ pc = "keep"
    /\ \/ lock' = "free" /\ raw' = [raw EXCEPT ![at] = answer] /\ Goto("grade") /\ NoFault
       \/ lock' = "left" /\ UNCHANGED raw /\ Goto("off") /\ Fault
    /\ Memory /\ UNCHANGED <<identity, lines, open, summary>> /\ Outside

(* Written to a file of its own and renamed, inside the lease.             *)
Keep ==
    /\ pc = "keep"
    /\ raw' = [raw EXCEPT ![at] = answer]
    /\ Goto("release")
    /\ Memory /\ UNCHANGED <<lock, identity, lines, open, summary>> /\ Outside /\ NoFault

KeepFails ==
    /\ pc = "keep" /\ Fault
    /\ lost' = [lost EXCEPT ![at] = @ + 1]
    /\ Goto("giveup")
    /\ Memory /\ UNCHANGED <<lock, files, launch, asked, torn>>

Release ==
    /\ pc \in {"release", "giveup"}
    /\ lock' = "free"
    /\ Goto(IF pc = "release" THEN "grade" ELSE "off")
    /\ Memory /\ UNCHANGED files /\ Outside /\ NoFault

(* release() raises: the lock stays, the response is already kept.         *)
ReleaseFails ==
    /\ pc \in {"release", "giveup"} /\ Fault
    /\ lock' = "left" /\ Goto("off")
    /\ Memory /\ UNCHANGED files /\ Outside

(* Bug: token usage is checked after the record has been written.          *)
GradeUnchecked ==
    /\ pc = "grade"
    /\ Goto("append")
    /\ Memory /\ UNCHANGED <<lock, files>> /\ Outside /\ NoFault

(* Choices, usage, grade and token counts; anything missing raises, and    *)
(* nothing is written to rows.jsonl.                                       *)
Grade ==
    /\ pc = "grade"
    /\ Goto(IF answer.good THEN "append" ELSE "off")
    /\ Memory /\ UNCHANGED <<lock, files>> /\ Outside /\ NoFault

(* What is written goes to the open last line, or begins a new one.        *)
Written(x) ==
    IF open THEN [lines EXCEPT ![Len(lines)] = Append(@, x)] ELSE Append(lines, <<x>>)

Mine == [row |-> at, launch |-> mine]

AppendRow ==
    /\ pc = "append"
    /\ lines' = Written(Mine) /\ open' = FALSE
    /\ done' = done \cup {Mine}
    /\ at' = at + 1 /\ Goto("loop")
    /\ UNCHANGED <<mine, answer, lock, identity, raw, summary>> /\ Outside /\ NoFault

(* The disk fills up, or the process dies in write(): a part of the line,  *)
(* or all of it but its newline, or all of it, is in the file.             *)
AppendTorn ==
    /\ pc = "append" /\ Fault
    /\ \/ lines' = Written(Half) /\ open' = TRUE /\ torn' = TRUE
       \/ lines' = Written(Mine) /\ open' = TRUE /\ torn' = TRUE
       \/ lines' = Written(Mine) /\ open' = FALSE /\ UNCHANGED torn
    /\ Goto("off")
    /\ Memory /\ UNCHANGED <<lock, identity, raw, summary, launch, asked, lost>>

Sum ==
    /\ pc = "sum"
    /\ summary' = done /\ Goto("off")
    /\ Memory /\ UNCHANGED <<lock, identity, raw, lines, open>> /\ Outside /\ NoFault

-----------------------------------------------------------------------------
(* Around the collector                                                    *)

(* The process dies: its lease stays, a response it held is lost.          *)
Crash ==
    /\ pc # "off" /\ Fault
    /\ Goto("off")
    /\ lock' = IF lock = "held" THEN "left" ELSE lock
    /\ lost' = IF pc = "keep" THEN [lost EXCEPT ![at] = @ + 1] ELSE lost
    /\ Memory /\ UNCHANGED <<files, launch, asked, torn>>

(* The operator removes a lease nobody holds.                              *)
ClearLease ==
    /\ pc = "off" /\ lock = "left"
    /\ lock' = "free"
    /\ Memory /\ UNCHANGED <<pc, files>> /\ Outside /\ NoFault

(* The epoch is replaced by another one.                                   *)
Relaunch ==
    /\ launch < MaxLaunch /\ launch' = launch + 1
    /\ UNCHANGED <<pc, at, mine, done, answer, lock, files, ghosts>> /\ NoFault

-----------------------------------------------------------------------------
Collector ==
    \/ Start \/ CheckIdentity \/ WriteIdentity \/ ReadRows \/ NextRow
    \/ AcquireLease \/ Ask \/ AskFails \/ Keep \/ KeepFails \/ Release \/ ReleaseFails
    \/ Grade \/ AppendRow \/ AppendTorn \/ Sum

Next == Collector \/ Crash \/ ClearLease \/ Relaunch

Spec == Init /\ [][Next]_vars

(* A collector goes on, every call of it has a timeout; the operator runs  *)
(* it again, and does not restart it for ever without removing the lease   *)
(* of a dead one: it can be removed only between two invocations.          *)
FairSpec == Spec /\ WF_vars(Collector) /\ SF_vars(ClearLease)

-----------------------------------------------------------------------------
(* Properties.                                                             *)

(* "Raw bytes survive even if lease release or grading fails" (line 58):   *)
(* the server answers a row again only for an answer that died before it   *)
(* could be kept, never for a failed release, grade, append or resume.     *)
AskedAgainOnlyIfLost ==
    \A r \in Rows :
        asked[r] = lost[r] + (IF raw[r] # NoAnswer \/ (pc = "keep" /\ at = r) THEN 1 ELSE 0)

(* Whatever was interrupted, a record in rows.jsonl can be read back and   *)
(* is there once, unless a write to the file itself was cut short.         *)
ResumeReads == torn \/ Readable

(* The state is well-formed, and a resume can read it.                     *)
CollectionInv == TypeOK /\ ResumeReads

(* A summary stands on kept responses that could be graded, one for every  *)
(* row, all of the one launch the directory is named for.                  *)
SummaryIsEarned ==
    summary # {} =>
        /\ Known(summary) = Rows /\ Cardinality(summary) = N
        /\ \A x \in summary : raw[x.row] = [good |-> TRUE, launch |-> identity]
                              /\ x.launch = identity

(* "Serial, resumable" (line 1): run again after every failure, a          *)
(* collection ends with its summary - but for the three things no further  *)
(* run gets over: a torn line, a kept response that cannot be graded, and  *)
(* another launch.                                                         *)
CollectionEnds ==
    <>(\/ summary # {}
       \/ torn
       \/ \E r \in Rows : raw[r] # NoAnswer /\ ~raw[r].good
       \/ launch > 1)

=============================================================================
