---------------------------- MODULE SandboxDriver ----------------------------
(***************************************************************************)
(* One run of docker/q200/q200_sandbox_driver.py: a program of the test    *)
(* set is started in a process group of its own, its output and the        *)
(* completion marker are read from three pipes while it runs, deadlines    *)
(* are watched, and one receipt is written.  The program may start helper  *)
(* processes, which inherit pipes and may outlive it.  Reading is by       *)
(* chunks; Limit chunks are MAX_OUTPUT_BYTES.                              *)
(***************************************************************************)
EXTENDS Integers, FiniteSets

CONSTANTS
    Helpers,   \* processes the program may start
    Limit,     \* chunks a stream may carry
    MaxChunks, \* bound: chunks written to the streams in all
    MaxFaults  \* bound: failing system calls, a driver that is too slow

ASSUME LimitAssumption == Limit \in Nat /\ MaxChunks \in Nat
ASSUME FaultAssumption == MaxFaults \in Nat
ASSUME HelperAssumption == "program" \notin Helpers

Streams == {"stdout", "stderr"}
Pipes == Streams \cup {"completion"}
Procs == Helpers \cup {"program"}

VARIABLES
    pc,         \* where the driver is in _run_candidate
    back,       \* where it goes after _terminate
    status,     \* status, and for "failed" the reason
    owned,      \* helpers found in /proc so far
    registered, \* pipes in the selector
    events,     \* pipes the last select() found ready
    settle,     \* pipe_deadline is set
    late,       \* now >= deadline, now >= pipe_deadline: as of the top
    settled,    \* of this iteration
    count,      \* chunks read from each stream
    marks,      \* completion markers read
    proc,       \* proc[p]: unborn, running, ended but not waited for, or gone
    code,       \* exit code of the program
    below,      \* helpers that descend from the running program
    holds,      \* holds[p]: pipes p has open for writing
    unread,     \* unread[q]: chunks, or markers, in pipe q
    killed,     \* processes that were sent SIGKILL
    deadlineOver, settleOver,  \* the clock
    signalled,  \* history: _terminate was called
    inTime,     \* history: the program ended by itself before its deadline
    faults

loopVars == <<pc, back, status, owned, registered, events, settle, late, settled>>
readVars == <<count, marks>>
procVars == <<proc, code, below, holds>>
clockVars == <<deadlineOver, settleOver>>
vars == <<loopVars, readVars, procVars, unread, killed, clockVars, signalled, inTime, faults>>

(* timeout, output_limit, oom and grader_error are statuses; retained,     *)
(* exit and marker are the reasons of "failed".                            *)
Statuses == {"ok", "timeout", "output_limit", "retained", "exit", "oom", "marker", "grader_error"}

LoopType ==
    /\ pc \in {"request", "top", "late", "settle", "select", "read", "after", "terminate",
               "final", "verdict", "done"}
    /\ back \in {"read", "final", "verdict", "done"}
    /\ status \in Statuses
    /\ owned \subseteq Helpers
    /\ registered \subseteq Pipes /\ events \subseteq registered
    /\ settle \in BOOLEAN /\ late \in BOOLEAN /\ settled \in BOOLEAN

ReadType ==
    /\ count \in [Streams -> Nat]
    /\ marks \in Nat

ProcType ==
    /\ proc \in [Procs -> {"unborn", "run", "zombie", "gone"}]
    /\ code \in {"none", "zero", "other", "kill"}
    /\ below \subseteq Helpers
    /\ holds \in [Procs -> SUBSET Pipes]
    /\ unread \in [Pipes -> Nat]
    /\ killed \subseteq Procs

TypeOK ==
    /\ LoopType /\ ReadType /\ ProcType
    /\ deadlineOver \in BOOLEAN /\ settleOver \in BOOLEAN
    /\ signalled \in BOOLEAN /\ inTime \in BOOLEAN
    /\ faults \in 0 .. MaxFaults

Init ==
    /\ pc = "request" /\ back = "final" /\ status = "ok"
    /\ owned = {} /\ registered = {} /\ events = {}
    /\ settle = FALSE /\ late = FALSE /\ settled = FALSE
    /\ count = [q \in Streams |-> 0] /\ marks = 0
    /\ proc = [p \in Procs |-> "unborn"] /\ code = "none"
    /\ below = {} /\ holds = [p \in Procs |-> {}]
    /\ unread = [q \in Pipes |-> 0] /\ killed = {}
    /\ deadlineOver = FALSE /\ settleOver = FALSE
    /\ signalled = FALSE /\ inTime = FALSE /\ faults = 0

Fault == faults < MaxFaults /\ faults' = faults + 1
NoFault == UNCHANGED faults

Runs(p) == proc[p] = "run"

(* proc.poll() is None                                                     *)
Polled == ~Runs("program")

Held(q) == \E p \in Procs : q \in holds[p]

(* Readable: data, or end of file.                                         *)
Ready(q) == unread[q] > 0 \/ ~Held(q)

(* os.kill(pid, 0): a process nobody has waited for counts as alive.       *)
Live(h) == proc[h] \in {"run", "zombie"}

(* What the driver's steps leave to others.                                *)
Others == <<procVars, clockVars, inTime>>

Terminate(then) ==
    /\ pc' = "terminate" /\ back' = then
    /\ signalled' = TRUE

Stay == UNCHANGED <<owned, registered, events, settle, late, settled>>

-----------------------------------------------------------------------------
(* The driver.                                                             *)

(* An invalid request, or Popen fails.                                     *)
Refuse ==
    /\ pc = "request"
    /\ pc' = "done" /\ status' = "grader_error"
    /\ UNCHANGED <<back, readVars, unread, killed, signalled, Others>> /\ Stay /\ NoFault

(* The driver closes its own end of the completion pipe.                   *)
Spawn ==
    /\ pc = "request"
    /\ pc' = "top"
    /\ proc' = [proc EXCEPT !["program"] = "run"]
    /\ holds' = [holds EXCEPT !["program"] = Pipes]
    /\ registered' = Pipes
    /\ UNCHANGED <<back, status, owned, events, settle, late, settled, readVars, code, below,
                   unread, killed, signalled, clockVars, inTime>> /\ NoFault

(* now = time.monotonic(); owned.update(_children(proc.pid))               *)
Top ==
    /\ pc = "top"
    /\ pc' = "late"
    /\ late' = deadlineOver /\ settled' = settleOver
    /\ owned' = owned \cup {h \in below : Live(h)}
    /\ UNCHANGED <<back, status, registered, events, settle, readVars, unread, killed,
                   signalled, Others>> /\ NoFault

LateTest ==
    /\ pc = "late"
    /\ \/ /\ late /\ ~Polled
          /\ status' = "timeout" /\ Terminate("final")
       \/ /\ ~late \/ Polled
          /\ pc' = "settle" /\ UNCHANGED <<status, back, signalled>>
    /\ UNCHANGED <<readVars, unread, killed, Others>> /\ Stay /\ NoFault

SetSettle ==
    /\ pc = "settle" /\ ~settle /\ Polled
    /\ pc' = "select" /\ settle' = TRUE
    /\ UNCHANGED <<back, status, owned, registered, events, late, settled, readVars, unread,
                   killed, signalled, Others>> /\ NoFault

(* Bug: the settle time ends the loop whatever is still open.              *)
SettleTestForgiving ==
    /\ pc = "settle" /\ ~(~settle /\ Polled)
    /\ pc' = IF settle /\ settled THEN "final" ELSE "select"
    /\ UNCHANGED <<back, status, readVars, unread, killed, signalled, Others>> /\ Stay /\ NoFault

(* Bug: what the program retained is waited for.                           *)
SettleTestPatient ==
    /\ pc = "settle" /\ ~(~settle /\ Polled)
    /\ pc' = IF /\ settle /\ settled
              /\ \A h \in owned : ~Live(h)
              /\ registered \cap Streams = {}
             THEN "final" ELSE "select"
    /\ UNCHANGED <<back, status, readVars, unread, killed, signalled, Others>> /\ Stay /\ NoFault

SettleTest ==
    /\ pc = "settle" /\ ~(~settle /\ Polled)
    /\ \/ /\ settle /\ settled
          /\ (\E h \in owned : Live(h)) \/ registered \cap Streams # {}
          /\ status' = "retained" /\ Terminate("final")
       \/ /\ settle /\ settled
          /\ \A h \in owned : ~Live(h)
          /\ registered \cap Streams = {}
          /\ pc' = "final" /\ UNCHANGED <<status, back, signalled>>
       \/ /\ ~(settle /\ settled)
          /\ pc' = "select" /\ UNCHANGED <<status, back, signalled>>
    /\ UNCHANGED <<readVars, unread, killed, Others>> /\ Stay /\ NoFault

(* select() with a timeout: it may find nothing.                           *)
Select ==
    /\ pc = "select"
    /\ pc' = "read"
    /\ events' = {q \in registered : Ready(q)}
    /\ UNCHANGED <<back, status, owned, registered, settle, late, settled, readVars, unread,
                   killed, signalled, Others>> /\ NoFault

(* One chunk of a stream; the first beyond the limit ends the program.     *)
ReadStream(q) ==
    /\ pc = "read" /\ q \in events \cap Streams /\ unread[q] > 0
    /\ unread' = [unread EXCEPT ![q] = @ - 1]
    /\ count' = [count EXCEPT ![q] = @ + 1]
    /\ events' = events \ {q}
    /\ \/ /\ count'[q] > Limit /\ status = "ok"
          /\ status' = "output_limit" /\ Terminate("read")
       \/ /\ count'[q] <= Limit \/ status # "ok"
          /\ UNCHANGED <<status, pc, back, signalled>>
    /\ UNCHANGED <<owned, registered, settle, late, settled, marks, killed, Others>> /\ NoFault

(* 4096 bytes are more than any number of markers.                         *)
ReadMarker ==
    /\ pc = "read" /\ "completion" \in events /\ unread["completion"] > 0
    /\ marks' = marks + unread["completion"]
    /\ unread' = [unread EXCEPT !["completion"] = 0]
    /\ events' = events \ {"completion"}
    /\ UNCHANGED <<pc, back, status, owned, registered, settle, late, settled, count, killed,
                   signalled, Others>> /\ NoFault

ReadEnd(q) ==
    /\ pc = "read" /\ q \in events /\ unread[q] = 0
    /\ registered' = registered \ {q}
    /\ events' = events \ {q}
    /\ UNCHANGED <<pc, back, status, owned, settle, late, settled, readVars, unread, killed,
                   signalled, Others>> /\ NoFault

ReadDone ==
    /\ pc = "read" /\ events = {}
    /\ pc' = "after"
    /\ UNCHANGED <<back, status, readVars, unread, killed, signalled, Others>> /\ Stay /\ NoFault

(* Bug: the end of the program ends the loop.                              *)
AfterWithoutDrain ==
    /\ pc = "after"
    /\ pc' = IF status \in {"output_limit", "timeout"} \/ Polled THEN "final" ELSE "top"
    /\ UNCHANGED <<back, status, readVars, unread, killed, signalled, Others>> /\ Stay /\ NoFault

After ==
    /\ pc = "after"
    /\ pc' = IF status \in {"output_limit", "timeout"} \/ (Polled /\ registered = {})
             THEN "final" ELSE "top"
    /\ UNCHANGED <<back, status, readVars, unread, killed, signalled, Others>> /\ Stay /\ NoFault

(* Bug: only the program itself is sent SIGKILL.                           *)
KillProgramOnly ==
    /\ pc = "terminate"
    /\ killed' = killed \cup {p \in {"program"} : Runs(p)}
    /\ pc' = back /\ back' = "final"
    /\ UNCHANGED <<status, readVars, unread, signalled, Others>> /\ Stay /\ NoFault

(* _terminate: SIGTERM, which may be ignored, a grace, SIGKILL to what is  *)
(* owned, and a wait that may expire.                                      *)
Kill ==
    /\ pc = "terminate"
    /\ killed' = killed \cup {p \in {"program"} \cup owned : Runs(p)}
    /\ pc' = back /\ back' = "final"
    /\ UNCHANGED <<status, readVars, unread, signalled, Others>> /\ Stay /\ NoFault

(* A program that does not end within the grace is terminated again.       *)
Final ==
    /\ pc = "final"
    /\ \/ /\ Polled
          /\ pc' = "verdict" /\ UNCHANGED <<back, signalled>>
       \/ /\ ~Polled
          /\ Terminate("verdict")
    /\ UNCHANGED <<status, readVars, unread, killed, Others>> /\ Stay /\ NoFault

Verdict ==
    /\ pc = "verdict"
    /\ pc' = "done"
    /\ status' = CASE status # "ok" -> status
                   [] status = "ok" /\ code = "kill" -> "oom"
                   [] status = "ok" /\ code \notin {"zero", "kill"} -> "exit"
                   [] status = "ok" /\ code = "zero" -> IF marks = 1 THEN "ok" ELSE "marker"
    /\ UNCHANGED <<back, readVars, unread, killed, signalled, Others>> /\ Stay /\ NoFault

(* An OSError or SubprocessError anywhere in the loop.                     *)
SupervisorFails ==
    /\ pc \in {"top", "late", "settle", "select", "read", "after", "final"} /\ Fault
    /\ status' = "grader_error" /\ Terminate("done")
    /\ UNCHANGED <<readVars, unread, killed, Others>> /\ Stay

-----------------------------------------------------------------------------
(* The program and its helpers.                                            *)

(* With the receipt the driver ends, and its container with it.            *)
Idle == pc # "done" /\ UNCHANGED <<loopVars, readVars, signalled, clockVars>> /\ NoFault

Acts(p) == Runs(p) /\ p \notin killed

Write(p, q) ==
    /\ Acts(p) /\ q \in holds[p] \cap Streams
    /\ count["stdout"] + count["stderr"] + unread["stdout"] + unread["stderr"] < MaxChunks
    /\ unread' = [unread EXCEPT ![q] = @ + 1]
    /\ UNCHANGED <<procVars, killed, inTime>> /\ Idle

(* The last lines of the harness; a forked helper may reach them, too.     *)
Mark(p) ==
    /\ Acts(p) /\ "completion" \in holds[p]
    /\ unread' = [unread EXCEPT !["completion"] = @ + 1]
    /\ holds' = [holds EXCEPT ![p] = @ \ {"completion"}]
    /\ UNCHANGED <<proc, code, below, killed, inTime>> /\ Idle

Fork(p, h) ==
    /\ Acts(p) /\ proc[h] = "unborn"
    /\ proc' = [proc EXCEPT ![h] = "run"]
    /\ \E fds \in SUBSET holds[p] : holds' = [holds EXCEPT ![h] = fds]
    /\ below' = IF p = "program" \/ p \in below THEN below \cup {h} ELSE below
    /\ UNCHANGED <<code, unread, killed, inTime>> /\ Idle

(* The process between it and the program (not one of Helpers if it did    *)
(* nothing else) has ended: it belongs to the driver, a subreaper.         *)
Adopted(h) ==
    /\ h \in below
    /\ below' = below \ {h}
    /\ UNCHANGED <<proc, code, holds, unread, killed, inTime>> /\ Idle

(* The end of the program hands all its descendants to the driver.         *)
ProgramEnds(c) ==
    /\ proc' = [proc EXCEPT !["program"] = "gone"]
    /\ holds' = [holds EXCEPT !["program"] = {}]
    /\ code' = c
    /\ below' = {}
    /\ inTime' = (~deadlineOver /\ ~signalled)
    /\ UNCHANGED <<unread, killed>> /\ Idle

ProgramExits ==
    /\ Acts("program")
    /\ \E c \in {"zero", "other", "kill"} : ProgramEnds(c)

(* The driver never waits for helpers it has adopted.                      *)
HelperExits(h) ==
    /\ Acts(h)
    /\ \E s \in IF h \in below THEN {"zombie", "gone"} ELSE {"zombie"} :
          proc' = [proc EXCEPT ![h] = s]
    /\ holds' = [holds EXCEPT ![h] = {}]
    /\ UNCHANGED <<code, below, unread, killed, inTime>> /\ Idle

Dies(p) ==
    /\ p \in killed /\ Runs(p)
    /\ IF p = "program" THEN ProgramEnds("kill")
       ELSE /\ proc' = [proc EXCEPT ![p] = "zombie"]
            /\ holds' = [holds EXCEPT ![p] = {}]
            /\ UNCHANGED <<code, below, unread, killed, inTime>> /\ Idle

-----------------------------------------------------------------------------
(* The clock.                                                              *)

DeadlinePasses ==
    /\ pc \notin {"request", "done"} /\ ~deadlineOver
    /\ deadlineOver' = TRUE
    /\ UNCHANGED <<loopVars, readVars, procVars, unread, killed, settleOver, signalled, inTime>>
    /\ NoFault

(* PIPE_SETTLE_SECONDS after the program's end.  If only reading is left   *)
(* to do, a driver that needs longer is too slow.                          *)
SettlePasses ==
    /\ pc # "done" /\ settle /\ ~settleOver
    /\ settleOver' = TRUE
    /\ IF \E q \in registered : Held(q) THEN NoFault ELSE Fault
    /\ UNCHANGED <<loopVars, readVars, procVars, unread, killed, deadlineOver, signalled, inTime>>

Driver ==
    \/ Refuse \/ Spawn \/ Top \/ LateTest \/ SetSettle \/ SettleTest \/ Select
    \/ ReadMarker \/ ReadDone \/ After \/ Kill \/ Final \/ Verdict
    \/ \E q \in Pipes : ReadEnd(q)
    \/ \E q \in Streams : ReadStream(q)

Processes ==
    \/ \E p \in Procs : Mark(p) \/ Dies(p) \/ \E q \in Streams : Write(p, q)
    \/ \E h \in Helpers : Adopted(h) \/ HelperExits(h) \/ \E p \in Procs : Fork(p, h)
    \/ ProgramExits

Next == Driver \/ SupervisorFails \/ Processes \/ DeadlinePasses \/ SettlePasses

Spec == Init /\ [][Next]_vars

(* The driver runs and time passes; nothing is assumed of the program, of  *)
(* its helpers, nor of when a killed process is really gone.               *)
FairSpec == Spec /\ WF_vars(Driver) /\ WF_vars(DeadlinePasses) /\ WF_vars(NoFault /\ SettlePasses)

-----------------------------------------------------------------------------
(* Properties.                                                             *)

(* A receipt that says passed is about a program that ended by itself with *)
(* code zero at its last line, whose output was read to the end and within *)
(* the limit; one that blames its exit (oom included) never describes what *)
(* the driver's own signals did; and a timeout never hits a program that   *)
(* had ended in time.                                                      *)
Passed ==
    /\ code = "zero" /\ marks = 1
    /\ \A q \in Streams : count[q] <= Limit /\ unread[q] = 0 /\ ~Held(q)

VerdictIsEarned ==
    pc = "done" =>
        /\ status = "ok" => Passed
        /\ status \in {"ok", "exit", "oom", "marker"} => ~signalled
        /\ status = "timeout" => ~inTime

(* When the receipt is written the program has ended or was sent SIGKILL,  *)
(* and if the driver ended it, so was every helper it knew of.             *)
SignalledIsGone ==
    pc = "done" =>
        /\ Runs("program") => "program" \in killed
        /\ signalled => \A h \in owned : Runs(h) => h \in killed

(* The state is well-formed, and nothing the driver signalled is left.     *)
SandboxInv == TypeOK /\ SignalledIsGone

(* Where the driver can be with which status, and what that says of the    *)
(* program.                                                                *)
Flow ==
    /\ status = "ok" => ~signalled
    /\ ~signalled => status = "ok" \/ pc = "done"
    /\ signalled => pc \in {"terminate", "read", "after", "final", "verdict", "done"}
    /\ signalled /\ pc \in {"read", "after"} => status = "output_limit"
    /\ pc = "terminate" => signalled
    /\ pc = "terminate" /\ back = "read" => status = "output_limit"
    /\ status \in {"exit", "oom", "marker"} => pc = "done" /\ ~signalled
    /\ pc \in {"verdict", "done"} /\ ~signalled => Polled
    /\ pc \in {"final", "verdict"} /\ status = "ok" => Polled /\ registered \cap Streams = {}
    /\ pc = "done" /\ status = "ok" => code = "zero" /\ marks = 1 /\ registered \cap Streams = {}

Lifetime ==
    /\ proc["program"] \in {"unborn", "run", "gone"}
    /\ proc["program"] = "unborn" => pc \in {"request", "done"} /\ ~signalled
    /\ pc = "request" => \A p \in Procs : proc[p] = "unborn"
    /\ code = "none" <=> proc["program"] # "gone"
    /\ settle \/ inTime => proc["program"] = "gone"
    /\ status = "timeout" => signalled /\ ~inTime

(* A pipe that left the selector is empty and nobody can write to it.      *)
PipesEnd ==
    /\ pc = "request" => registered = {} /\ \A q \in Pipes : unread[q] = 0
    /\ \A p \in Procs : ~Runs(p) => holds[p] = {}
    /\ \A q \in Pipes \ registered : pc # "request" => unread[q] = 0 /\ ~Held(q)
    /\ \A q \in events : Ready(q)
    /\ \A q \in Streams : count[q] > Limit => status # "ok"

Signals ==
    /\ \A h \in owned : proc[h] # "unborn"
    /\ signalled /\ pc # "terminate" =>
          \A p \in owned \cup {"program"} : Runs(p) => p \in killed

(* Why a program is not passed: while the driver is neither too slow nor   *)
(* failed, every other status has a cause in what the program did.         *)
Helped == \E h \in Helpers : proc[h] # "unborn"

Excuses ==
    /\ settled => settleOver
    /\ status = "output_limit" => \E q \in Streams : count[q] > Limit
    /\ status = "exit" => code \notin {"zero", "kill"}
    /\ status = "oom" => code = "kill"
    /\ faults = 0 =>
          /\ settleOver \/ status = "retained" => Helped
          /\ status = "grader_error" => proc["program"] = "unborn"
          /\ pc \in {"final", "verdict"} /\ status = "ok" => Helped \/ registered = {}
          /\ status = "marker" => Helped \/ (marks # 1 /\ unread["completion"] = 0)

(* A program that does everything right is passed: it started no helper,   *)
(* reached its last line, ended with code zero in time and stayed within   *)
(* the limit, and the driver was neither too slow nor failed.              *)
DidEverythingRight ==
    /\ code = "zero" /\ inTime
    /\ \A h \in Helpers : proc[h] = "unborn"
    /\ marks + unread["completion"] = 1
    /\ \A q \in Streams : count[q] + unread[q] <= Limit

GoodProgramPasses ==
    pc = "done" /\ DidEverythingRight /\ faults = 0 => status = "ok"

(* The driver always writes its receipt, whatever the program does.        *)
DriverEnds == pc = "top" ~> pc = "done"

=============================================================================
