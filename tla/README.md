# A verification development for dsv41-flash-tp4-sglang-sm121

The repository runs DeepSeek-V4.1-Flash on four nodes (tensor parallel 4,
SGLang) and measures it. Around the model server it keeps a small distributed
system: controllers that may send one heavy request at a time, a memory guard on
every node that may stop the model, and the scripts that launch, evaluate and
stop a run. This directory models that system in TLA+, checks it with TLC and
proves its main properties with TLAPS.

## 1. Inventory

| part (source) | state it keeps | operations | talks to |
|---|---|---|---|
| **admission leases** (`scripts/q200_support/admission_control.py`) | lease lock file, four request-state files, the coordinator's lease | `acquire` (lock, preflight, activation, acknowledgement, rollback, retry), `release`, `request` | guards through two files per rank, over ssh for ranks 1-3 |
| **memory guard** (`scripts/q200_support/guard_unified_memory.py`) | published admission row, sample counters, swap window, event and NVRM baselines, arming latches | one loop iteration per second: read request, sample, decide, publish, abort; stop own and peer container | request-state, `docker`, the peer node |
| **launch and stop** (`scripts/final_runtime.py`, `final_guard.py`) | `launch.json`, containers, guard sessions, `READY`/`STOPPED` markers | preflight, start 1,2,3,0, start guards, wait ready; idle check, stop guards, stop containers | docker on four nodes, guards, server |
| **evaluation stages** (`scripts/final_eval.py`, `final_primary_after_ready.py`, `final_systems.py`) | one receipt per stage | verify launch and drain, reuse / refuse / run a stage, save the receipt | admission leases, server load API |
| **vision collector** (`scripts/final_vision.py`) | `identity.json`, one response file per row, `rows.jsonl`, `summary.json` | resume, ask under a lease, keep the response, grade, append, sum up | admission leases, server |
| **row clients** (`scripts/lanes.py`, `niah.py`, `bfcl_hard20_wrapper.py`, `boot_smoke.py`) | result files | one request per lease | admission leases, server |
| **concurrency ladder** (`scripts/concurrency_ladder.py`, `verify_ladder.py`) | samples, shared result list | c client threads and a sampler; streak check | server |
| **NIAH prompts and proofs** (`scripts/niah.py`, `q200_support/niah_common.py`) | prompt text, receipts | compose a prompt of an exact size, validate completion, load a replay case | tokenizer |
| **sandbox driver** (`docker/q200/q200_sandbox_driver.py`) | a candidate process, its pipes and process group | run one candidate, drain, time out, terminate, report | kernel |
| **serving hooks** (`adapter/sitecustomize.py`, `adapter/sglang_patch/*.py`) | switches, finders in `sys.meta_path`, what is patched in which module | install before, during and after imports; size a prefill chunk, exact sliced top-k, open the Engram tables | SGLang scheduler and model |
| **references** (`references/encoding.py`, `engram.py`) | messages, the cache of compressed tokens | messages to prompt, completion to message, n-grams of a chunk | server and model |
| **build and publication** (`scripts/build_final.sh`, `distribute_final.py`, `node_prepare.sh`, `verify_checkpoint.py`, `verify_publication.py`, `render_results.py`, `prebuild_runtime_gate.py`, `cluster_config.py`) | files, images | one-shot scripts | docker, file system |
| `references/kernel.py`, `evidence/`, `profiles/` | GPU kernels, results, configuration | | |

Where it is hard: a controller talks to four guards only through files that each
side reads and replaces at its own pace, over a transport that times out in the
middle; either side can die at any point; a guard acts on a request it read at
the top of an iteration that may take seconds; a guard that leaves its loop
takes two of the four containers with it; launch and stop work through lists of
nodes with no undo; stages are resumed from receipts written before everything
they claim has been checked; hooks are installed into modules that other hooks
may import first; a prompt is rendered again for every turn, from messages whose
place, order and thinking depend on later ones, and read back from text that may
end anywhere.

What makes each part correct: *leases* - one owner, guarded rows, one row in
service, nothing left active, every call ends, nothing is freed on a failure
that cannot be confirmed. *Guard* - admission never contradicts the floor it
publishes, a hard signal is never missed or deferred, a soft one never stops a
request. *Guards together* - one abort brings the whole epoch down. *Launch and
stop* - one model per node, no container is left without its guard, no guard is
left when its container is taken down.
*Stages* - a stage that is reused really passed. *Collector* - every row once,
no answer lost or asked for twice once it was kept. *Hooks* - no process serves
without those it was asked for. *Sizer and top-k* - budget respected, page
aligned, sliced result equals the unsliced one. *References* - a prompt extends
the one before it, n-grams are those of the whole text, and only what the model
meant is accepted.

## 2. Modules

| module | extends / instantiates | models |
|---|---|---|
| `ExclusiveAdmission` | | the promise: one lease at a time, never issued twice, never ended under its row |
| `AdmissionLease` | `INSTANCE ExclusiveAdmission` | controllers, lock, request-state files, the guards' side, the server |
| `GuardLoop` | | one guard: samples, counters, arming, decision, published row |
| `EpochGuards` | | the promise: no container of an epoch is left without its guard unnoticed |
| `GuardRing` | `INSTANCE EpochGuards` | the guards of an epoch: who stops which container, and what they report |
| `LaunchStop` | `INSTANCE EpochGuards` | launches and stops of several runs on the same nodes, with their guards |
| `OneShotStages` | | the promise: a stage is worked on and judged once, in order, one stage at a time waiting for the server; a phase is done when its stages passed |
| `StageReceipts` | `INSTANCE OneShotStages` | phases of `final_eval.py`: directories, receipts, leases, children |
| `SandboxDriver` | | one run of the sandbox driver: program, helpers, pipes, deadlines, verdict |
| `VisionCollector` | | a collection and its resumes: files, lease, crashes |
| `ChunkSizer` | | `predict`, and the chunks it makes of a prompt |
| `ServingHooks` | `ChunkSizer` | a server process from the interpreter's start to the model it serves |
| `SlicedTopK` | `ChunkSizer` | the indexer of a chunk, slice by slice |
| `PrefillServer` | `ServingHooks`, `SlicedTopK` | a process that boots with its hooks and then serves prompts through them |
| `ChatEncoding` | | messages to prompt and completion to message, as operators |
| `NgramWindows` | | the tokens before a position, over a cache filled call by call; where the buckets of a table start |
| `NgramHash` | `NgramWindows` | sizes of the buckets, and hashing of those windows |
| `HashedText` | `NgramWindows` | the contract of `forward`: texts hashed one after the other, each in calls that follow on each other |
| `ServingSession` | `ChunkSizer`, `ChatEncoding`, `NgramHash`, `INSTANCE HashedText` | a conversation: encode, prefill in chunks, hash, answer, parse |
| `*Proofs` | the module they are named after, `TLAPS` | theorems and proofs |
| `MC*` | the module they are named after | symmetry, the multipliers |

The guard appears in three modules at three levels, because its own loop, its
conversation with the controllers and its effect on other ranks' containers are
different questions: in `AdmissionLease` it reads the request at the top of an
iteration, publishes any verdict at its end and may leave; `GuardLoop` says which
verdict; `GuardRing` says what leaving does, stop by stop; `LaunchStop` takes
those stops as one step. That both mean the same is `EpochGuards`, which each of
them implements. In the same way the lease is a protocol in
`AdmissionLease` and one variable, free, held or left behind, in
`StageReceipts`.

### AdmissionLease

A step is one file access: `os.open(O_EXCL)` or `unlink` of the lease file, one
rank's request-state written, one rank's row read, and in a guard the read of
the request-state and the write of the row. `pc[c]` is the position of
controller `c` in `acquire` and `release`, `at[c]` the rank its loop is at:

| `pc` | code (`admission_control.py`) |
|---|---|
| `preflight`, `wait` | `_acquire_once` 509-519: read all rows, wait for an admission |
| `activate`, `undo` | `_write_request(active=True)` 411-430 and its partial undo |
| `ackOn` | `_wait_ack` 432-459, every sweep a pass over the ranks |
| `granted`, `running` | the body of `request()` 548-560 |
| `clear`, `ackOff` | `release` 539-546, and the rollback of `_acquire_once` 526-537 (`why[c]` tells them apart) |
| `again` | `acquire` 487-498 between two attempts |

A write that raises may have done nothing, have replaced the file all the same,
have left an empty file (a remote writer that met end of file), or land later
(`WriteOutcomes`). A row carries the lease it acknowledges, a verdict (`ADMIT`,
`DENY` for a soft refusal, `HARD`) and whether it is younger than
`max_state_age_seconds`. Epoch, rank, label and floor never change within an
epoch and are left out, as is the parsing of the configuration.

### GuardLoop

`ReadRequest` and `SampleAndPublish` are the two halves of an iteration: the
flag is read first, everything else later, so requests begin and end in
between. A sample is any memory, swap and pressure value; the kernel's counters
move on their own. `Decision` is `evaluate_guard` and `evaluate_abort` with
`main`'s override between the two floors. `Activate` is the controller, which
admits on the last published row.

The reasons for a stop are those of `evaluate_abort`: low memory, pressure,
growth of swap, OOM events, allocation failures, and docker's `OOMKilled` mark.
The mark is a variable of its own: docker sets it some time after the kernel
killed, it stays until the container is started again, and unlike the counters
it is not compared with the handoff. A stopped container is not among them,
because its missing init process makes an earlier read raise. `StopHasACause`
holds every reason in the row against the history it must rest on: for low
memory that is `lows`, the sides of the floor of the last samples, kept beside
the counter because the counter is what could be wrong.

### EpochGuards

For one epoch: a container is started before its guard and never again, and
until somebody stops the epoch a guard that ends leaves its own and the next
rank's container stopped, names in its record the stop that failed, or was
killed. A container may stop at any moment, by itself or by one stop of a guard
that is not through; what counts is what still runs when the guard ends.

### GuardRing

A hard abort stops the local container, then the peer's; an exception in either
goes to the error path, which tries both again and notes each failure. A stop
that raised may have happened. A guard whose container has been stopped fails
its next read and goes on to its own peer. For `EpochGuards` a guard is on until it
has an outcome, and the stops its error record names count once it has ended in
the error path; a stop that was noted as failed and worked at the second
attempt is then nobody's concern.

### LaunchStop

Each run is a directory launched into once. The launcher's loop over ranks 1, 2,
3, 0 is position by position; a container has a name that Docker keeps until it
is renamed; the server is one port on rank 0, so whoever asks is answered by
whichever run's server is there. A stop needs nothing but `launch.json`, which
is saved before the preflight, so it may begin at any moment after `Begin`, beside the launcher of its own run; it takes its list of ranks
(`listed`) when it begins. Then it is the idle check (of its two answers the
second decides, and only that one is a step), one SIGTERM per rank, the wait for
four markers, and one worker per listed rank. A stop that meets a guard still
starting may find no PID file, or kill it before its handler is installed.
Guards publish, abort,
leave and are killed at any moment; an abort stops both containers or names the
ones it could not stop (`stopErrors`). To `EpochGuards` every run is an epoch of
its own, with what runs of it on the nodes, its guards, and a stop once it has
begun.

### StageReceipts

`pc[i]` follows `stage()` line by line from `verify_launch` to the drain. A
directory without receipt (`"dir"`), a started, failed or passed receipt are
told apart because a rerun does. Children that take their own leases (`lanes.py`
and its like) and children that know of none (`boot_smoke.py`,
`concurrency_ladder.py`) hold the server differently; a killed invocation leaves
its child alive, an exception inside `subprocess.run` kills it. A request is on
the server with a child that waits for it (`Asking`) or without (`left`): after
the client's timeout or the child's death the server goes on with it, and
`LeftEnds` is its end, which need not come. The drain and the load check of
`verify_launch` count both. `ladder.json` is
written in two moments, because another stage looks at its existence and a
third one parses it. The two vision stages have one shape and are one.

### OneShotStages

What the receipts are for, without invocations, directories and leases: the
work on a stage begins once, in the order of a phase, and ends well or badly; a
verdict is the one its work earned and never changes; the server belongs to one
stage at a time; a phase is marked when every stage of it passed, the ladder
excepted, which is skipped for its file and vouched for by `verify_ladder.py`
alone. For it, a child that exited is work that ended, a directory without a
receipt or with a started one is no verdict, and `serving` are the stages whose
children wait for a request, whoever waits for them. It says nothing of requests
nobody waits for: nothing in the code keeps those from executing beside the
stage of another invocation.

### SandboxDriver

`pc` goes through the loop of `_run_candidate` test by test: `now` is read at
its top (`late`, `settled`) and compared later, `poll` is asked at each place
the code asks it. A pipe is a number of chunks and the set of processes that
hold it open, so that end of file is nobody's decision; the completion marker is
a chunk of a third pipe. The program and its helpers write, fork, hand down
pipes, exit and ignore SIGTERM in any order; a helper that is orphaned becomes
the driver's child and, since the driver waits for the program alone, stays a
zombie that `_alive` still counts. `_terminate` ends with SIGKILL, which takes
effect later or, for a process stuck in the kernel, never.

### VisionCollector

`pc` follows `main()` file by file. A line of `rows.jsonl` is the sequence of
what was written to it, so that a record after half of another, or two records
without a newline between them, is a line that does not parse. A response file
is written beside and renamed, and is there or not. The process dies or a call
raises between any two accesses; the operator runs the collector again, removes
a lease nobody holds, and may replace the launch. Three variables only record
what happened (`asked`, `lost`, `torn`).

### ServingHooks, ChunkSizer, SlicedTopK, PrefillServer

`step` is the line of `sitecustomize.py` a process is at, then the server.
`loaded` and `patched` are kept apart, because a finder patches a module when it
is executed and not before; modules may be loaded before `sitecustomize` runs,
by the Engram hook in the middle, or by the server. `Build` is the constructor
of the scheduler and of the Engram tables with everything it refuses.

A prompt is its length; the scheduler's part (first chunk static, a chunked
request asks the sizer with its history) is external. `Predict` is the code's
integer arithmetic, and `ISqrt` is defined by what `math.isqrt` promises.

Of a chunk one query row is followed, by the number of keys it sees; it shares
slices and width with the longest row. `topk(sorted=False)` may keep any of
equal scores, so `Slice` chooses among all sets `IsTop` allows, in the slice and
in the merge. The row's `-inf` and `+inf` are values below and above all scores.
A publishing and a consuming layer follow each other with scores of their own.

### ChatEncoding, NgramHash, HashedText, ServingSession

A text is a sequence of atoms: the special tokens `encoding.py` searches for,
the delimiters of names and values (`name="`, `" string="`, `">`), and the
pieces it copies whole. Content is always a list of blocks, as it is
after preprocessing. `Encode` goes through the same stages in the same order
(merge, sort with the context, drop thinking, render), and `Parse` reads with
the same stops. JSON is a small table of what comes back as what. A tool call
has an id the server gives out.

`NgramHash` computes primes and rolling XOR, `NgramWindows` windows and offsets,
with the code's formulas. `HashedText` knows no chunks, messages or turns: a text
is given, goes through `forward` from its first token on in calls of any length,
and grows at its end; the cache is whatever it was left as. For it, the text of a
session is the prompt and what has been answered, and the windows of the last
call are what `forward` hashed.
`ServingSession` lets a client add a question, a task, results in any order,
reminders and system messages, encodes, prefills in the sizer's chunks, and
hashes every chunk and the answer into one cache. The model's answer comes as
the prompt asks for it, or, for the first answers, cut at any atom or with one
special token inserted anywhere. Names of tools, keys and values are texts of
atoms like all others, so that a token or the cut may fall inside them. Where
the parser matches them with `(.*?)` it takes such a token for a part of them,
and the message carries it into the next prompt; the test at lines 970-972 looks
at content and reasoning only. The answer that parses is the next message.

## 3. Runs

| run | distinct states | what it shows |
|---|---|---|
| `admission_safety` | 841 k | `LeaseInv` (types, one owner, the handshake by position, a row in service keeps its lock), only guarded rows, quiet release, refinement of `ExclusiveAdmission`; two controllers, two failures of any kind |
| `admission_liveness` | 322 k | `acquire` ends; without failures every lock is removed; late writes and client timeouts included |
| `guard_policy` | 349 k | rows that can be admitted on; every reason a stop gives is true, journal rotation and docker's late mark included; a hard signal (low memory, OOM events, docker's mark, allocation failures) ends the guard |
| `guard_ring` | 31 k | exit codes and error records are true, nothing runs unguarded unnoticed; one abort takes the epoch down; refinement of `EpochGuards` |
| `launch_safety` | 5264 k | one model per node, guards first up and first down, READY means one's own server unless a stop has renamed its rank 0; stops overlap their own launchers |
| `launch_epochs` | 821 k | every run is an epoch of `EpochGuards`; a stop that gave up can be repeated |
| `stage_receipts` | 616 k | a stage runs once, one stage at a time waits for the server, an invocation past a stage finds none of its requests there, receipts are true, no lease is nested; refinement of `OneShotStages`; every phase ends |
| `stage_failed_reused` | violation | see findings |
| `sandbox_driver` | 2128 k | the verdict is true of the program, nothing known is left behind, a good program passes, the driver ends |
| `vision_collector` | 7 k | no answer asked for twice once kept, resumes read what was written, summaries stand on kept answers of one launch, collections end |
| `prefill` | 4419 k | a process that serves has its hooks; chunks fit the budget; the sliced ranking is exact and the published blocks are the row's best |
| `serving_session` | 118 k | prompts extend each other, a context makes no difference, results and thinking are in place, n-grams are whole, what is accepted was meant, but for a stray token inside a name, key or value; refinement of `HashedText` |

Each component has one invariant that begins with its types (`LeaseInv`,
`GuardInv`, `RingInv`, `LaunchInv`, `StageInv`, `SandboxInv`, `CollectionInv`,
`ServerInv`, `SessionInv`) and continues with the facts its proofs build on.

**Bounds, and why they are enough.** *Ranks.* Two in `AdmissionLease` and
`launch_safety`: rank 0 is local and the last one started, rank 1 remote and the
first, so both kinds and every order of a pair occur; a loop over two ranks has
a first, a last and a failure between them; a rank's ring neighbour is not
itself. `launch_epochs` has three, with which the next rank is not the one
before. `GuardRing` is small enough for the real four, and needs them: with two
ranks one abort would stop everything at once. *Actors.* Two controllers, two
runs, two invocations: every hazard found is between two of them; the theorems
are for any number. *Leases.* Two, so that a controller can retry with a new one
while the guards still know the old; identities are never reused (256 random
bits). *Failures.* `MaxFaults` of two allows a failure and a failure of its
handling. In `admission_liveness`, the launch runs and `sandbox_driver` one: a
second adds longer ways to the same exceptions in the first, and more states
than a run can visit in the others, whose theorems are for any number. *Guard values.* `MaxMem` has one value below, between and above
each floor, windows of one or two samples fill, slide and forget; one OOM event
and one allocation failure are the difference between none and some. *Aborts.*
`MaxTriggers` of two lets two neighbours start at the same time. Two phases of
evaluations share two stages, one of them (`text180`) with ungraded rows;
`primary` has the shape of `quality` and is left to the violation run and to the
proofs. *Pipes.* A limit of one chunk and two chunks in all: within the limit,
at it, beyond it on one stream, one on each. One helper holds what the program
does not; its verdicts are proved for any number. *Collector.* Two rows: one
before and one behind the row that fails; two launches; three faults, so that a
resume of a resume fails. *Prefill.* Pages of two tokens; budgets on both sides
of the floor; minima and maxima equal, apart, invalid (zero, one, not aligned)
and above the static chunk; up to five keys, blocks of two, slices of up to
three (so that slices end inside blocks), two of them kept, scores of three
values (so that ties, and ties across slices, happen). `TopKIsExact` ranks the
keys that a row is entitled to. Where they are `index_topk` or more, it leaves no
room for others; with fewer, a layer that follows candidate blocks could fill up
with keys of blocks that were not published, and the property would not see it.
That takes fewer keys in the published blocks than `index_topk`, which neither
these sizes nor the model's have. *Session.* Four messages,
at most two per turn, one answer of the conversation sloppy (the first one to
which tools were offered; after it only a question follows); no more than one
result per call; a task stands alone in its turn. Chunks of eight tokens split
prompts at every kind of atom; trigrams, two heads and one layer have two sizes
and two buckets of each; multipliers 3, 5, 9.

**Deadlock.** `CHECK_DEADLOCK FALSE` everywhere, because everything ends: the
leases of a model are used up, guards exit, runs are stopped, invocations are
over, processes are refused, conversations reach their bound. That nothing ends
too early is what the liveness properties say.

**Fairness.** A live process goes on: its calls have timeouts (the leases'
ssh 15 s, the guards' stops 15 s, the launcher's commands 20 to 120 s, a row of
a child 1800 s).
Failures, idle controllers, late writes and the end of requests left on the
server are never forced. Two
cases need strong fairness. The deadlines of `acquire` and `_wait_ack` are
measured with `time.monotonic()` while the loop leaves and re-enters the state
in which they are tested. A child of a stage exits although it goes through row
after row, because its list of rows is finite. A stop refused while a row runs
is tried again by the operator (`StopAgain` in `FairSpec` of `LaunchStop`; a
first stop is nobody's duty). Of
the sandbox only the driver's own steps and the two deadlines are fair: it must
end whatever the program and its helpers do, and even if SIGKILL has no effect.
A vision collector goes on and is run again while it has no summary
(`WF(Collector)`); a lease left behind can be removed only between two
invocations and is in the end (`SF(ClearLease)`), or no run could finish.
`CollectionEnds` names the three states no further run gets over.

**Property by property.** Each states the code behaviour in the comment above
it. Every property of a passing run is also broken by a mutated definition kept
next to the original (comments "Mutant" and "Bug").

## 4. Findings

`FailedStageIsRefused` (`final_eval.py:58`). `phase_pass` is saved before the
check for an edited harness and before the drain. A stage that failed either is
reused by the next invocation, although line 39 says that a failed stage
requires a fresh attempt.

Seen while modelling, and not stated otherwise by the repository:

- *Leases.* The rollback after a soft refusal takes a row published before the
  activation for the acknowledgement of its clearing; the retry can then meet
  its own lease in a guard's row and fail with an error that is not retried
  (`admission_control.py` 529). A request-state write that raised after it took
  effect is not among the ranks undone, and the lock is removed all the same
  (428); `UnlockedIsInactiveUnlessFaulty` has this case as its exception.
- *Guard.* The tolerance for swap during the load ends with the first request,
  but growth is measured over ten samples that reach back before it
  (`guard_unified_memory.py` 522). A kernel journal that drops old messages can
  hide new ones under the baseline. An OOM kill during the load, which the
  counters' baseline forgives, stops the model at the first sample all the same:
  docker's `OOMKilled` is not compared with the handoff (493).
- *Launch and stop.* A launcher that dies or times out between `docker run` and
  the save of `launch.json` leaves a container no record names. A stop whose
  worker fails on one rank leaves that name taken, so that the next launch
  starts one container and then fails; it cannot be repeated once the server is
  gone, for its idle check has nobody to ask, nor after a container was renamed
  (`final_runtime.py` 172). A row may be admitted between the idle check and the
  guards' leaving. A stop that begins beside its own launcher takes the ranks
  `launch.json` lists by then: it can tear down those, leave the rest running and
  say STOPPED (158). If it has renamed rank 0 while the launcher waits, another
  run's server on the port can make the launch READY; `ReadyIsOwnServer` has
  this case as its exception.
- *Stages.* An incomplete `ladder.json` makes every rerun skip the stage and
  fail in `verify_ladder.py`. A request left behind by a client's timeout or a
  killed child keeps its own invocation from the next stage (62), but not another
  invocation, whose stage then shares the server with it: the load is looked at
  before the stage's lease is taken, not after.
- *Sandbox.* A helper of a sandboxed program that holds no pipe is not looked
  for once all pipes have ended (`q200_sandbox_driver.py` 371).
- *Collector.* A line cut by a crash, and an answer kept although it does not
  validate, each fail every further resume (`final_vision.py` 38, 57).
- *Prompts.* `encoding.py` lists the images of tool results in the order the
  results arrived, while their placeholders stand in the order of the calls:
  the docstring of
  `process_image_messages` says "in prompt order" (369); a task on a user message that is merged into the turn before it is
  dropped (216); a completion that ends inside a tool call, after its name or
  after a parameter, is accepted with the arguments read so far (894, 913). A
  special token inside a tool's name, a parameter's name or its value is accepted
  as part of it (907, 916) and rendered into the next prompt as it came. A call
  without arguments is parsed without the blank line the renderer writes for it,
  so that the next prompt is, there, not the text of the answer:
  `PromptExtends` is about the atoms and not about that white space.

## 5. Proofs

Every theorem is for any number of controllers, ranks, leases, runs,
invocations, rows and launches, any page size, budget, slice width and `k`, any
thresholds and any bound on failures. Each module's combined invariant is proved
from the parts below; types (`TypeCorrect`, `StateIsTyped`) are the first of them.

| theorem | property | inductive argument |
|---|---|---|
| `LeasesAreSound` | `LeaseInv` | the next three rows and `HandshakeHolds` together |
| `OwnersExclude` | `OwnerHoldsLock` | inductive with types: each step takes, keeps or removes the lock together with its owner's position (`LockEffect`) |
| `ServedRowKeepsLock`, `ServesOneRow` | `ServedRowIsLocked`, and with it `OneRowInService` | a row enters `work` only under the lock, and no lock is removed before `Finish` has seen the row leave |
| `KeepsPromise` | `PromiseSpec` | every step is a `Claim`, `Serve`, `Complete`, `Vacate` or stutter of `ExclusiveAdmission`, from the two above |
| `HandshakeHolds` | `HandshakeInv` | for every rank, the controller's position fixes what the file, the guard's iteration and its row may hold |
| `AdmittedRowsAreGuarded`, `ReleasesQuiesce` | `AdmittedRowIsGuarded`, `ReleaseQuiesces` | a position of `HandshakeInv` each |
| `UnlockedIsClean` | `UnlockedIsInactiveUnlessFaulty` | `CleanRanks`: which ranks the owner of the lock may have left active, by its position; none when there is no owner, without failures |
| `GuardsAreSound`, `AdmissibleRowsAreSafe` | `GuardInv`, `AdmissibleRowIsSafe` | facts about `Decision` for all samples, carried through the loop (`StopsHaveACause`, from `CountInv`: as many of the last samples as the counter says were below the floor) |
| `RingsAreSound` | `RingInv` | `RankInv`: between the two stops of a guard, the first container is down or named; `AbortsTellTheTruth` and `NothingRunsUnguarded` follow |
| `RingKeepsEpoch` | `EpochSpec` | with `RankInv` every step is a `Stops`, `Abort`, `Leave`, `Kill` or stutter of `EpochGuards`: the last step of an error path is the abort, for whatever its two stops did before |
| `LaunchesAreSound` | `LaunchInv` | `NameIsUnique`: at most one container per node has not been renamed (`NodesRunOneModel`); `StartedIsGuarded`: at each position of the launcher, which containers were started and which guards, as long as no stop has begun (`ContainersAreGuarded`) |
| `ReadyLaunchesServe` | `ReadyIsOwnServer` | `ZeroIsRun` and `NameIsUnique`: a launcher that waits has started rank 0, whoever answers holds the name there, and its own container gives the name up only when a stop renames it |
| `LaunchesKeepEpochs` | `EpochsAreGuarded` | `StartedIsGuarded` and `GuardsComeLater`: nothing is started behind its own guard, and no rank gets a guard twice, though a stop may begin at any time; every step of one run is a step of its epoch and a stutter of the others |
| `TeardownFindsNoGuard` | `TeardownAfterGuards` | `GuardsComeLater`: the launcher starts guards only on ranks that have had none, so that a rank whose guard has left gets no other, even while the launcher goes on |
| `StagesAreSound` | `StageInv` | the next row, and `Ownership`: between its mkdir and its last check a stage has one owner, whose position fixes receipt and child (`StagesRunOnce`, `ReceiptsAreTrue`) |
| `StagesAskAlone`, `NoLeaseIsNested` | `OneStageAsks`, `RowsMeetNoParent`, both part of `StageInv` | `Leases`: whose child can wait for the server under which lock, the locks of killed invocations included |
| `EarlierStagesStayQuiet` | `EarlierStagesAreQuiet`, part of `StageInv` | `verify_launch` lets an invocation on only when the server is idle (`EntersQuietly`); what lies behind it has passed (`Progress`), so its child has exited and asks no more; and a request is left behind only by a child that asked (`LeftComesFromAsking`) |
| `DonePhasesPassed` | `DonePhasePassed` | `Progress`: what lies behind an invocation passed, or is a ladder skipped for its file |
| `StagesKeepPromise` | `StagePromise` | every step is a `Begin`, `Enter`, `Leave`, `WriteLadder`, `End`, `Judge`, `Mark` of `OneShotStages` or a stutter: `Progress` puts a `Begin` in turn, `Leases` frees the server for an `Enter`, `Ownership` ties a receipt to the child it judges |
| `DriversAreSound`, `VerdictsAreEarned`, `SignalledAreGone` | `SandboxInv`, `VerdictIsEarned`, `SignalledIsGone` | `Flow` (place and status), `Lifetime` (exit and clock), `PipesEnd` (a pipe that left the selector is empty and closed for good), `Signals` (what was killed) |
| `GoodProgramsPass` | `GoodProgramPasses` | `Excuses`: each way to another verdict has left its mark, and a good program has none |
| `CollectionsAreSound` | `CollectionInv` | `CInv`: types, `IdentityInv` (every response and record is of the directory's launch), `RowInv` (what the collector holds while it is at a row), `FileInv` (an uncut file has one record a line, each of a row of its own, all known to who has read it) |
| `AnswersAreKept`, `SummariesAreEarned` | `AskedAgainOnlyIfLost`, `SummaryIsEarned` | conjuncts of `CInv`, each preserved with the help of the others |
| `ServersAreSound` | `ServerInv` | `HooksInv`: what is installed and patched at each line of the start |
| `ChunksStayInBudget` | `ChunksFitBudget` | `PredictFits`: the answer is whole pages between the two bounds, fits unless it is the lower one, and a page more would not; from `ISqrtIsRoot` and `FittingIsLargest` |
| `RankingIsExact` | `TopKIsExact` | `TopOfTops`: the best of the best of two sets is the best of both, whatever is chosen among equals; `BestOfEligible` when the last slice is in |
| `TextsAreWhole` | `TextInv` of `HashedText`, which `serving_session` refines | `TextInv` is inductive: the cache is the text as far as it has been through `forward`, and `CallReadsGrams` for one call |
| `BucketsAreApart` | the second half of `GramsAreWhole` | `StartsIs`: the recursive function of the offsets exists; `BucketsInOrder`: a later bucket starts where an earlier one has ended; both by a least counterexample |
| `WindowsAreWhole` | the first half of `GramsAreWhole` | `CallCarriesText`: after a call the cache starts with the text up to the call's end; `WindowIsGram`: blocking lookback by lookback ends where the run of live tokens does |
| `CandidatesAreTheRows` | `CandidatesAreBest` | `BlocksHoldMax` and `PaddedBlock`: slice by slice a block's maximum is that of its keys seen so far |

Few of the properties are inductive alone: `OneStageAsks`, for example,
says nothing of a lock left by a killed invocation whose child still sends
requests, and `Leases` does. The strengthened invariants were checked with TLC
on the instances of their runs before they were proved.

**Assumptions.** The constants' named assumptions (`NAssumption`,
`LeaseAssumption`, ...; `InvocationsAssumption` keeps invocations, stages and
the two marks of a lock apart). Two hypotheses matter. `~ClientTimeouts`, for
the row in service and the promise: `request()` releases its lease for any
exception, a client's timeout too, while the server goes on with the row, so
with timeouts shorter than a row a second row can be admitted. And
`"late" \notin WriteOutcomes`, for the handshake: a write that lands after its
ssh client was given up can undo what a later lease wrote. `LeasesAreSound` has
both, `OwnersExclude` neither.

**Only model-checked.** All liveness (`AcquireEnds`, `LockIsFreed`,
`HardSignalStops`, `EpochGoesDown`, `StopIsRepeatable`, `PhaseEnds`,
`DriverEnds`, `CollectionEnds`), because the prover has neither fairness nor
ENABLED. `ServingSession`: the parsers of `ChatEncoding` are recursive operators and
the hash of `NgramHash` is a bitwise one, which the prover cannot take; what a
recursive definition computes for all inputs would need an induction it cannot
do either. What can be said of its n-grams without both is proved: `TextsAreWhole` is
about every behaviour of `HashedText`, and that a session is one, with the same
`Window` and `Cached`, is what the run shows (`TextsAreHashed`); `WindowsAreWhole`
says the same of one text and any split of it; `BucketsAreApart` is about any
sizes of buckets. What is left to TLC of `SessionInv` are its types, and that `Primes`
finds a size for every bucket: a prime in each interval it searches. Of the other properties of the session (`PromptExtends`,
`ContextSuffix`, `ResultsInCallOrder`, `ThinkingIsClosed`, `AcceptedIsMeant`)
nothing is proved.

## 6. Not modelled

- *Build, distribution, publication; profiles and evidence*: one-shot copying,
  hashing and comparing, with no state between calls.
- `references/kernel.py`: numerical GPU kernels, whose property is an error
  bound on floating point numbers.
- `references/encoding.py`: `wo_eos`, `response_format` and `load_cases`;
  `references/engram.py`: the compressed token map, the generator of the
  multipliers and the tensor modules. `engram_file_store.py`: `gather`, a plain
  indexed read.
- *NIAH and the concurrency ladder*: the composition of the prompt's text is a
  search with a tokenizer that is not part of the repository; the ladder's
  threads share one list they only append to and are joined before it is read.
  Manual grading reads a file once.
- *Telemetry parsing, configuration and label checks* are inputs or taken as
  passed. The skew between the nodes' clocks in the freshness test is not
  modelled; age is an event.
- *The sandbox driver's* validation of its request and the fields of its receipt
  are left out; its SIGTERM is one of the program's ways to exit.
- The record a guard writes when it fails, and `failure.json` of a collector,
  are taken as written, although the writes can raise on a full disk.

## 7. Plan

Done, in this order: the lease protocol and its promise; the guard's policy; the
ring of guards; launch and stop; evaluation stages; the sandbox driver; the
vision collector; the serving hooks with the prefill sizer and the sliced
top-k; the conversation with its prompts, n-grams and answers; the proofs of
all but the last, and of its n-grams; the promises of a stage and of a hashed
text.

What is left: the streak check of `verify_ladder.py`, and `build_case` and `validate_capacity` of `niah.py`, as
operators checked against reference definitions. The lock of `StageReceipts` is
not shown to be `ExclusiveAdmission`: there a lease has no identity, and a row's
end and the release of its lease are one step, because nothing in a stage tells
them apart.
