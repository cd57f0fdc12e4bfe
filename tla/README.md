# job_manager: a verification project

TLA+ modules that model the core of `job_manager` (the `jm` command line and the
library under it), TLC runs that check them on small instances, and theorems that
hold for every instance, checked by TLAPS. Paths are relative to the repository
(`src/runner/flow.rs` is the flow runner of the Rust crate).

## The system

`jm` keeps one directory per flow under a root:

| file | written by | read by |
|---|---|---|
| `flow.toml`, `plan.toml` | the user, `jm new` | `render`, `submit`, `ls`, `doctor`; `plan.toml` also by `tick` |
| `common.toml` (per root) | the user | `render`, `submit`, `ls`, `doctor` |
| `.jm/flow.effective.toml` (the snapshot) | `render`, `submit` | `tick`, `show`, `doctor` |
| `.jm/<job>/batch.bash` | `render`, `submit` | SLURM's `sbatch` |
| `.jm/<job>/status.toml` | `submit`, `tick` | `submit`, `tick`, `show`, `ls`, `doctor` |

There is no daemon, no lock and no database: each command is a process that reads
and writes these files, and asks SLURM (`sbatch`, `sacct`/`squeue`). Cron starts
`jm tick` every few minutes while users submit, render and edit.

| component | state it keeps | operations | what makes it correct |
|---|---|---|---|
| flow runner (`runner/flow.rs`) | the files above; in memory the map of submitted ids, tick's cache and the reply of the query | `submit`, `render_only`, `tick` | right dependencies, true statuses, terminal statuses kept, every job settles |
| lifecycle (`job/lifecycle.rs`, `runner/transition.rs`) | none | `decide_transition` | a pure decision: terminal stays, skip before query |
| topology (`flow/topology.rs`) | indegrees, a queue, the order | `topological_order` | a topological order, exactly when there is one |
| flow aggregate (`flow/run.rs`) | the loaded flow, plan and common | `read`, `load_effective`, `params_of`, `effective_config` | every command sees one flow |
| SLURM adapters (`slurm/*.rs`) | none | `sbatch`, query, `dependency::build`, the log-directory preflight | one dependency per parent edge |
| persistence (`persistence/*.rs`) | files | atomic writes, bounded reads, injection and merge of defaults | a file is a register |
| listing (`listing/*.rs`, `search.rs`, `view.rs`, `walk.rs`, `concurrency.rs`) | none | `ls jobs`, `ls flows`, `ls tree`, `walk_flows` | rows that were true at some moment; bounded readers |
| doctor (`doctor/*.rs`) | none | `run_doctor` | reports what would make `render`/`submit` fail |
| `jm new` (`bin/jm.rs`) | a new flow directory | `cmd_new` | both files or none |
| job ids (`jobid.rs`) | none | build, parse, validate | an id means what it was built from |
| script rendering (`render/mod.rs`) | none | names, values and quotes of the exports | bash finds what was written |
| Python bindings (`py_export/*.rs`) | what a script has read | the library's operations on Python values, exceptions | they agree with the commands on the same files |
| recipes (`recipes/xyz.rs`), stub generator | none | text conversion | not modelled |

What is hard here is the concurrency of unlocked processes on shared files, a
crash between `sbatch` and the status file, answers of SLURM that are old or
incomplete, and writes that must survive crashes and power losses. Beside that,
what one part writes another reads by different code: the doctor and the commands,
the templates of `jm new` and every check, a printed row and a filter, an id and its
parts, a value and the shell. `PROJECT.json`
lists each hazard at its line with the property that covers it.

## Modules

| module | models | proofs |
|---|---|---|
| `JobLifecycle` | lifecycles, SLURM's states, `decide_transition` | used by both below |
| `FlowRunner` | `submit`, `render`, `render --effective-only`, `tick` by several processes on one flow, with SLURM and the user as environment | |
| `JobTracking` | what a user takes the statuses of a flow to be; `FlowRunner` implements it when commands do not overlap | |
| `FlowRunnerProps` | the properties and the fairness of the runner | |
| `FlowRunnerProofs` | | ten theorems: four of any processes, one when scripts are rendered one at a time, three when commands do not overlap, two of one submission |
| `MCFlowRunner` | the flows of TLC's instances | |
| `Topology` | Kahn's algorithm, one loop iteration per step | |
| `TopologyProofs` | | four theorems |
| `AtomicWrite` | the atomic writes of one file with crashes and power losses | |
| `FileRegister` | what the rest of the code takes a file to be; `AtomicWrite` implements it | |
| `AtomicWriteProofs` | | three theorems, the refinement among them |
| `FlowConfig` | what the commands make of `flow.toml`, `plan.toml` and `common.toml`: partition injection, merging of defaults, the log preflight, as operators | |
| `Doctor` | `jm doctor` beside submit, render, tick, show and Python's `read_flow` and `write_flow` on one flow whose files are edited and damaged | |
| `DoctorProofs` | | eight theorems |
| `Listing` | `jm ls` and the directory walk under it, with `jm new`, submissions and ticks | |
| `ListingProofs` | | six theorems |
| `ListOutput` | what `jm ls` prints of it, and its arguments read back | |
| `ListOutputProofs` | | two theorems |
| `JobId` | job ids: build, parse, validate, as operators on strings | |
| `Authoring` | the way of a job from its id and plan entry, built in Python or typed, to the exports of its script | |
| `AuthoringProofs` | | five theorems |
| `Lists` | | lemmas about lists and the functions that loop over them, for the proofs of `Topology`, `Listing`, `ListOutput` and `Authoring` |
| `MCDoctor`, `MCListing`, `MCAuthoring` | the contents, flows and names of TLC's instances | |

### FlowRunner

State: the files (`flowToml`, `snapshot`, `status`, `batch`), SLURM's records
(`slurm`), and for each process its place (`pc`), command, loaded flow, the jobs its
loop has left (`todo`), the map `submit` builds (`submitted`), and tick's `cache` and
`reply`. `issued` is a history variable: the ids the current command was given.

In a record of SLURM `earlier` and `prior` are history too: the ids its command, and all
commands, had got before.

The processes are cut where the code awaits: each file access or SLURM command is
one action (`WriteSnapshot`, `Preseed`, `RenderBatch`, `Sbatch`, `RecordStatus`;
`TickRead`, `TickQuery`, `TickKeep`, `TickWrite`). The gap between `Sbatch` and
`RecordStatus` is the window in which a crash loses a job; the gap between
`TickRead` and `TickWrite` is the one in which a cache grows old. A file write is one
action because `AtomicWrite` shows that a file written this way is a register. The
loop `for jid in &order` takes any job all of whose parents it has visited
(`IsNext`): `Topology` shows that the order promises this and no more, and that it
exists exactly for the flows `Orderable` describes.

An error return and a crash leave the same state behind, so one action, `Abort`,
stands for both at every step; `SbatchFails` and `RejectJob` are the errors in the
middle of the loop that need no crash. `SbatchFails` has both ways in which
`executor.submit` fails: nothing was queued, or the job was queued and its id did not come
back (executor.rs:50-52), which leaves a SLURM job that only `slurm` knows of. A crash
between the two is `Abort` right after `Sbatch`.

The environment is switched by the constant `Env`: re-submission, aborts, unreadable
statuses, refusals of sbatch, an sbatch that tells no id (`noid`), lossy replies, requeues, cancellations, edits. SLURM
runs a job when its dependencies are satisfied; a job whose dependency can never be
satisfied stays pending, as without `kill_invalid_depend`. Of the kinds of edges,
afterok, afterany and afternotok are modelled.

`JobTracking` is the abstract specification: each job follows one SLURM job at a
time until it ends, and is skipped only behind a dead parent. `ImplementsTracking`
maps the status files and the snapshot's edges to it. With overlapping commands it
does not hold (`two_ticks` shows one way).

### Topology

The flow is part of the initial state: every list of parents up to `MaxParents`,
with repetitions and with `Ghost`, a job the flow does not have. The BTreeMap's key
order is the order of the numbers.

### AtomicWrite and FileRegister

A temporary file and its data are named by the call that creates them; renaming
makes it the file. The disk is separate from the kernel's memory: data of a
temporary file and the names in the directory reach it independently and in any
order, fsync forces the data of one. `IsRegister` maps this to `FileRegister`:
the file's value is the data of the t renamed last, the durable value is what the
disk would show after a power loss, and a reader holds the data of the t it opened.

### FlowConfig and Doctor

A file is its content, `Absent`, or `Broken` (it cannot be read or parsed). A job's
config is reduced to three keys that the code treats differently: `partition`
(injected while flow.toml is parsed, and therefore in the snapshot), `log` (merged
when the sbatch command is made, and by the doctor; every other optional key is
merged the same way) and `dependency` (merged, then overwritten). Each check of the
doctor is an operator that returns its findings other than PASS; `RunDoctor` keeps
the case in which flow.toml is unreadable and the two scopes (`FlowDirs`). A command
is one step here, because the question is what the contents make it do: `Submit` says
which jobs it hands to SLURM, `Handled` that an early stop happens anywhere the order
allows, and `LoadErrors`, `JobError` and `InspectErrors` which error it ends with.
`FlowTemplate` and `PlanTemplate` are what `jm new` writes. `held` is what a Python
script has read: `PyWriteFlow` writes it back whatever became of the file meanwhile.
`report` and `last` are forgotten when a file is edited or damaged, so that a property
that relates them compares a report and a command on the same files.

### Listing and ListOutput

State: the flow directories (`dir`), their statuses, where each `jm new` is
(`maker`), and the listing's own variables, which are its locals: the names read_dir
has still to yield, the files not begun and being read, what was read, in the order
the reads ended. `walk_flows` and the second stream of `collect` run up to
`Parallelism` reads at once (`MayBegin`); each read is one action, and the jobs of a
flow are read one at a time, between which ticks write. A directory made during
read_dir may or may not be yielded. `remove_dir_all` is two steps, the file and the
directory. `steady` is a history variable: the flows whose flow.toml has been good
since read_dir. `PyWalkFlows` ends the walk the Python way, with flows and errors.
The flows' numbers stand for their `created_at`; a uuid is a sequence of digits.
`Matches` has every predicate of a filter. The roll-up (`AggregateFlowStatus`) returns at
the first condition that holds, in the order of the code; the loops that push what a
filter selects (`Filtered`, `MatchedFlows`, `JobRows`) run over the list as they do
there. `Sort` takes the permutation of what was read in which the flows fall.
`ListingAssumption` says that the lists of jobs are lists, that at least one read may
be under way, and that `None` is no number.

`ListOutput` has no state: `JobCells`, `JobRowJson`, `FlowCells` and `FormatTree` are
what is printed of the rows, `BuildFilter` and `ToInner` what the arguments of `jm ls`
and of Python's `SearchFilter` mean. `OutputAssumption` says
that uuids are printed in lower case, with at least eight characters and all with the
same number, as the uuid library does, and that `None` is no value. `ParseTag` reads the `--tag` arguments of both
`jm new` and `jm ls`; TOML quoting of the value in between is the serializer's.

It is assumed that no flow is submitted twice and no two ticks overlap during one
listing (with either, a final roll-up may be undone: see `two_ticks`), that the root
can be read, and that no read takes the process down (`JoinFailed`).

### JobId and Authoring

A string is a sequence of members of `Char`, because the question is which
characters one function lets through and the next one gives a meaning: `__` and `=`
in an id, quotes and dollars in a value. Of the characters that are treated alike one
or two are kept; a fixed word of the script (`JOB_ID`, `AXIS_`) is one character.
`Authoring` takes one job at a time from its id (`BuildId`, `TypeId`) over its plan entry (`NewPlan` and `WritePlan`,
or `TypePlan`) to its script (`Render`, or `RenderDirectly` in Python). `script` is the list of exports; how bash
reads a word (`BashWord`) is part of the property. A float, a boolean and a nested
table of a plan entry are left out: they go through the same quoting.

## Runs

| run | question | bounds |
|---|---|---|
| `runner_serial` | one process at a time, edits, failures, re-submissions | 2 jobs (symmetric), 2 flows (an edge and its reversal), 3 SLURM ids |
| `runner_once` | one submission and its ticks, SLURM at its worst; liveness | 3 jobs in a chain (with a job missing from plan.toml), in a triangle, and with an afternotok or an afterany edge, 3 ids |
| `runner_concurrent` | two processes that submit and tick at once | 2 jobs, 3 ids, 2 processes (symmetric) |
| `topology` | every flow of 4 jobs with up to two edges each | N = 4, MaxParents = 2 |
| `atomic_write` | two writers, a reader, crashes, power losses | 3 temporary files, 2 contents |
| `doctor` | what a report says of the next command; templates, Python | 2 jobs, 8 flow files, 4 plans, 4 common files, 1 log directory |
| `listing` | a listing among writers; what it prints | flows of 2, 1 and no jobs, the last made meanwhile, one submitted, one edited; 2 reads at once, 5 filters, limits 0 to 2 |
| `names` | ids, plans and scripts | step ids of up to 3 characters, up to 2 axes, indices 0, 10 and up to 11, typed ids of up to 8 characters, values of up to 2 characters that bash treats apart |
| `two_ticks`, `skip_edge_kind`, `render_race`, `axis_collision` | each shows that the code does not do what one sentence of its documentation says | small |

Why the bounds are enough. Two jobs and three ids allow a complete submission and
a partial second one, so stale ids, half-done re-submissions and edits that reverse
an edge all occur; every property relates a job to one parent. The two flows of
`runner_serial` are each other's image when the jobs change places, so that the
symmetry is sound. A chain of three is the smallest flow in which a skip cascades
through a job that was itself skipped, and the triangle the smallest with two paths.
Two processes suffice for the races, each of which is between one that read and one
that wrote. Four jobs hold a cycle beside an acyclic part. The files of `doctor` are
one of each way to be wrong (unreadable, without a partition, with one of the wrong
type, cyclic, dangling, bare, with a raw dependency, with a job that plan.toml has and
the flow lacks) and the templates, and their product is complete. Three flows with two
reads at once let a read overtake another and a third wait; two jobs let a tick come
between the reads of a flow's statuses; two uuids begin with the same eight digits.
Every separator of an id fits into three characters with one on each side of it, and
ids of eight hold an axis with an index that is empty, signed, padded or too large.
The number of SLURM ids bounds the number of submissions: `SbatchFails` is what happens
when they run out.

The properties are stated in `FlowRunnerProps` and at the end of the other modules,
each with the code it is about. What the passing runs and the proofs show:

- **Dependencies** (`DependenciesFaithful`): each job is handed to SLURM with exactly
  one dependency per parent edge, on the id the same submission got for the parent. The
  preseeded ids of earlier runs never get in, because the order overwrites them first.
- **Statuses** (`StatusTruthful`): Success and Failed are written only for ids that
  did so, even by stale ticks, because SLURM's terminal states do not change and a
  tick writes the id it queried beside the lifecycle.
- **The map** (`ReturnedMapFresh`): a submission that returns has a fresh id for each of
  its jobs and for no other.
- **The script** (`ScriptMatchesCommand`): as long as one command at a time renders
  scripts, SLURM runs the one that belongs to the options and dependencies it is given,
  whatever ticks, effective-only renders, edits and crashes happen in between. Nothing in
  `jm` enforces that condition, and `render_race` shows what happens without it. That it
  suffices is proved (`ScriptsHold`).
- **Lost jobs** (`EverySubmissionTracked`): without overlapping commands, a SLURM job that no
  status names is about to be recorded, was replaced by a later one of its job, or is
  the last its command queued, which crashed, could not write the status or was not
  told the id. So a submission that dies loses one job at most, however many follow.
- **Lifecycles** (`ImplementsTracking`): without overlapping commands the statuses
  are those of `JobTracking`: terminal ones stay until the job is submitted again, a
  tick never changes an id, no two jobs follow one SLURM job, and a skip has a dead
  parent at the moment it is written.
- **Ticks** (`TickSettles`): a tick leaves nothing its own reply would still change,
  on afterok flows.
- **One submission**, without crashes: a skipped job of an afterok flow never runs
  (`SkippedNeverRuns`), and every job settles but those SLURM keeps for ever behind an
  afternotok edge (`EverySubmissionSettles`).
- **Topology**: an order that is returned has each job once and parents first
  (`OrderSound`), one is returned exactly if there is one (`OkIffOrderable`), and the error
  names exactly the jobs that no order can hold (`RemainingBlocked`).
- **Atomic writes**: a file is a register (`IsRegister`), and a call that returns leaves
  no temporary file behind it could have removed (`TmpCleaned`).
- **Doctor** (`CleanMeansSubmits`): a report without findings means that submit hands
  every job to SLURM, with two exceptions the doctor does not look for, cycles (and
  repeated parents) and invalid job ids. What it FAILs in the user's files, but for a
  uuid that is not the directory's, stops submit before anything is submitted
  (`FailsStop`); its log warnings are exactly the
  preflight's (`LogDirsAgree`); without a FAIL, tick and show work
  (`CleanTreeTicks`), unless the snapshot has a job flow.toml has lost or, for a tick,
  cannot be ordered. Each error of a command has its finding, but for the ones listed in
  `NotLookedFor`, and its exception in Python (`DoctorExplains`). The files of `jm new`
  render with any common.toml and keep their partition (`NewFlowRenders`). A flow Python
  has read and writes back can be read under any common.toml and is what the file was,
  but for the partitions the file left open: they stay those of the moment it was read,
  while every other default goes on following common.toml (`ReadFlowSettled`).
- **Listing**: `jm new` leaves both files or nothing unless it crashes
  (`NewAllOrNothing`); a flow that is good throughout is listed once, whatever happens to the
  others (`EveryFlowListed`); the order of the rows and the effect of a limit do not
  depend on the order in which reads end (`NewestFirst`); a roll-up that says FAILED,
  DONE or PARTIAL is true although the statuses were read at different moments, because
  terminal statuses stay (`RollupFinal`). What a row shows, given back as arguments,
  finds that row and those that look like it (`RowFindsItself`), and the three views
  select and count alike (`ViewsAgree`).
- **Names**: an id Python builds means what it was built from exactly when no part
  holds `__` and a swept step id does not end in `_`; otherwise it does not parse, or
  parses as something else (`IdMeansWhatWasBuilt`). An id that parses is one name of a
  directory (`ParsedIdIsName`); what ExperimentPlan takes renders
  (`PlannedJobsRender`); bash finds every value as it was written, of names that
  collide the last (`ScriptExportsAuthored`).

Findings (`violation` runs): two overlapping ticks overwrite a terminal status; a
job behind an afterany edge is skipped when its parent fails, though SLURM runs it;
a render of the edited flow replaces the script
of a submission that is about to hand it to sbatch, which the comment on the atomic write
says is prevented; two axes whose names differ in case only (or
in `-` and `_`) share a variable, though the design says that they do not collide.

Smaller disagreements, noticed while modelling and modelled as the code has them:

- a dry run after a submission returns the ids of that submission, which the preseed put
  into the map, where the comment promises an empty one (flow.rs:146, 175-199);
- a flow is submitted though its uuid is not the name of its directory, which the doctor
  FAILs (checks.rs:97-122) and docs/toml-reference.md:47 forbids: `FlowRun::read` does
  not compare them (flow/run.rs:23-46), so `FailsStop` excepts it;
- `DependencyCycle` names jobs with a missing or a repeated parent, and what waits on them,
  where there is no cycle (`RemainingBlocked`); the comment at flow/topology.rs:41-42
  says that each is on a cycle or downstream of one;
- `atomic_write_str` cleans its temporary file up only after a failed rename, its
  comment says on failure (jm.rs:577-602);
- the snapshot holds the injected partition only, comments say every default
  (flow/run.rs:48-50, persistence/flow.rs:97-98), which no present reader notices;
- a raw `dependency` of a config is merged and then replaced by what the parents give
  (flow.rs:289), docs/toml-reference.md:80 lists it as "raw SLURM dep; prefer
  `parents[]`";
- listing/mod.rs:101-102 and format.rs:168-170 say that `jm doctor` reports cycles,
  which it does not look for (doctor/mod.rs:94); neither does it look at ids, nor,
  without an argument, at a directory without flow.toml;
- the round trip of an id the design of SP-2 promises does not hold for names with
  `__` or a trailing `_`; params collide as axes do;
- relative log directories are looked for under the root by the preflight, and by
  sbatch under the directory it runs in;
- view.rs:57-60 says a dot keeps `.status.toml` out of `files`, the file is named
  `status.toml`;
- `partition = ""` in a job is accepted; `--limit 0` shows one row.

### Fairness

`runner_once` alone assumes fairness (`FlowRunnerProps!Fairness`): a command that
started goes on (a process is scheduled), cron starts ticks again and again (strong
fairness of `TickStart`, README "Cron-driven reconciliation"), the query answers in
full infinitely often if it is asked infinitely often, and SLURM starts a job that
may start and ends a running one, requeues notwithstanding. Nothing is assumed about
submissions, edits, cancellations or failures.

## Proofs

The theorems hold for every value of the constants: any number of jobs, processes,
SLURM ids, flows, readers and files. They rest on the named assumptions of the modules:
the flows are well-formed and the sentinels are no values (`FlowRunner`, `FlowConfig`,
`Doctor`, `Listing`, `ListOutput`), the sizes are numbers (`Topology`), what is written is
not what stands for a torn or a missing file (`AtomicWrite`), the characters include those the code
names, no reserved word holds a `=` and the keys of a plan entry differ (`JobId`, `Authoring`). TLC evaluates each of them on every run.

*Flow runner, any processes* (`FlowRunnerProofs`). The inductive invariant is the
conjunction of types, what the current command and label imply of the locals
(`CommandFits`, `LoopFits`), what the map holds for jobs the loop has passed (`MapFits`,
`LoopFresh`: an id of this submission for each, so that every parent of the next job has
one), the truth of every status, whether in a file, a cache or a reply (`StatusTrue`,
`CacheTrue`, `ReplyTrue`), and `DependenciesFaithful`. The caches and replies must be in it
because a tick writes them to the files much later; the truth of a reply survives because
terminal states of SLURM never change (`StepGrows`). Theorems: `TypesHold`,
`DependenciesHold`, `StatusesHold`, `ReturnedMapHolds`.

*Scripts* (the next section of `FlowRunnerProofs`). `OneRendererSpec` is `Spec` with the
condition that at most one process at a time is a submit or a render; all others may
tick, or render the snapshot only, and all may crash. Then what a command has rendered is
in batch.bash until its sbatch (`ScriptFits`), because no other process writes there:
`ScriptsHold` (`ScriptMatchesCommand`).

*Flow runner, commands that do not overlap* (the section after it). The hypothesis is
`OneProcess`: there is one process, which may die anywhere and be another command next.
`two_ticks` shows that it is needed. Then
what a tick has cached is what the files hold and its flow is the snapshot (`TickHolds`), and
the id that is about to be recorded is in no file (`RecordNew`). For
`EverySubmissionTracked` the invariant adds that ids are given out in turn
(`HistoryFits`) and that the one about to be recorded is the newest there is
(`NewestRecorded`), so that a status only ever moves to a newer id. Each write of a
status or the snapshot is mapped to a step of `JobTracking` and everything else to a
stutter (`TrackingRefined`); `DecisionEffect` says what `decide_transition` can
answer, and `TickEffect` what a tick then writes. Theorems: `TerminalHolds` (`TerminalKept`,
which `two_ticks` violates with two processes), `TrackingHolds` (`EverySubmissionTracked`) and
`TrackingRefined` (`ImplementsTracking`).

*Flow runner, one submission* (the last section). The hypotheses are `OneProcess` and
`OneSubmission`: `Env` has no re-submission, no abort and no edit; refusals, lost ids, incomplete
replies, requeues and cancellations remain, as in `runner_once`. All flows that are held
anywhere are one (`OneFlow`), and what a dependency names is the id that the status of
the parent names (`VisitedNamed`, `DepsNamed`). On flows of afterok edges a SLURM job that has started had
parents that completed (`RunHad`), and one whose status is Skipped waits for a job that
has ended otherwise or itself waits for one (`SkipBlocked`), so that neither can start:
this carries a skip down any depth without an induction over the flow, because each step only looks one
edge up. `Visited` says of a tick that the jobs it has passed would be decided as they
were. Theorems: `SkippedHolds` (`SkippedNeverRuns`), `FixpointHolds` (`TickSettles`).

*Topology* (`TopologyProofs`). The invariant counts: the indegree of a job and the
parents of it that were visited make up its edges (`CountsLeft`), the queue holds jobs
whose count is zero (`LineReady`), no job is queued twice (`NoRepeat`) and parents come first in the
order (`ParentsFirst`). For `OkIffOrderable` a job whose count is zero must also be in the queue
or the order (`ZeroListed`): when the queue is empty the jobs not visited would otherwise be
a set in which each waits for another; in the other direction the first job of a set in the
order has no parent in it. The same two arguments, for the jobs that are left and for any
set that blocks itself, give what the error names (`RemainingBlocks`, `BlockedUnplaced`).
Theorems: `OrderIsSound`, `TypesHold`, `OrdersWhatCanBe`, `RemainingHolds`
(`RemainingBlocked`).

*Atomic writes* (`AtomicWriteProofs`). No call writes to a temporary file that is at the
path, on the disk under that name, or open in a reader (`TmpOwned`); what is there holds one
whole body, in memory and on the disk (`Whole`), because a call renames only what it
has written out and synced (`Progress`). `FileIsRegister` maps each step: `Create` is the
call, `Rename` its commit, `FlushNames` makes the value durable, `PowerLoss` returns to
that value, `Open` takes what a reader holds; writing, syncing and the order in which data
reach the disk are stutters, because they touch no file that is held (`HeldStays`). Theorems: `TypesHold`, `CleanUpHolds` (`TmpCleaned`), `FileIsRegister`.

*Doctor* (`DoctorProofs`). The invariant `DInv` is that the files are among those that
can be (`Known`: what Python has written is a flow that was read before), that the last
command did what the files make it do (`LastFits`), and that the report is that of these
files but for its checks of the snapshot and of statuses, which a command may have repaired
since (`ReportFits`). The theorems are then about operators: for any flow, what `RunDoctor` finds
against what `LoadErrors`, `JobError` and `Handled` make of the same files. `ReadPins` compares
what a file and the flow read from it submit under any two common.toml. One theorem for
each of the eight properties of the run.

*Listing* (`ListingProofs`). The invariant `LInv` says where a flow that is good can
be while the listing runs - not yet named, a path not begun, being read, read, or in the
rows - and that it is in one place (`Places`), and that what was read of a status is
what the file still says or was not terminal (`Fresh`), for single reads and for rows
(`SeenFits`). `RollupFinal` is then that FAILED, DONE and PARTIAL only depend on terminal statuses.
The order of the rows does not come from an induction: the permutation that sorts exists
because a falling list of the flows of any finite set does (`Falling`, over the set's size),
and the rows are that one (`SortedHolds`). The loops that filter, flatten and cut are
recursive functions on the index; `Lists` proves once for all of them that such a function
has a value at every index, by the least index at which it would not (`LeastNumber`,
`Climb`, `LoopExists`), and with it what they push. Theorems: `TypesHold`, `NewHolds`, `EveryFlowHolds`,
`RollupHolds`, `SortedHolds`, `NewestHolds`.

*Listing layout* (`ListOutputProofs`). A filter commutes with the mapping of flows to rows
and with their flattening, so that a view that filters rows selects as one that filters
flows; counts agree because equal lists have equal lengths. For `RowsFound` each cell is
read back by the code that parses it: a status code in either case names its display
(`ParseToken`), a short uuid is a prefix of the uuids that begin with it and a full one of
itself only, tags are the map of the arguments they were made from. Theorems: `ViewsHold`
(`ViewsAgree`), `RowsFound` (`RowFindsItself`).

*Ids and scripts* (`AuthoringProofs`). The invariant `AuthorInv` says what each stage of a job
rests on: an id that was planned has been validated, and the script is what `RenderBatchBash`
makes of the id and the plan entry. The rest is about the model's functions, each of which is
unrolled round by round with the lemmas of `Lists`: the pieces of an id hold only characters
of it and no separator lies between them (`SplitFacts`), a piece that parses is a name, the
first `=` and digits (`AxisParts`), a number's decimal text has digits only (`DigitFacts`), and
bash, going through what `QuoteForBash` made of a value, is inside or outside of quotes
exactly where it should be, and has eaten that value at the end (`QuoteReads`).
For `ExportsAuthored` the variables of axes and params are told apart by their first word
(`VarsApart`), and the last export of a variable is that of the last axis or param with its name (`LastExports`).
For `ParsedIdHolds` an id is its pieces with a separator between them (`SplitJoin`, by the
rounds of `Split`), a piece is its name, `=` and its digits (`PieceWhole`), and an index that
is read and written again is the same text, or a shorter one where a zero or a plus stood in
front (`IndexWrittenAgain`); so the id built again differs only there (`RebuiltFlat`). For
`IdMeaningHolds`, one direction is what `Split` promises of every piece (`ParsedUnambiguous`).
For the other, a separator and a piece behind a text that does not end in half of a separator
give exactly one separator more (`LongerCuts`) and one piece more (`SplitExtend`), so the
pieces that were joined are found again (`SplitBuilt`), and each is read as the axis it was
written for (`AxisReadBack`; a number is what its digits say, `ValueOfDecimal`).
Theorems: `TypeCorrect`, `PlannedRender`, `ExportsAuthored`, `ParsedIdHolds`, `IdMeaningHolds`.

What the proofs found in the model: the conditions of the roll-up and those of bash's
reading of a word overlapped in a CASE, which leaves the choice open where the code takes
the first; and it had not been said that an absent or broken file is no flow, that a flow is a
record of its three fields, and that uuids have one length. TLC had met none of these,
as it takes the first arm of a CASE and was given no such values.

Only proved: that one renderer at a time suffices for `ScriptMatchesCommand`, which TLC only
violates without it. Only model-checked: `EverySubmissionSettles`, because liveness under fairness is out of
TLAPS's reach. Every other property of a passing run is stated by a theorem, some under
the condition named above.

## Not modelled

- `recipes/xyz.rs` and `bin/stub_gen.rs`: stateless text conversion and a build tool.
- What is printed but for the cells of `jm ls`; the parsing of arguments but for
  filters and tags; the root and the target of a command (a uuid or a path).
- The header and body of a script, dates, log path tokens, the size limit of
  `read_toml_string`, the TOML codecs, getters of the Python classes,
  `CalcView.files`.
- I/O errors of single reads outside of `FlowRunner`, `AtomicWrite` and `Listing`.
- That a status can return to an older one after a power loss while SLURM keeps the
  job: `IsRegister` allows it, and no record of `jm` could tell.
- That a second submission queues jobs whose first SLURM jobs are still alive: the
  loop looks at no record of them, by design.

## Plan

Modelled, in order of importance: flow runner and lifecycle with its abstract
specification, topology, atomic writes, configuration and doctor with the templates
and Python's reads and writes, listing with `jm new` and what it prints, ids and
scripts. No module declares a RECURSIVE operator. The plan is done; what it leaves out is under
*Not modelled*, and what only TLC checks is named at the end of the proofs.
