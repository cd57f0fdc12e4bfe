----------------------------- MODULE FlowRunner -----------------------------
(***************************************************************************)
(* The flow runner: src/src/runner/flow.rs with the parts it drives        *)
(* (flow/run.rs, slurm/dependency.rs, the executor and the querier).       *)
(*                                                                         *)
(* Several jm processes work on the files of ONE flow: `jm submit`, `jm    *)
(* render`, `jm render --effective-only` and `jm tick`, each a sequence of *)
(* steps cut where the code awaits a file or a SLURM command.  There is no *)
(* lock between them.  SLURM and the user who edits flow.toml are the      *)
(* environment.  A file write is one step (each is a write to a temporary  *)
(* file and a rename).                                                     *)
(*                                                                         *)
(* Abstractions.  A flow is a value: its jobs, their parent edges and the  *)
(* jobs plan.toml can render.  A script is the flow it was rendered from.  *)
(* `for jid in &order` visits, one at a time, a job all of whose parents   *)
(* were visited: the Topology module shows that this is all the order      *)
(* promises.  An error return and a crash leave the same state behind, so  *)
(* Abort is both.  Timestamps, notes and printing are left out.            *)
(***************************************************************************)
EXTENDS JobLifecycle, FiniteSets

CONSTANTS
  Job,       \* the job ids
  Proc,      \* the jm processes
  SlurmId,   \* the ids SLURM can give out (bounds the number of submissions)
  Flow,      \* the contents flow.toml and plan.toml can have
  Cmd,       \* the commands that are issued
  Env,       \* what the environment may do, a subset of EnvEvent
  None       \* no file, no id

Kind == {"afterok", "afterany", "afternotok"}

\* "resubmit": submit a flow some of whose jobs were submitted before
\* "abort":    a process crashes, or an operation it needs fails
\* "unread":   the preseed cannot read a status file
\* "sbatch":   sbatch refuses a job
\* "noid":     sbatch queues a job and its answer holds no id
\* "lossy":    the reply of the query misses a job or cannot be parsed
\* "requeue":  SLURM puts a running job back into the queue
\* "cancel":   somebody cancels a job with scancel
\* "edit":     the user edits flow.toml or plan.toml
EnvEvent == {"resubmit", "abort", "unread", "sbatch", "noid", "lossy", "requeue", "cancel",
             "edit"}
Command == {"submit", "render", "effective", "tick"}

Edge == [from: Job, kind: Kind]
IsFlow(f) == /\ f.jobs \subseteq Job
             /\ f.parents \in [Job -> SUBSET Edge]
             /\ f.plan \subseteq Job

JobRun == [lifecycle: Lifecycle, slurm_jobid: SlurmId, slurm_status: JobState \cup {NoState}]

\* earlier and prior are history: the ids given out before this one, to its own
\* command and to anyone.
SlurmJob == [job: Job, script: Flow, flow: Flow, earlier: SUBSET SlurmId, prior: SUBSET SlurmId,
             deps: SUBSET [id: SlurmId, kind: Kind], state: JobState]

ASSUME FlowAssumption == /\ \A f \in Flow : IsFlow(f)
                         /\ Cmd \subseteq Command
                         /\ Env \subseteq EnvEvent
ASSUME NoneAssumption ==
  /\ None \notin Job /\ None \notin SlurmId /\ None \notin Flow /\ None \notin Command
  /\ None \notin JobRun /\ None \notin SlurmJob

VARIABLES
  flowToml,   \* flow.toml and plan.toml, written by the user
  snapshot,   \* .jm/flow.effective.toml
  status,     \* status.toml of each job
  batch,      \* batch.bash of each job: the flow it was rendered from
  slurm,      \* SLURM's record of each id it gave out
  pc,         \* where each process is
  cmd,        \* the command it runs
  flow,       \* its FlowRun
  todo,       \* the jobs its current loop has not visited
  cur,        \* the job the submit loop is at
  submitted,  \* the map submit builds and returns
  issued,     \* history: the ids SLURM gave to this command
  cache,      \* tick's `current`: the statuses it read and updated
  reply       \* tick's `slurm_statuses`

files == <<flowToml, snapshot, status, batch>>
locals == <<pc, cmd, flow, todo, cur, submitted, issued, cache, reply>>
vars == <<flowToml, snapshot, status, batch, slurm,
          pc, cmd, flow, todo, cur, submitted, issued, cache, reply>>

-----------------------------------------------------------------------------
Parents(f, j) == {e.from : e \in f.parents[j]}

\* topological_order returns Ok: parents are jobs of the flow, no job names a
\* parent twice, and no set of jobs waits on itself.
Orderable(f) ==
  /\ \A j \in f.jobs : /\ Parents(f, j) \subseteq f.jobs
                       /\ \A d, e \in f.parents[j] : d.from = e.from => d = e
  /\ \A S \in (SUBSET f.jobs) \ {{}} : \E j \in S : Parents(f, j) \cap S = {}

\* Mutant: the loop takes the jobs in any order.
IsNextUnordered(p, j) == j \in todo[p]

\* The next job of `for jid in &order`.
IsNext(p, j) == j \in todo[p] /\ Parents(flow[p], j) \cap todo[p] = {}

NoIds      == [j \in Job |-> None]
NoRuns     == [j \in Job |-> None]
EmptyReply == [id \in SlurmId |-> NoState]
FreeIds    == {id \in SlurmId : slurm[id] = None}

\* SLURM never gives out an id twice; which new one it takes does not matter.
NewId == CHOOSE id \in SlurmId : slurm[id] = None

Init ==
  /\ flowToml \in Flow
  /\ snapshot = None
  /\ status = [j \in Job |-> None]
  /\ batch = [j \in Job |-> None]
  /\ slurm = [id \in SlurmId |-> None]
  /\ pc = [p \in Proc |-> "idle"]
  /\ cmd = [p \in Proc |-> None]
  /\ flow = [p \in Proc |-> None]
  /\ todo = [p \in Proc |-> {}]
  /\ cur = [p \in Proc |-> None]
  /\ submitted = [p \in Proc |-> NoIds]
  /\ issued = [p \in Proc |-> {}]
  /\ cache = [p \in Proc |-> NoRuns]
  /\ reply = [p \in Proc |-> EmptyReply]

\* The process ends and forgets everything it held in memory.
Exit(p) ==
  /\ pc' = [pc EXCEPT ![p] = "idle"]
  /\ cmd' = [cmd EXCEPT ![p] = None]
  /\ flow' = [flow EXCEPT ![p] = None]
  /\ todo' = [todo EXCEPT ![p] = {}]
  /\ cur' = [cur EXCEPT ![p] = None]
  /\ submitted' = [submitted EXCEPT ![p] = NoIds]
  /\ issued' = [issued EXCEPT ![p] = {}]
  /\ cache' = [cache EXCEPT ![p] = NoRuns]
  /\ reply' = [reply EXCEPT ![p] = EmptyReply]

\* Process p, idle, starts command c at label l with the FlowRun f it loaded.
Start(p, c, f, l) ==
  /\ c \in Cmd
  /\ pc[p] = "idle"
  /\ pc' = [pc EXCEPT ![p] = l]
  /\ cmd' = [cmd EXCEPT ![p] = c]
  /\ flow' = [flow EXCEPT ![p] = f]
  /\ todo' = [todo EXCEPT ![p] = f.jobs]
  /\ UNCHANGED <<files, slurm, cur, submitted, issued, cache, reply>>

-----------------------------------------------------------------------------
(* FlowRunner::submit, and render_only, which is submit with dry_run.       *)

\* The user has not asked for a submission yet.
NothingSubmitted == FreeIds = SlurmId /\ \A p \in Proc : cmd[p] # "submit"

\* FlowRun::read and topological_order()?.
SubmitStart(p) ==
  /\ Orderable(flowToml)
  /\ \E c \in {"submit", "render"} :
       /\ c = "submit" => "resubmit" \in Env \/ NothingSubmitted
       /\ Start(p, c, flowToml, "snapshot")

\* jm render --effective-only reads the flow and never orders it.
EffectiveStart(p) == Start(p, "effective", flowToml, "snapshot")

\* write_flow_effective: submit goes on, --effective-only is done.
WriteSnapshot(p) ==
  /\ pc[p] = "snapshot"
  /\ snapshot' = flow[p]
  /\ pc' = [pc EXCEPT ![p] = IF cmd[p] = "effective" THEN "returned" ELSE "preseed"]
  /\ UNCHANGED <<flowToml, status, batch, slurm,
                 cmd, flow, todo, cur, submitted, issued, cache, reply>>

\* One candidate of the preseed loop: the id an earlier run recorded, if there
\* is a status file and it can be read.
Preseed(p, j) ==
  /\ pc[p] = "preseed"
  /\ j \in todo[p]
  /\ todo' = [todo EXCEPT ![p] = @ \ {j}]
  /\ \/ /\ status[j] # None
        /\ submitted' = [submitted EXCEPT ![p][j] = status[j].slurm_jobid]
     \/ /\ status[j] = None \/ "unread" \in Env
        /\ UNCHANGED submitted
  /\ UNCHANGED <<files, slurm, pc, cmd, flow, cur, issued, cache, reply>>

\* The preflight of the log directories passes (a missing one is an Abort).
Preflight(p) ==
  /\ pc[p] = "preseed"
  /\ todo[p] = {}
  /\ pc' = [pc EXCEPT ![p] = "render"]
  /\ todo' = [todo EXCEPT ![p] = flow[p].jobs]
  /\ UNCHANGED <<files, slurm, cmd, flow, cur, submitted, issued, cache, reply>>

\* atomic_write_batch_bash.
Rendered(p, j) == [batch EXCEPT ![j] = flow[p]]

\* params_of, parse_job_id, render_batch_bash and atomic_write_batch_bash; a
\* dry run continues with the next job, a real one with sbatch.
RenderBatch(p, j) ==
  /\ pc[p] = "render"
  /\ IsNext(p, j)
  /\ j \in flow[p].plan
  /\ batch' = Rendered(p, j)
  /\ IF cmd[p] = "render"
     THEN /\ todo' = [todo EXCEPT ![p] = @ \ {j}]
          /\ UNCHANGED <<pc, cur>>
     ELSE /\ pc' = [pc EXCEPT ![p] = "sbatch"]
          /\ cur' = [cur EXCEPT ![p] = j]
          /\ UNCHANGED todo
  /\ UNCHANGED <<flowToml, snapshot, status, slurm,
                 cmd, flow, submitted, issued, cache, reply>>

\* MissingPlanEntry or RenderError: the loop ends here, what it did stays.
RejectJob(p, j) ==
  /\ pc[p] = "render"
  /\ IsNext(p, j)
  /\ j \notin flow[p].plan
  /\ Exit(p)
  /\ UNCHANGED <<files, slurm>>

\* Mutant: the ids are taken from the status files.
BuildDependencyFromFiles(f, j, ids) ==
  {[id |-> status[e.from].slurm_jobid, kind |-> e.kind] :
     e \in {e \in f.parents[j] : status[e.from] # None}}

\* dependency::build: a pair for every parent edge whose parent has an id.
BuildDependency(f, j, ids) ==
  {[id |-> ids[e.from], kind |-> e.kind] : e \in {e \in f.parents[j] : ids[e.from] # None}}

\* What sbatch hands over: the script as it is now, the options and
\* dependencies from the flow in memory.
SubmittedJob(p) ==
  [job |-> cur[p], script |-> batch[cur[p]], flow |-> flow[p],
   earlier |-> issued[p], prior |-> SlurmId \ FreeIds, state |-> "Pending",
   deps |-> BuildDependency(flow[p], cur[p], submitted[p])]

\* Mutant: an id the preseed found is not replaced.
InsertedIfAbsent(p) ==
  [submitted EXCEPT ![p][cur[p]] = IF @ = None THEN NewId ELSE @]

\* submitted.insert.
Inserted(p) == [submitted EXCEPT ![p][cur[p]] = NewId]

\* sbatch has SLURM read the script and queue a new job.
QueueJob(p) ==
  /\ pc[p] = "sbatch"
  /\ FreeIds # {}
  /\ slurm' = [slurm EXCEPT ![NewId] = SubmittedJob(p)]

\* executor.submit succeeds.
Sbatch(p) ==
  /\ QueueJob(p)
  /\ submitted' = Inserted(p)
  /\ issued' = [issued EXCEPT ![p] = @ \cup {NewId}]
  /\ pc' = [pc EXCEPT ![p] = "record"]
  /\ UNCHANGED <<files, cmd, flow, todo, cur, cache, reply>>

\* executor.submit fails, because spawn does or because its handle holds no id
\* of the job that was queued: the command ends, earlier jobs stay submitted.
SbatchFails(p) ==
  /\ pc[p] = "sbatch"
  /\ \/ ("sbatch" \in Env \/ FreeIds = {}) /\ UNCHANGED slurm
     \/ "noid" \in Env /\ QueueJob(p)
  /\ Exit(p)
  /\ UNCHANGED files

\* The new status file replaces whatever was there.
RecordStatus(p) ==
  /\ pc[p] = "record"
  /\ status' = [status EXCEPT ![cur[p]] =
       [lifecycle |-> "Queued", slurm_jobid |-> submitted[p][cur[p]],
        slurm_status |-> NoState]]
  /\ pc' = [pc EXCEPT ![p] = "render"]
  /\ todo' = [todo EXCEPT ![p] = @ \ {cur[p]}]
  /\ cur' = [cur EXCEPT ![p] = None]
  /\ UNCHANGED <<flowToml, snapshot, batch, slurm,
                 cmd, flow, submitted, issued, cache, reply>>

\* Ok(submitted).
SubmitReturn(p) ==
  /\ pc[p] = "render"
  /\ todo[p] = {}
  /\ pc' = [pc EXCEPT ![p] = "returned"]
  /\ UNCHANGED <<files, slurm, cmd, flow, todo, cur, submitted, issued, cache, reply>>

-----------------------------------------------------------------------------
(* FlowRunner::tick.                                                        *)

\* FlowRun::load_effective and topological_order()?.
TickStart(p) ==
  /\ snapshot # None
  /\ Orderable(snapshot)
  /\ Start(p, "tick", snapshot, "read")

\* One status file is read.
TickRead(p, j) ==
  /\ pc[p] = "read"
  /\ IsNext(p, j)
  /\ cache' = [cache EXCEPT ![p][j] = status[j]]
  /\ todo' = [todo EXCEPT ![p] = @ \ {j}]
  /\ UNCHANGED <<files, slurm, pc, cmd, flow, cur, submitted, issued, reply>>

\* jobids_to_query: what the statuses of the non-terminal jobs name.
QueryIds(p) ==
  {cache[p][j].slurm_jobid :
     j \in {j \in flow[p].jobs : cache[p][j] # None /\ ~IsTerminal(cache[p][j].lifecycle)}}

\* querier.query answers; a lossy one may know a job no more, or not parse it.
TickQuery(p) ==
  /\ pc[p] = "read"
  /\ todo[p] = {}
  /\ \E lost \in (IF "lossy" \in Env THEN SUBSET QueryIds(p) ELSE {{}}),
        no \in {NoState, "Unknown"} :
       reply' = [reply EXCEPT ![p] =
         [id \in SlurmId |-> IF id \notin QueryIds(p) THEN NoState
                             ELSE IF id \in lost THEN no
                             ELSE slurm[id].state]]
  /\ pc' = [pc EXCEPT ![p] = "apply"]
  /\ todo' = [todo EXCEPT ![p] = flow[p].jobs]
  /\ UNCHANGED <<files, slurm, cmd, flow, cur, submitted, issued, cache>>

\* The decision for job j from the statuses tick holds in memory.
Decide(p, j) ==
  DecideTransition(cache[p][j].lifecycle, reply[p][cache[p][j].slurm_jobid],
    {cache[p][i].lifecycle : i \in {i \in Parents(flow[p], j) : cache[p][i] # None}})

\* No status, or nothing to change: the next job.
TickKeep(p, j) ==
  /\ pc[p] = "apply"
  /\ IsNext(p, j)
  /\ cache[p][j] # None => Decide(p, j) = NoChange
  /\ todo' = [todo EXCEPT ![p] = @ \ {j}]
  /\ UNCHANGED <<files, slurm, pc, cmd, flow, cur, submitted, issued, cache, reply>>

\* Mutant: a skip forgets the id.
UpdatedForgetsId(p, j) ==
  [lifecycle    |-> Outcome(cache[p][j].lifecycle, Decide(p, j)),
   slurm_jobid  |-> IF Decide(p, j) = SkipDueToParent
                    THEN None ELSE cache[p][j].slurm_jobid,
   slurm_status |-> NoState]

\* Mutant: the id is read from the status file again.
UpdatedRereadsId(p, j) ==
  [lifecycle    |-> Outcome(cache[p][j].lifecycle, Decide(p, j)),
   slurm_jobid  |-> status[j].slurm_jobid,
   slurm_status |-> NoState]

\* The status that replaces the one read.
Updated(p, j) ==
  [lifecycle    |-> Outcome(cache[p][j].lifecycle, Decide(p, j)),
   slurm_jobid  |-> cache[p][j].slurm_jobid,
   slurm_status |-> IF Decide(p, j).kind = "Transition"
                    THEN reply[p][cache[p][j].slurm_jobid] ELSE NoState]

\* The status file is written, unseen what it holds by now, and the cache with it.
TickWrite(p, j) ==
  /\ pc[p] = "apply"
  /\ IsNext(p, j)
  /\ cache[p][j] # None
  /\ Decide(p, j) # NoChange
  /\ status' = [status EXCEPT ![j] = Updated(p, j)]
  /\ cache' = [cache EXCEPT ![p][j] = Updated(p, j)]
  /\ todo' = [todo EXCEPT ![p] = @ \ {j}]
  /\ UNCHANGED <<flowToml, snapshot, batch, slurm,
                 pc, cmd, flow, cur, submitted, issued, reply>>

\* Ok(TickResult).
TickReturn(p) ==
  /\ pc[p] = "apply"
  /\ todo[p] = {}
  /\ pc' = [pc EXCEPT ![p] = "returned"]
  /\ UNCHANGED <<files, slurm, cmd, flow, todo, cur, submitted, issued, cache, reply>>

-----------------------------------------------------------------------------
(* The end of a command, SLURM and the user.                                *)

Finish(p) ==
  /\ pc[p] = "returned"
  /\ Exit(p)
  /\ UNCHANGED <<files, slurm>>

\* A crash, or the error return of a failed read, write, query or preflight.
Abort(p) ==
  /\ "abort" \in Env
  /\ pc[p] \notin {"idle", "returned"}
  /\ Exit(p)
  /\ UNCHANGED <<files, slurm>>

SlurmEnded(s) == s = "Completed" \/ s \in FailureStates

Satisfied(d) ==
  LET s == slurm[d.id].state
  IN  CASE d.kind = "afterok"    -> s = "Completed"
        [] d.kind = "afterany"   -> SlurmEnded(s)
        [] d.kind = "afternotok" -> s \in FailureStates

SlurmStep(id, from, to) ==
  /\ slurm[id] # None
  /\ slurm[id].state = from
  /\ slurm' = [slurm EXCEPT ![id].state = to]
  /\ UNCHANGED <<files, locals>>

SlurmStart(id) ==
  /\ SlurmStep(id, "Pending", "Running")
  /\ \A d \in slurm[id].deps : Satisfied(d)

SlurmEnd(id) == \E s \in {"Completed", "Failed"} : SlurmStep(id, "Running", s)

SlurmRequeue(id) == "requeue" \in Env /\ SlurmStep(id, "Running", "Pending")

SlurmCancel(id) ==
  /\ "cancel" \in Env
  /\ \E s \in {"Pending", "Running"} : SlurmStep(id, s, "Cancelled")

EditFlow ==
  /\ "edit" \in Env
  /\ \E f \in Flow : f # flowToml /\ flowToml' = f
  /\ UNCHANGED <<snapshot, status, batch, slurm, locals>>

SubmitStep(p) ==
  \/ SubmitStart(p) \/ EffectiveStart(p) \/ WriteSnapshot(p) \/ Preflight(p)
  \/ \E j \in Job : Preseed(p, j) \/ RenderBatch(p, j) \/ RejectJob(p, j)
  \/ Sbatch(p) \/ SbatchFails(p) \/ RecordStatus(p) \/ SubmitReturn(p)

TickStep(p) ==
  \/ TickStart(p) \/ TickQuery(p) \/ TickReturn(p)
  \/ \E j \in Job : TickRead(p, j) \/ TickKeep(p, j) \/ TickWrite(p, j)

SlurmNext(id) ==
  SlurmStart(id) \/ SlurmEnd(id) \/ SlurmRequeue(id) \/ SlurmCancel(id)

Next ==
  \/ \E p \in Proc : SubmitStep(p) \/ TickStep(p) \/ Finish(p) \/ Abort(p)
  \/ \E id \in SlurmId : SlurmNext(id)
  \/ EditFlow

Spec == Init /\ [][Next]_vars
=============================================================================
