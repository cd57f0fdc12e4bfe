-------------------------- MODULE FlowRunnerProps ---------------------------
(***************************************************************************)
(* What the flow runner promises, as properties of FlowRunner.             *)
(***************************************************************************)
EXTENDS FlowRunner

SubmitLabel == {"snapshot", "preseed", "render", "sbatch", "record", "returned"}
TickLabel == {"read", "apply", "returned"}

(***************************************************************************)
(* The fairness of a deployment in which cron starts `jm tick` again and   *)
(* again (README.md, "Cron-driven reconciliation"): a command that started *)
(* takes its steps, ticks keep being started, the query answers in full    *)
(* now and then, and SLURM starts and ends the jobs that may run.          *)
(***************************************************************************)
FullAnswer(p) ==
  TickQuery(p) /\ \A id \in QueryIds(p) : reply'[p][id] = slurm[id].state

CommandStep(p) ==
  \/ WriteSnapshot(p) \/ Preflight(p)
  \/ \E j \in Job : Preseed(p, j) \/ RenderBatch(p, j) \/ RejectJob(p, j)
  \/ Sbatch(p) \/ SbatchFails(p) \/ RecordStatus(p) \/ SubmitReturn(p)
  \/ TickQuery(p) \/ TickReturn(p)
  \/ \E j \in Job : TickRead(p, j) \/ TickKeep(p, j) \/ TickWrite(p, j)
  \/ Finish(p)

Fairness ==
  /\ \A p \in Proc : /\ WF_vars(CommandStep(p))
                     /\ SF_vars(TickStart(p))
                     /\ SF_vars(FullAnswer(p))
  /\ \A id \in SlurmId : WF_vars(SlurmStart(id)) /\ SF_vars(SlurmEnd(id))

FairSpec == Spec /\ Fairness

\* Type invariant of the flow runner.
TypeOK ==
  /\ flowToml \in Flow
  /\ snapshot \in Flow \cup {None}
  /\ status \in [Job -> JobRun \cup {None}]
  /\ batch \in [Job -> Flow \cup {None}]
  /\ slurm \in [SlurmId -> SlurmJob \cup {None}]
  /\ pc \in [Proc -> {"idle"} \cup SubmitLabel \cup TickLabel]
  /\ cmd \in [Proc -> Command \cup {None}]
  /\ flow \in [Proc -> Flow \cup {None}]
  /\ todo \in [Proc -> SUBSET Job]
  /\ cur \in [Proc -> Job \cup {None}]
  /\ submitted \in [Proc -> [Job -> SlurmId \cup {None}]]
  /\ issued \in [Proc -> SUBSET SlurmId]
  /\ cache \in [Proc -> [Job -> JobRun \cup {None}]]
  /\ reply \in [Proc -> [SlurmId -> JobState \cup {NoState}]]

Issued == {id \in SlurmId : slurm[id] # None}

(***************************************************************************)
(* Every job is handed to SLURM with one dependency per parent edge, on    *)
(* the id the SAME submission got for that parent: never a missing one,    *)
(* never the id an earlier submission left in a status file, whatever the  *)
(* other processes do to those files meanwhile (flow.rs:177-199, 288-293). *)
(***************************************************************************)
DependenciesFaithful ==
  \A id \in Issued :
    LET s == slurm[id] IN
    /\ \A e \in s.flow.parents[s.job] : \E d \in s.deps :
         /\ d.kind = e.kind
         /\ d.id \in s.earlier
         /\ slurm[d.id] # None
         /\ slurm[d.id].job = e.from
         /\ slurm[d.id].flow = s.flow
    /\ \A d \in s.deps : \E e \in s.flow.parents[s.job] :
         d.kind = e.kind /\ d.id \in s.earlier

(***************************************************************************)
(* A status file tells the truth about a SLURM job of its own job: the id  *)
(* it names was given to that job, Success is only written for an id that  *)
(* completed and Failed only for one that failed, however old the reply    *)
(* and the cache were when the tick wrote them (flow.rs:321-400).          *)
(***************************************************************************)
StatusTruthful ==
  \A j \in Job : status[j] # None =>
    LET s == slurm[status[j].slurm_jobid] IN
    /\ s # None
    /\ s.job = j
    /\ status[j].lifecycle = "Success" => s.state = "Completed"
    /\ status[j].lifecycle = "Failed" => s.state \in FailureStates

(***************************************************************************)
(* A complete submission returns, for each job of its flow and no other,   *)
(* the id this very submission got for it (flow.rs:292-307).               *)
(***************************************************************************)
ReturnedMapFresh ==
  \A p \in Proc : pc[p] = "returned" /\ cmd[p] = "submit" =>
    \A j \in Job :
      IF j \in flow[p].jobs
      THEN /\ submitted[p][j] \in issued[p]
           /\ slurm[submitted[p][j]].job = j
      ELSE submitted[p][j] = None

\* In other flows a tick may skip a job that SLURM runs: see SkipNeedsAfterok.
OnlyAfterok(f) == \A j \in Job : \A e \in f.parents[j] : e.kind = "afterok"

(***************************************************************************)
(* A tick ends in a fixpoint: no status it leaves would be changed by      *)
(* deciding again from the same reply.  In particular its one pass carries *)
(* a skip down to every descendant (flow.rs:344-401; "`tick` is            *)
(* idempotent", README.md:292).  SLURM putting a running job back into the *)
(* queue does not break it as long as every edge is afterok.               *)
(***************************************************************************)
TickSettles ==
  \A p \in Proc : pc[p] = "returned" /\ cmd[p] = "tick" /\ OnlyAfterok(flow[p]) =>
    \A j \in flow[p].jobs : cache[p][j] # None =>
      Decide(p, j) = NoChange

(***************************************************************************)
(* A submission that dies loses at most one SLURM job, the one it was at:  *)
(* every id SLURM gave out is about to be recorded; or the status file of  *)
(* its job names it, or one given out later; or it is the last id its      *)
(* command got, and that command is over.  A crash, a failed write, an     *)
(* sbatch that tells no id and any number of re-submissions leave no other *)
(* job untracked, and no status naming an id older than one it could       *)
(* (flow.rs:291-304, executor.rs:50-52).                                   *)
(***************************************************************************)
BeingRecorded(id) == \E p \in Proc : pc[p] = "record" /\ submitted[p][cur[p]] = id

NamedOrReplaced(id) ==
  LET run == status[slurm[id].job]
  IN  run # None /\ (run.slurm_jobid = id \/ id \in slurm[run.slurm_jobid].prior)

LastOfItsCommand(id) ==
  /\ \A p \in Proc : id \notin issued[p]
  /\ \A later \in Issued : id \notin slurm[later].earlier

EverySubmissionTracked ==
  \A id \in Issued : BeingRecorded(id) \/ NamedOrReplaced(id) \/ LastOfItsCommand(id)

(***************************************************************************)
(* A job marked Skipped does not run: its SLURM job has not started and    *)
(* never will (transition.rs:36-44, architecture.md:329-331).              *)
(***************************************************************************)
SkippedNeverRuns ==
  snapshot # None /\ OnlyAfterok(snapshot) =>
  \A j \in Job : status[j] # None /\ status[j].lifecycle = "Skipped" =>
    slurm[status[j].slurm_jobid].state \in {"Pending", "Cancelled"}

(***************************************************************************)
(* SLURM runs the script that was rendered from the flow whose options and *)
(* dependencies the sbatch command carries: nobody modifies it "between    *)
(* the initial write and `sbatch` picking it up" (flow.rs:49-54, 256,      *)
(* 292).  It takes a second jm submit or jm render to break it; ticks and  *)
(* edits, crashes and re-submissions at any moment do not.                 *)
(***************************************************************************)
ScriptMatchesCommand ==
  \A id \in Issued : slurm[id].script = slurm[id].flow

\* One process at a time writes scripts; ticks and effective-only renders overlap.
Renders(p) == cmd[p] \in {"submit", "render"}

OneRenderer == \A p, q \in Proc : Renders(p) /\ Renders(q) => p = q

OneRendererSpec == Init /\ [][Next /\ OneRenderer']_vars

(***************************************************************************)
(* "Terminal states are never overwritten by tick" (architecture.md:332):  *)
(* only a new submission replaces a terminal status.                       *)
(***************************************************************************)
Recording(j) == \E p \in Proc : pc[p] = "record" /\ cur[p] = j

TerminalKept ==
  [][\A j \in Job :
       status[j] # None /\ IsTerminal(status[j].lifecycle) /\ ~Recording(j)
         => status'[j] = status[j]]_status

(***************************************************************************)
(* Commands that do not overlap implement JobTracking, however they fail:  *)
(* the statuses change one job at a time, a tick never changes the SLURM   *)
(* job a status names nor ends it twice, and skips a job only while the    *)
(* status of one of the snapshot's parents says Failed or Skipped          *)
(* (flow.rs:295-304, 344-401, transition.rs:28-106).                       *)
(***************************************************************************)
Tracking == INSTANCE JobTracking WITH
  life    <- [j \in Job |-> IF status[j] = None THEN "Pending" ELSE status[j].lifecycle],
  attempt <- [j \in Job |-> IF status[j] = None THEN None ELSE status[j].slurm_jobid],
  parents <- [j \in Job |-> IF snapshot = None THEN {} ELSE Parents(snapshot, j)]

ImplementsTracking == Tracking!Spec

(***************************************************************************)
(* "It triggers when any parent is in Failed | Skipped and the dependency  *)
(* was afterok" (architecture.md:329-331, README.md:298).                  *)
(***************************************************************************)
SkipNeedsAfterok ==
  \A j \in Job : status[j] # None /\ status[j].lifecycle = "Skipped" =>
    \E e \in snapshot.parents[j] :
      /\ e.kind = "afterok"
      /\ status[e.from] # None
      /\ IsDead(status[e.from].lifecycle)

(***************************************************************************)
(* When submissions end, every job that was submitted is settled sooner or *)
(* later: its status file holds a terminal lifecycle and keeps it.  The    *)
(* one exception waits in SLURM for ever, and its status says Queued: a    *)
(* job behind an afternotok edge whose parent has succeeded, and those     *)
(* behind that job (flow.rs:310-404, transition.rs:36-44,                  *)
(* README.md:292-298).                                                     *)
(***************************************************************************)
Settled(j) == status[j] # None => IsTerminal(status[j].lifecycle)

Stranded(j) ==
  \E S \in SUBSET {i \in Job : status[i] # None} :
    /\ j \in S
    /\ \A i \in S :
         LET s == slurm[status[i].slurm_jobid] IN
         /\ s.state = "Pending"
         /\ \E d \in s.deps : \/ d.kind = "afternotok" /\ slurm[d.id].state = "Completed"
                             \/ slurm[d.id].job \in S

EverySubmissionSettles == <>[](\A j \in Job : Settled(j) \/ Stranded(j))
=============================================================================
