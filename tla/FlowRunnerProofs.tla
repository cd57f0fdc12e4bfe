-------------------------- MODULE FlowRunnerProofs --------------------------
(***************************************************************************)
(* What holds of the flow runner for every flow, every number of jobs,     *)
(* processes and SLURM ids, and everything the environment may do.         *)
(*                                                                         *)
(* The argument.  SLURM's records only grow: an id keeps its job and its   *)
(* flow, and an end state stays (Grows).  So what a status file, a tick's  *)
(* cache or a tick's reply says of an id stays true however late it is     *)
(* used (Truth).  And inside a submission the map it builds holds, for     *)
(* every job the loop has visited, an id this submission got (LoopFresh):  *)
(* the loop comes to a job after its parents, so a dependency never falls  *)
(* back on an id the preseed found.                                        *)
(***************************************************************************)
EXTENDS FlowRunnerProps, TLAPS

(* The command, its label and its flow fit each other.                      *)
CommandFits ==
  \A p \in Proc :
    /\ pc[p] # "idle" => flow[p] \in Flow /\ todo[p] \subseteq flow[p].jobs
    /\ pc[p] = "snapshot" => cmd[p] \in {"submit", "render", "effective"}
    /\ pc[p] \in {"preseed", "render"} => cmd[p] \in {"submit", "render"}
    /\ pc[p] \in {"sbatch", "record"} => cmd[p] = "submit"
    /\ pc[p] \in {"read", "apply"} => cmd[p] = "tick"
    /\ cmd[p] \in {"submit", "render"} => Orderable(flow[p])

(* The job a submission is at: rendered, and its parents visited.           *)
LoopFits ==
  \A p \in Proc :
    /\ pc[p] \in {"sbatch", "record"} => cur[p] \in todo[p]
    /\ pc[p] = "sbatch" =>
         /\ batch[cur[p]] # None
         /\ Parents(flow[p], cur[p]) \cap todo[p] = {}

(* The map of a submission names no job that is not of its flow.            *)
MapFits ==
  \A p \in Proc :
    /\ pc[p] = "idle" => submitted[p] = NoIds
    /\ pc[p] # "idle" => \A j \in Job \ flow[p].jobs : submitted[p][j] = None

(* An id this submission got, for this job, with this flow.                 *)
Fresh(p, j) ==
  /\ submitted[p][j] \in issued[p]
  /\ slurm[submitted[p][j]].job = j
  /\ slurm[submitted[p][j]].flow = flow[p]

LoopFresh ==
  \A p \in Proc :
    /\ \A id \in issued[p] : slurm[id] # None
    /\ pc[p] \in {"render", "sbatch", "record"} /\ cmd[p] = "submit" =>
         \A j \in flow[p].jobs \ todo[p] : Fresh(p, j)
    /\ pc[p] = "record" => Fresh(p, cur[p])
    /\ pc[p] = "returned" /\ cmd[p] = "submit" =>
         \A j \in flow[p].jobs : Fresh(p, j)

(* What a status says of the SLURM job it names is true.                    *)
Truth(j, run) ==
  LET s == slurm[run.slurm_jobid]
  IN  /\ s # None
      /\ s.job = j
      /\ run.lifecycle = "Success" => s.state = "Completed"
      /\ run.lifecycle = "Failed" => s.state \in FailureStates

StatusTrue == \A j \in Job : status[j] # None => Truth(j, status[j])

CacheTrue ==
  \A p \in Proc : \A j \in Job : cache[p][j] # None => Truth(j, cache[p][j])

ReplyTrue ==
  \A p \in Proc : \A id \in SlurmId :
    /\ reply[p][id] = "Completed" => slurm[id] # None /\ slurm[id].state = "Completed"
    /\ reply[p][id] \in FailureStates =>
         slurm[id] # None /\ slurm[id].state \in FailureStates

IInv == /\ TypeOK /\ CommandFits /\ LoopFits /\ MapFits /\ LoopFresh
        /\ StatusTrue /\ CacheTrue /\ ReplyTrue /\ DependenciesFaithful

-----------------------------------------------------------------------------
(* SLURM gives a new job an id it has not given out before.                 *)
LEMMA FreshId ==
  ASSUME FreeIds # {}
  PROVE  NewId \in SlurmId /\ slurm[NewId] = None
<1>1. \E id \in SlurmId : slurm[id] = None
  BY DEF FreeIds
<1>2. QED
  BY <1>1 DEF NewId

(* A tick stores Running, Success or Failed only for a job that had it      *)
(* already or is reported so.                                               *)
LEMMA OutcomeSound ==
  ASSUME NEW l \in Lifecycle, NEW q \in JobState \cup {NoState}, NEW P
  PROVE  LET o == Outcome(l, DecideTransition(l, q, P))
         IN  /\ o \in Lifecycle
             /\ o = "Success" => l = "Success" \/ q = "Completed"
             /\ o = "Failed" => l = "Failed" \/ q \in FailureStates
             /\ o = "Running" => l = "Running" \/ q \in AliveStates
<1> DEFINE d == DecideTransition(l, q, P)
<1>1. CASE IsTerminal(l)
  <2>1. d = NoChange
    BY <1>1 DEF DecideTransition, IsTerminal
  <2>2. QED
    BY <2>1 DEF Outcome, NoChange
<1>2. CASE ~IsTerminal(l) /\ l = "Queued" /\ \E k \in P : IsDead(k)
  <2>1. d = SkipDueToParent
    BY <1>2 DEF DecideTransition
  <2>2. Outcome(l, d) = "Skipped"
    BY <2>1 DEF Outcome, SkipDueToParent
  <2>3. QED
    BY <2>2 DEF Lifecycle
<1>3. CASE ~IsTerminal(l) /\ ~(l = "Queued" /\ \E k \in P : IsDead(k))
  <2>1. d = IF q = NoState \/ Bucket(l, q) = l THEN NoChange ELSE Transition(Bucket(l, q))
    BY <1>3 DEF DecideTransition
  <2>2. CASE q = NoState \/ Bucket(l, q) = l
    <3>1. Outcome(l, d) = l
      BY <2>1, <2>2 DEF Outcome, NoChange
    <3>2. QED
      BY <3>1
  <2>3. CASE ~(q = NoState \/ Bucket(l, q) = l)
    <3>1. Outcome(l, d) = Bucket(l, q) /\ q \in JobState
      BY <2>1, <2>3 DEF Outcome, Transition
    <3>2. /\ Bucket(l, q) \in Lifecycle
          /\ Bucket(l, q) = "Success" => l = "Success" \/ q = "Completed"
          /\ Bucket(l, q) = "Failed" => l = "Failed" \/ q \in FailureStates
          /\ Bucket(l, q) = "Running" => l = "Running" \/ q \in AliveStates
      BY <3>1 DEF Bucket, JobState, WaitingStates, AliveStates, FailureStates, Lifecycle
    <3>3. QED
      BY <3>1, <3>2
  <2>4. QED
    BY <2>2, <2>3
<1>4. QED
  BY <1>1, <1>2, <1>3

(* sbatch queues a job and tells no id: the command ends.                   *)
LosesId(p) == QueueJob(p) /\ Exit(p) /\ UNCHANGED files

(* The steps: those of a command, the end of one, SLURM's and the user's.   *)
LEMMA NextCases ==
  ASSUME [Next]_vars
  PROVE  \/ \E p \in Proc :
              \/ SubmitStart(p) \/ EffectiveStart(p) \/ WriteSnapshot(p) \/ Preflight(p)
              \/ Sbatch(p) \/ RecordStatus(p) \/ SubmitReturn(p)
              \/ TickStart(p) \/ TickQuery(p) \/ TickReturn(p)
              \/ /\ Exit(p) /\ UNCHANGED <<files, slurm>>
                 /\ pc[p] = "record" => "abort" \in Env
              \/ LosesId(p)
              \/ \E j \in Job : \/ Preseed(p, j) \/ RenderBatch(p, j)
                               \/ TickRead(p, j) \/ TickKeep(p, j) \/ TickWrite(p, j)
         \/ \E id \in SlurmId, from \in {"Pending", "Running"}, to \in JobState :
              /\ SlurmStep(id, from, to)
              /\ \/ from = "Running" \/ to = "Cancelled"
                 \/ \A d \in slurm[id].deps : Satisfied(d)
         \/ EditFlow
         \/ UNCHANGED vars
<1>1. CASE \E p \in Proc : SubmitStep(p) \/ TickStep(p) \/ Finish(p) \/ Abort(p)
  BY <1>1 DEF SubmitStep, TickStep, Finish, Abort, RejectJob, SbatchFails, LosesId
<1>2. CASE \E id \in SlurmId : SlurmNext(id)
  <2>1. {"Pending", "Running", "Completed", "Failed", "Cancelled"} \subseteq JobState
    BY DEF JobState, WaitingStates, AliveStates, FailureStates
  <2>2. QED
    BY <1>2, <2>1 DEF SlurmNext, SlurmStart, SlurmEnd, SlurmRequeue, SlurmCancel
<1>3. QED
  BY <1>1, <1>2 DEF Next

(* SLURM's jobs change by sbatch and by SLURM's own steps.                   *)
LEMMA SlurmCases ==
  ASSUME [Next]_vars
  PROVE  \/ UNCHANGED slurm
         \/ \E p \in Proc : QueueJob(p)
         \/ \E id \in SlurmId, from \in {"Pending", "Running"}, to \in JobState :
              /\ SlurmStep(id, from, to)
              /\ \/ from = "Running" \/ to = "Cancelled"
                 \/ \A d \in slurm[id].deps : Satisfied(d)
<1>1. ASSUME NEW p \in Proc,
             SubmitStart(p) \/ EffectiveStart(p) \/ TickStart(p)
      PROVE  UNCHANGED slurm
  BY <1>1 DEF SubmitStart, EffectiveStart, TickStart, Start
<1>2. ASSUME NEW p \in Proc, WriteSnapshot(p) \/ Preflight(p) \/ RecordStatus(p)
      PROVE  UNCHANGED slurm
  BY <1>2 DEF WriteSnapshot, Preflight, RecordStatus
<1>3. ASSUME NEW p \in Proc, SubmitReturn(p) \/ TickQuery(p) \/ TickReturn(p)
      PROVE  UNCHANGED slurm
  BY <1>3 DEF SubmitReturn, TickQuery, TickReturn
<1>4. ASSUME NEW p \in Proc, NEW j \in Job, Preseed(p, j) \/ RenderBatch(p, j)
      PROVE  UNCHANGED slurm
  BY <1>4 DEF Preseed, RenderBatch
<1>5. ASSUME NEW p \in Proc, NEW j \in Job,
             TickRead(p, j) \/ TickKeep(p, j) \/ TickWrite(p, j)
      PROVE  UNCHANGED slurm
  BY <1>5 DEF TickRead, TickKeep, TickWrite
<1>6. ASSUME EditFlow
      PROVE  UNCHANGED slurm
  BY <1>6 DEF EditFlow
<1>7. UNCHANGED vars => UNCHANGED slurm
  BY DEF vars
<1>8. \A p \in Proc : Sbatch(p) \/ LosesId(p) => QueueJob(p)
  BY DEF Sbatch, LosesId
<1>9. QED
  BY <1>1, <1>2, <1>3, <1>4, <1>5, <1>6, <1>7, <1>8, NextCases

(* What the constants say of a flow.                                        *)
LEMMA FlowShape ==
  ASSUME NEW f \in Flow
  PROVE  f.jobs \subseteq Job /\ f.parents \in [Job -> SUBSET Edge] /\ f # None
BY FlowAssumption, NoneAssumption DEF IsFlow

(* The job a submission hands over, under an id SLURM has not used.         *)
LEMMA NewJob ==
  ASSUME IInv, NEW p \in Proc, QueueJob(p)
  PROVE  /\ NewId \in SlurmId /\ slurm[NewId] = None
         /\ SubmittedJob(p) \in SlurmJob /\ SubmittedJob(p) # None
         /\ slurm' = [slurm EXCEPT ![NewId] = SubmittedJob(p)]
         /\ cur[p] \in todo[p] /\ cur[p] \in flow[p].jobs /\ cur[p] \in Job
         /\ flow[p] \in Flow /\ Orderable(flow[p]) /\ cmd[p] = "submit"
<1>1. /\ cur[p] \in todo[p] /\ flow[p] \in Flow /\ batch[cur[p]] # None
      /\ cmd[p] = "submit" /\ Orderable(flow[p]) /\ todo[p] \subseteq flow[p].jobs
  BY DEF IInv, CommandFits, LoopFits, QueueJob
<1>2. cur[p] \in Job /\ cur[p] \in flow[p].jobs /\ batch[cur[p]] \in Flow
  BY <1>1, FlowShape DEF IInv, TypeOK
<1>3. BuildDependency(flow[p], cur[p], submitted[p]) \in SUBSET [id: SlurmId, kind: Kind]
  <2>1. /\ flow[p].parents[cur[p]] \in SUBSET Edge
        /\ submitted[p] \in [Job -> SlurmId \cup {None}]
    BY <1>1, <1>2, FlowShape DEF IInv, TypeOK
  <2>2. QED
    BY <2>1 DEF BuildDependency, Edge
<1>4. SubmittedJob(p) \in SlurmJob
  BY <1>1, <1>2, <1>3 DEF IInv, TypeOK, SubmittedJob, SlurmJob, JobState, WaitingStates
<1>5. QED
  BY <1>1, <1>2, <1>4, FreshId, NoneAssumption DEF QueueJob

(* What a tick writes is a status, and true if what it read is.             *)
LEMMA UpdatedSound ==
  ASSUME TypeOK, CacheTrue, ReplyTrue, NEW p \in Proc, NEW j \in Job, cache[p][j] # None
  PROVE  Updated(p, j) \in JobRun /\ Truth(j, Updated(p, j))
<1> DEFINE run == cache[p][j]
           q == reply[p][run.slurm_jobid]
           P == {cache[p][i].lifecycle : i \in {i \in Parents(flow[p], j) : cache[p][i] # None}}
           o == Outcome(run.lifecycle, DecideTransition(run.lifecycle, q, P))
<1>1. run \in JobRun /\ run.lifecycle \in Lifecycle /\ run.slurm_jobid \in SlurmId
  BY DEF TypeOK, JobRun
<1>2. q \in JobState \cup {NoState}
  BY <1>1 DEF TypeOK
<1>3. /\ o \in Lifecycle
      /\ o = "Success" => run.lifecycle = "Success" \/ q = "Completed"
      /\ o = "Failed" => run.lifecycle = "Failed" \/ q \in FailureStates
  BY <1>1, <1>2, OutcomeSound
<1>4. /\ Updated(p, j).lifecycle = o
      /\ Updated(p, j).slurm_jobid = run.slurm_jobid
  BY DEF Updated, Decide
<1>5. Updated(p, j) \in JobRun
  BY <1>1, <1>2, <1>3 DEF Updated, Decide, JobRun
<1>6. /\ Truth(j, run)
      /\ q = "Completed" => slurm[run.slurm_jobid].state = "Completed"
      /\ q \in FailureStates => slurm[run.slurm_jobid].state \in FailureStates
  BY <1>1 DEF CacheTrue, ReplyTrue
<1> HIDE DEF q, P, o, run
<1>7. Truth(j, Updated(p, j))
  BY <1>3, <1>4, <1>6 DEF Truth
<1>8. QED
  BY <1>5, <1>7

(* Every step keeps the types.                                             *)
LEMMA TypeStep ==
  ASSUME IInv, [Next]_vars
  PROVE  TypeOK'
<1>1. ASSUME NEW p \in Proc, SubmitStart(p)
      PROVE  TypeOK'
  BY <1>1, FlowShape DEF IInv, TypeOK, CommandFits, SubmitLabel, TickLabel, Command,
     SubmitStart, Start, files
<1>2. ASSUME NEW p \in Proc, EffectiveStart(p)
      PROVE  TypeOK'
  BY <1>2, FlowShape DEF IInv, TypeOK, CommandFits, SubmitLabel, TickLabel, Command,
     EffectiveStart, Start, files
<1>3. ASSUME NEW p \in Proc, WriteSnapshot(p)
      PROVE  TypeOK'
  BY <1>3, FlowShape DEF IInv, TypeOK, CommandFits, SubmitLabel, TickLabel, Command,
     WriteSnapshot, files
<1>4. ASSUME NEW p \in Proc, NEW j \in Job, Preseed(p, j)
      PROVE  TypeOK'
  <2>1. status[j] # None => status[j].slurm_jobid \in SlurmId
    BY DEF IInv, TypeOK, JobRun
  <2>2. submitted' \in [Proc -> [Job -> SlurmId \cup {None}]]
    <3>1. submitted \in [Proc -> [Job -> SlurmId \cup {None}]]
      BY DEF IInv, TypeOK
    <3>2. CASE UNCHANGED submitted
      BY <3>1, <3>2
    <3>3. CASE status[j] # None /\ submitted' = [submitted EXCEPT ![p][j] = status[j].slurm_jobid]
      BY <1>4, <2>1, <3>1, <3>3
    <3>4. QED
      BY <1>4, <3>2, <3>3 DEF Preseed
  <2>3. QED
    BY <1>4, <2>2 DEF IInv, TypeOK, Preseed, files
<1>5. ASSUME NEW p \in Proc, Preflight(p)
      PROVE  TypeOK'
  BY <1>5, FlowShape DEF IInv, TypeOK, CommandFits, SubmitLabel, TickLabel, Command,
     Preflight, files
<1>6. ASSUME NEW p \in Proc, NEW j \in Job, RenderBatch(p, j)
      PROVE  TypeOK'
  <2>1. flow[p] \in Flow
    BY <1>6 DEF IInv, CommandFits, RenderBatch
  <2>2. batch' \in [Job -> Flow \cup {None}]
    BY <1>6, <2>1 DEF IInv, TypeOK, RenderBatch, Rendered
  <2>3. /\ pc' \in [Proc -> {"idle"} \cup SubmitLabel \cup TickLabel]
        /\ cur' \in [Proc -> Job \cup {None}]
        /\ todo' \in [Proc -> SUBSET Job]
    <3>1. /\ pc \in [Proc -> {"idle"} \cup SubmitLabel \cup TickLabel]
          /\ cur \in [Proc -> Job \cup {None}] /\ todo \in [Proc -> SUBSET Job]
      BY DEF IInv, TypeOK
    <3>2. CASE cmd[p] = "render"
      BY <1>6, <3>1, <3>2 DEF RenderBatch, Rendered
    <3>3. CASE cmd[p] # "render"
      BY <1>6, <3>1, <3>3 DEF RenderBatch, SubmitLabel
    <3>4. QED
      BY <3>2, <3>3
  <2>4. QED
    BY <1>6, <2>2, <2>3 DEF IInv, TypeOK, RenderBatch, Rendered, files
<1>7. ASSUME NEW p \in Proc, Sbatch(p)
      PROVE  TypeOK'
  <2>1. /\ NewId \in SlurmId /\ SubmittedJob(p) \in SlurmJob /\ cur[p] \in Job
        /\ slurm' = [slurm EXCEPT ![NewId] = SubmittedJob(p)]
    BY <1>7, NewJob DEF Sbatch
  <2>2. slurm' \in [SlurmId -> SlurmJob \cup {None}]
    BY <2>1 DEF IInv, TypeOK
  <2>3. /\ submitted' \in [Proc -> [Job -> SlurmId \cup {None}]]
        /\ issued' \in [Proc -> SUBSET SlurmId]
        /\ pc' \in [Proc -> {"idle"} \cup SubmitLabel \cup TickLabel]
    BY <1>7, <2>1 DEF IInv, TypeOK, Sbatch, QueueJob, Inserted, SubmitLabel
  <2>4. QED
    BY <1>7, <2>2, <2>3 DEF IInv, TypeOK, Sbatch, QueueJob, Inserted, files
<1>8. ASSUME NEW p \in Proc, RecordStatus(p)
      PROVE  TypeOK'
  <2>1. cur[p] \in Job /\ submitted[p][cur[p]] \in SlurmId
    BY <1>8 DEF IInv, TypeOK, LoopFits, LoopFresh, Fresh, RecordStatus
  <2>2. [lifecycle |-> "Queued", slurm_jobid |-> submitted[p][cur[p]],
         slurm_status |-> NoState] \in JobRun
    BY <2>1 DEF JobRun, Lifecycle
  <2>3. status' \in [Job -> JobRun \cup {None}]
    BY <1>8, <2>1, <2>2 DEF IInv, TypeOK, RecordStatus
  <2>4. QED
    BY <1>8, <2>3 DEF IInv, TypeOK, RecordStatus, files, SubmitLabel
<1>9. ASSUME NEW p \in Proc, SubmitReturn(p)
      PROVE  TypeOK'
  BY <1>9, FlowShape DEF IInv, TypeOK, CommandFits, SubmitLabel, TickLabel, Command,
     SubmitReturn, files
<1>10. ASSUME NEW p \in Proc, TickStart(p)
      PROVE  TypeOK'
  BY <1>10, FlowShape DEF IInv, TypeOK, CommandFits, SubmitLabel, TickLabel, Command,
     TickStart, Start, files
<1>11. ASSUME NEW p \in Proc, NEW j \in Job, TickRead(p, j)
      PROVE  TypeOK'
  BY <1>11, FlowShape DEF IInv, TypeOK, CommandFits, SubmitLabel, TickLabel, Command,
     TickRead, files
<1>12. ASSUME NEW p \in Proc, TickQuery(p)
      PROVE  TypeOK'
  <2>1. ASSUME NEW id \in QueryIds(p) PROVE id \in SlurmId /\ slurm[id].state \in JobState
    <3>1. PICK j \in flow[p].jobs : cache[p][j] # None /\ id = cache[p][j].slurm_jobid
      BY <2>1 DEF QueryIds
    <3>2. j \in Job /\ cache[p][j] \in JobRun
      <4>1. flow[p] \in Flow
        BY <1>12 DEF IInv, CommandFits, TickQuery
      <4>2. j \in Job
        BY <3>1, <4>1, FlowShape
      <4>3. QED
        BY <3>1, <4>2 DEF IInv, TypeOK
    <3>3. id \in SlurmId /\ slurm[id] # None
      BY <3>1, <3>2 DEF IInv, JobRun, CacheTrue, Truth
    <3>4. QED
      BY <3>3 DEF IInv, TypeOK, SlurmJob
  <2>2. NoState \in JobState \cup {NoState} /\ "Unknown" \in JobState
    BY DEF JobState
  <2>3. reply' \in [Proc -> [SlurmId -> JobState \cup {NoState}]]
    BY <1>12, <2>1, <2>2 DEF IInv, TypeOK, TickQuery
  <2>4. todo' \in [Proc -> SUBSET Job] /\ pc' \in [Proc -> {"idle"} \cup SubmitLabel \cup TickLabel]
    BY <1>12, FlowShape DEF IInv, TypeOK, CommandFits, TickQuery, TickLabel
  <2>5. QED
    BY <1>12, <2>3, <2>4 DEF IInv, TypeOK, TickQuery, files
<1>13. ASSUME NEW p \in Proc, NEW j \in Job, TickKeep(p, j)
      PROVE  TypeOK'
  BY <1>13, FlowShape DEF IInv, TypeOK, CommandFits, SubmitLabel, TickLabel, Command,
     TickKeep, files
<1>14. ASSUME NEW p \in Proc, NEW j \in Job, TickWrite(p, j)
      PROVE  TypeOK'
  <2>1. Updated(p, j) \in JobRun
    BY <1>14, UpdatedSound DEF IInv, TickWrite
  <2>2. /\ status' \in [Job -> JobRun \cup {None}]
        /\ cache' \in [Proc -> [Job -> JobRun \cup {None}]]
        /\ todo' \in [Proc -> SUBSET Job]
    BY <1>14, <2>1 DEF IInv, TypeOK, TickWrite
  <2>3. QED
    BY <1>14, <2>2 DEF IInv, TypeOK, TickWrite, files
<1>15. ASSUME NEW p \in Proc, TickReturn(p)
      PROVE  TypeOK'
  BY <1>15, FlowShape DEF IInv, TypeOK, CommandFits, SubmitLabel, TickLabel, Command,
     TickReturn, files
<1>16. ASSUME NEW p \in Proc, Exit(p), UNCHANGED <<files, slurm>>
      PROVE  TypeOK'
  BY <1>16 DEF IInv, TypeOK, Exit, files, NoIds, NoRuns, EmptyReply
<1>17. ASSUME NEW id \in SlurmId, NEW from \in {"Pending", "Running"}, NEW to \in JobState,
             SlurmStep(id, from, to)
      PROVE  TypeOK'
  <2>1. slurm[id] \in SlurmJob
    BY <1>17 DEF IInv, TypeOK, SlurmStep
  <2>2. [slurm[id] EXCEPT !.state = to] \in SlurmJob
    BY <2>1 DEF SlurmJob
  <2>3. slurm' = [slurm EXCEPT ![id] = [slurm[id] EXCEPT !.state = to]]
    BY <1>17 DEF SlurmStep
  <2>4. slurm' \in [SlurmId -> SlurmJob \cup {None}]
    BY <2>2, <2>3 DEF IInv, TypeOK
  <2>5. QED
    BY <1>17, <2>4 DEF IInv, TypeOK, SlurmStep, files, locals
<1>18. ASSUME EditFlow
      PROVE  TypeOK'
  BY <1>18, FlowShape DEF IInv, TypeOK, CommandFits, SubmitLabel, TickLabel, Command,
     EditFlow, locals
<1>19. ASSUME UNCHANGED vars
      PROVE  TypeOK'
  BY <1>19, FlowShape DEF IInv, TypeOK, CommandFits, SubmitLabel, TickLabel, Command,
     vars
<1>20. ASSUME NEW p \in Proc, LosesId(p)
       PROVE  TypeOK'
  <2>1. slurm' \in [SlurmId -> SlurmJob \cup {None}]
    BY <1>20, NewJob DEF IInv, TypeOK, LosesId
  <2>2. QED
    BY <1>20, <2>1 DEF IInv, TypeOK, LosesId, Exit, files, NoIds, NoRuns, EmptyReply
<1>21. QED
  BY <1>1, <1>2, <1>3, <1>4, <1>5, <1>6, <1>7, <1>8, <1>9, <1>10,
     <1>11, <1>12, <1>13, <1>14, <1>15, <1>16, <1>17, <1>18, <1>19, <1>20,
     NextCases

(* Every step keeps a command, its label, its flow and its map in line.     *)
LEMMA FitStep ==
  ASSUME IInv, [Next]_vars
  PROVE  CommandFits' /\ LoopFits' /\ MapFits'
<1>1. ASSUME NEW p \in Proc, SubmitStart(p)
      PROVE  CommandFits' /\ LoopFits' /\ MapFits'
  <2>1. CommandFits'
    BY <1>1 DEF IInv, TypeOK, CommandFits, SubmitStart, Start, files
  <2>2. LoopFits'
    BY <1>1, FlowShape DEF IInv, TypeOK, CommandFits, LoopFits, IsNext, SubmitStart, Start, files
  <2>3. MapFits'
    BY <1>1 DEF IInv, TypeOK, CommandFits, LoopFits, MapFits, NoIds, SubmitStart, Start, files
  <2>4. QED
    BY <2>1, <2>2, <2>3
<1>2. ASSUME NEW p \in Proc, EffectiveStart(p)
      PROVE  CommandFits' /\ LoopFits' /\ MapFits'
  <2>1. CommandFits'
    BY <1>2 DEF IInv, TypeOK, CommandFits, EffectiveStart, Start, files
  <2>2. LoopFits'
    BY <1>2, FlowShape DEF IInv, TypeOK, CommandFits, LoopFits, IsNext, EffectiveStart, Start, files
  <2>3. MapFits'
    BY <1>2 DEF IInv, TypeOK, CommandFits, LoopFits, MapFits, NoIds, EffectiveStart, Start, files
  <2>4. QED
    BY <2>1, <2>2, <2>3
<1>3. ASSUME NEW p \in Proc, WriteSnapshot(p)
      PROVE  CommandFits' /\ LoopFits' /\ MapFits'
  <2>1. CommandFits'
    BY <1>3 DEF IInv, TypeOK, CommandFits, WriteSnapshot, files
  <2>2. LoopFits'
    BY <1>3, FlowShape DEF IInv, TypeOK, CommandFits, LoopFits, IsNext, WriteSnapshot, files
  <2>3. MapFits'
    BY <1>3 DEF IInv, TypeOK, CommandFits, LoopFits, MapFits, WriteSnapshot, files
  <2>4. QED
    BY <2>1, <2>2, <2>3
<1>4. ASSUME NEW p \in Proc, NEW j \in Job, Preseed(p, j)
      PROVE  CommandFits' /\ LoopFits' /\ MapFits'
  <2>1. CommandFits' /\ LoopFits'
    BY <1>4 DEF IInv, TypeOK, CommandFits, LoopFits, Preseed, files
  <2>2. MapFits'
    <3>1. j \in flow[p].jobs /\ pc' = pc /\ flow' = flow /\ pc[p] # "idle"
      BY <1>4 DEF IInv, TypeOK, CommandFits, Preseed
    <3>2. CASE UNCHANGED submitted
      BY <3>1, <3>2 DEF IInv, MapFits
    <3>3. CASE submitted' = [submitted EXCEPT ![p][j] = status[j].slurm_jobid]
      BY <3>1, <3>3 DEF IInv, TypeOK, MapFits
    <3>4. QED
      BY <1>4, <3>2, <3>3 DEF Preseed
  <2>3. QED
    BY <2>1, <2>2
<1>5. ASSUME NEW p \in Proc, Preflight(p)
      PROVE  CommandFits' /\ LoopFits' /\ MapFits'
  <2>1. CommandFits'
    BY <1>5 DEF IInv, TypeOK, CommandFits, Preflight, files
  <2>2. LoopFits'
    BY <1>5, FlowShape DEF IInv, TypeOK, CommandFits, LoopFits, IsNext, Preflight, files
  <2>3. MapFits'
    BY <1>5 DEF IInv, TypeOK, CommandFits, LoopFits, MapFits, Preflight, files
  <2>4. QED
    BY <2>1, <2>2, <2>3
<1>6. ASSUME NEW p \in Proc, NEW j \in Job, RenderBatch(p, j)
      PROVE  CommandFits' /\ LoopFits' /\ MapFits'
  <2>1. CASE cmd[p] = "render"
    <3>1. /\ pc' = pc /\ cur' = cur /\ todo' = [todo EXCEPT ![p] = @ \ {j}]
          /\ cmd' = cmd /\ flow' = flow /\ submitted' = submitted
          /\ batch' = [batch EXCEPT ![j] = flow[p]]
      BY <1>6, <2>1 DEF RenderBatch, Rendered
    <3>2. pc[p] = "render" /\ flow[p] \in Flow /\ flow[p] # None
      BY <1>6, FlowShape DEF IInv, CommandFits, RenderBatch
    <3>3. CommandFits'
      BY <3>1, <3>2 DEF IInv, TypeOK, CommandFits
    <3>4. LoopFits'
      BY <3>1, <3>2 DEF IInv, TypeOK, LoopFits
    <3>5. MapFits'
      BY <3>1, <3>2 DEF IInv, TypeOK, MapFits
    <3>6. QED
      BY <3>3, <3>4, <3>5
  <2>2. CASE cmd[p] # "render"
    <3>1. /\ pc' = [pc EXCEPT ![p] = "sbatch"] /\ cur' = [cur EXCEPT ![p] = j]
          /\ todo' = todo /\ cmd' = cmd /\ flow' = flow /\ submitted' = submitted
          /\ batch' = [batch EXCEPT ![j] = flow[p]]
      BY <1>6, <2>2 DEF RenderBatch, Rendered
    <3>2. /\ pc[p] = "render" /\ cmd[p] = "submit" /\ flow[p] \in Flow /\ flow[p] # None
          /\ j \in todo[p] /\ Parents(flow[p], j) \cap todo[p] = {}
      BY <1>6, <2>2, FlowShape DEF IInv, CommandFits, RenderBatch, IsNext
    <3>3. CommandFits'
      BY <3>1, <3>2 DEF IInv, TypeOK, CommandFits
    <3>4. LoopFits'
      BY <3>1, <3>2 DEF IInv, TypeOK, LoopFits
    <3>5. MapFits'
      BY <3>1, <3>2 DEF IInv, TypeOK, MapFits
    <3>6. QED
      BY <3>3, <3>4, <3>5
  <2>3. QED
    BY <2>1, <2>2
<1>7. ASSUME NEW p \in Proc, Sbatch(p)
      PROVE  CommandFits' /\ LoopFits' /\ MapFits'
  <2>1. CommandFits'
    BY <1>7 DEF IInv, TypeOK, CommandFits, Sbatch, QueueJob, files
  <2>2. LoopFits'
    BY <1>7, FlowShape DEF IInv, TypeOK, CommandFits, LoopFits, IsNext, Sbatch, QueueJob, files
  <2>3. MapFits'
    BY <1>7 DEF IInv, TypeOK, CommandFits, LoopFits, MapFits, Sbatch, QueueJob, Inserted, files
  <2>4. QED
    BY <2>1, <2>2, <2>3
<1>8. ASSUME NEW p \in Proc, RecordStatus(p)
      PROVE  CommandFits' /\ LoopFits' /\ MapFits'
  <2>1. CommandFits'
    BY <1>8 DEF IInv, TypeOK, CommandFits, RecordStatus, files
  <2>2. LoopFits'
    BY <1>8, FlowShape DEF IInv, TypeOK, CommandFits, LoopFits, IsNext, RecordStatus, files
  <2>3. MapFits'
    BY <1>8 DEF IInv, TypeOK, CommandFits, LoopFits, MapFits, RecordStatus, files
  <2>4. QED
    BY <2>1, <2>2, <2>3
<1>9. ASSUME NEW p \in Proc, SubmitReturn(p)
      PROVE  CommandFits' /\ LoopFits' /\ MapFits'
  <2>1. CommandFits'
    BY <1>9 DEF IInv, TypeOK, CommandFits, SubmitReturn, files
  <2>2. LoopFits'
    BY <1>9, FlowShape DEF IInv, TypeOK, CommandFits, LoopFits, IsNext, SubmitReturn, files
  <2>3. MapFits'
    BY <1>9 DEF IInv, TypeOK, CommandFits, LoopFits, MapFits, SubmitReturn, files
  <2>4. QED
    BY <2>1, <2>2, <2>3
<1>10. ASSUME NEW p \in Proc, TickStart(p)
      PROVE  CommandFits' /\ LoopFits' /\ MapFits'
  <2>1. CommandFits'
    BY <1>10 DEF IInv, TypeOK, CommandFits, TickStart, Start, files
  <2>2. LoopFits'
    BY <1>10, FlowShape DEF IInv, TypeOK, CommandFits, LoopFits, IsNext, TickStart, Start, files
  <2>3. MapFits'
    BY <1>10 DEF IInv, TypeOK, CommandFits, LoopFits, MapFits, NoIds, TickStart, Start, files
  <2>4. QED
    BY <2>1, <2>2, <2>3
<1>11. ASSUME NEW p \in Proc, NEW j \in Job, TickRead(p, j)
      PROVE  CommandFits' /\ LoopFits' /\ MapFits'
  <2>1. CommandFits'
    BY <1>11 DEF IInv, TypeOK, CommandFits, TickRead, files
  <2>2. LoopFits'
    BY <1>11, FlowShape DEF IInv, TypeOK, CommandFits, LoopFits, IsNext, TickRead, files
  <2>3. MapFits'
    BY <1>11 DEF IInv, TypeOK, CommandFits, LoopFits, MapFits, TickRead, files
  <2>4. QED
    BY <2>1, <2>2, <2>3
<1>12. ASSUME NEW p \in Proc, TickQuery(p)
      PROVE  CommandFits' /\ LoopFits' /\ MapFits'
  <2>1. CommandFits'
    BY <1>12 DEF IInv, TypeOK, CommandFits, TickQuery, files
  <2>2. LoopFits'
    BY <1>12, FlowShape DEF IInv, TypeOK, CommandFits, LoopFits, IsNext, TickQuery, files
  <2>3. MapFits'
    BY <1>12 DEF IInv, TypeOK, CommandFits, LoopFits, MapFits, TickQuery, files
  <2>4. QED
    BY <2>1, <2>2, <2>3
<1>13. ASSUME NEW p \in Proc, NEW j \in Job, TickKeep(p, j)
      PROVE  CommandFits' /\ LoopFits' /\ MapFits'
  <2>1. CommandFits'
    BY <1>13 DEF IInv, TypeOK, CommandFits, TickKeep, files
  <2>2. LoopFits'
    BY <1>13, FlowShape DEF IInv, TypeOK, CommandFits, LoopFits, IsNext, TickKeep, files
  <2>3. MapFits'
    BY <1>13 DEF IInv, TypeOK, CommandFits, LoopFits, MapFits, TickKeep, files
  <2>4. QED
    BY <2>1, <2>2, <2>3
<1>14. ASSUME NEW p \in Proc, NEW j \in Job, TickWrite(p, j)
      PROVE  CommandFits' /\ LoopFits' /\ MapFits'
  <2>1. CommandFits'
    BY <1>14 DEF IInv, TypeOK, CommandFits, TickWrite, files
  <2>2. LoopFits'
    BY <1>14, FlowShape DEF IInv, TypeOK, CommandFits, LoopFits, IsNext, TickWrite, files
  <2>3. MapFits'
    BY <1>14 DEF IInv, TypeOK, CommandFits, LoopFits, MapFits, TickWrite, files
  <2>4. QED
    BY <2>1, <2>2, <2>3
<1>15. ASSUME NEW p \in Proc, TickReturn(p)
      PROVE  CommandFits' /\ LoopFits' /\ MapFits'
  <2>1. CommandFits'
    BY <1>15 DEF IInv, TypeOK, CommandFits, TickReturn, files
  <2>2. LoopFits'
    BY <1>15, FlowShape DEF IInv, TypeOK, CommandFits, LoopFits, IsNext, TickReturn, files
  <2>3. MapFits'
    BY <1>15 DEF IInv, TypeOK, CommandFits, LoopFits, MapFits, TickReturn, files
  <2>4. QED
    BY <2>1, <2>2, <2>3
<1>16. ASSUME NEW p \in Proc, Exit(p), UNCHANGED files
      PROVE  CommandFits' /\ LoopFits' /\ MapFits'
  <2>1. CommandFits'
    BY <1>16, NoneAssumption DEF IInv, TypeOK, CommandFits, Command, Exit, files
  <2>2. LoopFits'
    BY <1>16, FlowShape DEF IInv, TypeOK, CommandFits, LoopFits, IsNext, Exit, files
  <2>3. MapFits'
    BY <1>16 DEF IInv, TypeOK, CommandFits, LoopFits, MapFits, NoIds, Exit, files
  <2>4. QED
    BY <2>1, <2>2, <2>3
<1>17. ASSUME NEW id \in SlurmId, NEW from \in {"Pending", "Running"}, NEW to \in JobState,
             SlurmStep(id, from, to)
      PROVE  CommandFits' /\ LoopFits' /\ MapFits'
  <2>1. CommandFits'
    BY <1>17 DEF IInv, TypeOK, CommandFits, SlurmStep, files, locals
  <2>2. LoopFits'
    BY <1>17, FlowShape DEF IInv, TypeOK, CommandFits, LoopFits, IsNext, SlurmStep, files, locals
  <2>3. MapFits'
    BY <1>17 DEF IInv, TypeOK, CommandFits, LoopFits, MapFits, SlurmStep, files, locals
  <2>4. QED
    BY <2>1, <2>2, <2>3
<1>18. ASSUME EditFlow
      PROVE  CommandFits' /\ LoopFits' /\ MapFits'
  <2>1. CommandFits'
    BY <1>18 DEF IInv, TypeOK, CommandFits, EditFlow, locals
  <2>2. LoopFits'
    BY <1>18, FlowShape DEF IInv, TypeOK, CommandFits, LoopFits, IsNext, EditFlow, locals
  <2>3. MapFits'
    BY <1>18 DEF IInv, TypeOK, CommandFits, LoopFits, MapFits, EditFlow, locals
  <2>4. QED
    BY <2>1, <2>2, <2>3
<1>19. ASSUME UNCHANGED vars
      PROVE  CommandFits' /\ LoopFits' /\ MapFits'
  <2>1. CommandFits'
    BY <1>19 DEF IInv, TypeOK, CommandFits, vars
  <2>2. LoopFits'
    BY <1>19, FlowShape DEF IInv, TypeOK, CommandFits, LoopFits, IsNext, vars
  <2>3. MapFits'
    BY <1>19 DEF IInv, TypeOK, CommandFits, LoopFits, MapFits, vars
  <2>4. QED
    BY <2>1, <2>2, <2>3
<1>20. ASSUME NEW p \in Proc, (Exit(p) /\ UNCHANGED <<files, slurm>>) \/ LosesId(p)
       PROVE  CommandFits' /\ LoopFits' /\ MapFits'
  BY <1>16, <1>20 DEF LosesId
<1>21. QED
  BY <1>1, <1>2, <1>3, <1>4, <1>5, <1>6, <1>7, <1>8, <1>9, <1>10,
     <1>11, <1>12, <1>13, <1>14, <1>15, <1>17, <1>18, <1>19, <1>20,
     NextCases

(* SLURM's record of an id: it stays, all but its state, and an end state   *)
(* stays too.                                                               *)
Grows ==
  \A id \in SlurmId : slurm[id] # None =>
    /\ slurm'[id] # None
    /\ slurm'[id].job = slurm[id].job
    /\ slurm'[id].flow = slurm[id].flow
    /\ slurm'[id].script = slurm[id].script
    /\ slurm'[id].deps = slurm[id].deps
    /\ slurm'[id].earlier = slurm[id].earlier
    /\ slurm'[id].prior = slurm[id].prior
    /\ slurm[id].state = "Completed" => slurm'[id].state = "Completed"
    /\ slurm[id].state \in FailureStates => slurm'[id].state \in FailureStates

LEMMA StepGrows ==
  ASSUME IInv, [Next]_vars
  PROVE  Grows
<1>1. CASE UNCHANGED slurm
  BY <1>1 DEF Grows
<1>2. ASSUME NEW p \in Proc, QueueJob(p)
      PROVE  Grows
  BY <1>2, NewJob DEF IInv, TypeOK, Grows
<1>3. ASSUME NEW id \in SlurmId, NEW from \in {"Pending", "Running"}, NEW to \in JobState,
             SlurmStep(id, from, to)
      PROVE  Grows
  <2>1. /\ slurm' = [slurm EXCEPT ![id] = [slurm[id] EXCEPT !.state = to]]
        /\ slurm[id] \in SlurmJob /\ slurm[id].state = from
    BY <1>3 DEF IInv, TypeOK, SlurmStep
  <2>2. [slurm[id] EXCEPT !.state = to] \in SlurmJob
    BY <2>1 DEF SlurmJob
  <2>3. /\ [slurm[id] EXCEPT !.state = to] # None
        /\ [slurm[id] EXCEPT !.state = to].job = slurm[id].job
        /\ [slurm[id] EXCEPT !.state = to].flow = slurm[id].flow
        /\ [slurm[id] EXCEPT !.state = to].script = slurm[id].script
        /\ [slurm[id] EXCEPT !.state = to].deps = slurm[id].deps
        /\ [slurm[id] EXCEPT !.state = to].earlier = slurm[id].earlier
        /\ [slurm[id] EXCEPT !.state = to].prior = slurm[id].prior
    BY <2>1, <2>2, NoneAssumption DEF SlurmJob
  <2>4. from # "Completed" /\ from \notin FailureStates
    BY DEF FailureStates
  <2>5. QED
    BY <2>1, <2>3, <2>4 DEF IInv, TypeOK, Grows
<1>4. QED
  BY <1>1, <1>2, <1>3, SlurmCases

(* What SLURM has given out: what it had, and perhaps a new id.             *)
LEMMA IssuedCases ==
  ASSUME IInv, [Next]_vars
  PROVE  \/ Issued' = Issued
         \/ \E p \in Proc : QueueJob(p) /\ Issued' = Issued \cup {NewId}
<1>1. UNCHANGED slurm => Issued' = Issued
  BY DEF Issued
<1>2. ASSUME NEW p \in Proc, QueueJob(p)
      PROVE  Issued' = Issued \cup {NewId}
  BY <1>2, NewJob DEF IInv, TypeOK, Issued
<1>3. ASSUME NEW id \in SlurmId, NEW from \in {"Pending", "Running"}, NEW to \in JobState,
             SlurmStep(id, from, to)
      PROVE  Issued' = Issued
  <2>1. Issued' \subseteq Issued
    BY <1>3 DEF IInv, TypeOK, SlurmStep, Issued
  <2>2. Issued \subseteq Issued'
    BY StepGrows DEF Grows, Issued
  <2>3. QED
    BY <2>1, <2>2
<1>4. QED
  BY <1>1, <1>2, <1>3, SlurmCases

(* Every step keeps the ids of a submission its own.                        *)
LEMMA FreshStep ==
  ASSUME IInv, [Next]_vars
  PROVE  LoopFresh'
<1>1. ASSUME NEW p \in Proc, SubmitStart(p)
      PROVE  LoopFresh'
  BY <1>1 DEF IInv, TypeOK, CommandFits, LoopFits, LoopFresh, Fresh, SubmitStart, Start, files
<1>2. ASSUME NEW p \in Proc, EffectiveStart(p)
      PROVE  LoopFresh'
  BY <1>2 DEF IInv, TypeOK, CommandFits, LoopFits, LoopFresh, Fresh, EffectiveStart, Start, files
<1>3. ASSUME NEW p \in Proc, WriteSnapshot(p)
      PROVE  LoopFresh'
  BY <1>3 DEF IInv, TypeOK, CommandFits, LoopFits, LoopFresh, Fresh, WriteSnapshot, files
<1>4. ASSUME NEW p \in Proc, NEW j \in Job, Preseed(p, j)
      PROVE  LoopFresh'
  BY <1>4 DEF IInv, TypeOK, CommandFits, LoopFits, LoopFresh, Fresh, Preseed, files
<1>5. ASSUME NEW p \in Proc, Preflight(p)
      PROVE  LoopFresh'
  BY <1>5 DEF IInv, TypeOK, CommandFits, LoopFits, LoopFresh, Fresh, Preflight, files
<1>6. ASSUME NEW p \in Proc, NEW j \in Job, RenderBatch(p, j)
      PROVE  LoopFresh'
  <2>1. /\ cmd' = cmd /\ flow' = flow /\ submitted' = submitted /\ issued' = issued
        /\ slurm' = slurm /\ pc[p] = "render"
    BY <1>6 DEF RenderBatch, Rendered, files
  <2>2. CASE cmd[p] = "render"
    <3>1. pc' = pc /\ cur' = cur /\ \A q \in Proc : q # p => todo'[q] = todo[q]
      BY <1>6, <2>2 DEF IInv, TypeOK, RenderBatch, Rendered
    <3>2. QED
      BY <2>1, <2>2, <3>1 DEF IInv, LoopFresh, Fresh
  <2>3. CASE cmd[p] # "render"
    <3>1. /\ pc' = [pc EXCEPT ![p] = "sbatch"] /\ todo' = todo
          /\ \A q \in Proc : q # p => cur'[q] = cur[q]
      BY <1>6, <2>3 DEF IInv, TypeOK, RenderBatch, Rendered
    <3>2. QED
      BY <2>1, <3>1 DEF IInv, TypeOK, LoopFresh, Fresh
  <2>4. QED
    BY <2>2, <2>3
<1>7. ASSUME NEW p \in Proc, Sbatch(p)
      PROVE  LoopFresh'
  <2>1. /\ pc' = [pc EXCEPT ![p] = "record"] /\ cmd' = cmd /\ flow' = flow /\ todo' = todo
        /\ cur' = cur /\ issued' = [issued EXCEPT ![p] = @ \cup {NewId}]
        /\ submitted' = [submitted EXCEPT ![p][cur[p]] = NewId] /\ pc[p] = "sbatch"
    BY <1>7 DEF Sbatch, QueueJob, Inserted, files
  <2>2. /\ NewId \in SlurmId /\ SubmittedJob(p) # None /\ cur[p] \in todo[p] /\ cur[p] \in Job
        /\ slurm' = [slurm EXCEPT ![NewId] = SubmittedJob(p)] /\ cmd[p] = "submit"
        /\ SubmittedJob(p).job = cur[p] /\ SubmittedJob(p).flow = flow[p]
    BY <1>7, NewJob DEF SubmittedJob, Sbatch
  <2>3. ASSUME NEW q \in Proc, NEW i \in Job, Fresh(q, i), q # p \/ i # cur[p]
        PROVE  Fresh(q, i)'
    <3>1. submitted'[q][i] = submitted[q][i] /\ issued[q] \subseteq issued'[q]
      BY <2>1, <2>2, <2>3 DEF IInv, TypeOK
    <3>2. submitted[q][i] \in SlurmId /\ slurm[submitted[q][i]] # None
      BY <2>3 DEF IInv, TypeOK, LoopFresh, Fresh
    <3>3. QED
      BY <2>1, <2>3, <3>1, <3>2, StepGrows DEF Fresh, Grows
  <2>4. Fresh(p, cur[p])'
    BY <2>1, <2>2 DEF IInv, TypeOK, Fresh
  <2>5. ASSUME NEW q \in Proc, NEW id \in issued'[q] PROVE slurm'[id] # None
    <3>1. id = NewId \/ (id \in SlurmId /\ slurm[id] # None)
      BY <2>1, <2>5 DEF IInv, TypeOK, LoopFresh
    <3>2. QED
      BY <2>2, <3>1, StepGrows DEF IInv, TypeOK, Grows
  <2>6. ASSUME NEW q \in Proc
        PROVE  /\ pc'[q] \in {"render", "sbatch", "record"} /\ cmd'[q] = "submit" =>
                    \A i \in flow'[q].jobs \ todo'[q] : Fresh(q, i)'
               /\ pc'[q] = "record" => Fresh(q, cur[q])'
               /\ pc'[q] = "returned" /\ cmd'[q] = "submit" =>
                    \A i \in flow'[q].jobs : Fresh(q, i)'
    <3>1. \A i \in flow[q].jobs : pc[q] # "idle" => i \in Job
      BY FlowShape DEF IInv, CommandFits
    <3>2. CASE q = p
      BY <2>1, <2>2, <2>3, <2>4, <3>1, <3>2 DEF IInv, TypeOK, LoopFresh
    <3>3. CASE q # p
      <4>1. pc'[q] = pc[q]
        BY <2>1, <3>3 DEF IInv, TypeOK
      <4>2. pc[q] = "record" => cur[q] \in Job
        BY DEF IInv, TypeOK, LoopFits
      <4>3. QED
        BY <2>1, <2>3, <3>1, <3>3, <4>1, <4>2 DEF IInv, LoopFresh
    <3>4. QED
      BY <3>2, <3>3
  <2>7. QED
    BY <2>5, <2>6 DEF LoopFresh
<1>8. ASSUME NEW p \in Proc, RecordStatus(p)
      PROVE  LoopFresh'
  BY <1>8 DEF IInv, TypeOK, CommandFits, LoopFits, LoopFresh, Fresh, RecordStatus, files
<1>9. ASSUME NEW p \in Proc, SubmitReturn(p)
      PROVE  LoopFresh'
  BY <1>9 DEF IInv, TypeOK, CommandFits, LoopFits, LoopFresh, Fresh, SubmitReturn, files
<1>10. ASSUME NEW p \in Proc, TickStart(p)
      PROVE  LoopFresh'
  BY <1>10 DEF IInv, TypeOK, CommandFits, LoopFits, LoopFresh, Fresh, TickStart, Start, files
<1>11. ASSUME NEW p \in Proc, NEW j \in Job, TickRead(p, j)
      PROVE  LoopFresh'
  BY <1>11 DEF IInv, TypeOK, CommandFits, LoopFits, LoopFresh, Fresh, TickRead, files
<1>12. ASSUME NEW p \in Proc, TickQuery(p)
      PROVE  LoopFresh'
  BY <1>12 DEF IInv, TypeOK, CommandFits, LoopFits, LoopFresh, Fresh, TickQuery, files
<1>13. ASSUME NEW p \in Proc, NEW j \in Job, TickKeep(p, j)
      PROVE  LoopFresh'
  BY <1>13 DEF IInv, TypeOK, CommandFits, LoopFits, LoopFresh, Fresh, TickKeep, files
<1>14. ASSUME NEW p \in Proc, NEW j \in Job, TickWrite(p, j)
      PROVE  LoopFresh'
  BY <1>14 DEF IInv, TypeOK, CommandFits, LoopFits, LoopFresh, Fresh, TickWrite, files
<1>15. ASSUME NEW p \in Proc, TickReturn(p)
      PROVE  LoopFresh'
  BY <1>15 DEF IInv, TypeOK, CommandFits, LoopFits, LoopFresh, Fresh, TickReturn, files
<1>16. ASSUME NEW p \in Proc, Exit(p), UNCHANGED <<files, slurm>>
      PROVE  LoopFresh'
  BY <1>16 DEF IInv, TypeOK, CommandFits, LoopFits, LoopFresh, Fresh, Exit, files
<1>17. ASSUME NEW id \in SlurmId, NEW from \in {"Pending", "Running"}, NEW to \in JobState,
             SlurmStep(id, from, to)
      PROVE  LoopFresh'
  <2>1. /\ pc' = pc /\ cmd' = cmd /\ flow' = flow /\ todo' = todo /\ cur' = cur
        /\ submitted' = submitted /\ issued' = issued
    BY <1>17 DEF SlurmStep, locals
  <2>2. ASSUME NEW p \in Proc, NEW j, Fresh(p, j)
        PROVE  Fresh(p, j)'
    BY <2>1, <2>2, StepGrows DEF IInv, TypeOK, LoopFresh, Fresh, Grows
  <2>3. \A p \in Proc : \A i \in issued'[p] : slurm'[i] # None
    BY <2>1, StepGrows DEF IInv, TypeOK, LoopFresh, Grows
  <2>4. QED
    BY <2>1, <2>2, <2>3 DEF IInv, LoopFresh
<1>18. ASSUME EditFlow
      PROVE  LoopFresh'
  BY <1>18 DEF IInv, TypeOK, CommandFits, LoopFits, LoopFresh, Fresh, EditFlow, locals
<1>19. ASSUME UNCHANGED vars
      PROVE  LoopFresh'
  BY <1>19 DEF IInv, TypeOK, CommandFits, LoopFits, LoopFresh, Fresh, vars
<1>20. ASSUME NEW p \in Proc, LosesId(p)
       PROVE  LoopFresh'
  <2>1. pc'[p] = "idle" /\ issued'[p] = {}
    BY <1>20 DEF IInv, TypeOK, LosesId, Exit
  <2>2. ASSUME NEW q \in Proc, q # p
        PROVE  /\ pc'[q] = pc[q] /\ cmd'[q] = cmd[q] /\ flow'[q] = flow[q] /\ todo'[q] = todo[q]
               /\ cur'[q] = cur[q] /\ submitted'[q] = submitted[q] /\ issued'[q] = issued[q]
    BY <1>20, <2>2 DEF IInv, TypeOK, LosesId, Exit
  <2>3. ASSUME NEW q \in Proc, NEW j, q # p, Fresh(q, j)
        PROVE  Fresh(q, j)'
    <3>1. submitted[q][j] \in SlurmId /\ slurm[submitted[q][j]] # None
      BY <2>3 DEF IInv, TypeOK, LoopFresh, Fresh
    <3>2. /\ submitted'[q][j] = submitted[q][j] /\ issued'[q] = issued[q]
          /\ flow'[q] = flow[q]
      BY <2>2, <2>3
    <3>3. QED
      BY <2>3, <3>1, <3>2, StepGrows DEF Fresh, Grows
  <2>4. ASSUME NEW q \in Proc, NEW i \in issued'[q]
        PROVE  slurm'[i] # None
    <3>1. q # p /\ i \in issued[q]
      BY <2>1, <2>2, <2>4
    <3>2. i \in SlurmId /\ slurm[i] # None
      BY <3>1 DEF IInv, TypeOK, LoopFresh
    <3>3. QED
      BY <3>2, StepGrows DEF Grows
  <2>5. ASSUME NEW q \in Proc
        PROVE  /\ pc'[q] \in {"render", "sbatch", "record"} /\ cmd'[q] = "submit" =>
                    \A i \in flow'[q].jobs \ todo'[q] : Fresh(q, i)'
               /\ pc'[q] = "record" => Fresh(q, cur[q])'
               /\ pc'[q] = "returned" /\ cmd'[q] = "submit" =>
                    \A i \in flow'[q].jobs : Fresh(q, i)'
    <3>1. CASE q = p
      BY <2>1, <3>1
    <3>2. CASE q # p
      <4>1. /\ pc[q] \in {"render", "sbatch", "record"} /\ cmd[q] = "submit" =>
                  \A i \in flow[q].jobs \ todo[q] : Fresh(q, i)
            /\ pc[q] = "record" => Fresh(q, cur[q])
            /\ pc[q] = "returned" /\ cmd[q] = "submit" => \A i \in flow[q].jobs : Fresh(q, i)
        BY DEF IInv, LoopFresh
      <4>2. Fresh(q, cur[q]) => Fresh(q, cur[q])'
        BY <2>2, <2>3, <3>2 DEF Fresh
      <4>3. QED
        BY <2>2, <2>3, <3>2, <4>1, <4>2
    <3>3. QED
      BY <3>1, <3>2
  <2>6. QED
    BY <2>4, <2>5 DEF LoopFresh
<1>21. QED
  BY <1>1, <1>2, <1>3, <1>4, <1>5, <1>6, <1>7, <1>8, <1>9, <1>10,
     <1>11, <1>12, <1>13, <1>14, <1>15, <1>16, <1>17, <1>18, <1>19, <1>20,
     NextCases

(* Every step keeps true what is known of SLURM's jobs.                     *)
LEMMA TruthStep ==
  ASSUME IInv, [Next]_vars
  PROVE  StatusTrue' /\ CacheTrue' /\ ReplyTrue'
<1>1. ASSUME NEW j \in Job, NEW run \in JobRun, Truth(j, run)
      PROVE  /\ slurm'[run.slurm_jobid] # None
             /\ slurm'[run.slurm_jobid].job = j
             /\ run.lifecycle = "Success" => slurm'[run.slurm_jobid].state = "Completed"
             /\ run.lifecycle = "Failed" => slurm'[run.slurm_jobid].state \in FailureStates
  BY <1>1, StepGrows DEF JobRun, Truth, Grows
<1>2. ASSUME NEW p \in Proc, RecordStatus(p)
      PROVE  StatusTrue' /\ UNCHANGED <<cache, reply>>
  <2> DEFINE run == [lifecycle |-> "Queued", slurm_jobid |-> submitted[p][cur[p]],
                     slurm_status |-> NoState]
  <2>1. /\ cur[p] \in Job /\ Fresh(p, cur[p]) /\ status' = [status EXCEPT ![cur[p]] = run]
    BY <1>2 DEF IInv, TypeOK, LoopFits, LoopFresh, RecordStatus
  <2>2. run \in JobRun /\ Truth(cur[p], run)
    BY <2>1 DEF IInv, TypeOK, LoopFresh, Fresh, JobRun, Lifecycle, Truth
  <2>3. ASSUME NEW j \in Job, status'[j] # None PROVE status'[j] \in JobRun /\ Truth(j, status'[j])
    BY <2>1, <2>2, <2>3 DEF IInv, TypeOK, StatusTrue
  <2>4. QED
    BY <1>1, <1>2, <2>3 DEF StatusTrue, Truth, RecordStatus
<1>3. ASSUME NEW p \in Proc, NEW j \in Job, TickWrite(p, j)
      PROVE  StatusTrue' /\ CacheTrue' /\ UNCHANGED reply
  <2>1. Updated(p, j) \in JobRun /\ Truth(j, Updated(p, j))
    BY <1>3, UpdatedSound DEF IInv, TickWrite
  <2>2. /\ status' = [status EXCEPT ![j] = Updated(p, j)]
        /\ cache' = [cache EXCEPT ![p][j] = Updated(p, j)]
        /\ UNCHANGED reply
    BY <1>3 DEF TickWrite
  <2>3. ASSUME NEW i \in Job, status'[i] # None PROVE status'[i] \in JobRun /\ Truth(i, status'[i])
    BY <2>1, <2>2, <2>3 DEF IInv, TypeOK, StatusTrue
  <2>4. ASSUME NEW q \in Proc, NEW i \in Job, cache'[q][i] # None
        PROVE  cache'[q][i] \in JobRun /\ Truth(i, cache'[q][i])
    BY <2>1, <2>2, <2>4 DEF IInv, TypeOK, CacheTrue
  <2>5. StatusTrue'
    BY <1>1, <2>3 DEF StatusTrue, Truth
  <2>6. CacheTrue'
    BY <1>1, <2>4 DEF CacheTrue, Truth
  <2>7. QED
    BY <2>2, <2>5, <2>6
<1>4. ASSUME NEW p \in Proc, NEW j \in Job, TickRead(p, j)
      PROVE  CacheTrue' /\ UNCHANGED <<status, reply>>
  <2>1. ASSUME NEW q \in Proc, NEW i \in Job, cache'[q][i] # None
        PROVE  cache'[q][i] \in JobRun /\ Truth(i, cache'[q][i])
    BY <1>4, <2>1 DEF IInv, TypeOK, StatusTrue, CacheTrue, TickRead
  <2>2. CacheTrue'
    BY <1>1, <2>1 DEF CacheTrue, Truth
  <2>3. UNCHANGED <<status, reply>>
    BY <1>4 DEF TickRead, files
  <2>4. QED
    BY <2>2, <2>3
<1>5. ASSUME NEW p \in Proc, TickQuery(p)
      PROVE  ReplyTrue' /\ UNCHANGED <<status, cache>>
  <2>1. "Unknown" \notin FailureStates \cup {"Completed"} /\ NoState \notin FailureStates \cup {"Completed"}
    BY DEF FailureStates, NoState
  <2>2. ASSUME NEW id \in QueryIds(p) PROVE id \in SlurmId /\ slurm[id] # None
    <3>1. PICK j \in flow[p].jobs : cache[p][j] # None /\ id = cache[p][j].slurm_jobid
      BY <2>2 DEF QueryIds
    <3>2. flow[p] \in Flow
      BY <1>5 DEF IInv, CommandFits, TickQuery
    <3>3. j \in Job
      BY <3>1, <3>2, FlowShape
    <3>4. QED
      BY <3>1, <3>3 DEF IInv, TypeOK, JobRun, CacheTrue, Truth
  <2>3. UNCHANGED <<status, cache, slurm>>
    BY <1>5 DEF TickQuery, files
  <2>4. ASSUME NEW id \in SlurmId
        PROVE  /\ reply'[p][id] = "Completed" => slurm[id] # None /\ slurm[id].state = "Completed"
               /\ reply'[p][id] \in FailureStates =>
                    slurm[id] # None /\ slurm[id].state \in FailureStates
    BY <1>5, <2>1, <2>2 DEF IInv, TypeOK, TickQuery
  <2>5. \A q \in Proc : q # p => reply'[q] = reply[q]
    BY <1>5 DEF IInv, TypeOK, TickQuery
  <2>6. QED
    BY <2>3, <2>4, <2>5 DEF IInv, ReplyTrue
<1>6. ASSUME NEW p \in Proc, Exit(p), UNCHANGED <<files, slurm>>
      PROVE  StatusTrue' /\ CacheTrue' /\ ReplyTrue'
  <2>1. UNCHANGED <<status, slurm>> /\ NoState \notin FailureStates \cup {"Completed"}
    BY <1>6 DEF files, FailureStates, NoState
  <2>2. \A q \in Proc : cache'[q] = IF q = p THEN NoRuns ELSE cache[q]
    BY <1>6 DEF IInv, TypeOK, Exit
  <2>3. \A q \in Proc : reply'[q] = IF q = p THEN EmptyReply ELSE reply[q]
    BY <1>6 DEF IInv, TypeOK, Exit
  <2>4. StatusTrue'
    BY <2>1 DEF IInv, StatusTrue, Truth
  <2>5. CacheTrue'
    BY <2>1, <2>2 DEF IInv, CacheTrue, Truth, NoRuns
  <2>6. ReplyTrue'
    BY <2>1, <2>3 DEF IInv, ReplyTrue, EmptyReply
  <2>7. QED
    BY <2>4, <2>5, <2>6
<1>7. ASSUME UNCHANGED status PROVE StatusTrue'
  <2>1. \A j \in Job : status[j] # None => status[j] \in JobRun /\ Truth(j, status[j])
    BY DEF IInv, TypeOK, StatusTrue
  <2>2. QED
    BY <1>1, <1>7, <2>1 DEF StatusTrue, Truth
<1>8. ASSUME UNCHANGED cache PROVE CacheTrue'
  <2>1. \A p \in Proc : \A j \in Job :
          cache[p][j] # None => cache[p][j] \in JobRun /\ Truth(j, cache[p][j])
    BY DEF IInv, TypeOK, CacheTrue
  <2>2. QED
    BY <1>1, <1>8, <2>1 DEF CacheTrue, Truth
<1>9. ASSUME UNCHANGED reply PROVE ReplyTrue'
  BY <1>9, StepGrows DEF IInv, ReplyTrue, Grows
<1>10. \/ \E p \in Proc : RecordStatus(p)
       \/ \E p \in Proc, j \in Job : TickWrite(p, j)
       \/ \E p \in Proc, j \in Job : TickRead(p, j)
       \/ \E p \in Proc : TickQuery(p)
       \/ \E p \in Proc : Exit(p) /\ UNCHANGED <<files, slurm>>
       \/ \E p \in Proc : LosesId(p)
       \/ UNCHANGED <<status, cache, reply>>
  <2>1. ASSUME NEW p \in Proc, SubmitStart(p) \/ EffectiveStart(p) \/ TickStart(p)
        PROVE  UNCHANGED <<status, cache, reply>>
    BY <2>1 DEF SubmitStart, EffectiveStart, TickStart, Start, files
  <2>2. ASSUME NEW p \in Proc, WriteSnapshot(p) \/ Preflight(p) \/ Sbatch(p)
        PROVE  UNCHANGED <<status, cache, reply>>
    BY <2>2 DEF WriteSnapshot, Preflight, Sbatch, QueueJob, files
  <2>3. ASSUME NEW p \in Proc, SubmitReturn(p) \/ TickReturn(p)
        PROVE  UNCHANGED <<status, cache, reply>>
    BY <2>3 DEF SubmitReturn, TickReturn, files
  <2>4. ASSUME NEW p \in Proc, NEW j \in Job,
               Preseed(p, j) \/ RenderBatch(p, j) \/ TickKeep(p, j)
        PROVE  UNCHANGED <<status, cache, reply>>
    BY <2>4 DEF Preseed, RenderBatch, TickKeep, files
  <2>5. ASSUME NEW id \in SlurmId, NEW from \in {"Pending", "Running"}, NEW to \in JobState,
               SlurmStep(id, from, to)
        PROVE  UNCHANGED <<status, cache, reply>>
    BY <2>5 DEF SlurmStep, files, locals
  <2>6. EditFlow \/ UNCHANGED vars => UNCHANGED <<status, cache, reply>>
    BY DEF EditFlow, locals, files, vars
  <2>7. QED
    BY <2>1, <2>2, <2>3, <2>4, <2>5, <2>6, NextCases
<1>11. ASSUME NEW p \in Proc, LosesId(p)
       PROVE  StatusTrue' /\ CacheTrue' /\ ReplyTrue'
  <2>1. UNCHANGED status /\ NoState \notin FailureStates \cup {"Completed"}
    BY <1>11 DEF LosesId, files, FailureStates, NoState
  <2>2. \A q \in Proc : cache'[q] = IF q = p THEN NoRuns ELSE cache[q]
    BY <1>11 DEF IInv, TypeOK, LosesId, Exit
  <2>3. \A q \in Proc : reply'[q] = IF q = p THEN EmptyReply ELSE reply[q]
    BY <1>11 DEF IInv, TypeOK, LosesId, Exit
  <2>4. StatusTrue'
    BY <1>7, <2>1
  <2>5. CacheTrue'
    <3>1. \A q \in Proc : \A j \in Job :
            cache[q][j] # None => cache[q][j] \in JobRun /\ Truth(j, cache[q][j])
      BY DEF IInv, TypeOK, CacheTrue
    <3>2. QED
      BY <1>1, <2>2, <3>1 DEF CacheTrue, Truth, NoRuns
  <2>6. ReplyTrue'
    BY <2>1, <2>3, StepGrows DEF IInv, ReplyTrue, EmptyReply, Grows
  <2>7. QED
    BY <2>4, <2>5, <2>6
<1>12. QED
  BY <1>2, <1>3, <1>4, <1>5, <1>6, <1>7, <1>8, <1>9, <1>10, <1>11

(* The dependencies of a new job, and those of the old ones.                *)
LEMMA FaithStep ==
  ASSUME IInv, [Next]_vars
  PROVE  DependenciesFaithful'
<1> DEFINE Faithful(s) ==
             /\ \A e \in s.flow.parents[s.job] : \E d \in s.deps :
                  /\ d.kind = e.kind
                  /\ d.id \in s.earlier
                  /\ slurm[d.id] # None
                  /\ slurm[d.id].job = e.from
                  /\ slurm[d.id].flow = s.flow
             /\ \A d \in s.deps : \E e \in s.flow.parents[s.job] :
                  d.kind = e.kind /\ d.id \in s.earlier
\* What is faithful stays so: the ids it names keep their jobs.
<1>1. ASSUME NEW s \in SlurmJob, Faithful(s)
      PROVE  /\ \A e \in s.flow.parents[s.job] : \E d \in s.deps :
                  /\ d.kind = e.kind
                  /\ d.id \in s.earlier
                  /\ slurm'[d.id] # None
                  /\ slurm'[d.id].job = e.from
                  /\ slurm'[d.id].flow = s.flow
             /\ \A d \in s.deps : \E e \in s.flow.parents[s.job] :
                  d.kind = e.kind /\ d.id \in s.earlier
  <2>1. \A d \in s.deps : d.id \in SlurmId
    BY DEF SlurmJob
  <2>2. QED
    BY <1>1, <2>1, StepGrows DEF Grows
<1>2. ASSUME NEW id \in SlurmId, slurm[id] # None
      PROVE  slurm[id] \in SlurmJob /\ Faithful(slurm[id])
  BY <1>2 DEF IInv, TypeOK, DependenciesFaithful, Issued
\* The records of the next state are the old ones, up to their states, and the new.
<1>3. ASSUME NEW id \in SlurmId, slurm'[id] # None
      PROVE  \E s \in SlurmJob :
               /\ Faithful(s)
               /\ slurm'[id].job = s.job /\ slurm'[id].flow = s.flow
               /\ slurm'[id].deps = s.deps /\ slurm'[id].earlier = s.earlier
  <2>1. CASE UNCHANGED slurm
    BY <1>2, <1>3, <2>1
  <2>2. ASSUME NEW p \in Proc, QueueJob(p)
        PROVE  \E s \in SlurmJob :
                 /\ Faithful(s)
                 /\ slurm'[id].job = s.job /\ slurm'[id].flow = s.flow
                 /\ slurm'[id].deps = s.deps /\ slurm'[id].earlier = s.earlier
    <3> DEFINE s == SubmittedJob(p)
    <3>1. /\ NewId \in SlurmId /\ s \in SlurmJob
          /\ slurm' = [slurm EXCEPT ![NewId] = s]
          /\ cur[p] \in Job /\ flow[p] \in Flow /\ Orderable(flow[p]) /\ cmd[p] = "submit"
          /\ cur[p] \in flow[p].jobs
      BY <2>2, NewJob
    <3>2. CASE id # NewId
      <4>1. slurm'[id] = slurm[id]
        BY <3>1, <3>2 DEF IInv, TypeOK
      <4>2. QED
        BY <1>2, <1>3, <4>1
    <3>3. CASE id = NewId
      <4>1. slurm'[id] = s
        BY <3>1, <3>3 DEF IInv, TypeOK
      <4>2. /\ s.job = cur[p] /\ s.flow = flow[p] /\ s.earlier = issued[p]
            /\ s.deps = BuildDependency(flow[p], cur[p], submitted[p])
        BY DEF SubmittedJob
      <4>3. \A e \in flow[p].parents[cur[p]] : e.from \in flow[p].jobs \ todo[p]
        BY <2>2, <3>1 DEF IInv, LoopFits, Orderable, Parents, QueueJob
      <4>4. \A e \in flow[p].parents[cur[p]] :
              /\ Fresh(p, e.from)
              /\ submitted[p][e.from] \in SlurmId /\ submitted[p][e.from] # None
              /\ slurm[submitted[p][e.from]] # None
        BY <2>2, <3>1, <4>3, NoneAssumption DEF IInv, TypeOK, LoopFresh, Fresh, QueueJob
      <4>5. ASSUME NEW e \in s.flow.parents[s.job]
            PROVE  \E d \in s.deps : /\ d.kind = e.kind
                                     /\ d.id \in s.earlier
                                     /\ slurm[d.id] # None
                                     /\ slurm[d.id].job = e.from
                                     /\ slurm[d.id].flow = s.flow
        <5>1. [id |-> submitted[p][e.from], kind |-> e.kind] \in s.deps
          BY <4>2, <4>4 DEF BuildDependency
        <5>2. QED
          BY <4>2, <4>4, <5>1 DEF Fresh
      <4>6. ASSUME NEW d \in s.deps
            PROVE  \E e \in s.flow.parents[s.job] : d.kind = e.kind /\ d.id \in s.earlier
        BY <4>2, <4>4 DEF BuildDependency, Fresh
      <4>7. QED
        BY <3>1, <4>1, <4>5, <4>6
    <3>4. QED
      BY <3>2, <3>3
  <2>3. ASSUME NEW i \in SlurmId, NEW from \in {"Pending", "Running"}, NEW to \in JobState,
               SlurmStep(i, from, to)
        PROVE  \E s \in SlurmJob :
                 /\ Faithful(s)
                 /\ slurm'[id].job = s.job /\ slurm'[id].flow = s.flow
                 /\ slurm'[id].deps = s.deps /\ slurm'[id].earlier = s.earlier
    <3>1. slurm[id] # None
      BY <1>3, <2>3 DEF IInv, TypeOK, SlurmStep
    <3>2. slurm[id] \in SlurmJob /\ Faithful(slurm[id])
      BY <1>2, <3>1
    <3>3. slurm' = [slurm EXCEPT ![i] = [slurm[i] EXCEPT !.state = to]]
      BY <2>3 DEF SlurmStep
    <3>4. /\ slurm'[id].job = slurm[id].job /\ slurm'[id].flow = slurm[id].flow
          /\ slurm'[id].deps = slurm[id].deps /\ slurm'[id].earlier = slurm[id].earlier
      <4>1. slurm'[id] = IF id = i THEN [slurm[id] EXCEPT !.state = to] ELSE slurm[id]
        BY <3>3 DEF IInv, TypeOK
      <4>2. QED
        BY <3>2, <4>1 DEF SlurmJob
    <3>5. QED
      BY <3>2, <3>4
  <2>4. (\E p \in Proc : QueueJob(p)) \/ UNCHANGED slurm
          \/ \E i \in SlurmId, from \in {"Pending", "Running"}, to \in JobState :
               SlurmStep(i, from, to)
    BY SlurmCases
  <2>5. QED
    BY <2>1, <2>2, <2>3, <2>4
<1> HIDE DEF Faithful
<1>4. ASSUME NEW id \in SlurmId, slurm'[id] # None
      PROVE  /\ \A e \in slurm'[id].flow.parents[slurm'[id].job] : \E d \in slurm'[id].deps :
                  /\ d.kind = e.kind
                  /\ d.id \in slurm'[id].earlier
                  /\ slurm'[d.id] # None
                  /\ slurm'[d.id].job = e.from
                  /\ slurm'[d.id].flow = slurm'[id].flow
             /\ \A d \in slurm'[id].deps : \E e \in slurm'[id].flow.parents[slurm'[id].job] :
                  d.kind = e.kind /\ d.id \in slurm'[id].earlier
  <2>1. PICK s \in SlurmJob :
          /\ Faithful(s)
          /\ slurm'[id].job = s.job /\ slurm'[id].flow = s.flow
          /\ slurm'[id].deps = s.deps /\ slurm'[id].earlier = s.earlier
    BY <1>3, <1>4
  <2>2. QED
    BY <1>1, <2>1
<1>5. QED
  BY <1>4 DEF DependenciesFaithful, Issued

LEMMA InitIInv == Init => IInv
<1> SUFFICES ASSUME Init PROVE IInv
  OBVIOUS
<1>1. TypeOK
  BY DEF Init, TypeOK, NoIds, NoRuns, EmptyReply
<1>2. CommandFits /\ LoopFits /\ MapFits /\ LoopFresh
  BY NoneAssumption DEF Init, CommandFits, LoopFits, MapFits, LoopFresh, Command
<1>3. StatusTrue /\ CacheTrue /\ ReplyTrue /\ DependenciesFaithful
  BY DEF Init, StatusTrue, CacheTrue, ReplyTrue, DependenciesFaithful, Issued, NoRuns,
         EmptyReply, NoState, FailureStates
<1>4. QED
  BY <1>1, <1>2, <1>3 DEF IInv

LEMMA StepIInv ==
  ASSUME IInv, [Next]_vars
  PROVE  IInv'
BY TypeStep, FitStep, FreshStep, TruthStep, FaithStep DEF IInv

LEMMA Invariance == Spec => []IInv
BY InitIInv, StepIInv, PTL DEF Spec

-----------------------------------------------------------------------------
(* The types of the flow runner's state.                                    *)
THEOREM TypesHold == Spec => []TypeOK
<1>1. IInv => TypeOK
  BY DEF IInv
<1>2. QED
  BY <1>1, Invariance, PTL

(***************************************************************************)
(* Whatever flow is submitted, however often and by however many processes *)
(* at once, and wherever they crash: each job SLURM got depends on exactly *)
(* what its edges name, under ids of the same submission.                  *)
(***************************************************************************)
THEOREM DependenciesHold == Spec => []DependenciesFaithful
<1>1. IInv => DependenciesFaithful
  BY DEF IInv
<1>2. QED
  BY <1>1, Invariance, PTL

(***************************************************************************)
(* However ticks, submissions and SLURM interleave, a status file names a  *)
(* SLURM job of its own job, and says Success or Failed only if it is so.  *)
(***************************************************************************)
THEOREM StatusesHold == Spec => []StatusTruthful
<1>1. IInv => StatusTruthful
  BY DEF IInv, StatusTrue, StatusTruthful, Truth
<1>2. QED
  BY <1>1, Invariance, PTL

(***************************************************************************)
(* A submission that returns Ok got a new id for every job of its flow.    *)
(***************************************************************************)
THEOREM ReturnedMapHolds == Spec => []ReturnedMapFresh
<1>1. IInv => ReturnedMapFresh
  BY DEF IInv, LoopFresh, MapFits, Fresh, ReturnedMapFresh
<1>2. QED
  BY <1>1, Invariance, PTL

-----------------------------------------------------------------------------
(***************************************************************************)
(* What holds of the scripts, for every flow and every number of jobs,     *)
(* processes and SLURM ids, while one process at a time submits or renders.*)
(*                                                                         *)
(* The argument.  Only a submission or a render writes a script.  So from  *)
(* the moment a submission wrote the one of the job it is at until sbatch  *)
(* reads it, the script is the submission's own (ScriptFits), whatever     *)
(* ticks run, and whoever edits flow.toml, meanwhile.                      *)
(***************************************************************************)

(* sbatch is called on the script this submission wrote.                    *)
ScriptFits == \A p \in Proc : pc[p] = "sbatch" => batch[cur[p]] = flow[p]

RInv == IInv /\ ScriptFits /\ ScriptMatchesCommand

(* A script is written by a submission or a render, and nothing else brings *)
(* a process to sbatch or changes what it is about to submit.               *)
LEMMA BatchCases ==
  ASSUME TypeOK, [Next]_vars
  PROVE  \/ \E p \in Proc, j \in Job : RenderBatch(p, j)
         \/ /\ UNCHANGED batch
            /\ \A p \in Proc : pc'[p] = "sbatch" =>
                 pc[p] = "sbatch" /\ cur'[p] = cur[p] /\ flow'[p] = flow[p]
<1> DEFINE Kept == /\ UNCHANGED batch
                   /\ \A p \in Proc : pc'[p] = "sbatch" =>
                        pc[p] = "sbatch" /\ cur'[p] = cur[p] /\ flow'[p] = flow[p]
<1>1. ASSUME NEW p \in Proc, SubmitStart(p) \/ EffectiveStart(p) \/ TickStart(p)
      PROVE  Kept
  BY <1>1 DEF TypeOK, SubmitStart, EffectiveStart, TickStart, Start, files
<1>2. ASSUME NEW p \in Proc, WriteSnapshot(p) \/ Preflight(p) \/ SubmitReturn(p)
      PROVE  Kept
  BY <1>2 DEF TypeOK, WriteSnapshot, Preflight, SubmitReturn, files
<1>3. ASSUME NEW p \in Proc, Sbatch(p) \/ RecordStatus(p)
      PROVE  Kept
  BY <1>3 DEF TypeOK, Sbatch, RecordStatus, files
<1>4. ASSUME NEW p \in Proc, TickQuery(p) \/ TickReturn(p)
      PROVE  Kept
  BY <1>4 DEF TypeOK, TickQuery, TickReturn, files
<1>5. ASSUME NEW p \in Proc, NEW j \in Job,
             Preseed(p, j) \/ TickRead(p, j) \/ TickKeep(p, j) \/ TickWrite(p, j)
      PROVE  Kept
  BY <1>5 DEF TypeOK, Preseed, TickRead, TickKeep, TickWrite, files
<1>6. ASSUME NEW p \in Proc, Exit(p), UNCHANGED files
      PROVE  Kept
  BY <1>6 DEF TypeOK, Exit, files
<1>7. ASSUME NEW p \in Proc, (Exit(p) /\ UNCHANGED <<files, slurm>>) \/ LosesId(p)
      PROVE  Kept
  BY <1>6, <1>7 DEF LosesId
<1>8. ASSUME NEW id \in SlurmId, NEW from \in {"Pending", "Running"}, NEW to \in JobState,
             SlurmStep(id, from, to)
      PROVE  Kept
  BY <1>8 DEF SlurmStep, files, locals
<1>9. EditFlow \/ UNCHANGED vars => Kept
  BY DEF EditFlow, locals, vars
<1> HIDE DEF Kept
<1>10. (\E p \in Proc, j \in Job : RenderBatch(p, j)) \/ Kept
  BY <1>1, <1>2, <1>3, <1>4, <1>5, <1>7, <1>8, <1>9, NextCases
<1>11. QED
  BY <1>10 DEF Kept

(* Nobody else writes the script that a submission is about to submit.      *)
LEMMA ScriptFitsStep ==
  ASSUME RInv, [Next]_vars, OneRenderer'
  PROVE  ScriptFits'
<1>1. ASSUME NEW q \in Proc, NEW j \in Job, RenderBatch(q, j),
             NEW p \in Proc, pc'[p] = "sbatch"
      PROVE  batch'[cur'[p]] = flow'[p]
  <2>1. /\ pc[q] = "render" /\ batch' = [batch EXCEPT ![j] = flow[q]] /\ UNCHANGED <<flow, cmd>>
        /\ Renders(q)
    BY <1>1 DEF RInv, IInv, CommandFits, RenderBatch, Rendered, Renders
  <2>2. CASE p = q
    <3>1. cmd[q] # "render"
      BY <1>1, <2>1, <2>2 DEF RenderBatch
    <3>2. cur'[p] = j
      BY <1>1, <2>2, <3>1 DEF RInv, IInv, TypeOK, RenderBatch
    <3>3. QED
      BY <2>1, <2>2, <3>2 DEF RInv, IInv, TypeOK
  <2>3. CASE p # q
    <3>1. pc[p] = "sbatch"
      BY <1>1, <2>3 DEF RInv, IInv, TypeOK, RenderBatch
    <3>2. Renders(p)' /\ Renders(q)'
      BY <2>1, <3>1 DEF RInv, IInv, CommandFits, Renders
    <3>3. QED
      BY <2>3, <3>2 DEF OneRenderer
  <2>4. QED
    BY <2>2, <2>3
<1>2. ASSUME UNCHANGED batch, NEW p \in Proc,
             pc[p] = "sbatch" /\ cur'[p] = cur[p] /\ flow'[p] = flow[p]
      PROVE  batch'[cur'[p]] = flow'[p]
  BY <1>2 DEF RInv, ScriptFits
<1>3. TypeOK
  BY DEF RInv, IInv
<1>4. QED
  BY <1>1, <1>2, <1>3, BatchCases DEF ScriptFits

(* A new job's script is the one its command goes with.                     *)
LEMMA ScriptStep ==
  ASSUME RInv, [Next]_vars
  PROVE  ScriptMatchesCommand'
<1>1. ASSUME NEW id \in Issued
      PROVE  slurm'[id].script = slurm'[id].flow
  BY <1>1, StepGrows DEF RInv, Grows, ScriptMatchesCommand, Issued
<1>2. ASSUME NEW p \in Proc, QueueJob(p)
      PROVE  slurm'[NewId].script = slurm'[NewId].flow
  <2>1. SubmittedJob(p).script = SubmittedJob(p).flow
    BY <1>2 DEF RInv, ScriptFits, QueueJob, SubmittedJob
  <2>2. slurm'[NewId] = SubmittedJob(p)
    BY <1>2, NewJob DEF RInv, IInv, TypeOK
  <2>3. QED
    BY <2>1, <2>2
<1>3. QED
  BY <1>1, <1>2, IssuedCases DEF RInv, ScriptMatchesCommand

(***************************************************************************)
(* While one process at a time submits or renders, SLURM runs for every    *)
(* job the script that was rendered from the flow its options and          *)
(* dependencies come from, whatever ticks run and however flow.toml is     *)
(* edited meanwhile, and wherever a command dies.  The run render_race     *)
(* shows that a second renderer breaks it, against flow.rs:51-53.          *)
(***************************************************************************)
THEOREM ScriptsHold == OneRendererSpec => []ScriptMatchesCommand
<1>1. Init => RInv
  BY InitIInv DEF Init, RInv, ScriptFits, ScriptMatchesCommand, Issued
<1>2. ASSUME RInv, [Next /\ OneRenderer']_vars
      PROVE  RInv'
  <2>1. CASE Next /\ OneRenderer'
    BY <1>2, <2>1, StepIInv, ScriptFitsStep, ScriptStep DEF RInv
  <2>2. CASE UNCHANGED vars
    <3>1. IInv' /\ ScriptMatchesCommand'
      BY <1>2, <2>2, StepIInv, ScriptStep DEF RInv
    <3>2. ScriptFits'
      BY <1>2, <2>2 DEF RInv, ScriptFits, vars
    <3>3. QED
      BY <3>1, <3>2 DEF RInv
  <2>3. QED
    BY <1>2, <2>1, <2>2
<1>3. RInv => ScriptMatchesCommand
  BY DEF RInv
<1>4. QED
  BY <1>1, <1>2, <1>3, PTL DEF OneRendererSpec

-----------------------------------------------------------------------------
(***************************************************************************)
(* What holds of the flow runner when its commands do not overlap, for     *)
(* every flow and every number of jobs and SLURM ids.                      *)
(*                                                                         *)
(* The argument.  While a tick runs, nobody else writes: so what its cache *)
(* holds IS what the status files hold, and its flow the snapshot          *)
(* (TickHolds), and what it decides from the cache it decides from the     *)
(* files.  And the id a submission is about to record is in no status yet  *)
(* (RecordNew), and SLURM gave out all others before it (NewestRecorded).  *)
(***************************************************************************)

\* Commands do not overlap: there is one jm process at a time.
OneProcess == \A p, q \in Proc : p = q

(* A tick's cache and flow are what the files hold.                         *)
TickHolds ==
  \A p \in Proc :
    /\ pc[p] = "idle" => cache[p] = NoRuns
    /\ pc[p] \in {"read", "apply"} =>
         /\ flow[p] = snapshot
         /\ \A j \in Job : cache[p][j] # None => cache[p][j] = status[j]

(* The id about to be recorded is in no status file.                        *)
RecordNew ==
  \A p \in Proc : pc[p] = "record" =>
    \A j \in Job : status[j] # None => status[j].slurm_jobid # submitted[p][cur[p]]

SInv == IInv /\ TickHolds /\ RecordNew

-----------------------------------------------------------------------------
(* Every step of the one process, of SLURM or of the user keeps what that   *)
(* process alone writes as it knows it.                                     *)
LEMMA SerialStep ==
  ASSUME OneProcess, SInv, [Next]_vars
  PROVE  TickHolds' /\ RecordNew'
<1>1. ASSUME NEW p \in Proc, SubmitStart(p)
      PROVE  TickHolds' /\ RecordNew'
  <2>1. \A q \in Proc : q = p
    BY DEF OneProcess
  <2>2. TickHolds'
    BY <1>1, <2>1 DEF SInv, IInv, TypeOK, TickHolds, SubmitStart, Start, files
  <2>3. RecordNew'
    BY <1>1, <2>1 DEF SInv, IInv, TypeOK, RecordNew, SubmitStart, Start, files
  <2>4. QED
    BY <2>2, <2>3
<1>2. ASSUME NEW p \in Proc, EffectiveStart(p)
      PROVE  TickHolds' /\ RecordNew'
  <2>1. \A q \in Proc : q = p
    BY DEF OneProcess
  <2>2. TickHolds'
    BY <1>2, <2>1 DEF SInv, IInv, TypeOK, TickHolds, EffectiveStart, Start, files
  <2>3. RecordNew'
    BY <1>2, <2>1 DEF SInv, IInv, TypeOK, RecordNew, EffectiveStart, Start, files
  <2>4. QED
    BY <2>2, <2>3
<1>3. ASSUME NEW p \in Proc, WriteSnapshot(p)
      PROVE  TickHolds' /\ RecordNew'
  <2>1. \A q \in Proc : q = p
    BY DEF OneProcess
  <2>2. TickHolds'
    BY <1>3, <2>1 DEF SInv, IInv, TypeOK, TickHolds, WriteSnapshot
  <2>3. RecordNew'
    BY <1>3, <2>1 DEF SInv, IInv, TypeOK, RecordNew, WriteSnapshot
  <2>4. QED
    BY <2>2, <2>3
<1>4. ASSUME NEW p \in Proc, NEW j \in Job, Preseed(p, j)
      PROVE  TickHolds' /\ RecordNew'
  <2>1. \A q \in Proc : q = p
    BY DEF OneProcess
  <2>2. TickHolds'
    BY <1>4, <2>1 DEF SInv, IInv, TypeOK, TickHolds, Preseed, files
  <2>3. RecordNew'
    BY <1>4, <2>1 DEF SInv, IInv, TypeOK, RecordNew, Preseed, files
  <2>4. QED
    BY <2>2, <2>3
<1>5. ASSUME NEW p \in Proc, Preflight(p)
      PROVE  TickHolds' /\ RecordNew'
  <2>1. \A q \in Proc : q = p
    BY DEF OneProcess
  <2>2. TickHolds'
    BY <1>5, <2>1 DEF SInv, IInv, TypeOK, TickHolds, Preflight, files
  <2>3. RecordNew'
    BY <1>5, <2>1 DEF SInv, IInv, TypeOK, RecordNew, Preflight, files
  <2>4. QED
    BY <2>2, <2>3
<1>6. ASSUME NEW p \in Proc, NEW j \in Job, RenderBatch(p, j)
      PROVE  TickHolds' /\ RecordNew'
  <2>1. \A q \in Proc : q = p
    BY DEF OneProcess
  <2>2. TickHolds'
    BY <1>6, <2>1 DEF SInv, IInv, TypeOK, TickHolds, RenderBatch, Rendered
  <2>3. RecordNew'
    BY <1>6, <2>1 DEF SInv, IInv, TypeOK, RecordNew, RenderBatch, Rendered
  <2>4. QED
    BY <2>2, <2>3
<1>7. ASSUME NEW p \in Proc, Sbatch(p)
      PROVE  TickHolds' /\ RecordNew'
  <2>1. \A q \in Proc : q = p
    BY DEF OneProcess
  <2>2. TickHolds'
    BY <1>7, <2>1 DEF SInv, IInv, TypeOK, TickHolds, Sbatch, QueueJob, Inserted, files
  <2>3. RecordNew'
    <3>1. \A j \in Job : status[j] # None => status[j].slurm_jobid # NewId
      BY <1>7, NewJob DEF Sbatch, SInv, IInv, StatusTrue, Truth
    <3>2. submitted'[p][cur[p]] = NewId
      BY <1>7, NewJob DEF Sbatch, SInv, IInv, TypeOK, Sbatch, QueueJob, Inserted
    <3>3. UNCHANGED <<status, cur>>
      BY <1>7 DEF Sbatch, QueueJob, files
    <3>4. QED
      BY <2>1, <3>1, <3>2, <3>3 DEF RecordNew
  <2>4. QED
    BY <2>2, <2>3
<1>8. ASSUME NEW p \in Proc, RecordStatus(p)
      PROVE  TickHolds' /\ RecordNew'
  <2>1. \A q \in Proc : q = p
    BY DEF OneProcess
  <2>2. TickHolds'
    BY <1>8, <2>1 DEF SInv, IInv, TypeOK, TickHolds, RecordStatus
  <2>3. RecordNew'
    BY <1>8, <2>1 DEF SInv, IInv, TypeOK, RecordNew, RecordStatus
  <2>4. QED
    BY <2>2, <2>3
<1>9. ASSUME NEW p \in Proc, SubmitReturn(p)
      PROVE  TickHolds' /\ RecordNew'
  <2>1. \A q \in Proc : q = p
    BY DEF OneProcess
  <2>2. TickHolds'
    BY <1>9, <2>1 DEF SInv, IInv, TypeOK, TickHolds, SubmitReturn, files
  <2>3. RecordNew'
    BY <1>9, <2>1 DEF SInv, IInv, TypeOK, RecordNew, SubmitReturn, files
  <2>4. QED
    BY <2>2, <2>3
<1>10. ASSUME NEW p \in Proc, TickStart(p)
      PROVE  TickHolds' /\ RecordNew'
  <2>1. \A q \in Proc : q = p
    BY DEF OneProcess
  <2>2. TickHolds'
    BY <1>10, <2>1 DEF SInv, IInv, TypeOK, TickHolds, TickStart, Start, files, NoRuns
  <2>3. RecordNew'
    BY <1>10, <2>1 DEF SInv, IInv, TypeOK, RecordNew, TickStart, Start, files
  <2>4. QED
    BY <2>2, <2>3
<1>11. ASSUME NEW p \in Proc, NEW j \in Job, TickRead(p, j)
      PROVE  TickHolds' /\ RecordNew'
  <2>1. \A q \in Proc : q = p
    BY DEF OneProcess
  <2>2. TickHolds'
    BY <1>11, <2>1 DEF SInv, IInv, TypeOK, TickHolds, TickRead, files, NoRuns
  <2>3. RecordNew'
    BY <1>11, <2>1 DEF SInv, IInv, TypeOK, RecordNew, TickRead, files
  <2>4. QED
    BY <2>2, <2>3
<1>12. ASSUME NEW p \in Proc, TickQuery(p)
      PROVE  TickHolds' /\ RecordNew'
  <2>1. \A q \in Proc : q = p
    BY DEF OneProcess
  <2>2. TickHolds'
    BY <1>12, <2>1 DEF SInv, IInv, TypeOK, TickHolds, TickQuery, files, NoRuns
  <2>3. RecordNew'
    BY <1>12, <2>1 DEF SInv, IInv, TypeOK, RecordNew, TickQuery, files
  <2>4. QED
    BY <2>2, <2>3
<1>13. ASSUME NEW p \in Proc, NEW j \in Job, TickKeep(p, j)
      PROVE  TickHolds' /\ RecordNew'
  <2>1. \A q \in Proc : q = p
    BY DEF OneProcess
  <2>2. TickHolds'
    BY <1>13, <2>1 DEF SInv, IInv, TypeOK, TickHolds, TickKeep, files, NoRuns
  <2>3. RecordNew'
    BY <1>13, <2>1 DEF SInv, IInv, TypeOK, RecordNew, TickKeep, files
  <2>4. QED
    BY <2>2, <2>3
<1>14. ASSUME NEW p \in Proc, NEW j \in Job, TickWrite(p, j)
      PROVE  TickHolds' /\ RecordNew'
  <2>1. \A q \in Proc : q = p
    BY DEF OneProcess
  <2>2. TickHolds'
    BY <1>14, <2>1 DEF SInv, IInv, TypeOK, TickHolds, TickWrite, NoRuns
  <2>3. RecordNew'
    BY <1>14, <2>1 DEF SInv, IInv, TypeOK, RecordNew, TickWrite
  <2>4. QED
    BY <2>2, <2>3
<1>15. ASSUME NEW p \in Proc, TickReturn(p)
      PROVE  TickHolds' /\ RecordNew'
  <2>1. \A q \in Proc : q = p
    BY DEF OneProcess
  <2>2. TickHolds'
    BY <1>15, <2>1 DEF SInv, IInv, TypeOK, TickHolds, TickReturn, files, NoRuns
  <2>3. RecordNew'
    BY <1>15, <2>1 DEF SInv, IInv, TypeOK, RecordNew, TickReturn, files
  <2>4. QED
    BY <2>2, <2>3
<1>16. ASSUME NEW p \in Proc, Exit(p), UNCHANGED files
      PROVE  TickHolds' /\ RecordNew'
  <2>1. \A q \in Proc : q = p
    BY DEF OneProcess
  <2>2. TickHolds'
    BY <1>16, <2>1 DEF SInv, IInv, TypeOK, TickHolds, Exit, files, NoRuns
  <2>3. RecordNew'
    BY <1>16, <2>1 DEF SInv, IInv, TypeOK, RecordNew, Exit, files
  <2>4. QED
    BY <2>2, <2>3
<1>17. ASSUME NEW id \in SlurmId, NEW from \in {"Pending", "Running"}, NEW to \in JobState,
             SlurmStep(id, from, to)
      PROVE  TickHolds' /\ RecordNew'
  BY <1>17 DEF SInv, TickHolds, RecordNew, SlurmStep, files, locals
<1>18. CASE EditFlow \/ UNCHANGED vars
  BY <1>18 DEF SInv, TickHolds, RecordNew, EditFlow, locals, vars
<1>19. ASSUME NEW p \in Proc, (Exit(p) /\ UNCHANGED <<files, slurm>>) \/ LosesId(p)
       PROVE  TickHolds' /\ RecordNew'
  BY <1>16, <1>19 DEF LosesId
<1>20. QED
  BY <1>1, <1>2, <1>3, <1>4, <1>5, <1>6, <1>7, <1>8, <1>9,
     <1>10, <1>11, <1>12, <1>13, <1>14, <1>15, <1>17, <1>18, <1>19, NextCases

LEMMA InitSInv == Init => SInv
<1> SUFFICES ASSUME Init PROVE SInv
  OBVIOUS
<1>1. IInv
  BY InitIInv
<1>2. TickHolds /\ RecordNew
  BY DEF Init, TickHolds, RecordNew, NoRuns
<1>3. QED
  BY <1>1, <1>2 DEF SInv

LEMMA StepSInv ==
  ASSUME OneProcess, SInv, [Next]_vars
  PROVE  SInv'
<1>1. IInv'
  BY StepIInv DEF SInv
<1>2. QED
  BY <1>1, SerialStep DEF SInv

LEMMA SerialInvariance == ASSUME OneProcess PROVE Spec => []SInv
BY InitSInv, StepSInv, PTL DEF Spec

-----------------------------------------------------------------------------
(* The status files change where a submission records a job and where a     *)
(* tick writes one; the snapshot, where a submission writes it.             *)
LEMMA FileCases ==
  ASSUME [Next]_vars
  PROVE  \/ \E p \in Proc : WriteSnapshot(p) \/ RecordStatus(p)
         \/ \E p \in Proc, j \in Job : TickWrite(p, j)
         \/ UNCHANGED <<status, snapshot>>
<1>1. ASSUME NEW p \in Proc, SubmitStart(p) \/ EffectiveStart(p) \/ TickStart(p)
      PROVE  UNCHANGED <<status, snapshot>>
  BY <1>1 DEF SubmitStart, EffectiveStart, TickStart, Start, files
<1>2. ASSUME NEW p \in Proc, Preflight(p) \/ Sbatch(p) \/ SubmitReturn(p)
      PROVE  UNCHANGED <<status, snapshot>>
  BY <1>2 DEF Preflight, Sbatch, QueueJob, SubmitReturn, files
<1>3. ASSUME NEW p \in Proc, TickQuery(p) \/ TickReturn(p)
      PROVE  UNCHANGED <<status, snapshot>>
  BY <1>3 DEF TickQuery, TickReturn, files
<1>4. ASSUME NEW p \in Proc, NEW j \in Job,
             Preseed(p, j) \/ RenderBatch(p, j) \/ TickRead(p, j) \/ TickKeep(p, j)
      PROVE  UNCHANGED <<status, snapshot>>
  BY <1>4 DEF Preseed, RenderBatch, TickRead, TickKeep, files
<1>5. UNCHANGED files => UNCHANGED <<status, snapshot>>
  BY DEF files
<1>6. ASSUME NEW id \in SlurmId, NEW from \in {"Pending", "Running"}, NEW to \in JobState,
             SlurmStep(id, from, to)
      PROVE  UNCHANGED <<status, snapshot>>
  BY <1>6 DEF SlurmStep, files
<1>7. EditFlow \/ UNCHANGED vars => UNCHANGED <<status, snapshot>>
  BY DEF EditFlow, vars
<1>8. QED
  BY <1>1, <1>2, <1>3, <1>4, <1>5, <1>6, <1>7, NextCases DEF LosesId

(* What a decision that changes something makes of a lifecycle: it follows  *)
(* what SLURM says, or is Skipped behind a dead parent; never once it is    *)
(* terminal.                                                                *)
LEMMA DecisionEffect ==
  ASSUME NEW l \in Lifecycle, NEW q \in JobState \cup {NoState}, NEW P,
         DecideTransition(l, q, P) # NoChange
  PROVE  LET o == Outcome(l, DecideTransition(l, q, P))
         IN  \/ /\ l \in {"Queued", "Running"}
                /\ o \in {"Queued", "Running", "Success", "Failed"}
             \/ l = "Queued" /\ o = "Skipped" /\ \E k \in P : IsDead(k)
<1> DEFINE d == DecideTransition(l, q, P)
<1>1. l \in {"Queued", "Running"}
  BY DEF DecideTransition, IsTerminal, Lifecycle
<1>2. CASE l = "Queued" /\ \E k \in P : IsDead(k)
  <2>1. d = SkipDueToParent
    BY <1>2 DEF DecideTransition, IsTerminal
  <2>2. Outcome(l, d) = "Skipped"
    BY <2>1 DEF Outcome, SkipDueToParent
  <2>3. QED
    BY <1>2, <2>2
<1>3. CASE ~(l = "Queued" /\ \E k \in P : IsDead(k))
  <2>1. d = Transition(Bucket(l, q)) /\ q # NoState
    BY <1>1, <1>3 DEF DecideTransition, IsTerminal
  <2>2. Outcome(l, d) = Bucket(l, q)
    BY <2>1 DEF Outcome, Transition
  <2>3. Bucket(l, q) \in {"Queued", "Running", "Success", "Failed"}
    BY <1>1, <2>1 DEF Bucket, JobState
  <2>4. QED
    BY <1>1, <2>2, <2>3
<1>4. QED
  BY <1>2, <1>3

(* What a tick does to the status of the job it is at: it keeps the id, and *)
(* decides from what the files say.                                         *)
LEMMA TickEffect ==
  ASSUME OneProcess, SInv, NEW p \in Proc, NEW j \in Job, TickWrite(p, j)
  PROVE  /\ status[j] \in JobRun /\ status' = [status EXCEPT ![j] = Updated(p, j)]
         /\ Updated(p, j) \in JobRun /\ Updated(p, j).slurm_jobid = status[j].slurm_jobid
         /\ snapshot = flow[p] /\ snapshot \in Flow /\ UNCHANGED snapshot
         /\ Updated(p, j).lifecycle = "Running" =>
              \/ status[j].lifecycle = "Running"
              \/ reply[p][status[j].slurm_jobid] \in AliveStates
         /\ \/ /\ status[j].lifecycle \in {"Queued", "Running"}
               /\ Updated(p, j).lifecycle \in {"Queued", "Running", "Success", "Failed"}
            \/ /\ status[j].lifecycle = "Queued"
               /\ Updated(p, j).lifecycle = "Skipped"
               /\ \E i \in Parents(snapshot, j) :
                    /\ i \in Job /\ status[i] # None /\ cache[p][i] = status[i]
                    /\ IsDead(status[i].lifecycle)
<1> DEFINE run == cache[p][j]
           q == reply[p][run.slurm_jobid]
           P == {cache[p][i].lifecycle : i \in {i \in Parents(flow[p], j) : cache[p][i] # None}}
<1>1. pc[p] = "apply" /\ run # None /\ DecideTransition(run.lifecycle, q, P) # NoChange
  BY DEF TickWrite, Decide
<1>2. /\ run = status[j] /\ run \in JobRun
      /\ run.lifecycle \in Lifecycle /\ run.slurm_jobid \in SlurmId
      /\ flow[p] = snapshot /\ flow[p] \in Flow
  BY <1>1 DEF SInv, IInv, TypeOK, TickHolds, CommandFits, JobRun
<1>3. q \in JobState \cup {NoState}
  BY <1>2 DEF SInv, IInv, TypeOK
<1>4. /\ Updated(p, j) \in JobRun
      /\ Updated(p, j).slurm_jobid = run.slurm_jobid
      /\ Updated(p, j).lifecycle = Outcome(run.lifecycle, DecideTransition(run.lifecycle, q, P))
  BY <1>1, UpdatedSound DEF SInv, IInv, Updated, Decide
<1>5. status' = [status EXCEPT ![j] = Updated(p, j)] /\ UNCHANGED snapshot
  BY DEF TickWrite
<1>6. ASSUME NEW k \in P, IsDead(k)
      PROVE  \E i \in Parents(snapshot, j) :
               /\ i \in Job /\ status[i] # None /\ cache[p][i] = status[i]
               /\ IsDead(status[i].lifecycle)
  <2>1. PICK i \in Parents(flow[p], j) : cache[p][i] # None /\ k = cache[p][i].lifecycle
    BY <1>6
  <2>2. i \in Job
    BY <1>2, <2>1, FlowShape DEF Parents, Edge
  <2>3. cache[p][i] = status[i]
    BY <1>1, <2>1, <2>2 DEF SInv, TickHolds
  <2>4. QED
    BY <1>2, <1>6, <2>1, <2>2, <2>3
<1> HIDE DEF P, q
<1>7. Updated(p, j).lifecycle = "Running" => run.lifecycle = "Running" \/ q \in AliveStates
  BY <1>2, <1>3, <1>4, OutcomeSound
<1>8. \/ /\ run.lifecycle \in {"Queued", "Running"}
         /\ Updated(p, j).lifecycle \in {"Queued", "Running", "Success", "Failed"}
      \/ /\ run.lifecycle = "Queued" /\ Updated(p, j).lifecycle = "Skipped"
         /\ \E k \in P : IsDead(k)
  BY <1>1, <1>2, <1>3, <1>4, DecisionEffect
<1>9. QED
  BY <1>2, <1>4, <1>5, <1>6, <1>7, <1>8 DEF q

(* A status file that says how a job ended is not written by a tick.        *)
LEMMA TerminalStep ==
  ASSUME OneProcess, SInv, [Next]_vars, NEW j \in Job,
         status[j] # None, IsTerminal(status[j].lifecycle), ~Recording(j)
  PROVE  status'[j] = status[j]
<1>1. ASSUME NEW p \in Proc, RecordStatus(p)
      PROVE  status'[j] = status[j]
  <2>1. cur[p] # j
    BY <1>1 DEF Recording, RecordStatus
  <2>2. QED
    BY <1>1, <2>1 DEF SInv, IInv, TypeOK, RecordStatus
<1>2. ASSUME NEW p \in Proc, NEW i \in Job, TickWrite(p, i)
      PROVE  status'[j] = status[j]
  <2>1. i # j
    BY <1>2, TickEffect DEF IsTerminal
  <2>2. QED
    BY <1>2, <2>1, TickEffect DEF SInv, IInv, TypeOK
<1>3. ASSUME NEW p \in Proc, WriteSnapshot(p)
      PROVE  status'[j] = status[j]
  BY <1>3 DEF WriteSnapshot
<1>4. QED
  BY <1>1, <1>2, <1>3, FileCases

(***************************************************************************)
(* "Terminal states are never overwritten by tick" (architecture.md:332)   *)
(* is true of commands that do not overlap, whatever fails or crashes; it  *)
(* is the run two_ticks that shows it false of two ticks at once.          *)
(***************************************************************************)
THEOREM TerminalHolds == OneProcess => (Spec => TerminalKept)
<1> SUFFICES ASSUME OneProcess PROVE Spec => TerminalKept
  OBVIOUS
<1>1. ASSUME SInv, [Next]_vars
      PROVE  [\A j \in Job :
                status[j] # None /\ IsTerminal(status[j].lifecycle) /\ ~Recording(j)
                  => status'[j] = status[j]]_status
  BY <1>1, TerminalStep
<1>2. QED
  BY <1>1, SerialInvariance, PTL DEF Spec, TerminalKept

-----------------------------------------------------------------------------
(* An id was given out after those that its command got before it.          *)
HistoryFits == \A id \in Issued : slurm[id].earlier \subseteq Issued

(* The id about to be recorded is the newest one.                           *)
NewestRecorded ==
  \A p \in Proc : pc[p] = "record" =>
    LET new == submitted[p][cur[p]]
    IN  /\ new \in Issued
        /\ Issued \ {new} \subseteq slurm[new].prior
        /\ \A id \in Issued : new \notin slurm[id].earlier

TInv == SInv /\ HistoryFits /\ NewestRecorded /\ EverySubmissionTracked

(* The steps that matter to it, and what the others leave alone.            *)
LEMMA TrackCases ==
  ASSUME SInv, [Next]_vars
  PROVE  \/ \E p \in Proc : Sbatch(p) \/ LosesId(p) \/ RecordStatus(p)
         \/ \E p \in Proc, j \in Job : TickWrite(p, j)
         \/ \E p \in Proc : Exit(p) /\ UNCHANGED <<files, slurm>>
         \/ /\ Issued' = Issued /\ UNCHANGED <<status, issued>>
            /\ \A p \in Proc : /\ pc[p] = "record" <=> pc'[p] = "record"
                               /\ pc[p] = "record" => UNCHANGED <<submitted[p], cur[p]>>
<1> DEFINE Same == /\ Issued' = Issued /\ UNCHANGED <<status, issued>>
                   /\ \A p \in Proc : /\ pc[p] = "record" <=> pc'[p] = "record"
                                      /\ pc[p] = "record" => UNCHANGED <<submitted[p], cur[p]>>
<1>1. ASSUME NEW p \in Proc, SubmitStart(p) \/ EffectiveStart(p) \/ TickStart(p)
      PROVE  Same
  BY <1>1 DEF SInv, IInv, TypeOK, SubmitStart, EffectiveStart, TickStart, Start, files, Issued
<1>2. ASSUME NEW p \in Proc, WriteSnapshot(p) \/ Preflight(p) \/ SubmitReturn(p)
      PROVE  Same
  BY <1>2 DEF SInv, IInv, TypeOK, WriteSnapshot, Preflight, SubmitReturn, files, Issued
<1>3. ASSUME NEW p \in Proc, TickQuery(p) \/ TickReturn(p)
      PROVE  Same
  BY <1>3 DEF SInv, IInv, TypeOK, TickQuery, TickReturn, files, Issued
<1>4. ASSUME NEW p \in Proc, NEW j \in Job, Preseed(p, j)
      PROVE  Same
  <2>1. pc[p] = "preseed" /\ UNCHANGED <<pc, cur, status, issued, slurm>>
    BY <1>4 DEF Preseed, files
  <2>2. \A q \in Proc : q # p => submitted'[q] = submitted[q]
    BY <1>4 DEF SInv, IInv, TypeOK, Preseed
  <2>3. QED
    BY <2>1, <2>2 DEF Issued
<1>5. ASSUME NEW p \in Proc, NEW j \in Job, RenderBatch(p, j)
      PROVE  Same
  BY <1>5 DEF SInv, IInv, TypeOK, RenderBatch, Issued
<1>6. ASSUME NEW p \in Proc, NEW j \in Job, TickRead(p, j) \/ TickKeep(p, j)
      PROVE  Same
  BY <1>6 DEF SInv, IInv, TypeOK, TickRead, TickKeep, files, Issued
<1>7. ASSUME NEW id \in SlurmId, NEW from \in {"Pending", "Running"}, NEW to \in JobState,
             SlurmStep(id, from, to)
      PROVE  Same
  <2>1. Issued' \subseteq Issued
    BY <1>7 DEF SInv, IInv, TypeOK, SlurmStep, Issued
  <2>2. Issued \subseteq Issued'
    BY StepGrows DEF SInv, Grows, Issued
  <2>3. QED
    BY <1>7, <2>1, <2>2 DEF SlurmStep, files, locals
<1>8. EditFlow \/ UNCHANGED vars => Same
  BY DEF EditFlow, locals, vars, Issued
<1> HIDE DEF Same
<1>9. \/ \E p \in Proc : Sbatch(p) \/ LosesId(p) \/ RecordStatus(p)
      \/ \E p \in Proc, j \in Job : TickWrite(p, j)
      \/ \E p \in Proc : Exit(p) /\ UNCHANGED <<files, slurm>>
      \/ Same
  BY <1>1, <1>2, <1>3, <1>4, <1>5, <1>6, <1>7, <1>8, NextCases
<1>10. QED
  BY <1>9 DEF Same

(* What is known of the ids given out stays so when one more is.            *)
LEMMA HistoryStays ==
  ASSUME SInv, [Next]_vars, NEW id \in Issued
  PROVE  /\ id \in Issued' /\ slurm[id].job \in Job /\ slurm'[id].job = slurm[id].job
         /\ slurm'[id].earlier = slurm[id].earlier /\ slurm'[id].prior = slurm[id].prior
BY StepGrows DEF SInv, IInv, TypeOK, SlurmJob, Grows, Issued

(* While the statuses name what they named, an id stays named or replaced.  *)
LEMMA NamedKept ==
  ASSUME SInv, [Next]_vars, NEW id \in Issued, NamedOrReplaced(id),
         LET j == slurm[id].job
         IN  status'[j] # None /\ status'[j].slurm_jobid = status[j].slurm_jobid
  PROVE  NamedOrReplaced(id)'
<1> DEFINE j == slurm[id].job
           named == status[j].slurm_jobid
<1>1. j \in Job /\ slurm'[id].job = j
  BY HistoryStays
<1>2. status[j] # None /\ (named = id \/ id \in slurm[named].prior)
  BY DEF NamedOrReplaced
<1>3. named \in Issued
  BY <1>1, <1>2 DEF SInv, IInv, TypeOK, JobRun, StatusTrue, Truth, Issued
<1>4. slurm'[named].prior = slurm[named].prior
  BY <1>3, HistoryStays
<1>5. QED
  BY <1>1, <1>2, <1>4 DEF NamedOrReplaced

(* sbatch gave out a new id: the submission's earlier ones are named or     *)
(* replaced, and it is the newest.                                          *)
LEMMA QueueTracked ==
  ASSUME OneProcess, TInv, [Next]_vars, NEW p \in Proc, QueueJob(p), UNCHANGED status
  PROVE  /\ Issued' = Issued \cup {NewId} /\ NewId \in SlurmId \ Issued
         /\ HistoryFits'
         /\ slurm'[NewId].prior = Issued
         /\ \A id \in Issued' : NewId \notin slurm'[id].earlier
         /\ \A id \in Issued :
              \/ NamedOrReplaced(id)'
              \/ id \notin issued[p] /\ \A later \in Issued' : id \notin slurm'[later].earlier
<1>1. /\ NewId \in SlurmId \ Issued /\ slurm'[NewId] = SubmittedJob(p)
      /\ Issued' = Issued \cup {NewId} /\ pc[p] = "sbatch"
  <2>1. /\ NewId \in SlurmId /\ slurm[NewId] = None /\ SubmittedJob(p) # None
        /\ slurm' = [slurm EXCEPT ![NewId] = SubmittedJob(p)]
    BY NewJob DEF TInv, SInv
  <2>2. QED
    BY <2>1 DEF TInv, SInv, IInv, TypeOK, QueueJob, Issued
<1>2. SubmittedJob(p).earlier = issued[p] /\ SubmittedJob(p).prior = Issued
  BY DEF SubmittedJob, FreeIds, Issued
<1>3. issued[p] \subseteq Issued
  BY DEF TInv, SInv, IInv, TypeOK, LoopFresh, Issued
<1>4. HistoryFits'
  BY <1>1, <1>2, <1>3, HistoryStays DEF TInv, HistoryFits
<1>5. \A id \in Issued' : NewId \notin slurm'[id].earlier
  BY <1>1, <1>2, <1>3, HistoryStays DEF TInv, HistoryFits
<1>6. ASSUME NEW id \in Issued
      PROVE  \/ NamedOrReplaced(id)'
             \/ id \notin issued[p] /\ \A later \in Issued' : id \notin slurm'[later].earlier
  <2>1. NamedOrReplaced(id) \/ LastOfItsCommand(id)
    BY <1>1 DEF OneProcess, TInv, EverySubmissionTracked, BeingRecorded
  <2>2. CASE NamedOrReplaced(id)
    <3>1. status[slurm[id].job] # None
      BY <2>2 DEF NamedOrReplaced
    <3>2. QED
      BY <2>2, <3>1, NamedKept DEF TInv
  <2>3. CASE LastOfItsCommand(id)
    BY <1>1, <1>2, <2>3, HistoryStays DEF TInv, LastOfItsCommand
  <2>4. QED
    BY <2>1, <2>2, <2>3
<1>7. QED
  BY <1>1, <1>2, <1>4, <1>5, <1>6

(* Every step keeps the submissions tracked.                                *)
LEMMA TrackStep ==
  ASSUME OneProcess, TInv, [Next]_vars
  PROVE  HistoryFits' /\ NewestRecorded' /\ EverySubmissionTracked'
<1>1. ASSUME NEW p \in Proc, Sbatch(p)
      PROVE  HistoryFits' /\ NewestRecorded' /\ EverySubmissionTracked'
  <2>1. /\ QueueJob(p) /\ UNCHANGED <<status, cur>> /\ issued'[p] = issued[p] \cup {NewId}
        /\ pc'[p] = "record"
    BY <1>1 DEF TInv, SInv, IInv, TypeOK, Sbatch, files
  <2>2. submitted'[p][cur'[p]] = NewId
    BY <1>1, <2>1, NewJob DEF TInv, SInv, IInv, TypeOK, Sbatch, Inserted
  <2>3. NewestRecorded'
    BY <2>1, <2>2, QueueTracked DEF OneProcess, NewestRecorded
  <2>4. ASSUME NEW id \in Issued
        PROVE  NamedOrReplaced(id)' \/ LastOfItsCommand(id)'
    BY <2>1, QueueTracked DEF OneProcess, LastOfItsCommand
  <2>5. ASSUME NEW new, new = NewId
        PROVE  BeingRecorded(new)'
    BY <2>1, <2>2, <2>5 DEF BeingRecorded
  <2>6. QED
    BY <2>1, <2>3, <2>4, <2>5, QueueTracked DEF EverySubmissionTracked
<1>2. ASSUME NEW p \in Proc, LosesId(p)
      PROVE  HistoryFits' /\ NewestRecorded' /\ EverySubmissionTracked'
  <2>1. QueueJob(p) /\ UNCHANGED status /\ issued'[p] = {} /\ pc'[p] = "idle"
    BY <1>2 DEF TInv, SInv, IInv, TypeOK, LosesId, Exit, files
  <2>2. NewestRecorded'
    BY <2>1 DEF OneProcess, NewestRecorded
  <2>3. ASSUME NEW id \in Issued
        PROVE  NamedOrReplaced(id)' \/ LastOfItsCommand(id)'
    BY <2>1, QueueTracked DEF OneProcess, LastOfItsCommand
  <2>4. ASSUME NEW new, new = NewId
        PROVE  LastOfItsCommand(new)'
    BY <2>1, <2>4, QueueTracked DEF OneProcess, LastOfItsCommand
  <2>5. QED
    BY <2>1, <2>2, <2>3, <2>4, QueueTracked DEF EverySubmissionTracked
<1>3. ASSUME NEW p \in Proc, RecordStatus(p)
      PROVE  HistoryFits' /\ NewestRecorded' /\ EverySubmissionTracked'
  <2> DEFINE new == submitted[p][cur[p]]
             run == [lifecycle |-> "Queued", slurm_jobid |-> new, slurm_status |-> NoState]
  <2>1. /\ cur[p] \in Job /\ new \in SlurmId /\ slurm[new].job = cur[p]
        /\ status' = [status EXCEPT ![cur[p]] = run] /\ UNCHANGED <<slurm, issued>>
        /\ pc'[p] = "render" /\ pc[p] = "record"
    BY <1>3 DEF TInv, SInv, IInv, TypeOK, LoopFits, LoopFresh, Fresh, RecordStatus
  <2>2. run # None /\ run.slurm_jobid = new
    BY <2>1, NoneAssumption DEF JobRun, Lifecycle
  <2>3. status' \in [Job -> JobRun \cup {None}] /\ status'[cur[p]] = run
    BY <2>1, TypeStep DEF TInv, SInv, IInv, TypeOK
  <2>4. UNCHANGED Issued
    BY <2>1 DEF Issued
  <2> HIDE DEF run, new
  <2>5. ASSUME NEW id \in Issued
        PROVE  NamedOrReplaced(id)' \/ LastOfItsCommand(id)'
    <3>1. CASE slurm[id].job = cur[p]
      <4>1. id = new \/ id \in slurm[new].prior
        BY <2>1 DEF TInv, NewestRecorded, new
      <4>2. QED
        BY <2>1, <2>2, <2>3, <3>1, <4>1 DEF NamedOrReplaced
    <3>2. CASE slurm[id].job # cur[p]
      <4>1. NamedOrReplaced(id) \/ LastOfItsCommand(id)
        BY <2>1, <3>2 DEF OneProcess, TInv, EverySubmissionTracked, BeingRecorded, new
      <4>2. slurm[id].job \in Job
        BY HistoryStays DEF TInv
      <4>3. status'[slurm[id].job] = status[slurm[id].job]
        BY <2>1, <3>2, <4>2 DEF TInv, SInv, IInv, TypeOK
      <4>4. NamedOrReplaced(id) => NamedOrReplaced(id)'
        BY <2>1, <4>3 DEF NamedOrReplaced
      <4>5. LastOfItsCommand(id) => LastOfItsCommand(id)'
        BY <2>1, <2>4 DEF LastOfItsCommand
      <4>6. QED
        BY <4>1, <4>4, <4>5
    <3>3. QED
      BY <3>1, <3>2
  <2>6. HistoryFits'
    BY <2>1, <2>4 DEF TInv, HistoryFits
  <2>7. NewestRecorded'
    BY <2>1 DEF OneProcess, NewestRecorded
  <2>8. QED
    BY <2>4, <2>5, <2>6, <2>7 DEF EverySubmissionTracked
<1>4. ASSUME NEW p \in Proc, NEW j \in Job, TickWrite(p, j)
      PROVE  HistoryFits' /\ NewestRecorded' /\ EverySubmissionTracked'
  <2>1. /\ status' = [status EXCEPT ![j] = Updated(p, j)]
        /\ Updated(p, j) # None /\ Updated(p, j).slurm_jobid = status[j].slurm_jobid
    BY <1>4, TickEffect, NoneAssumption DEF TInv, SInv, IInv, TypeOK
  <2>2. UNCHANGED <<slurm, pc, issued>> /\ pc[p] = "apply"
    BY <1>4 DEF TickWrite
  <2>3. UNCHANGED Issued
    BY <2>2 DEF Issued
  <2>4. ASSUME NEW id \in Issued
        PROVE  NamedOrReplaced(id)' \/ LastOfItsCommand(id)'
    <3>1. NamedOrReplaced(id) \/ LastOfItsCommand(id)
      BY <2>2 DEF OneProcess, TInv, EverySubmissionTracked, BeingRecorded
    <3>2. slurm[id].job \in Job
      BY HistoryStays DEF TInv
    <3>3. status[slurm[id].job] # None =>
            /\ status'[slurm[id].job] # None
            /\ status'[slurm[id].job].slurm_jobid = status[slurm[id].job].slurm_jobid
      BY <2>1, <3>2 DEF TInv, SInv, IInv, TypeOK
    <3>4. NamedOrReplaced(id) => NamedOrReplaced(id)'
      BY <2>2, <3>3 DEF NamedOrReplaced
    <3>5. LastOfItsCommand(id) => LastOfItsCommand(id)'
      BY <2>2, <2>3 DEF LastOfItsCommand
    <3>6. QED
      BY <3>1, <3>4, <3>5
  <2>5. HistoryFits' /\ NewestRecorded'
    BY <2>2, <2>3 DEF OneProcess, TInv, HistoryFits, NewestRecorded
  <2>6. QED
    BY <2>3, <2>4, <2>5 DEF EverySubmissionTracked
<1>5. ASSUME NEW p \in Proc, Exit(p), UNCHANGED <<files, slurm>>
      PROVE  HistoryFits' /\ NewestRecorded' /\ EverySubmissionTracked'
  <2>1. pc'[p] = "idle" /\ issued'[p] = {} /\ UNCHANGED <<status, slurm>>
    BY <1>5 DEF TInv, SInv, IInv, TypeOK, Exit, files
  <2>2. UNCHANGED Issued
    BY <2>1 DEF Issued
  <2>3. ASSUME NEW id \in Issued
        PROVE  NamedOrReplaced(id)' \/ LastOfItsCommand(id)'
    <3>1. CASE BeingRecorded(id)
      <4>1. \A later \in Issued : id \notin slurm[later].earlier
        BY <3>1 DEF TInv, NewestRecorded, BeingRecorded
      <4>2. QED
        BY <2>1, <2>2, <4>1 DEF OneProcess, LastOfItsCommand
    <3>2. CASE NamedOrReplaced(id)
      BY <2>1, <3>2 DEF NamedOrReplaced
    <3>3. CASE LastOfItsCommand(id)
      BY <2>1, <2>2, <3>3 DEF OneProcess, LastOfItsCommand
    <3>4. QED
      BY <3>1, <3>2, <3>3 DEF TInv, EverySubmissionTracked
  <2>4. HistoryFits' /\ NewestRecorded'
    BY <2>1, <2>2 DEF OneProcess, TInv, HistoryFits, NewestRecorded
  <2>5. QED
    BY <2>2, <2>3, <2>4 DEF EverySubmissionTracked
<1>6. ASSUME Issued' = Issued, UNCHANGED <<status, issued>>,
             \A p \in Proc : /\ pc[p] = "record" <=> pc'[p] = "record"
                             /\ pc[p] = "record" => UNCHANGED <<submitted[p], cur[p]>>
      PROVE  HistoryFits' /\ NewestRecorded' /\ EverySubmissionTracked'
  <2>1. HistoryFits'
    BY <1>6, HistoryStays DEF TInv, HistoryFits
  <2>2. NewestRecorded'
    BY <1>6, HistoryStays DEF TInv, NewestRecorded
  <2>3. ASSUME NEW id \in Issued
        PROVE  BeingRecorded(id)' \/ NamedOrReplaced(id)' \/ LastOfItsCommand(id)'
    <3>1. BeingRecorded(id) => BeingRecorded(id)'
      BY <1>6 DEF BeingRecorded
    <3>2. NamedOrReplaced(id) => NamedOrReplaced(id)'
      <4>1. NamedOrReplaced(id) => status[slurm[id].job] # None
        BY DEF NamedOrReplaced
      <4>2. QED
        BY <1>6, <4>1, NamedKept DEF TInv
    <3>3. LastOfItsCommand(id) => LastOfItsCommand(id)'
      BY <1>6, HistoryStays DEF TInv, LastOfItsCommand
    <3>4. QED
      BY <3>1, <3>2, <3>3 DEF TInv, EverySubmissionTracked
  <2>4. QED
    BY <1>6, <2>1, <2>2, <2>3 DEF EverySubmissionTracked
<1>7. SInv
  BY DEF TInv
<1>8. QED
  BY <1>1, <1>2, <1>3, <1>4, <1>5, <1>6, <1>7, TrackCases

(***************************************************************************)
(* When commands do not overlap, a submission that dies - it crashes, a    *)
(* status cannot be written, sbatch fails or tells no id - loses at most   *)
(* the SLURM job it was at, however often the flow is edited and submitted *)
(* again: the status of a job names the newest id that was recorded for it.*)
(***************************************************************************)
THEOREM TrackingHolds == OneProcess => (Spec => []EverySubmissionTracked)
<1> SUFFICES ASSUME OneProcess PROVE Spec => []EverySubmissionTracked
  OBVIOUS
<1>1. Init => TInv
  BY InitSInv DEF Init, TInv, HistoryFits, NewestRecorded, EverySubmissionTracked, Issued
<1>2. ASSUME TInv, [Next]_vars PROVE TInv'
  BY <1>2, StepSInv, TrackStep DEF TInv
<1>3. TInv => EverySubmissionTracked
  BY DEF TInv
<1>4. QED
  BY <1>1, <1>2, <1>3, PTL DEF Spec

-----------------------------------------------------------------------------
(* What JobTracking sees of the files.                                      *)
Life     == [j \in Job |-> IF status[j] = None THEN "Pending" ELSE status[j].lifecycle]
Attempt  == [j \in Job |-> IF status[j] = None THEN None ELSE status[j].slurm_jobid]
ParentsOf == [j \in Job |-> IF snapshot = None THEN {} ELSE Parents(snapshot, j)]

(* Every step, whoever takes it and whatever fails, is one of JobTracking   *)
(* or changes nothing it sees.                                              *)
LEMMA StepOfTracking ==
  ASSUME OneProcess, SInv, [Next]_vars
  PROVE  [Tracking!Next]_(Tracking!vars)
<1> USE DEF Life, Attempt, ParentsOf
<1>1. ASSUME NEW p \in Proc, WriteSnapshot(p)
      PROVE  Tracking!Replace
  <2>1. flow[p] \in Flow /\ snapshot' = flow[p] /\ UNCHANGED status
    BY <1>1 DEF SInv, IInv, CommandFits, WriteSnapshot
  <2>2. \A j \in Job : Parents(flow[p], j) \subseteq Job
    BY <2>1, FlowShape DEF Parents, Edge
  <2>3. ParentsOf' \in [Job -> SUBSET Job] /\ UNCHANGED <<Life, Attempt>>
    BY <2>1, <2>2, FlowShape
  <2>4. QED
    BY <2>3 DEF Tracking!Replace
<1>2. ASSUME NEW p \in Proc, RecordStatus(p)
      PROVE  \E j \in Job, id \in SlurmId : Tracking!Queue(j, id)
  <2> DEFINE j == cur[p]
             id == submitted[p][j]
             run == [lifecycle |-> "Queued", slurm_jobid |-> id, slurm_status |-> NoState]
  <2>1. /\ j \in Job /\ id \in SlurmId /\ UNCHANGED snapshot
        /\ status' = [status EXCEPT ![j] = run]
    BY <1>2 DEF SInv, IInv, TypeOK, LoopFits, LoopFresh, Fresh, RecordStatus
  <2>2. \A i \in Job : Attempt[i] # id
    BY <1>2, <2>1, NoneAssumption DEF SInv, RecordNew, RecordStatus
  <2>3. run # None
    BY <2>1, NoneAssumption DEF JobRun, Lifecycle
  <2>4. status \in [Job -> JobRun \cup {None}]
    BY DEF SInv, IInv, TypeOK
  <2>5. Life' = [Life EXCEPT ![j] = "Queued"]
    BY <2>1, <2>3, <2>4
  <2>6. Attempt' = [Attempt EXCEPT ![j] = id]
    BY <2>1, <2>3, <2>4
  <2>7. UNCHANGED ParentsOf
    BY <2>1
  <2>8. QED
    BY <2>1, <2>2, <2>5, <2>6, <2>7 DEF Tracking!Queue
<1>3. ASSUME NEW p \in Proc, NEW j \in Job, TickWrite(p, j)
      PROVE  Tracking!Follow(j) \/ Tracking!Skip(j)
  <2> DEFINE new == Updated(p, j)
  <2>1. /\ status[j] \in JobRun /\ new \in JobRun /\ status' = [status EXCEPT ![j] = new]
        /\ new.slurm_jobid = status[j].slurm_jobid /\ UNCHANGED snapshot
    BY <1>3, TickEffect
  <2> HIDE DEF new
  <2>2. status[j] # None /\ new # None /\ status \in [Job -> JobRun \cup {None}]
    BY <2>1, NoneAssumption DEF SInv, IInv, TypeOK
  <2>3. Life' = [Life EXCEPT ![j] = new.lifecycle]
    BY <2>1, <2>2
  <2>4. UNCHANGED Attempt
    BY <2>1, <2>2
  <2>5. UNCHANGED ParentsOf
    BY <2>1
  <2>6. CASE /\ status[j].lifecycle \in {"Queued", "Running"}
             /\ new.lifecycle \in {"Queued", "Running", "Success", "Failed"}
    <3>1. Life[j] \in {"Queued", "Running"}
      BY <2>2, <2>6
    <3>2. QED
      BY <2>3, <2>4, <2>5, <2>6, <3>1 DEF Tracking!Follow
  <2>7. CASE /\ status[j].lifecycle = "Queued" /\ new.lifecycle = "Skipped"
             /\ \E i \in Parents(snapshot, j) :
                  i \in Job /\ status[i] # None /\ IsDead(status[i].lifecycle)
    <3>1. snapshot # None
      BY <1>3, TickEffect, FlowShape
    <3>2. PICK i \in Parents(snapshot, j) :
            i \in Job /\ status[i] # None /\ IsDead(status[i].lifecycle)
      BY <2>7
    <3>3. Life[j] = "Queued" /\ i \in ParentsOf[j] /\ Life[i] \in {"Failed", "Skipped"}
      BY <2>2, <2>7, <3>1, <3>2 DEF IsDead
    <3>4. QED
      BY <2>3, <2>4, <2>5, <2>7, <3>3 DEF Tracking!Skip
  <2>8. QED
    BY <1>3, <2>6, <2>7, TickEffect DEF new
<1>4. ASSUME UNCHANGED <<status, snapshot>>
      PROVE  UNCHANGED Tracking!vars
  BY <1>4 DEF Tracking!vars
<1>5. QED
  BY <1>1, <1>2, <1>3, <1>4, FileCases DEF Tracking!Next

(***************************************************************************)
(* Commands that do not overlap, of any flow, submitted again and edited   *)
(* as often as you like, dying wherever they may: the status files are the *)
(* statuses of JobTracking.                                                *)
(***************************************************************************)
THEOREM TrackingRefined == OneProcess => (Spec => ImplementsTracking)
<1> SUFFICES ASSUME OneProcess PROVE Spec => ImplementsTracking
  OBVIOUS
<1>1. Init => Tracking!Init
  BY DEF Init, Tracking!Init
<1>2. QED
  BY <1>1, StepOfTracking, SerialInvariance, PTL DEF Spec, ImplementsTracking, Tracking!Spec

-----------------------------------------------------------------------------
(***************************************************************************)
(* What holds of the flow runner when its commands do not overlap and the  *)
(* flow is submitted once, for every flow, every number of jobs and ids,   *)
(* and whatever SLURM does: refusals, lost replies, requeues and cancels.  *)
(*                                                                         *)
(* The argument.  The dependency of a job is on the id that the status of  *)
(* its parent names (DepsNamed), and every flow that is held               *)
(* somewhere is the same (OneFlow).  So where all edges are afterok, a job *)
(* that has run has parents that completed (RunHad), and one that a tick   *)
(* skips waits in SLURM for one that never will (SkipBlocked): it does not *)
(* start, and a job behind it may be skipped in turn.  For the same reason *)
(* a job that is requeued has no dead parent, and what a tick decides for  *)
(* it, it would not decide otherwise right after (Visited).                *)
(***************************************************************************)

\* The flow is submitted once, by a submission that does not crash, and not edited.
OneSubmission == Env \cap {"resubmit", "abort", "edit"} = {}

(* Every flow that is held somewhere is the one there is.                   *)
OneFlow ==
  /\ snapshot \in {flowToml, None}
  /\ \A p \in Proc : flow[p] \in {flowToml, None}
  /\ \A id \in Issued : slurm[id].flow = flowToml

(* A job the submission has still to visit has no status.                   *)
Unsubmitted ==
  \A p \in Proc : cmd[p] = "submit" =>
    /\ pc[p] \in {"snapshot", "preseed"} => status = NoRuns
    /\ pc[p] \in {"render", "sbatch", "record"} => \A j \in todo[p] : status[j] = None

(* The status of a job that the submission has visited names the id it got. *)
VisitedNamed ==
  \A p \in Proc : pc[p] \in {"render", "sbatch", "record"} /\ cmd[p] = "submit" =>
    \A j \in flow[p].jobs \ todo[p] :
      status[j] # None /\ status[j].slurm_jobid = submitted[p][j]

(* A job depends on the ids that the statuses of its parents name.          *)
DepsNamed ==
  \A id \in Issued : \A d \in slurm[id].deps :
    /\ d.id \in Issued
    /\ status[slurm[d.id].job] # None
    /\ status[slurm[d.id].job].slurm_jobid = d.id

(* Job id's afterok parents completed.                                      *)
ParentsDone(id) ==
  \A d \in slurm[id].deps : d.kind = "afterok" => slurm[d.id].state = "Completed"

(* What SLURM started, or a status or a reply says it did, had them so.     *)
RunHad ==
  /\ \A id \in Issued : slurm[id].state \notin {"Pending", "Cancelled"} => ParentsDone(id)
  /\ \A j \in Job : status[j] # None /\ status[j].lifecycle = "Running" =>
       ParentsDone(status[j].slurm_jobid)
  /\ \A p \in Proc, id \in SlurmId : reply[p][id] \in AliveStates =>
       id \in Issued /\ ParentsDone(id)

(* A skipped job has not started, and waits for one that failed, or was     *)
(* skipped itself.                                                          *)
SkipQuiet ==
  \A j \in Job : status[j] # None /\ status[j].lifecycle = "Skipped" =>
    slurm[status[j].slurm_jobid].state \in {"Pending", "Cancelled"}

DeadDep(d) ==
  /\ d.kind = "afterok"
  /\ \/ slurm[d.id].state \in FailureStates
     \/ \E i \in Job : /\ status[i] # None /\ status[i].lifecycle = "Skipped"
                       /\ status[i].slurm_jobid = d.id

SkipBlocked ==
  \A j \in Job : status[j] # None /\ status[j].lifecycle = "Skipped" =>
    \E d \in slurm[status[j].slurm_jobid].deps : DeadDep(d)

(* What a tick has visited would not be decided otherwise again.            *)
Visited ==
  \A p \in Proc : pc[p] \in {"apply", "returned"} /\ cmd[p] = "tick" =>
    /\ pc[p] = "returned" => todo[p] = {}
    /\ \A j \in flow[p].jobs \ todo[p] :
         /\ Parents(flow[p], j) \cap todo[p] = {}
         /\ cache[p][j] # None => Decide(p, j) = NoChange

OnceInv == /\ SInv /\ OneFlow /\ Unsubmitted /\ VisitedNamed /\ DepsNamed /\ RunHad
           /\ OnlyAfterok(flowToml) => SkipQuiet /\ SkipBlocked /\ Visited

-----------------------------------------------------------------------------
(* The flow in a process, in the snapshot and with a job stays the one.     *)
LEMMA FlowStep ==
  ASSUME OneProcess, OneSubmission, OnceInv, [Next]_vars
  PROVE  OneFlow' /\ UNCHANGED flowToml
<1> DEFINE HeldFlows == /\ snapshot' \in {flowToml, None}
                        /\ \A p \in Proc : flow'[p] \in {flowToml, None}
                        /\ UNCHANGED flowToml
<1>1. ASSUME NEW p \in Proc, SubmitStart(p) \/ EffectiveStart(p) \/ TickStart(p)
      PROVE  HeldFlows
  BY <1>1 DEF OnceInv, SInv, IInv, TypeOK, OneFlow, SubmitStart, EffectiveStart, TickStart,
     Start, files
<1>2. ASSUME NEW p \in Proc, WriteSnapshot(p)
      PROVE  HeldFlows
  BY <1>2 DEF OnceInv, OneFlow, WriteSnapshot
<1>3. ASSUME NEW p \in Proc,
             Preflight(p) \/ Sbatch(p) \/ RecordStatus(p) \/ SubmitReturn(p)
               \/ TickQuery(p) \/ TickReturn(p)
      PROVE  HeldFlows
  BY <1>3 DEF OnceInv, OneFlow, Preflight, Sbatch, QueueJob, RecordStatus, SubmitReturn, TickQuery,
     TickReturn, files
<1>4. ASSUME NEW p \in Proc, NEW j \in Job,
             Preseed(p, j) \/ RenderBatch(p, j) \/ TickRead(p, j) \/ TickKeep(p, j)
               \/ TickWrite(p, j)
      PROVE  HeldFlows
  BY <1>4 DEF OnceInv, OneFlow, Preseed, RenderBatch, TickRead, TickKeep, TickWrite, files
<1>5. ASSUME NEW p \in Proc, Exit(p), UNCHANGED files
      PROVE  HeldFlows
  BY <1>5 DEF OnceInv, SInv, IInv, TypeOK, OneFlow, Exit, files
<1>6. ASSUME NEW id \in SlurmId, NEW from \in {"Pending", "Running"}, NEW to \in JobState,
             SlurmStep(id, from, to)
      PROVE  HeldFlows
  BY <1>6 DEF OnceInv, OneFlow, SlurmStep, files, locals
<1>7. ~EditFlow
  BY DEF OneSubmission, EditFlow
<1>8. UNCHANGED vars => HeldFlows
  BY DEF OnceInv, OneFlow, vars
<1>9. HeldFlows
  BY <1>1, <1>2, <1>3, <1>4, <1>5, <1>6, <1>7, <1>8, NextCases DEF LosesId
<1>10. ASSUME NEW id \in SlurmId, slurm'[id] # None
       PROVE  slurm'[id].flow = flowToml
  <2>1. CASE slurm[id] # None
    BY <2>1, StepGrows DEF OnceInv, SInv, OneFlow, Issued, Grows
  <2>2. CASE slurm[id] = None
    <3>1. ~UNCHANGED slurm
      BY <1>10, <2>2
    <3>2. ASSUME NEW i \in SlurmId, NEW from \in {"Pending", "Running"}, NEW to \in JobState,
                 SlurmStep(i, from, to)
          PROVE  FALSE
      BY <1>10, <2>2, <3>2 DEF OnceInv, SInv, IInv, TypeOK, SlurmStep
    <3>3. PICK p \in Proc : QueueJob(p)
      BY <3>1, <3>2, SlurmCases DEF OnceInv, SInv
    <3>4. /\ slurm' = [slurm EXCEPT ![NewId] = SubmittedJob(p)] /\ NewId \in SlurmId
          /\ SubmittedJob(p).flow = flow[p] /\ flow[p] \in Flow
      BY <3>3, NewJob DEF OnceInv, SInv, SubmittedJob
    <3>5. slurm'[id] = SubmittedJob(p) /\ flow[p] = flowToml
      BY <1>10, <2>2, <3>4, FlowShape DEF OnceInv, SInv, IInv, TypeOK, OneFlow
    <3>6. QED
      BY <3>4, <3>5
  <2>3. QED
    BY <2>1, <2>2
<1>11. QED
  BY <1>9, <1>10 DEF OneFlow, Issued

(* The submission comes to jobs that have no status.                        *)
LEMMA UnsubmittedStep ==
  ASSUME OneProcess, OneSubmission, OnceInv, [Next]_vars
  PROVE  Unsubmitted'
<1>1. ASSUME NEW p \in Proc, SubmitStart(p)
      PROVE  Unsubmitted'
  <2>1. cmd'[p] = "submit" => status = NoRuns
    <3>1. cmd'[p] = "submit" => FreeIds = SlurmId
      BY <1>1 DEF OnceInv, SInv, IInv, TypeOK, OneSubmission, SubmitStart, Start, NothingSubmitted
    <3>2. FreeIds = SlurmId => \A j \in Job : status[j] = None
      BY DEF OnceInv, SInv, IInv, TypeOK, JobRun, StatusTrue, Truth, FreeIds
    <3>3. QED
      BY <3>1, <3>2 DEF OnceInv, SInv, IInv, TypeOK, NoRuns
  <2>2. \A q \in Proc : q = p
    BY DEF OneProcess
  <2>3. pc'[p] = "snapshot" /\ UNCHANGED status
    BY <1>1 DEF OnceInv, SInv, IInv, TypeOK, SubmitStart, Start, files
  <2>4. QED
    BY <2>1, <2>2, <2>3 DEF Unsubmitted
<1>2. ASSUME NEW p \in Proc, EffectiveStart(p)
      PROVE  Unsubmitted'
  BY <1>2 DEF OneProcess, OnceInv, SInv, IInv, TypeOK, CommandFits, Unsubmitted, EffectiveStart, Start, files
<1>3. ASSUME NEW p \in Proc, WriteSnapshot(p)
      PROVE  Unsubmitted'
  BY <1>3 DEF OneProcess, OnceInv, SInv, IInv, TypeOK, CommandFits, Unsubmitted, WriteSnapshot
<1>4. ASSUME NEW p \in Proc, NEW j \in Job, Preseed(p, j)
      PROVE  Unsubmitted'
  BY <1>4 DEF OneProcess, OnceInv, SInv, IInv, TypeOK, CommandFits, Unsubmitted, Preseed, files
<1>5. ASSUME NEW p \in Proc, Preflight(p)
      PROVE  Unsubmitted'
  BY <1>5, FlowShape DEF OneProcess, OnceInv, SInv, IInv, TypeOK, CommandFits, Unsubmitted,
     NoRuns, Preflight, files
<1>6. ASSUME NEW p \in Proc, NEW j \in Job, RenderBatch(p, j)
      PROVE  Unsubmitted'
  BY <1>6, FlowShape DEF OneProcess, OnceInv, SInv, IInv, TypeOK, CommandFits, Unsubmitted,
     NoRuns, RenderBatch
<1>7. ASSUME NEW p \in Proc, Sbatch(p)
      PROVE  Unsubmitted'
  BY <1>7 DEF OneProcess, OnceInv, SInv, IInv, TypeOK, CommandFits, Unsubmitted, Sbatch, QueueJob, files
<1>8. ASSUME NEW p \in Proc, RecordStatus(p)
      PROVE  Unsubmitted'
  BY <1>8 DEF OneProcess, OnceInv, SInv, IInv, TypeOK, CommandFits, Unsubmitted, RecordStatus
<1>9. ASSUME NEW p \in Proc, SubmitReturn(p)
      PROVE  Unsubmitted'
  BY <1>9 DEF OneProcess, OnceInv, SInv, IInv, TypeOK, CommandFits, Unsubmitted, SubmitReturn, files
<1>10. ASSUME NEW p \in Proc, TickStart(p)
      PROVE  Unsubmitted'
  BY <1>10 DEF OneProcess, OnceInv, SInv, IInv, TypeOK, CommandFits, Unsubmitted, TickStart, Start, files
<1>11. ASSUME NEW p \in Proc, NEW j \in Job, TickRead(p, j)
      PROVE  Unsubmitted'
  BY <1>11 DEF OneProcess, OnceInv, SInv, IInv, TypeOK, CommandFits, Unsubmitted, TickRead, files
<1>12. ASSUME NEW p \in Proc, TickQuery(p)
      PROVE  Unsubmitted'
  BY <1>12 DEF OneProcess, OnceInv, SInv, IInv, TypeOK, CommandFits, Unsubmitted, TickQuery, files
<1>13. ASSUME NEW p \in Proc, NEW j \in Job, TickKeep(p, j)
      PROVE  Unsubmitted'
  BY <1>13 DEF OneProcess, OnceInv, SInv, IInv, TypeOK, CommandFits, Unsubmitted, TickKeep, files
<1>14. ASSUME NEW p \in Proc, NEW j \in Job, TickWrite(p, j)
      PROVE  Unsubmitted'
  BY <1>14 DEF OneProcess, OnceInv, SInv, IInv, TypeOK, CommandFits, Unsubmitted, TickWrite
<1>15. ASSUME NEW p \in Proc, TickReturn(p)
      PROVE  Unsubmitted'
  BY <1>15 DEF OneProcess, OnceInv, SInv, IInv, TypeOK, CommandFits, Unsubmitted, TickReturn, files
<1>16. ASSUME NEW p \in Proc, Exit(p), UNCHANGED files
      PROVE  Unsubmitted'
  BY <1>16 DEF OneProcess, OnceInv, SInv, IInv, TypeOK, Unsubmitted, Exit
<1>17. ASSUME NEW id \in SlurmId, NEW from \in {"Pending", "Running"}, NEW to \in JobState,
             SlurmStep(id, from, to)
      PROVE  Unsubmitted'
  BY <1>17 DEF OnceInv, Unsubmitted, SlurmStep, files, locals
<1>18. CASE EditFlow \/ UNCHANGED vars
  BY <1>18 DEF OnceInv, Unsubmitted, EditFlow, locals, vars
<1>19. QED
  BY <1>1, <1>2, <1>3, <1>4, <1>5, <1>6, <1>7, <1>8, <1>9,
     <1>10, <1>11, <1>12, <1>13, <1>14, <1>15, <1>16, <1>17, <1>18, NextCases DEF LosesId

(* A status keeps the id it names.                                          *)
LEMMA NamedStays ==
  ASSUME OneProcess, OnceInv, [Next]_vars, NEW j \in Job, status[j] # None
  PROVE  status'[j] # None /\ status'[j].slurm_jobid = status[j].slurm_jobid
<1>1. ASSUME NEW p \in Proc, RecordStatus(p)
      PROVE  status'[j] = status[j]
  <2>1. status[cur[p]] = None
    BY <1>1 DEF OnceInv, SInv, IInv, CommandFits, LoopFits, Unsubmitted, RecordStatus
  <2>2. QED
    BY <1>1, <2>1 DEF OnceInv, SInv, IInv, TypeOK, RecordStatus
<1>2. ASSUME NEW p \in Proc, NEW i \in Job, TickWrite(p, i)
      PROVE  status'[j] # None /\ status'[j].slurm_jobid = status[j].slurm_jobid
  <2>1. /\ status' = [status EXCEPT ![i] = Updated(p, i)]
        /\ Updated(p, i) # None /\ Updated(p, i).slurm_jobid = status[i].slurm_jobid
    BY <1>2, TickEffect, NoneAssumption DEF OnceInv, SInv, IInv, TypeOK
  <2>2. QED
    BY <2>1 DEF OnceInv, SInv, IInv, TypeOK
<1>3. ASSUME NEW p \in Proc, WriteSnapshot(p)
      PROVE  status'[j] = status[j]
  BY <1>3 DEF WriteSnapshot
<1>4. QED
  BY <1>1, <1>2, <1>3, FileCases

(* A submission records each job it visits under the id it got.             *)
LEMMA VisitedNamedStep ==
  ASSUME OneProcess, OnceInv, [Next]_vars
  PROVE  VisitedNamed'
<1>1. ASSUME NEW p \in Proc, SubmitStart(p) \/ EffectiveStart(p) \/ TickStart(p)
      PROVE  VisitedNamed'
  BY <1>1 DEF OneProcess, OnceInv, SInv, IInv, TypeOK, VisitedNamed, SubmitStart, EffectiveStart,
     TickStart, Start
<1>2. ASSUME NEW p \in Proc, WriteSnapshot(p) \/ SubmitReturn(p)
      PROVE  VisitedNamed'
  BY <1>2 DEF OneProcess, OnceInv, SInv, IInv, TypeOK, VisitedNamed, WriteSnapshot, SubmitReturn
<1>3. ASSUME NEW p \in Proc, NEW j \in Job, Preseed(p, j)
      PROVE  VisitedNamed'
  BY <1>3 DEF OneProcess, OnceInv, SInv, IInv, TypeOK, VisitedNamed, Preseed
<1>4. ASSUME NEW p \in Proc, Preflight(p)
      PROVE  VisitedNamed'
  BY <1>4 DEF OneProcess, OnceInv, SInv, IInv, TypeOK, VisitedNamed, Preflight
<1>5. ASSUME NEW p \in Proc, NEW j \in Job, RenderBatch(p, j)
      PROVE  VisitedNamed'
  BY <1>5 DEF OneProcess, OnceInv, SInv, IInv, TypeOK, VisitedNamed, RenderBatch
<1>6. ASSUME NEW p \in Proc, Sbatch(p)
      PROVE  VisitedNamed'
  <2>1. /\ cur[p] \in todo[p] /\ cur[p] \in Job /\ cmd[p] = "submit" /\ pc[p] = "sbatch"
        /\ flow[p] \in Flow
    BY <1>6, NewJob DEF OnceInv, SInv, Sbatch, QueueJob
  <2>2. \A j \in Job : j # cur[p] => submitted'[p][j] = submitted[p][j]
    BY <1>6, <2>1 DEF OnceInv, SInv, IInv, TypeOK, Sbatch, Inserted
  <2>3. UNCHANGED <<status, flow, todo>>
    BY <1>6 DEF Sbatch, files
  <2>4. \A j \in flow[p].jobs \ todo[p] :
          status[j] # None /\ status[j].slurm_jobid = submitted[p][j]
    BY <2>1 DEF OnceInv, VisitedNamed
  <2>5. QED
    BY <2>1, <2>2, <2>3, <2>4, FlowShape DEF OneProcess, VisitedNamed
<1>7. ASSUME NEW p \in Proc, RecordStatus(p)
      PROVE  VisitedNamed'
  <2> DEFINE run == [lifecycle |-> "Queued", slurm_jobid |-> submitted[p][cur[p]],
                     slurm_status |-> NoState]
  <2>1. /\ cur[p] \in todo[p] /\ cur[p] \in Job /\ cmd[p] = "submit" /\ pc[p] = "record"
        /\ flow[p] \in Flow /\ submitted[p][cur[p]] \in SlurmId
    BY <1>7 DEF OnceInv, SInv, IInv, TypeOK, CommandFits, LoopFits, LoopFresh, Fresh, RecordStatus
  <2>2. /\ status' = [status EXCEPT ![cur[p]] = run] /\ todo' = [todo EXCEPT ![p] = @ \ {cur[p]}]
        /\ UNCHANGED <<flow, submitted>>
    BY <1>7 DEF RecordStatus
  <2>3. run # None
    BY <2>1, NoneAssumption DEF JobRun, Lifecycle
  <2>4. \A j \in flow[p].jobs \ todo[p] :
          status[j] # None /\ status[j].slurm_jobid = submitted[p][j]
    BY <2>1 DEF OnceInv, VisitedNamed
  <2>5. \A j \in flow[p].jobs \ todo'[p] :
          status'[j] # None /\ status'[j].slurm_jobid = submitted[p][j]
    BY <2>1, <2>2, <2>3, <2>4, FlowShape DEF OnceInv, SInv, IInv, TypeOK
  <2>6. QED
    BY <2>2, <2>5 DEF OneProcess, VisitedNamed
<1>8. ASSUME NEW p \in Proc, TickQuery(p) \/ TickReturn(p)
      PROVE  VisitedNamed'
  BY <1>8 DEF OneProcess, OnceInv, SInv, IInv, TypeOK, VisitedNamed, TickQuery, TickReturn
<1>9. ASSUME NEW p \in Proc, NEW j \in Job, TickRead(p, j) \/ TickKeep(p, j) \/ TickWrite(p, j)
      PROVE  VisitedNamed'
  BY <1>9 DEF OneProcess, OnceInv, SInv, IInv, TypeOK, VisitedNamed, TickRead, TickKeep, TickWrite
<1>10. ASSUME NEW p \in Proc, Exit(p)
       PROVE  VisitedNamed'
  BY <1>10 DEF OneProcess, OnceInv, SInv, IInv, TypeOK, VisitedNamed, Exit
<1>11. ASSUME UNCHANGED <<locals, status>>
       PROVE  VisitedNamed'
  BY <1>11 DEF OnceInv, VisitedNamed, locals
<1>12. ASSUME NEW id \in SlurmId, NEW from \in {"Pending", "Running"}, NEW to \in JobState,
              SlurmStep(id, from, to)
       PROVE  UNCHANGED <<locals, status>>
  BY <1>12 DEF SlurmStep, files
<1>13. EditFlow \/ UNCHANGED vars => UNCHANGED <<locals, status>>
  BY DEF EditFlow, locals, vars
<1>14. QED
  BY <1>1, <1>2, <1>3, <1>4, <1>5, <1>6, <1>7, <1>8, <1>9, <1>10, <1>11, <1>12, <1>13,
     NextCases DEF LosesId

(* The dependencies of a job are the ids that the statuses of its parents   *)
(* name: a submission comes to it after it recorded them.                   *)
LEMMA DepsNamedStep ==
  ASSUME OneProcess, OnceInv, [Next]_vars
  PROVE  DepsNamed'
<1>1. ASSUME NEW i \in Issued, status[slurm[i].job] # None,
             status[slurm[i].job].slurm_jobid = i
      PROVE  /\ i \in Issued'
             /\ status'[slurm'[i].job] # None
             /\ status'[slurm'[i].job].slurm_jobid = i
  <2>1. /\ slurm[i].job \in Job /\ slurm'[i].job = slurm[i].job /\ i \in Issued'
    BY StepGrows DEF OnceInv, SInv, IInv, TypeOK, SlurmJob, Grows, Issued
  <2>2. QED
    BY <1>1, <2>1, NamedStays
<1>2. ASSUME NEW id \in Issued, NEW d \in slurm'[id].deps
      PROVE  /\ d.id \in Issued'
             /\ status'[slurm'[d.id].job] # None
             /\ status'[slurm'[d.id].job].slurm_jobid = d.id
  <2>1. d \in slurm[id].deps
    BY <1>2, StepGrows DEF OnceInv, SInv, Grows, Issued
  <2>2. /\ d.id \in Issued
        /\ status[slurm[d.id].job] # None
        /\ status[slurm[d.id].job].slurm_jobid = d.id
    BY <2>1 DEF OnceInv, DepsNamed
  <2>3. QED
    BY <1>1, <2>2
<1>3. ASSUME NEW p \in Proc, QueueJob(p), NEW d \in slurm'[NewId].deps
      PROVE  /\ d.id \in Issued'
             /\ status'[slurm'[d.id].job] # None
             /\ status'[slurm'[d.id].job].slurm_jobid = d.id
  <2>1. /\ slurm'[NewId] = SubmittedJob(p) /\ cur[p] \in Job /\ flow[p] \in Flow
        /\ cmd[p] = "submit" /\ pc[p] = "sbatch" /\ cur[p] \in flow[p].jobs /\ Orderable(flow[p])
    BY <1>3, NewJob DEF OnceInv, SInv, IInv, TypeOK, QueueJob
  <2>2. PICK e \in flow[p].parents[cur[p]] : d.id = submitted[p][e.from]
    BY <1>3, <2>1 DEF SubmittedJob, BuildDependency
  <2>3. e.from \in Parents(flow[p], cur[p])
    BY DEF Parents
  <2>4. e.from \in flow[p].jobs \ todo[p]
    BY <2>1, <2>3 DEF OnceInv, SInv, IInv, LoopFits, Orderable
  <2>5. Fresh(p, e.from) /\ d.id \in Issued /\ slurm[d.id].job = e.from
    <3>1. Fresh(p, e.from)
      BY <2>1, <2>4 DEF OnceInv, SInv, IInv, LoopFresh
    <3>2. QED
      BY <2>2, <3>1 DEF OnceInv, SInv, IInv, TypeOK, LoopFresh, Fresh, Issued
  <2>6. status[e.from] # None /\ status[e.from].slurm_jobid = d.id
    BY <2>1, <2>2, <2>4 DEF OnceInv, VisitedNamed
  <2>7. QED
    BY <1>1, <2>5, <2>6
<1>4. QED
  BY <1>2, <1>3, IssuedCases DEF OnceInv, SInv, DepsNamed

(* Parents that completed stay so.                                          *)
LEMMA DoneStays ==
  ASSUME OneProcess, OnceInv, [Next]_vars, NEW id \in Issued, ParentsDone(id)
  PROVE  ParentsDone(id)'
<1>1. slurm'[id].deps = slurm[id].deps
  BY StepGrows DEF OnceInv, SInv, Grows, Issued
<1>2. \A d \in slurm[id].deps : d.id \in SlurmId /\ slurm[d.id] # None
  BY DEF OnceInv, DepsNamed, Issued
<1>3. \A d \in slurm[id].deps : slurm[d.id].state = "Completed" => slurm'[d.id].state = "Completed"
  BY <1>2, StepGrows DEF OnceInv, SInv, Grows
<1>4. QED
  BY <1>1, <1>3 DEF ParentsDone

(* The replies change where a tick asks and where a process ends.           *)
LEMMA ReplyCases ==
  ASSUME [Next]_vars
  PROVE  \/ \E p \in Proc : TickQuery(p) \/ Exit(p)
         \/ UNCHANGED reply
<1>1. ASSUME NEW p \in Proc,
             SubmitStart(p) \/ EffectiveStart(p) \/ TickStart(p) \/ WriteSnapshot(p)
               \/ Preflight(p) \/ Sbatch(p) \/ RecordStatus(p) \/ SubmitReturn(p)
               \/ TickReturn(p)
      PROVE  UNCHANGED reply
  BY <1>1 DEF SubmitStart, EffectiveStart, TickStart, Start, WriteSnapshot, Preflight,
     Sbatch, QueueJob, RecordStatus, SubmitReturn, TickReturn
<1>2. ASSUME NEW p \in Proc, NEW j \in Job,
             Preseed(p, j) \/ RenderBatch(p, j) \/ TickRead(p, j) \/ TickKeep(p, j)
               \/ TickWrite(p, j)
      PROVE  UNCHANGED reply
  BY <1>2 DEF Preseed, RenderBatch, TickRead, TickKeep, TickWrite
<1>3. ASSUME NEW id \in SlurmId, NEW from \in {"Pending", "Running"}, NEW to \in JobState,
             SlurmStep(id, from, to)
      PROVE  UNCHANGED reply
  BY <1>3 DEF SlurmStep, locals
<1>4. EditFlow \/ UNCHANGED vars => UNCHANGED reply
  BY DEF EditFlow, locals, vars
<1>5. QED
  BY <1>1, <1>2, <1>3, <1>4, NextCases DEF LosesId

(* A job starts only when its afterok parents have completed.               *)
LEMMA RunHadStep ==
  ASSUME OneProcess, OneSubmission, OnceInv, [Next]_vars
  PROVE  RunHad'
<1>1. ASSUME NEW id \in Issued', slurm'[id].state \notin {"Pending", "Cancelled"}
      PROVE  ParentsDone(id)'
  <2>1. CASE id \in Issued /\ ParentsDone(id)
    BY <2>1, DoneStays
  <2>2. CASE id \in Issued /\ ~ParentsDone(id)
    <3>1. slurm[id].state \in {"Pending", "Cancelled"} /\ slurm'[id] # slurm[id]
      BY <1>1, <2>2 DEF OnceInv, RunHad
    <3>2. ASSUME NEW i \in SlurmId, NEW from \in {"Pending", "Running"}, NEW to \in JobState,
                 SlurmStep(i, from, to),
                 \/ from = "Running" \/ to = "Cancelled"
                 \/ \A d \in slurm[i].deps : Satisfied(d)
          PROVE  FALSE
      <4>1. i = id /\ slurm'[id].state = to /\ slurm[id].state = from
        <5>1. slurm' = [slurm EXCEPT ![i] = [slurm[i] EXCEPT !.state = to]] /\ slurm[i].state = from
          BY <3>2 DEF SlurmStep
        <5>2. i = id
          BY <3>1, <5>1 DEF OnceInv, SInv, IInv, TypeOK
        <5>3. slurm[id] \in SlurmJob
          BY <2>2 DEF OnceInv, SInv, IInv, TypeOK, Issued
        <5>4. slurm'[id].state = to
          BY <5>1, <5>2, <5>3 DEF OnceInv, SInv, IInv, TypeOK, SlurmJob
        <5>5. QED
          BY <5>1, <5>2, <5>4
      <4>2. \A d \in slurm[id].deps : Satisfied(d)
        BY <1>1, <3>1, <3>2, <4>1
      <4>3. ParentsDone(id)
        BY <4>2 DEF Satisfied, ParentsDone
      <4>4. QED
        BY <2>2, <4>3
    <3>3. ASSUME NEW p \in Proc, QueueJob(p)
          PROVE  FALSE
      BY <2>2, <3>1, <3>3, NewJob DEF OnceInv, SInv, IInv, TypeOK, Issued
    <3>4. QED
      BY <3>1, <3>2, <3>3, SlurmCases DEF OnceInv, SInv
  <2>3. CASE id \notin Issued
    <3>1. PICK p \in Proc : QueueJob(p) /\ id = NewId
      BY <1>1, <2>3, IssuedCases DEF OnceInv, SInv
    <3>2. slurm'[id] = SubmittedJob(p)
      BY <3>1, NewJob DEF OnceInv, SInv, IInv, TypeOK
    <3>3. slurm'[id].state = "Pending"
      BY <3>2 DEF SubmittedJob
    <3>4. QED
      BY <1>1, <3>3
  <2>4. QED
    BY <2>1, <2>2, <2>3
<1>2. ASSUME NEW j \in Job, NEW id \in SlurmId, status'[j] # None,
             status'[j].lifecycle = "Running", status'[j].slurm_jobid = id
      PROVE  ParentsDone(id)'
  <2>1. ASSUME status[j] # None, status[j].lifecycle = "Running", status[j].slurm_jobid = id
        PROVE  ParentsDone(id)'
    <3>1. id \in Issued /\ ParentsDone(id)
      BY <2>1 DEF OnceInv, SInv, IInv, StatusTrue, Truth, RunHad, Issued
    <3>2. QED
      BY <3>1, DoneStays
  <2>2. ASSUME NEW p \in Proc, RecordStatus(p)
        PROVE  status'[j] = status[j]
    <3>1. cur[p] \in Job /\ status \in [Job -> JobRun \cup {None}]
      BY <2>2 DEF OnceInv, SInv, IInv, TypeOK, LoopFits, RecordStatus
    <3>2. QED
      BY <1>2, <2>2, <3>1 DEF RecordStatus
  <2>3. ASSUME NEW p \in Proc, NEW i \in Job, TickWrite(p, i), i # j
        PROVE  status'[j] = status[j]
    BY <2>3, TickEffect DEF OnceInv, SInv, IInv, TypeOK
  <2>4. ASSUME NEW p \in Proc, TickWrite(p, j)
        PROVE  ParentsDone(id)'
    <3>1. /\ status'[j] = Updated(p, j) /\ status[j] \in JobRun
          /\ status[j].slurm_jobid = id
          /\ status[j].lifecycle = "Running" \/ reply[p][id] \in AliveStates
      BY <1>2, <2>4, TickEffect DEF OnceInv, SInv, IInv, TypeOK
    <3>2. CASE status[j].lifecycle = "Running"
      BY <2>1, <3>1, <3>2, NoneAssumption
    <3>3. CASE reply[p][id] \in AliveStates
      <4>1. id \in Issued /\ ParentsDone(id)
        BY <3>3 DEF OnceInv, RunHad
      <4>2. QED
        BY <4>1, DoneStays
    <3>4. QED
      BY <3>1, <3>2, <3>3
  <2>5. ASSUME NEW p \in Proc, WriteSnapshot(p)
        PROVE  status'[j] = status[j]
    BY <2>5 DEF WriteSnapshot
  <2>6. status'[j] = status[j] => ParentsDone(id)'
    BY <1>2, <2>1
  <2>7. QED
    BY <2>2, <2>3, <2>4, <2>5, <2>6, FileCases
<1>3. ASSUME NEW p \in Proc, NEW id \in SlurmId, reply'[p][id] \in AliveStates
      PROVE  id \in Issued' /\ ParentsDone(id)'
  <2>1. Issued \subseteq Issued'
    BY IssuedCases DEF OnceInv, SInv
  <2>2. CASE reply'[p][id] = reply[p][id]
    <3>1. id \in Issued /\ ParentsDone(id)
      BY <1>3, <2>2 DEF OnceInv, RunHad
    <3>2. QED
      BY <2>1, <3>1, DoneStays
  <2>3. ASSUME NEW q \in Proc, TickQuery(q)
        PROVE  id \in Issued' /\ ParentsDone(id)'
    <3>1. CASE reply'[q][id] = slurm[id].state /\ id \in QueryIds(q) /\ q = p
      <4>1. PICK j \in flow[q].jobs : cache[q][j] # None /\ id = cache[q][j].slurm_jobid
        BY <3>1 DEF QueryIds
      <4>2. j \in Job
        BY <2>3, <4>1, FlowShape DEF OnceInv, SInv, IInv, CommandFits, TickQuery
      <4>3. id \in Issued
        BY <4>1, <4>2 DEF OnceInv, SInv, IInv, CacheTrue, Truth, Issued
      <4>4. slurm[id].state \notin {"Pending", "Cancelled"}
        BY <1>3, <3>1 DEF AliveStates
      <4>5. ParentsDone(id)
        BY <4>3, <4>4 DEF OnceInv, RunHad
      <4>6. QED
        BY <2>1, <4>3, <4>5, DoneStays
    <3>2. CASE q # p
      <4>1. reply'[p][id] = reply[p][id]
        BY <2>3, <3>2 DEF OnceInv, SInv, IInv, TypeOK, TickQuery
      <4>2. QED
        BY <2>2, <4>1
    <3>3. CASE q = p /\ reply'[q][id] \in {NoState, "Unknown"}
      BY <1>3, <3>3 DEF AliveStates, NoState
    <3>4. QED
      BY <2>3, <3>1, <3>2, <3>3 DEF OnceInv, SInv, IInv, TypeOK, TickQuery
  <2>4. ASSUME NEW q \in Proc, Exit(q)
        PROVE  reply'[p][id] \in {reply[p][id], NoState}
    BY <2>4 DEF OnceInv, SInv, IInv, TypeOK, Exit, EmptyReply
  <2>5. NoState \notin AliveStates
    BY DEF NoState, AliveStates
  <2>6. QED
    BY <1>3, <2>2, <2>3, <2>4, <2>5, ReplyCases
<1>4. TypeOK'
  BY TypeStep DEF OnceInv, SInv
<1>5. QED
  BY <1>1, <1>2, <1>3, <1>4 DEF RunHad, TypeOK, JobRun

-----------------------------------------------------------------------------
(* The dead parent a tick sees is the one the job waits for in SLURM.       *)
LEMMA DeadParent ==
  ASSUME OneProcess, OnceInv, OnlyAfterok(flowToml), NEW p \in Proc, pc[p] = "apply",
         NEW j \in Job, cache[p][j] # None,
         NEW i \in Parents(flow[p], j), cache[p][i] # None, IsDead(cache[p][i].lifecycle)
  PROVE  \E d \in slurm[status[j].slurm_jobid].deps :
           DeadDep(d) /\ slurm[d.id].state # "Completed"
<1>1. flow[p] \in Flow /\ flow[p] = flowToml
  BY FlowShape DEF OnceInv, SInv, IInv, CommandFits, OneFlow
<1>2. PICK e \in flow[p].parents[j] : e.from = i
  BY DEF Parents
<1>3. e.kind = "afterok" /\ i \in Job
  BY <1>1, <1>2, FlowShape DEF OnlyAfterok, Edge
<1>4. cache[p][j] = status[j] /\ cache[p][i] = status[i]
  BY <1>3 DEF OnceInv, SInv, TickHolds
<1> DEFINE id == status[j].slurm_jobid
<1>5. id \in SlurmId /\ slurm[id] # None /\ slurm[id].job = j
  BY <1>4 DEF OnceInv, SInv, IInv, TypeOK, JobRun, StatusTrue, Truth
<1>6. slurm[id].flow = flow[p]
  BY <1>1, <1>5 DEF OnceInv, OneFlow, Issued
<1> HIDE DEF id
<1>7. PICK d \in slurm[id].deps :
        d.kind = "afterok" /\ slurm[d.id] # None /\ slurm[d.id].job = i
  BY <1>2, <1>3, <1>5, <1>6 DEF OnceInv, SInv, IInv, DependenciesFaithful, Issued
<1>8. d.id \in Issued /\ status[i].slurm_jobid = d.id
  BY <1>5, <1>7 DEF OnceInv, DepsNamed, Issued
<1>9. CASE status[i].lifecycle = "Failed"
  <2>1. slurm[d.id].state \in FailureStates
    BY <1>3, <1>4, <1>8, <1>9 DEF OnceInv, SInv, IInv, StatusTrue, Truth
  <2>2. QED
    BY <1>7, <2>1 DEF DeadDep, FailureStates, id
<1>10. CASE status[i].lifecycle = "Skipped"
  <2>1. slurm[d.id].state \in {"Pending", "Cancelled"}
    BY <1>3, <1>4, <1>8, <1>10 DEF OnceInv, SkipQuiet
  <2>2. DeadDep(d)
    BY <1>3, <1>4, <1>7, <1>8, <1>10 DEF DeadDep
  <2>3. QED
    BY <1>7, <2>1, <2>2 DEF id
<1>11. QED
  BY <1>4, <1>9, <1>10 DEF IsDead

(* So the job itself has not started, nor does its status say so.           *)
LEMMA DeadParentQuiet ==
  ASSUME OneProcess, OnceInv, OnlyAfterok(flowToml), NEW p \in Proc, pc[p] = "apply",
         NEW j \in Job, cache[p][j] # None,
         NEW i \in Parents(flow[p], j), cache[p][i] # None, IsDead(cache[p][i].lifecycle)
  PROVE  /\ slurm[status[j].slurm_jobid].state \in {"Pending", "Cancelled"}
         /\ cache[p][j].lifecycle # "Running"
<1> DEFINE id == status[j].slurm_jobid
<1>1. cache[p][j] = status[j]
  BY DEF OnceInv, SInv, TickHolds
<1>2. id \in Issued
  BY <1>1 DEF OnceInv, SInv, IInv, TypeOK, JobRun, StatusTrue, Truth, Issued
<1>3. PICK d \in slurm[id].deps : DeadDep(d) /\ slurm[d.id].state # "Completed"
  BY DeadParent
<1>4. ~ParentsDone(id)
  BY <1>3 DEF ParentsDone, DeadDep
<1>5. QED
  BY <1>1, <1>2, <1>4 DEF OnceInv, RunHad

(* A status Skipped stays.                                                  *)
LEMMA SkippedStays ==
  ASSUME OneProcess, OnceInv, [Next]_vars,
         NEW j \in Job, status[j] # None, status[j].lifecycle = "Skipped"
  PROVE  status'[j] = status[j]
<1>1. ~Recording(j)
  BY DEF Recording, OnceInv, SInv, IInv, CommandFits, LoopFits, Unsubmitted
<1>2. QED
  BY <1>1, TerminalStep DEF OnceInv, IsTerminal

(* What a skipped job waits for stays dead.                                 *)
LEMMA DeadDepStays ==
  ASSUME OneProcess, OnceInv, [Next]_vars, NEW id \in Issued, NEW d \in slurm[id].deps,
         DeadDep(d)
  PROVE  DeadDep(d)' /\ d \in slurm'[id].deps
<1>1. d \in slurm'[id].deps
  BY StepGrows DEF OnceInv, SInv, Grows, Issued
<1>2. slurm[d.id].state \in FailureStates => slurm'[d.id].state \in FailureStates
  BY StepGrows DEF OnceInv, SInv, Grows, DepsNamed, Issued
<1>3. ASSUME NEW i \in Job, status[i] # None, status[i].lifecycle = "Skipped",
             status[i].slurm_jobid = d.id
      PROVE  status'[i] # None /\ status'[i].lifecycle = "Skipped" /\ status'[i].slurm_jobid = d.id
  BY <1>3, SkippedStays
<1>4. QED
  BY <1>1, <1>2, <1>3 DEF DeadDep

(* A skipped job goes on waiting for what makes it dead, and does not start.*)
LEMMA SkipStep ==
  ASSUME OneProcess, OneSubmission, OnceInv, [Next]_vars, OnlyAfterok(flowToml)
  PROVE  SkipQuiet' /\ SkipBlocked'
\* A job that was skipped before.
<1>1. ASSUME NEW j \in Job, status[j] # None, status[j].lifecycle = "Skipped",
             NEW id \in SlurmId, id = status[j].slurm_jobid
      PROVE  /\ slurm'[id].state \in {"Pending", "Cancelled"}
             /\ \E d \in slurm'[id].deps : DeadDep(d)'
  <2>1. id \in Issued /\ slurm[id].state \in {"Pending", "Cancelled"}
    BY <1>1 DEF OnceInv, SInv, IInv, StatusTrue, Truth, SkipQuiet, Issued
  <2>2. PICK d \in slurm[id].deps : DeadDep(d)
    BY <1>1 DEF OnceInv, SkipBlocked
  <2>3. ~Satisfied(d)
    <3>1. slurm[d.id].state # "Completed"
      BY <2>2 DEF DeadDep, OnceInv, SkipQuiet, FailureStates
    <3>2. d.kind = "afterok"
      BY <2>2 DEF DeadDep
    <3>3. QED
      BY <3>1, <3>2 DEF Satisfied
  <2>4. ASSUME NEW i \in SlurmId, NEW from \in {"Pending", "Running"}, NEW to \in JobState,
               SlurmStep(i, from, to),
               \/ from = "Running" \/ to = "Cancelled"
               \/ \A c \in slurm[i].deps : Satisfied(c)
        PROVE  slurm'[id].state \in {"Pending", "Cancelled"}
    <3>1. slurm' = [slurm EXCEPT ![i] = [slurm[i] EXCEPT !.state = to]] /\ slurm[i].state = from
      BY <2>4 DEF SlurmStep
    <3>2. CASE i # id
      BY <2>1, <3>1, <3>2 DEF OnceInv, SInv, IInv, TypeOK
    <3>3. CASE i = id
      <4>1. to = "Cancelled"
        BY <2>1, <2>2, <2>3, <2>4, <3>1, <3>3
      <4>2. slurm[id] \in SlurmJob
        BY <2>1 DEF OnceInv, SInv, IInv, TypeOK, Issued
      <4>3. slurm'[id].state = "Cancelled"
        BY <3>1, <3>3, <4>1, <4>2 DEF OnceInv, SInv, IInv, TypeOK, SlurmJob
      <4>4. QED
        BY <4>3
    <3>4. QED
      BY <3>2, <3>3
  <2>5. ASSUME NEW p \in Proc, QueueJob(p)
        PROVE  slurm'[id].state \in {"Pending", "Cancelled"}
    BY <2>1, <2>5, NewJob DEF OnceInv, SInv, IInv, TypeOK, Issued
  <2>6. slurm'[id].state \in {"Pending", "Cancelled"}
    BY <2>1, <2>4, <2>5, SlurmCases DEF OnceInv, SInv
  <2>7. QED
    BY <2>1, <2>2, <2>6, DeadDepStays
\* A job that a tick skips now.
<1>2. ASSUME NEW p \in Proc, NEW j \in Job, TickWrite(p, j),
             Updated(p, j).lifecycle = "Skipped",
             NEW id \in SlurmId, id = status[j].slurm_jobid
      PROVE  /\ slurm'[id].state \in {"Pending", "Cancelled"}
             /\ \E d \in slurm'[id].deps : DeadDep(d)'
  <2>1. pc[p] = "apply" /\ cache[p][j] # None /\ cache[p][j] = status[j] /\ UNCHANGED slurm
    BY <1>2 DEF OnceInv, SInv, TickHolds, TickWrite
  <2>2. id \in Issued
    BY <1>2, <2>1 DEF OnceInv, SInv, IInv, StatusTrue, Truth, Issued
  <2>3. PICK i \in Parents(flow[p], j) : cache[p][i] # None /\ IsDead(cache[p][i].lifecycle)
    BY <1>2, TickEffect DEF OnceInv
  <2>4. PICK d \in slurm[id].deps : DeadDep(d)
    BY <1>2, <2>1, <2>3, DeadParent
  <2>5. slurm[id].state \in {"Pending", "Cancelled"}
    BY <1>2, <2>1, <2>3, DeadParentQuiet
  <2>6. QED
    BY <2>1, <2>2, <2>4, <2>5, DeadDepStays
<1>3. ASSUME NEW j \in Job, NEW id \in SlurmId, status'[j] # None,
             status'[j].lifecycle = "Skipped", status'[j].slurm_jobid = id
      PROVE  /\ slurm'[id].state \in {"Pending", "Cancelled"}
             /\ \E d \in slurm'[id].deps : DeadDep(d)'
  <2>1. CASE status'[j] = status[j]
    BY <1>1, <1>3, <2>1
  <2>2. ASSUME NEW p \in Proc, RecordStatus(p)
        PROVE  status'[j] = status[j]
    <3>1. cur[p] \in Job /\ status \in [Job -> JobRun \cup {None}]
      BY <2>2 DEF OnceInv, SInv, IInv, TypeOK, LoopFits, RecordStatus
    <3>2. QED
      BY <1>3, <2>2, <3>1 DEF RecordStatus
  <2>3. ASSUME NEW p \in Proc, NEW i \in Job, TickWrite(p, i), i # j
        PROVE  status'[j] = status[j]
    BY <2>3, TickEffect DEF OnceInv, SInv, IInv, TypeOK
  <2>4. ASSUME NEW p \in Proc, TickWrite(p, j)
        PROVE  /\ slurm'[id].state \in {"Pending", "Cancelled"}
               /\ \E d \in slurm'[id].deps : DeadDep(d)'
    <3>1. status'[j] = Updated(p, j) /\ status[j].slurm_jobid = id
      BY <1>3, <2>4, TickEffect DEF OnceInv, SInv, IInv, TypeOK
    <3>2. QED
      BY <1>2, <1>3, <2>4, <3>1
  <2>5. ASSUME NEW p \in Proc, WriteSnapshot(p)
        PROVE  status'[j] = status[j]
    BY <2>5 DEF WriteSnapshot
  <2>6. QED
    BY <2>1, <2>2, <2>3, <2>4, <2>5, FileCases
<1>4. TypeOK'
  BY TypeStep DEF OnceInv, SInv
<1>5. \A j \in Job : status'[j] # None => status'[j].slurm_jobid \in SlurmId
  BY <1>4 DEF TypeOK, JobRun
<1>6. SkipQuiet'
  BY <1>3, <1>5 DEF SkipQuiet
<1>7. SkipBlocked'
  BY <1>3, <1>5 DEF SkipBlocked
<1>8. QED
  BY <1>6, <1>7

-----------------------------------------------------------------------------
(* Deciding again after a decision changes nothing, unless a running job    *)
(* had a dead parent.                                                       *)
LEMMA DecideAgain ==
  ASSUME NEW l \in Lifecycle, NEW q \in JobState \cup {NoState}, NEW P,
         l = "Running" => ~\E k \in P : IsDead(k)
  PROVE  DecideTransition(Outcome(l, DecideTransition(l, q, P)), q, P) = NoChange
<1> DEFINE d == DecideTransition(l, q, P)
<1>1. CASE d = NoChange
  BY <1>1 DEF Outcome, NoChange
<1>2. CASE d = SkipDueToParent
  <2>1. Outcome(l, d) = "Skipped"
    BY <1>2 DEF Outcome, SkipDueToParent
  <2>2. QED
    BY <2>1 DEF DecideTransition, IsTerminal
<1>3. CASE d # NoChange /\ d # SkipDueToParent
  <2>1. d = Transition(Bucket(l, q)) /\ q # NoState /\ ~IsTerminal(l) /\ Bucket(l, q) # l
    BY <1>3 DEF DecideTransition
  <2>2. Outcome(l, d) = Bucket(l, q)
    BY <2>1 DEF Outcome, Transition
  <2> DEFINE b == Bucket(l, q)
  <2>3. CASE q \in WaitingStates
    <3>1. \A c : Bucket(c, q) = "Queued"
      BY <2>3 DEF Bucket, WaitingStates, AliveStates, FailureStates
    <3>2. l = "Running"
      BY <2>1, <3>1 DEF Lifecycle, IsTerminal
    <3>3. QED
      BY <2>2, <3>1, <3>2 DEF DecideTransition
  <2>4. CASE q \in AliveStates
    <3>1. \A c : Bucket(c, q) = "Running"
      BY <2>4 DEF Bucket, WaitingStates, AliveStates, FailureStates
    <3>2. QED
      BY <2>2, <3>1 DEF DecideTransition
  <2>5. CASE q = "Completed" \/ q \in FailureStates
    <3>1. b \in {"Success", "Failed"}
      BY <2>5 DEF Bucket, WaitingStates, AliveStates, FailureStates
    <3>2. QED
      BY <2>2, <3>1 DEF DecideTransition, IsTerminal
  <2>6. q # "Unknown"
    BY <2>1 DEF Bucket, WaitingStates, AliveStates, FailureStates
  <2>7. QED
    BY <2>1, <2>3, <2>4, <2>5, <2>6 DEF JobState
<1>4. QED
  BY <1>1, <1>2, <1>3

(* A tick leaves behind it only jobs it would not decide otherwise again.   *)
LEMMA VisitedStep ==
  ASSUME OneProcess, OneSubmission, OnceInv, [Next]_vars, OnlyAfterok(flowToml)
  PROVE  Visited'
<1>1. ASSUME NEW p \in Proc, NEW j \in Job, TickKeep(p, j)
      PROVE  Visited'
  <2>1. /\ pc[p] = "apply" /\ cmd[p] = "tick" /\ UNCHANGED <<pc, cmd, flow, cache, reply>>
        /\ todo' = [todo EXCEPT ![p] = @ \ {j}] /\ j \in todo[p]
        /\ Parents(flow[p], j) \cap todo[p] = {}
        /\ cache[p][j] # None => Decide(p, j) = NoChange
    BY <1>1 DEF OnceInv, SInv, IInv, CommandFits, TickKeep, IsNext
  <2>2. ASSUME NEW i \in flow[p].jobs \ todo'[p]
        PROVE  /\ Parents(flow[p], i) \cap todo'[p] = {}
               /\ cache[p][i] # None => Decide(p, i) = NoChange
    BY <2>1 DEF OnceInv, SInv, IInv, TypeOK, Visited
  <2>3. \A i : Decide(p, i)' = Decide(p, i)
    BY <2>1 DEF Decide
  <2>4. QED
    BY <2>1, <2>2, <2>3 DEF OneProcess, Visited
<1>2. ASSUME NEW p \in Proc, NEW j \in Job, TickWrite(p, j)
      PROVE  Visited'
  <2> DEFINE ParentLives(i) ==
               {cache[p][k].lifecycle : k \in {k \in Parents(flow[p], i) : cache[p][k] # None}}
             ParentLives1(i) ==
               {cache'[p][k].lifecycle : k \in {k \in Parents(flow[p], i) : cache'[p][k] # None}}
             run == cache[p][j]
  <2>1. /\ pc[p] = "apply" /\ cmd[p] = "tick" /\ UNCHANGED <<pc, cmd, flow, reply>>
        /\ todo' = [todo EXCEPT ![p] = @ \ {j}] /\ j \in todo[p]
        /\ Parents(flow[p], j) \cap todo[p] = {} /\ run # None
        /\ cache' = [cache EXCEPT ![p][j] = Updated(p, j)]
    BY <1>2 DEF OnceInv, SInv, IInv, CommandFits, TickWrite, IsNext
  <2>2. flow[p] \in Flow /\ \A i \in Job : Parents(flow[p], i) \subseteq Job
    BY <2>1, FlowShape DEF OnceInv, SInv, IInv, CommandFits, Parents, Edge
  <2>3. \A k \in Job : k # j => cache'[p][k] = cache[p][k]
    BY <2>1 DEF OnceInv, SInv, IInv, TypeOK
  <2>4. ASSUME NEW i \in Job, j \notin Parents(flow[p], i)
        PROVE  ParentLives1(i) = ParentLives(i)
    BY <2>2, <2>3, <2>4
  <2>5. cache'[p][j] = Updated(p, j) /\ Updated(p, j).slurm_jobid = run.slurm_jobid
    BY <2>1 DEF OnceInv, SInv, IInv, TypeOK, Updated
  <2>6. Decide(p, j)' = NoChange
    <3> DEFINE q == reply[p][run.slurm_jobid]
    <3>1. /\ run.lifecycle \in Lifecycle /\ q \in JobState \cup {NoState}
      BY <2>1 DEF OnceInv, SInv, IInv, TypeOK, JobRun
    <3>2. run.lifecycle = "Running" => ~\E k \in ParentLives(j) : IsDead(k)
      BY <2>1, DeadParentQuiet
    <3>3. Updated(p, j).lifecycle =
            Outcome(run.lifecycle, DecideTransition(run.lifecycle, q, ParentLives(j)))
      BY DEF Updated, Decide
    <3>4. ParentLives1(j) = ParentLives(j)
      BY <2>1, <2>4
    <3>5. Decide(p, j)' = DecideTransition(Updated(p, j).lifecycle, q, ParentLives(j))
      BY <2>1, <2>5, <3>4 DEF Decide
    <3> HIDE DEF ParentLives, ParentLives1, q, run
    <3>6. QED
      BY <3>1, <3>2, <3>3, <3>5, DecideAgain
  <2>7. ASSUME NEW i \in flow[p].jobs \ todo[p]
        PROVE  /\ Parents(flow[p], i) \cap todo[p] = {}
               /\ cache'[p][i] # None => Decide(p, i)' = NoChange
    <3>1. /\ Parents(flow[p], i) \cap todo[p] = {} /\ i \in Job /\ i # j
          /\ cache[p][i] # None => Decide(p, i) = NoChange
      BY <2>1, <2>2, FlowShape DEF OnceInv, Visited
    <3>2. ParentLives1(i) = ParentLives(i) /\ cache'[p][i] = cache[p][i]
      BY <2>1, <2>3, <2>4, <3>1
    <3>3. Decide(p, i)' = Decide(p, i)
      BY <2>1, <3>2 DEF Decide
    <3>4. QED
      BY <3>1, <3>2, <3>3
  <2>8. ASSUME NEW i \in flow[p].jobs \ todo'[p]
        PROVE  /\ Parents(flow[p], i) \cap todo'[p] = {}
               /\ cache'[p][i] # None => Decide(p, i)' = NoChange
    <3>1. todo'[p] = todo[p] \ {j}
      BY <2>1 DEF OnceInv, SInv, IInv, TypeOK
    <3>2. CASE i = j
      BY <2>1, <2>6, <3>1, <3>2
    <3>3. CASE i # j
      BY <2>7, <3>1, <3>3
    <3>4. QED
      BY <3>2, <3>3
  <2>9. QED
    BY <2>1, <2>8 DEF OneProcess, Visited
<1>3. ASSUME NEW p \in Proc, TickQuery(p)
      PROVE  Visited'
  BY <1>3 DEF OneProcess, OnceInv, SInv, IInv, TypeOK, Visited, TickQuery
<1>4. ASSUME NEW p \in Proc, TickReturn(p)
      PROVE  Visited'
  <2>1. /\ pc[p] = "apply" /\ cmd[p] = "tick" /\ todo[p] = {}
        /\ UNCHANGED <<cmd, flow, todo, cache, reply>>
    BY <1>4 DEF OnceInv, SInv, IInv, CommandFits, TickReturn
  <2>2. \A j : Decide(p, j)' = Decide(p, j)
    BY <2>1 DEF Decide
  <2>3. QED
    BY <2>1, <2>2 DEF OneProcess, OnceInv, Visited
<1>5. ASSUME NEW p \in Proc,
             SubmitStart(p) \/ EffectiveStart(p) \/ TickStart(p)
      PROVE  Visited'
  BY <1>5 DEF OneProcess, OnceInv, SInv, IInv, TypeOK, Visited, SubmitStart, EffectiveStart,
     TickStart, Start
<1>6. ASSUME NEW p \in Proc,
             WriteSnapshot(p) \/ Preflight(p) \/ Sbatch(p) \/ RecordStatus(p) \/ SubmitReturn(p)
      PROVE  Visited'
  BY <1>6 DEF OneProcess, OnceInv, SInv, IInv, TypeOK, CommandFits, Visited, WriteSnapshot,
     Preflight, Sbatch, QueueJob, RecordStatus, SubmitReturn
<1>7. ASSUME NEW p \in Proc, NEW j \in Job,
             Preseed(p, j) \/ RenderBatch(p, j) \/ TickRead(p, j)
      PROVE  Visited'
  BY <1>7 DEF OneProcess, OnceInv, SInv, IInv, TypeOK, CommandFits, Visited, Preseed,
     RenderBatch, TickRead
<1>8. ASSUME NEW p \in Proc, Exit(p)
      PROVE  Visited'
  BY <1>8 DEF OneProcess, OnceInv, SInv, IInv, TypeOK, Visited, Exit
<1>9. UNCHANGED locals => Visited'
  BY DEF OnceInv, Visited, Decide, locals
<1>10. ASSUME NEW id \in SlurmId, NEW from \in {"Pending", "Running"}, NEW to \in JobState,
              SlurmStep(id, from, to)
       PROVE  UNCHANGED locals
  BY <1>10 DEF SlurmStep
<1>11. EditFlow \/ UNCHANGED vars => UNCHANGED locals
  BY DEF EditFlow, locals, vars
<1>12. QED
  BY <1>1, <1>2, <1>3, <1>4, <1>5, <1>6, <1>7, <1>8, <1>9, <1>10, <1>11, NextCases DEF LosesId

LEMMA InitOnceInv == Init => OnceInv
<1> SUFFICES ASSUME Init PROVE OnceInv
  OBVIOUS
<1>1. SInv
  BY InitSInv
<1>2. OneFlow /\ Unsubmitted
  BY NoneAssumption DEF Init, OneFlow, Unsubmitted, Issued, Command
<1>3. VisitedNamed /\ DepsNamed
  BY DEF Init, VisitedNamed, DepsNamed, Issued
<1>4. RunHad
  BY DEF Init, RunHad, Issued, EmptyReply, NoState, AliveStates
<1>5. SkipQuiet /\ SkipBlocked /\ Visited
  BY DEF Init, SkipQuiet, SkipBlocked, Visited
<1>6. QED
  BY <1>1, <1>2, <1>3, <1>4, <1>5 DEF OnceInv

LEMMA StepOnceInv ==
  ASSUME OneProcess, OneSubmission, OnceInv, [Next]_vars
  PROVE  OnceInv'
<1>1. SInv'
  BY StepSInv DEF OnceInv
<1>2. OneFlow' /\ UNCHANGED flowToml
  BY FlowStep
<1>3. Unsubmitted' /\ VisitedNamed' /\ DepsNamed'
  BY UnsubmittedStep, VisitedNamedStep, DepsNamedStep
<1>4. RunHad'
  BY RunHadStep
<1>5. OnlyAfterok(flowToml)' => OnlyAfterok(flowToml)
  BY <1>2 DEF OnlyAfterok
<1>6. OnlyAfterok(flowToml) => SkipQuiet' /\ SkipBlocked' /\ Visited'
  BY SkipStep, VisitedStep
<1>7. QED
  BY <1>1, <1>2, <1>3, <1>4, <1>5, <1>6 DEF OnceInv

LEMMA OnceInvariance == ASSUME OneProcess, OneSubmission PROVE Spec => []OnceInv
BY InitOnceInv, StepOnceInv, PTL DEF Spec

-----------------------------------------------------------------------------
(***************************************************************************)
(* When commands do not overlap and the flow is submitted once: where all  *)
(* edges are afterok, a job that a tick marked Skipped has not started and *)
(* never will, whatever is requeued or cancelled.                          *)
(***************************************************************************)
THEOREM SkippedHolds ==
  OneProcess /\ OneSubmission => (Spec => []SkippedNeverRuns)
<1> SUFFICES ASSUME OneProcess, OneSubmission PROVE Spec => []SkippedNeverRuns
  OBVIOUS
<1>1. OnceInv => SkippedNeverRuns
  BY DEF OnceInv, OneFlow, SkipQuiet, SkippedNeverRuns
<1>2. QED
  BY <1>1, OnceInvariance, PTL

(***************************************************************************)
(* There a tick ends in a fixpoint, whatever reply it got: its one pass    *)
(* over the jobs is enough.                                                *)
(***************************************************************************)
THEOREM FixpointHolds ==
  OneProcess /\ OneSubmission => (Spec => []TickSettles)
<1> SUFFICES ASSUME OneProcess, OneSubmission PROVE Spec => []TickSettles
  OBVIOUS
<1>1. OnceInv => TickSettles
  <2> SUFFICES ASSUME OnceInv, NEW p \in Proc, pc[p] = "returned", cmd[p] = "tick",
                      OnlyAfterok(flow[p]), NEW j \in flow[p].jobs, cache[p][j] # None
               PROVE  Decide(p, j) = NoChange
    BY DEF TickSettles
  <2>1. flow[p] = flowToml
    BY FlowShape DEF OnceInv, SInv, IInv, CommandFits, OneFlow
  <2>2. QED
    BY <2>1 DEF OnceInv, Visited
<1>2. QED
  BY <1>1, OnceInvariance, PTL
=============================================================================
