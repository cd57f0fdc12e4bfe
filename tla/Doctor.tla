------------------------------- MODULE Doctor -------------------------------
(***************************************************************************)
(* `jm doctor` (src/src/doctor) beside the commands it is to protect, on   *)
(* the directory of one flow: the user edits the files, asks the doctor,   *)
(* and runs `jm submit`, `jm render`, `jm tick` and `jm show`; a Python    *)
(* script reads flow.toml and writes it back (src/src/py_export). Here a   *)
(* command is one step; FlowRunner has the steps inside and what SLURM     *)
(* does.  sbatch and the disk do not fail here: an error comes from what   *)
(* the files say, and its name is that of the JobManagerError.             *)
(***************************************************************************)
EXTENDS FlowConfig

CONSTANTS
  FlowFile, PlanFile, CommonFile,  \* the contents the user's files can have
  Step1, Step2, ReplaceMe          \* the jobs of a new flow, and its partition

ASSUME FilesAssumption ==
  /\ \A f \in FlowFile \ {Absent, Broken} : IsFlow(f)
  /\ \A p \in PlanFile \ {Absent, Broken} : p \subseteq Job
  /\ \A c \in CommonFile \ {Absent, Broken} : c \in Common
  /\ ValidId \subseteq Job /\ Ghost \notin Job
  /\ Step1 # Step2 /\ {Step1, Step2} \subseteq ValidId /\ ReplaceMe \in Part

\* Mutant: the partition is left to common.toml.
FlowTemplateUnplaced ==
  [jobs |-> {Step1, Step2},
   parents |-> [j \in {Step1, Step2} |-> IF j = Step2 THEN <<Step1>> ELSE <<>>],
   config |-> [j \in {Step1, Step2} |-> [partition |-> None, log |-> None, dependency |-> None]]]

\* The files that jm new writes.
FlowTemplate ==
  [jobs |-> {Step1, Step2},
   parents |-> [j \in {Step1, Step2} |-> IF j = Step2 THEN <<Step1>> ELSE <<>>],
   config |-> [j \in {Step1, Step2} |->
                 [partition |-> ReplaceMe, log |-> None, dependency |-> None]]]

PlanTemplate == {Step1, Step2}

\* Nothing a file can hold stands for its absence or for an unset key.
ASSUME MarkerAssumption ==
  /\ None \notin Part /\ Wrong \notin Part \cup {None}
  /\ PlanTemplate \notin {Absent, Broken} /\ "good" # Broken
  /\ \A f \in (FlowFile \ {Absent, Broken}) \cup {FlowTemplate} :
       \A c \in (CommonFile \ {Absent, Broken}) \cup {SynthEmptyCommon} :
         {f, ReadFlow(f, c)} \cap {None, Absent, Broken} = {}

VARIABLES
  flowToml, planToml, commonToml,   \* what the user wrote
  uuidOk,     \* the directory is named by the uuid in flow.toml
  logDirs,    \* the log directories there are
  snapshot,   \* .jm/flow.effective.toml
  status,     \* each job's status.toml: Absent, "good" or Broken
  report,     \* the findings of the last doctor since an edit that are not PASS
  last,       \* the last command since an edit
  held        \* the flow a Python script has read and may write, or None

userFiles == <<flowToml, planToml, commonToml, uuidOk, logDirs>>
vars == <<userFiles, snapshot, status, report, last, held>>

-----------------------------------------------------------------------------
(* The checks.                                                              *)

Fail(check, j) == [severity |-> "Fail", check |-> check, job |-> j]
Warn(check, j) == [severity |-> "Warn", check |-> check, job |-> j]

\* The common.toml the doctor goes on with.
DoctorCommon ==
  IF commonToml \in {Absent, Broken} THEN SynthEmptyCommon ELSE commonToml

CheckCommon == IF commonToml = Broken THEN {Fail("common", None)} ELSE {}
CheckFlow   == IF ReadFlowErrors(flowToml, DoctorCommon) = {} THEN {} ELSE {Fail("flow", None)}
CheckPlan   == IF FileErrors(planToml) = {} THEN {} ELSE {Fail("plan", None)}
CheckFlowEffective == IF snapshot = Broken THEN {Fail("snapshot", None)} ELSE {}

\* Mutant: the status files are not looked at.
NoStatusChecked == {}

CheckStatusFiles == {Fail("status", j) : j \in {j \in flowToml.jobs : status[j] = Broken}}

CheckUuidMatchesDir == IF uuidOk THEN {} ELSE {Fail("uuid", None)}

CheckParentsResolve ==
  {Fail("parent", j) : j \in {j \in flowToml.jobs : ~ Parents(flowToml, j) \subseteq flowToml.jobs}}

\* Mutant: only jobs the flow does not have are reported.
CoverageOfExtraOnly ==
  IF FileErrors(planToml) # {} THEN {}
  ELSE {Warn("extra", j) : j \in planToml \ flowToml.jobs}

CheckPlanCoverage ==
  IF FileErrors(planToml) # {} THEN {}
  ELSE {Warn("missing", j) : j \in flowToml.jobs \ planToml}
         \cup {Warn("extra", j) : j \in planToml \ flowToml.jobs}

\* Mutant: the config of flow.toml is checked, without the defaults.
LogDirsOfFlowOnly ==
  {Warn("log", j) : j \in {j \in flowToml.jobs : LogDirMissing(flowToml.config[j], logDirs)}}

CheckLogDirsExist ==
  {Warn("log", j) : j \in {j \in flowToml.jobs :
     LogDirMissing(Merge(DoctorCommon, flowToml.config[j]), logDirs)}}

CheckFlowDir ==
  CheckFlow \cup CheckPlan \cup CheckFlowEffective \cup
    IF CheckFlow # {} THEN {}
    ELSE CheckStatusFiles \cup CheckUuidMatchesDir \cup CheckParentsResolve
           \cup CheckPlanCoverage \cup CheckLogDirsExist

\* flow_dirs: without an argument the doctor looks at the directories that have
\* a flow.toml, with one at the directory it names.
FlowDirs(scope) == IF scope = "All" /\ flowToml = Absent THEN {} ELSE {"this"}

RunDoctor(scope) == CheckCommon \cup UNION {CheckFlowDir : d \in FlowDirs(scope)}

-----------------------------------------------------------------------------
(* The commands.                                                            *)

CommonForRead == IF commonToml = Absent THEN SynthEmptyCommon ELSE commonToml

\* Mutant: a common.toml that cannot be read counts as none.
LoadErrorsLeniently ==
  FileErrors(planToml) \cup ReadFlowErrors(flowToml, DoctorCommon)

\* The errors of FlowRun::read, which reads the plan, common.toml and the flow.
LoadErrors ==
  IF FileErrors(planToml) # {} THEN FileErrors(planToml)
  ELSE IF commonToml = Broken THEN {"TomlParse"}
  ELSE ReadFlowErrors(flowToml, CommonForRead)

Loads == LoadErrors = {}

\* effective_config: nothing is merged when there is no common.toml.
EffectiveConfig(f, j) ==
  IF commonToml \in {Absent, Broken} THEN f.config[j] ELSE Merge(commonToml, f.config[j])

\* What sbatch is given for job j: its dependency is made from the parents alone.
SbatchCmd(f, j) ==
  LET config == EffectiveConfig(f, j)
  IN  [job |-> j, partition |-> config.partition, log |-> config.log,
       after |-> Parents(f, j), dependency |-> None]

Ended(c, result, sent) == [cmd |-> c, result |-> result, sent |-> sent]

\* Jobs the loop of submit stops at, and with what.
Stops(f) == {j \in f.jobs : j \notin planToml \/ j \notin ValidId}

JobError(j) == IF j \in planToml THEN "RenderError" ELSE "MissingPlanEntry"

\* What the loop can have handled when it ends, and how it ends then.
Handled(f) ==
  IF Stops(f) = {} THEN {<<f.jobs, "Ok">>}
  ELSE {<<S, JobError(j)>> : S \in SUBSET (f.jobs \ Stops(f)), j \in Stops(f)}

InOrder(f, S, stop) ==
  /\ \A j \in S : Parents(f, j) \subseteq S
  /\ stop = "Ok" \/ \E j \in Stops(f) : JobError(j) = stop /\ Parents(f, j) \subseteq S

\* FlowRunner::submit; render is submit with dry_run.
Submit(c) ==
  LET f == ReadFlow(flowToml, CommonForRead)
      dirMissing == c = "submit" /\ \E j \in f.jobs : LogDirMissing(EffectiveConfig(f, j), logDirs)
  IN
  /\ Loads /\ Orderable(flowToml)
  /\ snapshot' = f
  /\ \/ /\ dirMissing
        /\ last' = Ended(c, "LogDirMissing", {})
        /\ UNCHANGED status
     \/ /\ ~dirMissing
        /\ \E h \in Handled(f) :
             /\ InOrder(f, h[1], h[2])
             /\ last' = Ended(c, h[2], IF c = "submit" THEN {SbatchCmd(f, j) : j \in h[1]} ELSE {})
             /\ status' = [j \in Job |-> IF c = "submit" /\ j \in h[1] THEN "good" ELSE status[j]]
  /\ UNCHANGED <<userFiles, report, held>>

\* FlowRun::read or topological_order fails; Python's submit_flow gives the error
\* to its caller as an exception.
SubmitRefused(c) ==
  /\ Loads => ~Orderable(flowToml)
  /\ \E e \in IF Loads THEN {"DependencyCycle"} ELSE LoadErrors : last' = Ended(c, e, {})
  /\ UNCHANGED <<userFiles, snapshot, status, report, held>>

\* jm render --effective-only.
RenderEffective ==
  /\ Loads
  /\ snapshot' = ReadFlow(flowToml, CommonForRead)
  /\ last' = Ended("effective", "Ok", {})
  /\ UNCHANGED <<userFiles, status, report, held>>

\* The errors of load_effective, and of what tick and show do then; show never
\* orders the flow.
InspectErrors(c) ==
  IF FileErrors(planToml) # {} THEN FileErrors(planToml)
  ELSE IF snapshot = Absent THEN {"SnapshotMissing"}
  ELSE IF snapshot = Broken THEN {"TomlParse"}
  ELSE IF c = "tick" /\ ~Orderable(snapshot) THEN {"DependencyCycle"}
  ELSE {"TomlParse" : j \in {j \in snapshot.jobs : status[j] = Broken}}

\* `jm tick` and `jm show`, as far as the files go.
Inspect(c) ==
  /\ \E e \in IF InspectErrors(c) = {} THEN {"Ok"} ELSE InspectErrors(c) :
       last' = Ended(c, e, {})
  /\ UNCHANGED <<userFiles, snapshot, status, report, held>>

AskDoctor(scope) ==
  /\ report' = RunDoctor(scope)
  /\ UNCHANGED <<userFiles, snapshot, status, last, held>>

-----------------------------------------------------------------------------
(* Python.                                                                  *)

\* read_flow of the Python module, whose common.toml is the one beside the flow.
PyReadErrors ==
  IF commonToml = Broken THEN {"TomlParse"} ELSE ReadFlowErrors(flowToml, CommonForRead)

PyReadFlow ==
  /\ IF PyReadErrors = {}
     THEN held' = ReadFlow(flowToml, CommonForRead) /\ last' = Ended("read", "Ok", {})
     ELSE /\ \E e \in PyReadErrors : last' = Ended("read", e, {})
          /\ UNCHANGED held
  /\ UNCHANGED <<userFiles, snapshot, status, report>>

\* Mutant: a log directory that is not there counts as a missing file.
ExceptionOfAbsence(error) ==
  CASE error \in {"NotFound", "SnapshotMissing", "LogDirMissing"} -> "FileNotFoundError"
    [] error = "MissingPlanEntry"                                -> "KeyError"
    [] OTHER                                                     -> "ValueError"

\* The exception a Python caller sees of an error.
Exception(error) ==
  CASE error \in {"NotFound", "SnapshotMissing"} -> "FileNotFoundError"
    [] error = "MissingPlanEntry"               -> "KeyError"
    [] error \in {"TomlParse", "PartitionMissing", "PartitionWrongType", "LogDirMissing",
                  "DependencyCycle", "RenderError"} -> "ValueError"
    [] OTHER -> "RuntimeError"

-----------------------------------------------------------------------------
NotAsked == {Warn("not asked", None)}
NoCommand == Ended("none", "Ok", {})

Init ==
  /\ \/ flowToml = FlowTemplate /\ planToml = PlanTemplate
     \/ flowToml \in FlowFile /\ planToml \in PlanFile
  /\ commonToml \in CommonFile
  /\ uuidOk \in BOOLEAN /\ logDirs \in SUBSET Dir
  /\ snapshot = Absent
  /\ status = [j \in Job |-> Absent]
  /\ report = NotAsked
  /\ last = NoCommand
  /\ held = None

\* What was found and done before an edit says nothing of the files after it.
Forget == report' = NotAsked /\ last' = NoCommand

Edit ==
  /\ Forget
  /\ \/ flowToml' \in FlowFile /\ UNCHANGED <<planToml, commonToml, uuidOk, logDirs>>
     \/ planToml' \in PlanFile /\ UNCHANGED <<flowToml, commonToml, uuidOk, logDirs>>
     \/ commonToml' \in CommonFile /\ UNCHANGED <<flowToml, planToml, uuidOk, logDirs>>
     \/ logDirs' \in SUBSET Dir /\ UNCHANGED <<flowToml, planToml, commonToml, uuidOk>>
  /\ UNCHANGED <<snapshot, status, held>>

\* write_flow of the Python module, of what the script has read, whatever became of
\* the file meanwhile.
PyWriteFlow ==
  /\ held # None
  /\ Forget
  /\ flowToml' = held /\ held' = None
  /\ UNCHANGED <<planToml, commonToml, uuidOk, logDirs, snapshot, status>>

\* A file under .jm is damaged.
Damage ==
  /\ Forget
  /\ \/ snapshot # Absent /\ snapshot' = Broken /\ UNCHANGED status
     \/ /\ \E j \in Job : status[j] # Absent /\ status' = [status EXCEPT ![j] = Broken]
        /\ UNCHANGED snapshot
  /\ UNCHANGED <<userFiles, held>>

Next ==
  \/ \E c \in {"submit", "render"} : Submit(c) \/ SubmitRefused(c)
  \/ RenderEffective
  \/ \E c \in {"tick", "show"} : Inspect(c)
  \/ \E scope \in {"All", "Flow"} : AskDoctor(scope)
  \/ PyReadFlow \/ PyWriteFlow \/ Edit \/ Damage

Spec == Init /\ [][Next]_vars

-----------------------------------------------------------------------------
\* Type invariant; a flow that was read names every job's partition.
IsRead(f) == IsFlow(f) /\ \A j \in f.jobs : f.config[j].partition \in Part

TypeOK ==
  /\ flowToml \in {Absent, Broken} \/ IsFlow(flowToml)
  /\ planToml \in PlanFile \cup {PlanTemplate} /\ commonToml \in CommonFile
  /\ uuidOk \in BOOLEAN /\ logDirs \subseteq Dir
  /\ status \in [Job -> {Absent, "good", Broken}]
  /\ snapshot \notin {Absent, Broken} => IsRead(snapshot)
  /\ held # None => IsRead(held)

Asked == report # NotAsked
Fails == {r \in report : r.severity = "Fail"}
OfFiles(r) == r.check \in {"common", "flow", "plan", "parent", "uuid"}

(***************************************************************************)
(* When the doctor has nothing to say, submit hands every job to SLURM -   *)
(* unless the parents cannot be ordered or an id is not valid, which the   *)
(* doctor does not look for, or there is no flow.toml and it was not asked *)
(* for this flow (doctor/mod.rs:1-2, 16-37, 82-98).                        *)
(***************************************************************************)
CleanMeansSubmits ==
  /\ Asked /\ report = {} /\ flowToml # Absent
  /\ last.cmd = "submit" /\ Orderable(flowToml) /\ flowToml.jobs \subseteq ValidId
  => last.result = "Ok" /\ {c.job : c \in last.sent} = flowToml.jobs

(***************************************************************************)
(* Of what the doctor FAILs in the files the user writes, all but the uuid *)
(* stops submit before a job reaches SLURM (doctor/checks.rs:3-5,          *)
(* toml-reference.md:61); submit does not look at the uuid.                *)
(***************************************************************************)
FailsStop ==
  Asked /\ (\E r \in Fails : OfFiles(r) /\ r.check # "uuid") /\ last.cmd = "submit"
    => last.result # "Ok" /\ last.sent = {}

(***************************************************************************)
(* Doctor and submit agree on the log directories: submit ends there       *)
(* exactly when it gets that far and the doctor warned, and then nothing   *)
(* was submitted (checks.rs:184-194, flow.rs:201-227).                     *)
(***************************************************************************)
LogDirsAgree ==
  /\ Asked /\ last.cmd = "submit"
  /\ last.result \in {"LogDirMissing", "Ok", "MissingPlanEntry", "RenderError"}
  => /\ last.result = "LogDirMissing" <=> \E r \in report : r.check = "log"
     /\ last.result = "LogDirMissing" => last.sent = {}

(***************************************************************************)
(* When the doctor FAILs nothing, a tick and a show of the snapshot work,  *)
(* if there is a flow.toml, which makes the doctor look at all, and the    *)
(* snapshot can be ordered and has no job flow.toml has lost, whose status *)
(* the doctor does not look at (doctor/mod.rs:84-92, flow.rs:319).         *)
(***************************************************************************)
CleanTreeTicks ==
  /\ Asked /\ Fails = {} /\ last.cmd \in {"tick", "show"}
  /\ flowToml # Absent /\ snapshot # Absent
  /\ Orderable(snapshot) /\ snapshot.jobs \subseteq flowToml.jobs
  => last.result = "Ok"

(***************************************************************************)
(* The two files of jm new fit each other and any common.toml that is      *)
(* there or not: render handles every job, the doctor FAILs nothing but    *)
(* what is broken beside them, and nothing replaces the partition the user *)
(* is to fill in, so that SLURM refuses the flow until he does             *)
(* (jm.rs:495-497, 512-517).                                               *)
(***************************************************************************)
NewFlowRenders ==
  flowToml = FlowTemplate /\ planToml = PlanTemplate =>
    /\ Asked => \A r \in Fails : r.check \in {"common", "snapshot", "status", "uuid"}
    /\ commonToml # Broken /\ last.cmd = "render" => last.result = "Ok"
    /\ \A c \in last.sent : c.partition = ReplaceMe

(***************************************************************************)
(* An error of submit, render or a Python read has a finding of the doctor *)
(* that names it, unless it is one the doctor does not look for: jobs that *)
(* wait on each other or on one parent twice, an id that does not parse,   *)
(* and a directory without flow.toml, which only one of its two scopes     *)
(* meets. So does the exception Python makes of it: KeyError is a job the  *)
(* plan lacks, FileNotFoundError a missing flow.toml or plan.toml          *)
(* (doctor/mod.rs:48-100, py_export/error.rs:15-61).                       *)
(***************************************************************************)
Findings(error) ==
  CASE error = "NotFound" -> {"flow", "plan"}
    [] error = "TomlParse" -> {"common", "flow", "plan"}
    [] error \in {"PartitionMissing", "PartitionWrongType"} -> {"flow"}
    [] error = "LogDirMissing" -> {"log"}
    [] error = "MissingPlanEntry" -> {"missing"}
    [] error = "DependencyCycle" -> {"parent"}

NotLookedFor(error) ==
  \/ flowToml = Absent
  \/ error = "RenderError"
  \/ error = "DependencyCycle" /\ \A j \in flowToml.jobs : Parents(flowToml, j) \subseteq flowToml.jobs

DoctorExplains ==
  Asked /\ last.cmd \in {"submit", "render", "read"} /\ last.result # "Ok" =>
    /\ NotLookedFor(last.result) \/ \E r \in report : r.check \in Findings(last.result)
    /\ Exception(last.result) = "KeyError" => \E r \in report : r.check = "missing"
    /\ Exception(last.result) = "FileNotFoundError" => Absent \in {flowToml, planToml}

(***************************************************************************)
(* Written back, the flow that a Python script has read can be read under  *)
(* any common.toml, one without a partition too.  It is the flow of the    *)
(* file but for one thing: a partition the file left to common.toml is now *)
(* the one of the moment it was read, whatever common.toml says later; the *)
(* other defaults still follow common.toml (persistence/flow.rs:72-95,     *)
(* py_export/persistence.rs:78-97).                                        *)
(***************************************************************************)
Submitted(f, common, j) == Merge(common, ReadFlow(f, common).config[j])

ReadFlowSettled ==
  last.cmd = "read" /\ last.result = "Ok" =>
    /\ held.jobs = flowToml.jobs /\ held.parents = flowToml.parents
    /\ \A c \in (CommonFile \ {Absent, Broken}) \cup {SynthEmptyCommon} :
         /\ ReadFlowErrors(held, c) = {}
         /\ \A j \in held.jobs :
              Submitted(held, c, j) =
                [Submitted(flowToml, c, j) EXCEPT
                   !.partition = Submitted(flowToml, CommonForRead, j).partition]
=============================================================================
