---------------------------- MODULE DoctorProofs ----------------------------
(***************************************************************************)
(* What `jm doctor` finds and what the commands then do, for any files.    *)
(***************************************************************************)
EXTENDS Doctor, FiniteSetTheorems, SequenceTheorems, TLAPS

Contents == (FlowFile \ {Absent, Broken}) \cup {FlowTemplate}
Commons  == (CommonFile \ {Absent, Broken}) \cup {SynthEmptyCommon}

\* The flows read_flow can have returned.
Reads == {g \in {ReadFlow(f, c) : f \in Contents, c \in Commons} : IsRead(g)}

Known ==
  /\ flowToml \in {Absent, Broken} \cup Contents \cup Reads
  /\ planToml \in PlanFile \cup {PlanTemplate} /\ commonToml \in CommonFile
  /\ uuidOk \in BOOLEAN /\ logDirs \subseteq Dir
  /\ status \in [Job -> {Absent, "good", Broken}]
  /\ snapshot \in {Absent, Broken} \cup Reads
  /\ held \in {None} \cup Reads

-----------------------------------------------------------------------------
(* The files of jm new are a flow.                                          *)
LEMMA TemplateIsFlow == IsFlow(FlowTemplate)
<1> DEFINE P == [j \in {Step1, Step2} |-> IF j = Step2 THEN <<Step1>> ELSE <<>>]
           C == [j \in {Step1, Step2} |-> [partition |-> ReplaceMe, log |-> None, dependency |-> None]]
<1>1. FlowTemplate = [jobs |-> {Step1, Step2}, parents |-> P, config |-> C]
  BY DEF FlowTemplate
<1>2. {Step1, Step2} \subseteq Job
  BY FilesAssumption
<1>3. P \in [{Step1, Step2} -> Seq(Job \cup {Ghost})]
  <2>1. <<Step1>> \in Seq(Job \cup {Ghost}) /\ <<>> \in Seq(Job \cup {Ghost})
    <3>1. Step1 \in Job \cup {Ghost}
      BY <1>2
    <3>2. QED
      BY <3>1
  <2>2. QED
    BY <2>1
<1>4. C \in [{Step1, Step2} -> Config]
  BY FilesAssumption DEF Config
<1> HIDE DEF P, C
<1>5. QED
  BY <1>1, <1>2, <1>3, <1>4 DEF IsFlow

LEMMA ContentsAreFlows ==
  \A f \in Contents : IsFlow(f) /\ f \notin {None, Absent, Broken}
BY FilesAssumption, MarkerAssumption, TemplateIsFlow DEF Contents

LEMMA CommonsAreCommon == Commons \subseteq Common
<1>1. SynthEmptyCommon \in Common
  BY DEF SynthEmptyCommon, Common
<1>2. QED
  BY <1>1, FilesAssumption DEF Commons

(* read_flow keeps a flow's jobs, edges and keys, and sets the partitions   *)
(* that are missing.                                                        *)
LEMMA ReadShape ==
  ASSUME NEW f, IsFlow(f), NEW c \in Common
  PROVE  LET g == ReadFlow(f, c)
         IN  /\ g.jobs = f.jobs /\ g.parents = f.parents
             /\ g = [jobs |-> g.jobs, parents |-> g.parents, config |-> g.config]
             /\ g.config \in [f.jobs -> Config]
             /\ \A j \in f.jobs :
                  /\ g.config[j].log = f.config[j].log
                  /\ g.config[j].dependency = f.config[j].dependency
                  /\ f.config[j].partition = None => g.config[j].partition = c.partition
                  /\ f.config[j].partition # None => g.config[j] = f.config[j]
<1> DEFINE C == [j \in f.jobs |-> IF f.config[j].partition = None
                                  THEN [f.config[j] EXCEPT !.partition = c.partition]
                                  ELSE f.config[j]]
<1>1. ReadFlow(f, c) = [f EXCEPT !.config = C]
  BY DEF ReadFlow
<1>2. ASSUME NEW j \in f.jobs
      PROVE  /\ C[j] \in Config /\ C[j].log = f.config[j].log
             /\ C[j].dependency = f.config[j].dependency
             /\ f.config[j].partition = None => C[j].partition = c.partition
             /\ f.config[j].partition # None => C[j] = f.config[j]
  <2>1. f.config[j] \in Config /\ c.partition \in Part \cup {None}
    BY DEF IsFlow, Common
  <2>2. QED
    BY <2>1 DEF Config
<1>3. C \in [f.jobs -> Config]
  BY <1>2
<1> HIDE DEF C
<1>4. ReadFlow(f, c) = [jobs |-> f.jobs, parents |-> f.parents, config |-> C]
  BY <1>1 DEF IsFlow
<1>5. QED
  BY <1>2, <1>3, <1>4

(* A flow that could be read is one that read_flow has returned.            *)
LEMMA ReadIsRead ==
  ASSUME NEW f, IsFlow(f), f \notin {Absent, Broken}, NEW c \in Common,
         ReadFlowErrors(f, c) = {}
  PROVE  IsRead(ReadFlow(f, c))
<1> DEFINE g == ReadFlow(f, c)
<1>1. IsFlow(g) /\ g.jobs = f.jobs
  BY ReadShape DEF IsFlow
<1>2. ASSUME NEW j \in f.jobs PROVE g.config[j].partition \in Part
  <2>1. f.config[j].partition # Wrong /\ ~ (f.config[j].partition = None /\ c.partition = None)
    BY DEF ReadFlowErrors
  <2>2. f.config[j].partition \in Part \cup {None, Wrong} /\ c.partition \in Part \cup {None}
    BY DEF IsFlow, Config, Common
  <2>3. QED
    BY <2>1, <2>2, ReadShape
<1>3. QED
  BY <1>1, <1>2 DEF IsRead

(* What was read has every partition: any common.toml gives it again.       *)
LEMMA ReadAgain ==
  ASSUME NEW f, IsRead(f), f \notin {Absent, Broken}, NEW c \in Common
  PROVE  ReadFlowErrors(f, c) = {} /\ ReadFlow(f, c) = f
<1>1. \A j \in f.jobs : f.config[j].partition # None /\ f.config[j].partition # Wrong
  BY MarkerAssumption DEF IsRead
<1>2. ReadFlowErrors(f, c) = {}
  BY <1>1 DEF ReadFlowErrors
<1> DEFINE g == ReadFlow(f, c)
<1>3. \A j \in f.jobs : g.config[j] = f.config[j]
  BY <1>1, ReadShape DEF IsRead
<1>4. g.config = f.config
  BY <1>3, ReadShape DEF IsRead, IsFlow
<1>5. g = f
  <2>1. /\ g = [jobs |-> g.jobs, parents |-> g.parents, config |-> g.config]
        /\ g.jobs = f.jobs /\ g.parents = f.parents
    BY ReadShape DEF IsRead
  <2>2. f = [jobs |-> f.jobs, parents |-> f.parents, config |-> f.config]
    BY DEF IsRead, IsFlow
  <2> HIDE DEF g
  <2>3. QED
    BY <1>4, <2>1, <2>2
<1>6. QED
  BY <1>2, <1>5

LEMMA ReadsAreRead ==
  \A f \in Reads : IsRead(f) /\ IsFlow(f) /\ f \notin {None, Absent, Broken}
<1> SUFFICES ASSUME NEW f \in Contents, NEW c \in Commons
             PROVE  ReadFlow(f, c) \notin {None, Absent, Broken}
  BY DEF Reads, IsRead
<1>1. QED
  BY MarkerAssumption DEF Contents, Commons

(* The flow that flow.toml holds, when it can be read.                      *)
LEMMA ReadingFlow ==
  ASSUME NEW f \in {Absent, Broken} \cup Contents \cup Reads, NEW c \in Commons,
         ReadFlowErrors(f, c) = {}
  PROVE  ReadFlow(f, c) \in Reads /\ IsFlow(f) /\ f \notin {Absent, Broken}
<1>1. c \in Common
  BY CommonsAreCommon
<1>2. f \notin {Absent, Broken}
  BY DEF ReadFlowErrors, FileErrors
<1>3. CASE f \in Contents
  BY <1>1, <1>2, <1>3, ContentsAreFlows, ReadIsRead DEF Reads
<1>4. CASE f \in Reads
  BY <1>1, <1>2, <1>4, ReadsAreRead, ReadAgain
<1>5. QED
  BY <1>2, <1>3, <1>4

-----------------------------------------------------------------------------
LEMMA KnownTypes == Known => TypeOK
BY ContentsAreFlows, ReadsAreRead DEF Known, TypeOK

LEMMA CommonRead == Known /\ commonToml # Broken => CommonForRead \in Commons
BY DEF Known, CommonForRead, Commons

LEMMA InitKnown == Init => Known
BY DEF Init, Known, Contents

LEMMA LoadsReads == Known /\ Loads =>
  ReadFlow(flowToml, CommonForRead) \in Reads /\ IsFlow(flowToml) /\ flowToml \notin {Absent, Broken}
<1> SUFFICES ASSUME Known, Loads
             PROVE  ReadFlow(flowToml, CommonForRead) \in Reads
                      /\ IsFlow(flowToml) /\ flowToml \notin {Absent, Broken}
  OBVIOUS
<1>1. commonToml # Broken /\ ReadFlowErrors(flowToml, CommonForRead) = {}
  BY DEF Loads, LoadErrors
<1>2. CommonForRead \in Commons
  BY <1>1, CommonRead
<1>3. QED
  BY <1>1, <1>2, ReadingFlow DEF Known

LEMMA StepKnown == Known /\ [Next]_vars => Known'
<1> SUFFICES ASSUME Known, [Next]_vars PROVE Known'
  OBVIOUS
<1>1. ASSUME NEW c, Submit(c) PROVE Known'
  <2>1. snapshot' \in Reads /\ UNCHANGED <<userFiles, held>>
    BY <1>1, LoadsReads DEF Submit
  <2>2. status' \in [Job -> {Absent, "good", Broken}]
    BY <1>1 DEF Submit, Known
  <2>3. QED
    BY <2>1, <2>2 DEF Known, userFiles
<1>2. ASSUME NEW c, SubmitRefused(c) PROVE Known'
  BY <1>2 DEF SubmitRefused, Known, userFiles
<1>3. CASE RenderEffective
  <2>1. snapshot' \in Reads /\ UNCHANGED <<userFiles, status, held>>
    BY <1>3, LoadsReads DEF RenderEffective
  <2>2. QED
    BY <2>1 DEF Known, userFiles
<1>4. ASSUME NEW c, Inspect(c) PROVE Known'
  BY <1>4 DEF Inspect, Known, userFiles
<1>5. ASSUME NEW scope, AskDoctor(scope) PROVE Known'
  BY <1>5 DEF AskDoctor, Known, userFiles
<1>6. CASE PyReadFlow
  <2>1. held' \in {None} \cup Reads
    <3>1. CASE PyReadErrors = {}
      <4>1. commonToml # Broken /\ ReadFlowErrors(flowToml, CommonForRead) = {}
        BY <3>1 DEF PyReadErrors
      <4>2. CommonForRead \in Commons
        BY <4>1, CommonRead
      <4>3. QED
        BY <1>6, <3>1, <4>1, <4>2, ReadingFlow DEF PyReadFlow, Known
    <3>2. CASE PyReadErrors # {}
      BY <1>6, <3>2 DEF PyReadFlow, Known
    <3>3. QED
      BY <3>1, <3>2
  <2>2. QED
    BY <1>6, <2>1 DEF PyReadFlow, Known, userFiles
<1>7. CASE PyWriteFlow
  BY <1>7 DEF PyWriteFlow, Known
<1>8. CASE Edit
  BY <1>8 DEF Edit, Known, Contents
<1>9. CASE Damage
  BY <1>9 DEF Damage, Known, userFiles
<1>10. CASE UNCHANGED vars
  BY <1>10 DEF vars, userFiles, Known
<1>11. QED
  BY <1>1, <1>2, <1>3, <1>4, <1>5, <1>6, <1>7, <1>8, <1>9, <1>10 DEF Next

-----------------------------------------------------------------------------
(* The last command ended as these files make it end, and the last report   *)
(* holds what these files make the doctor find: nothing else is known of    *)
(* either once the files are edited.                                        *)

TheFlow == ReadFlow(flowToml, CommonForRead)

Unlogged(f) == \E j \in f.jobs : LogDirMissing(EffectiveConfig(f, j), logDirs)

\* submit (or render) of the flow f.
RunEnds(f, c, l) ==
  \/ /\ c = "submit" /\ Unlogged(f)
     /\ l = Ended(c, "LogDirMissing", {})
  \/ /\ ~ (c = "submit" /\ Unlogged(f))
     /\ \E h \in Handled(f) :
          /\ InOrder(f, h[1], h[2])
          /\ l = Ended(c, h[2], IF c = "submit" THEN {SbatchCmd(f, j) : j \in h[1]} ELSE {})

RefusedEnds(c, l) ==
  /\ Loads => ~ Orderable(flowToml)
  /\ \E e \in IF Loads THEN {"DependencyCycle"} ELSE LoadErrors : l = Ended(c, e, {})

SubmitEnds(c, l) ==
  \/ Loads /\ Orderable(flowToml) /\ \E f : f = TheFlow /\ RunEnds(f, c, l)
  \/ RefusedEnds(c, l)

InspectEnds(c, l) ==
  \E e \in IF InspectErrors(c) = {} THEN {"Ok"} ELSE InspectErrors(c) : l = Ended(c, e, {})

ReadEnds(l) ==
  IF PyReadErrors = {} THEN held = TheFlow /\ l = Ended("read", "Ok", {})
  ELSE \E e \in PyReadErrors : l = Ended("read", e, {})

LastFits ==
  \/ last = NoCommand
  \/ \E c \in {"submit", "render"} : SubmitEnds(c, last)
  \/ last = Ended("effective", "Ok", {})
  \/ \E c \in {"tick", "show"} : InspectEnds(c, last)
  \/ ReadEnds(last)

\* A snapshot or a status that was broken may have been written anew since.
ReportFits ==
  \/ report = NotAsked
  \/ \E scope \in {"All", "Flow"} :
       /\ RunDoctor(scope) \subseteq report
       /\ \A r \in report \ RunDoctor(scope) : r.check \in {"snapshot", "status"}

DInv == Known /\ LastFits /\ ReportFits

(* What depends on the user's files alone stays while they do.              *)
LEMMA FlowKept ==
  ASSUME UNCHANGED userFiles
  PROVE  /\ Loads' = Loads /\ LoadErrors' = LoadErrors
         /\ Orderable(flowToml)' = Orderable(flowToml)
         /\ TheFlow' = TheFlow /\ PyReadErrors' = PyReadErrors
<1>1. CommonForRead' = CommonForRead
  BY DEF userFiles, CommonForRead
<1>2. ReadFlowErrors(flowToml, CommonForRead)' = ReadFlowErrors(flowToml, CommonForRead)
  BY <1>1 DEF userFiles
<1>3. LoadErrors' = LoadErrors
  BY <1>2 DEF userFiles, LoadErrors
<1>4. PyReadErrors' = PyReadErrors
  BY <1>2 DEF userFiles, PyReadErrors
<1>5. TheFlow' = TheFlow
  BY <1>1 DEF userFiles, TheFlow
<1>6. Orderable(flowToml)' = Orderable(flowToml)
  BY DEF userFiles
<1>7. QED
  BY <1>3, <1>4, <1>5, <1>6 DEF Loads

LEMMA ConfigKept ==
  ASSUME UNCHANGED userFiles, NEW f, NEW j
  PROVE  /\ EffectiveConfig(f, j)' = EffectiveConfig(f, j)
         /\ SbatchCmd(f, j)' = SbatchCmd(f, j)
<1>1. EffectiveConfig(f, j)' = EffectiveConfig(f, j)
  BY DEF userFiles, EffectiveConfig
<1>2. QED
  BY <1>1 DEF SbatchCmd

LEMMA LoopKept ==
  ASSUME UNCHANGED userFiles, NEW f
  PROVE  /\ Handled(f)' = Handled(f)
         /\ \A S, stop : InOrder(f, S, stop)' = InOrder(f, S, stop)
<1>1. Stops(f)' = Stops(f)
  BY DEF userFiles, Stops
<1>2. \A j : JobError(j)' = JobError(j)
  BY DEF userFiles, JobError
<1>3. Handled(f)' = Handled(f)
  BY <1>1, <1>2 DEF Handled
<1>4. ASSUME NEW S, NEW stop PROVE InOrder(f, S, stop)' = InOrder(f, S, stop)
  BY <1>1, <1>2 DEF InOrder
<1>5. QED
  BY <1>3, <1>4

LEMMA SubmitKept ==
  ASSUME UNCHANGED userFiles, NEW c, NEW l, SubmitEnds(c, l)
  PROVE  SubmitEnds(c, l)'
<1>1. ASSUME Loads, Orderable(flowToml), NEW f, f = TheFlow, RunEnds(f, c, l)
      PROVE  SubmitEnds(c, l)'
  <2>1. Unlogged(f)' = Unlogged(f)
    <3>1. \A j : EffectiveConfig(f, j)' = EffectiveConfig(f, j)
      BY ConfigKept
    <3>2. QED
      BY <3>1 DEF Unlogged, userFiles
  <2>2. RunEnds(f, c, l)'
    <3>1. \A j : SbatchCmd(f, j)' = SbatchCmd(f, j)
      BY ConfigKept
    <3>2. Handled(f)' = Handled(f) /\ \A S, stop : InOrder(f, S, stop)' = InOrder(f, S, stop)
      BY LoopKept
    <3>3. QED
      BY <1>1, <2>1, <3>1, <3>2 DEF RunEnds
  <2>3. QED
    BY <1>1, <2>2, FlowKept DEF SubmitEnds
<1>2. CASE RefusedEnds(c, l)
  <2>1. RefusedEnds(c, l)'
    BY <1>2, FlowKept DEF RefusedEnds
  <2>2. QED
    BY <2>1 DEF SubmitEnds
<1>3. QED
  BY <1>1, <1>2 DEF SubmitEnds

FlowChecks ==
  CheckUuidMatchesDir \cup CheckParentsResolve \cup CheckPlanCoverage \cup CheckLogDirsExist

(* While the user's files stay, only the snapshot and the status files can  *)
(* change what the doctor finds.                                            *)
LEMMA ChecksKept ==
  ASSUME UNCHANGED userFiles
  PROVE  /\ CheckCommon' = CheckCommon /\ CheckFlow' = CheckFlow /\ CheckPlan' = CheckPlan
         /\ FlowChecks' = FlowChecks
         /\ \A scope : FlowDirs(scope)' = FlowDirs(scope)
<1>1. DoctorCommon' = DoctorCommon /\ CheckCommon' = CheckCommon
  BY DEF userFiles, DoctorCommon, CheckCommon
<1>2. CheckFlow' = CheckFlow
  BY <1>1 DEF userFiles, CheckFlow
<1>3. CheckPlan' = CheckPlan
  BY DEF userFiles, CheckPlan
<1>4. CheckUuidMatchesDir' = CheckUuidMatchesDir /\ CheckParentsResolve' = CheckParentsResolve
  BY DEF userFiles, CheckUuidMatchesDir, CheckParentsResolve
<1>5. CheckPlanCoverage' = CheckPlanCoverage
  BY DEF userFiles, CheckPlanCoverage
<1>6. CheckLogDirsExist' = CheckLogDirsExist
  BY <1>1 DEF userFiles, CheckLogDirsExist
<1>7. \A scope : FlowDirs(scope)' = FlowDirs(scope)
  BY DEF userFiles, FlowDirs
<1>8. QED
  BY <1>1, <1>2, <1>3, <1>4, <1>5, <1>6, <1>7 DEF FlowChecks

\* What the doctor finds, check by check.
Finds(scope, r) ==
  \/ r \in CheckCommon
  \/ /\ FlowDirs(scope) # {}
     /\ \/ r \in CheckFlow \cup CheckPlan \cup CheckFlowEffective
        \/ CheckFlow = {} /\ r \in CheckStatusFiles \cup FlowChecks

LEMMA DoctorFinds ==
  ASSUME NEW scope, NEW r
  PROVE  /\ r \in RunDoctor(scope) <=> Finds(scope, r)
         /\ r \in RunDoctor(scope)' <=> Finds(scope, r)'
BY DEF Finds, RunDoctor, CheckFlowDir, FlowChecks, FlowDirs

LEMMA ReportKept ==
  ASSUME ReportFits, UNCHANGED <<userFiles, report>>,
         CheckFlowEffective' \subseteq CheckFlowEffective,
         CheckFlow = {} => CheckStatusFiles' \subseteq CheckStatusFiles
  PROVE  ReportFits'
<1>1. CASE report = NotAsked
  BY <1>1 DEF ReportFits, NotAsked, Warn
<1>2. ASSUME NEW scope \in {"All", "Flow"}, RunDoctor(scope) \subseteq report,
             \A r \in report \ RunDoctor(scope) : r.check \in {"snapshot", "status"}
      PROVE  ReportFits'
  <2>1. ASSUME NEW r PROVE r \in RunDoctor(scope)' => r \in RunDoctor(scope)
    BY ChecksKept, DoctorFinds DEF Finds
  <2>2. ASSUME NEW r \in RunDoctor(scope), r \notin RunDoctor(scope)'
        PROVE  r.check \in {"snapshot", "status"}
    <3>1. r \in CheckFlowEffective \cup CheckStatusFiles
      BY <2>2, ChecksKept, DoctorFinds DEF Finds
    <3>2. QED
      BY <3>1 DEF CheckFlowEffective, CheckStatusFiles, Fail
  <2>3. QED
    BY <1>2, <2>1, <2>2 DEF ReportFits
<1>3. QED
  BY <1>1, <1>2 DEF ReportFits

-----------------------------------------------------------------------------
LEMMA InitDInv == Init => DInv
BY InitKnown DEF Init, DInv, LastFits, ReportFits

(* Submit and render write a snapshot that parses and status files that do. *)
LEMMA RunFits ==
  ASSUME Known, LastFits, ReportFits, NEW c \in {"submit", "render"}, Submit(c)
  PROVE  LastFits' /\ ReportFits'
<1>1. UNCHANGED <<userFiles, report, held>>
  BY DEF Submit
<1>2. PICK f : f = TheFlow
  OBVIOUS
<1>3. f \in Reads /\ f \notin {Absent, Broken} /\ snapshot' = f /\ Loads /\ Orderable(flowToml)
  BY <1>2, LoadsReads, ReadsAreRead DEF Submit, TheFlow
<1>4. RunEnds(f, c, last')
  <2>1. RunEnds(TheFlow, c, last')
    BY DEF Submit, TheFlow, Unlogged, RunEnds
  <2>2. QED
    BY <1>2, <2>1
<1>5. PICK l : l = last'
  OBVIOUS
<1>6. SubmitEnds(c, l)
  BY <1>2, <1>3, <1>4, <1>5 DEF SubmitEnds
<1>7. LastFits'
  <2>1. SubmitEnds(c, l)'
    BY <1>1, <1>6, SubmitKept
  <2>2. QED
    BY <1>5, <2>1 DEF LastFits
<1>8. ReportFits'
  <2>1. CheckFlowEffective' = {}
    BY <1>3 DEF CheckFlowEffective
  <2>2. \A j \in Job : status'[j] = Broken => status[j] = Broken
    BY MarkerAssumption DEF Submit, Known
  <2>3. CheckFlow = {} => CheckStatusFiles' \subseteq CheckStatusFiles
    <3>1. flowToml.jobs \subseteq Job
      BY <1>3, LoadsReads DEF IsFlow
    <3>2. QED
      BY <1>1, <2>2, <3>1 DEF CheckStatusFiles, userFiles
  <2>4. QED
    BY <1>1, <2>1, <2>3, ReportKept
<1>9. QED
  BY <1>7, <1>8

LEMMA InspectKept ==
  ASSUME UNCHANGED <<userFiles, snapshot, status>>, NEW c, NEW l, InspectEnds(c, l)
  PROVE  InspectEnds(c, l)'
<1>1. Orderable(snapshot)' = Orderable(snapshot)
  OBVIOUS
<1>2. InspectErrors(c)' = InspectErrors(c)
  BY <1>1 DEF InspectErrors, userFiles
<1>3. QED
  BY <1>2 DEF InspectEnds

LEMMA LastKept ==
  ASSUME LastFits, UNCHANGED <<userFiles, snapshot, status, held, last>>
  PROVE  LastFits'
<1>1. PICK l : l = last
  OBVIOUS
<1>2. ASSUME NEW c \in {"submit", "render"}, SubmitEnds(c, l) PROVE LastFits'
  BY <1>1, <1>2, SubmitKept DEF LastFits
<1>3. ASSUME NEW c \in {"tick", "show"}, InspectEnds(c, l) PROVE LastFits'
  BY <1>1, <1>3, InspectKept DEF LastFits
<1>4. ASSUME ReadEnds(l) PROVE LastFits'
  <2>1. ReadEnds(l)'
    BY <1>4, FlowKept DEF ReadEnds
  <2>2. QED
    BY <1>1, <2>1 DEF LastFits
<1>5. CASE last \in {NoCommand, Ended("effective", "Ok", {})}
  BY <1>5 DEF LastFits, NoCommand, Ended
<1>6. QED
  BY <1>1, <1>2, <1>3, <1>4, <1>5 DEF LastFits

LEMMA SameReport ==
  ASSUME ReportFits, UNCHANGED <<userFiles, snapshot, status, report>>
  PROVE  ReportFits'
<1>1. CheckFlowEffective' = CheckFlowEffective
  BY DEF CheckFlowEffective
<1>2. CheckStatusFiles' = CheckStatusFiles
  BY DEF CheckStatusFiles, userFiles
<1>3. QED
  BY <1>1, <1>2, ReportKept

LEMMA StepDInv == DInv /\ [Next]_vars => DInv'
<1> SUFFICES ASSUME DInv, [Next]_vars PROVE LastFits' /\ ReportFits'
  BY StepKnown DEF DInv
<1> USE DEF DInv
<1>1. ASSUME NEW c \in {"submit", "render"}, Submit(c) PROVE LastFits' /\ ReportFits'
  BY <1>1, RunFits
<1>2. ASSUME NEW c \in {"submit", "render"}, SubmitRefused(c) PROVE LastFits' /\ ReportFits'
  <2>1. UNCHANGED <<userFiles, snapshot, status, report, held>> /\ RefusedEnds(c, last')
    BY <1>2 DEF SubmitRefused, RefusedEnds
  <2>2. PICK l : l = last'
    OBVIOUS
  <2>3. SubmitEnds(c, l)
    BY <2>1, <2>2 DEF SubmitEnds
  <2>4. SubmitEnds(c, l)'
    BY <2>1, <2>3, SubmitKept
  <2>5. QED
    BY <2>1, <2>2, <2>4, SameReport DEF LastFits
<1>3. CASE RenderEffective
  <2>1. UNCHANGED <<userFiles, status, report>> /\ last' = Ended("effective", "Ok", {})
    BY <1>3 DEF RenderEffective
  <2>2. snapshot' # Broken
    BY <1>3, LoadsReads, ReadsAreRead DEF RenderEffective
  <2>3. CheckFlowEffective' = {} /\ CheckStatusFiles' = CheckStatusFiles
    BY <2>1, <2>2 DEF CheckFlowEffective, CheckStatusFiles, userFiles
  <2>4. QED
    BY <2>1, <2>3, ReportKept DEF LastFits, Ended
<1>4. ASSUME NEW c \in {"tick", "show"}, Inspect(c) PROVE LastFits' /\ ReportFits'
  <2>1. UNCHANGED <<userFiles, snapshot, status, report, held>> /\ InspectEnds(c, last')
    BY <1>4 DEF Inspect, InspectEnds
  <2>2. PICK l : l = last'
    OBVIOUS
  <2>3. InspectEnds(c, l)'
    BY <2>1, <2>2, InspectKept
  <2>4. QED
    BY <2>1, <2>2, <2>3, SameReport DEF LastFits
<1>5. ASSUME NEW scope \in {"All", "Flow"}, AskDoctor(scope) PROVE LastFits' /\ ReportFits'
  <2>1. UNCHANGED <<userFiles, snapshot, status, last, held>> /\ report' = RunDoctor(scope)
    BY <1>5 DEF AskDoctor
  <2>2. CheckFlowEffective' = CheckFlowEffective /\ CheckStatusFiles' = CheckStatusFiles
    BY <2>1 DEF CheckFlowEffective, CheckStatusFiles, userFiles
  <2>3. ASSUME NEW r PROVE r \in RunDoctor(scope)' <=> r \in RunDoctor(scope)
    BY <2>1, <2>2, ChecksKept, DoctorFinds DEF Finds
  <2>4. ReportFits'
    BY <2>1, <2>3 DEF ReportFits
  <2>5. QED
    BY <2>1, <2>4, LastKept
<1>6. CASE PyReadFlow
  <2>1. UNCHANGED <<userFiles, snapshot, status, report>>
    BY <1>6 DEF PyReadFlow
  <2>2. ReadEnds(last)'
    <3>1. PyReadErrors' = PyReadErrors /\ TheFlow' = TheFlow
      BY <2>1, FlowKept
    <3>2. QED
      BY <1>6, <3>1 DEF PyReadFlow, ReadEnds, TheFlow
  <2>3. QED
    BY <2>1, <2>2, SameReport DEF LastFits
<1>7. CASE Forget
  BY <1>7 DEF Forget, LastFits, ReportFits, NoCommand, NotAsked, Ended, Warn
<1>8. CASE UNCHANGED vars
  BY <1>8, LastKept, SameReport DEF vars
<1>9. QED
  BY <1>1, <1>2, <1>3, <1>4, <1>5, <1>6, <1>7, <1>8 DEF Next, PyWriteFlow, Edit, Damage

LEMMA DoctorInvariance == Spec => []DInv
BY InitDInv, StepDInv, PTL DEF Spec

(***************************************************************************)
(* Whatever the files say and whoever edits them, what is in memory, in    *)
(* the snapshot and in flow.toml is a flow, and what was read names every  *)
(* job's partition.                                                        *)
(***************************************************************************)
THEOREM TypesHold == Spec => []TypeOK
<1>1. DInv => TypeOK
  BY KnownTypes DEF DInv
<1>2. QED
  BY <1>1, DoctorInvariance, PTL

-----------------------------------------------------------------------------
(* What a finding in the report says of the files there are.                *)
LEMMA ReportSays ==
  ASSUME ReportFits, Asked, NEW r \in report
  PROVE  /\ r.check = "common" => commonToml = Broken
         /\ r.check = "flow" => ReadFlowErrors(flowToml, DoctorCommon) # {}
         /\ r.check = "plan" => FileErrors(planToml) # {}
         /\ r.check = "parent" =>
              \E j \in flowToml.jobs : ~ (Parents(flowToml, j) \subseteq flowToml.jobs)
         /\ r.check = "log" => CheckFlow = {} /\ CheckLogDirsExist # {}
         /\ r.severity = "Fail" =>
              r.check \in {"common", "flow", "plan", "parent", "snapshot", "status", "uuid"}
<1>1. PICK scope \in {"All", "Flow"} :
        /\ RunDoctor(scope) \subseteq report
        /\ \A x \in report \ RunDoctor(scope) : x.check \in {"snapshot", "status"}
  BY DEF ReportFits, Asked
<1>2. CASE r \notin RunDoctor(scope)
  BY <1>1, <1>2
<1>3. CASE r \in RunDoctor(scope)
  <2>1. Finds(scope, r)
    BY <1>3, DoctorFinds
  <2>2. CASE r \in CheckCommon
    BY <2>2 DEF CheckCommon, Fail
  <2>3. CASE r \in CheckFlow
    BY <2>3 DEF CheckFlow, Fail
  <2>4. CASE r \in CheckPlan
    BY <2>4 DEF CheckPlan, Fail
  <2>5. CASE r \in CheckFlowEffective
    BY <2>5 DEF CheckFlowEffective, Fail
  <2>6. CASE r \in CheckStatusFiles
    BY <2>6 DEF CheckStatusFiles, Fail
  <2>7. CASE r \in CheckUuidMatchesDir
    BY <2>7 DEF CheckUuidMatchesDir, Fail
  <2>8. CASE r \in CheckParentsResolve
    BY <2>8 DEF CheckParentsResolve, Fail
  <2>9. CASE r \in CheckPlanCoverage
    BY <2>9 DEF CheckPlanCoverage, Warn
  <2>10. CASE CheckFlow = {} /\ r \in CheckLogDirsExist
    BY <2>10 DEF CheckLogDirsExist, Warn
  <2>11. QED
    BY <2>1, <2>2, <2>3, <2>4, <2>5, <2>6, <2>7, <2>8, <2>9, <2>10 DEF Finds, FlowChecks
<1>4. QED
  BY <1>2, <1>3

(* The findings a report has when there is a flow.toml.                     *)
LEMMA ReportHas ==
  ASSUME ReportFits, Asked, flowToml # Absent
  PROVE  /\ commonToml = Broken => Fail("common", None) \in report
         /\ ReadFlowErrors(flowToml, DoctorCommon) # {} => Fail("flow", None) \in report
         /\ FileErrors(planToml) # {} => Fail("plan", None) \in report
         /\ snapshot = Broken => Fail("snapshot", None) \in report
         /\ ReadFlowErrors(flowToml, DoctorCommon) = {} =>
              CheckStatusFiles \cup FlowChecks \subseteq report
<1>1. PICK scope \in {"All", "Flow"} : RunDoctor(scope) \subseteq report
  BY DEF ReportFits, Asked
<1>2. FlowDirs(scope) # {}
  BY DEF FlowDirs
<1>3. /\ CheckCommon \cup CheckFlow \cup CheckPlan \cup CheckFlowEffective \subseteq report
      /\ CheckFlow = {} => CheckStatusFiles \cup FlowChecks \subseteq report
  BY <1>1, <1>2, DoctorFinds DEF Finds
<1>4. QED
  BY <1>3 DEF CheckCommon, CheckFlow, CheckPlan, CheckFlowEffective

(* Which command the last one was tells how it can have ended.              *)
LEMMA LastOf ==
  ASSUME LastFits
  PROVE  /\ \A c \in {"submit", "render"} : last.cmd = c => SubmitEnds(c, last)
         /\ \A c \in {"tick", "show"} : last.cmd = c => InspectEnds(c, last)
         /\ last.cmd = "read" => ReadEnds(last)
<1>1. ASSUME NEW c, SubmitEnds(c, last) PROVE last.cmd = c
  BY <1>1 DEF SubmitEnds, RunEnds, RefusedEnds, Ended
<1>2. ASSUME NEW c, InspectEnds(c, last) PROVE last.cmd = c
  BY <1>2 DEF InspectEnds, Ended
<1>3. ReadEnds(last) => last.cmd = "read"
  BY DEF ReadEnds, Ended
<1>4. QED
  BY <1>1, <1>2, <1>3 DEF LastFits, NoCommand, Ended

FileError == {"NotFound", "TomlParse", "PartitionMissing", "PartitionWrongType"}

LEMMA LoadErrorNames == LoadErrors \subseteq FileError /\ PyReadErrors \subseteq FileError
<1>1. \A file : FileErrors(file) \subseteq FileError
  BY DEF FileErrors, FileError
<1>2. \A f, c : ReadFlowErrors(f, c) \subseteq FileError
  BY <1>1 DEF ReadFlowErrors, FileError
<1>3. QED
  BY <1>1, <1>2 DEF LoadErrors, PyReadErrors, FileError

(* A refused command sends nothing and names an error of the files.         *)
LEMMA RefusedResult ==
  ASSUME NEW c, NEW l, RefusedEnds(c, l)
  PROVE  /\ l.result \in FileError \cup {"DependencyCycle"} /\ l.sent = {}
         /\ Loads => l.result = "DependencyCycle" /\ ~ Orderable(flowToml)
         /\ ~ Loads => l.result \in LoadErrors
BY LoadErrorNames DEF RefusedEnds, Ended

LEMMA RunResult ==
  ASSUME NEW f, NEW c, NEW l, RunEnds(f, c, l)
  PROVE  /\ l.result \in {"LogDirMissing", "Ok", "MissingPlanEntry", "RenderError"}
         /\ l.result = "LogDirMissing" <=> c = "submit" /\ Unlogged(f)
         /\ l.result = "LogDirMissing" => l.sent = {}
         /\ l.result \in {"MissingPlanEntry", "RenderError"} =>
              \E j \in Stops(f) : l.result = JobError(j)
         /\ Stops(f) = {} /\ l.result # "LogDirMissing" =>
              /\ l.result = "Ok"
              /\ c = "submit" => {x.job : x \in l.sent} = f.jobs
         /\ \A x \in l.sent : \E j \in f.jobs : x = SbatchCmd(f, j)
<1>1. CASE c = "submit" /\ Unlogged(f)
  <2>1. l.result = "LogDirMissing" /\ l.sent = {}
    BY <1>1 DEF RunEnds, Ended
  <2>2. QED
    BY <1>1, <2>1
<1>2. CASE ~ (c = "submit" /\ Unlogged(f))
  <2>1. PICK h \in Handled(f) :
          l = Ended(c, h[2], IF c = "submit" THEN {SbatchCmd(f, j) : j \in h[1]} ELSE {})
    BY <1>2 DEF RunEnds
  <2>2. /\ l.result = h[2]
        /\ l.sent = IF c = "submit" THEN {SbatchCmd(f, j) : j \in h[1]} ELSE {}
    BY <2>1 DEF Ended
  <2>3. CASE Stops(f) = {}
    <3>1. h[1] = f.jobs /\ h[2] = "Ok"
      BY <2>3 DEF Handled
    <3>2. \A j : SbatchCmd(f, j).job = j
      BY DEF SbatchCmd
    <3>3. c = "submit" => l.sent = {SbatchCmd(f, j) : j \in f.jobs}
      BY <2>2, <3>1
    <3>4. c = "submit" => {x.job : x \in l.sent} = f.jobs
      BY <3>2, <3>3
    <3>5. QED
      BY <1>2, <2>2, <2>3, <3>1, <3>4
  <2>4. CASE Stops(f) # {}
    <3>1. h[1] \subseteq f.jobs /\ \E j \in Stops(f) : h[2] = JobError(j)
      BY <2>4 DEF Handled
    <3>2. \A j : JobError(j) \in {"MissingPlanEntry", "RenderError"}
      BY DEF JobError
    <3>3. QED
      BY <1>2, <2>2, <2>4, <3>1, <3>2
  <2>5. QED
    BY <2>3, <2>4
<1>3. QED
  BY <1>1, <1>2

(* The commands see the flow the doctor sees.                               *)
LEMMA SameFlow ==
  ASSUME Known, Loads, NEW f, f = TheFlow
  PROVE  /\ flowToml \notin {Absent, Broken} /\ FileErrors(planToml) = {}
         /\ commonToml # Broken /\ CheckFlow = {}
         /\ f.jobs = flowToml.jobs
         /\ Unlogged(f) <=> CheckLogDirsExist # {}
<1>1. /\ commonToml # Broken /\ FileErrors(planToml) = {}
      /\ ReadFlowErrors(flowToml, CommonForRead) = {}
  BY DEF Loads, LoadErrors
<1>2. DoctorCommon = CommonForRead
  BY <1>1 DEF DoctorCommon, CommonForRead
<1>3. IsFlow(flowToml) /\ flowToml \notin {Absent, Broken} /\ CommonForRead \in Common
  BY <1>1, LoadsReads, CommonRead, CommonsAreCommon
<1>4. /\ f.jobs = flowToml.jobs
      /\ \A j \in f.jobs : f.config[j].log = flowToml.config[j].log
  BY <1>3, ReadShape DEF TheFlow
<1>5. ASSUME NEW j \in f.jobs
      PROVE  EffectiveConfig(f, j).log = Merge(DoctorCommon, flowToml.config[j]).log
  <2>1. f.config[j].log = flowToml.config[j].log
    BY <1>4
  <2>2. CASE commonToml = Absent
    BY <1>2, <2>1, <2>2 DEF EffectiveConfig, CommonForRead, SynthEmptyCommon, Merge, Or
  <2>3. CASE commonToml # Absent
    BY <1>1, <1>2, <2>1, <2>3 DEF EffectiveConfig, CommonForRead, Merge, Or
  <2>4. QED
    BY <2>2, <2>3
<1>6. Unlogged(f) <=> \E j \in f.jobs : LogDirMissing(Merge(DoctorCommon, flowToml.config[j]), logDirs)
  BY <1>5 DEF Unlogged, LogDirMissing
<1>7. Unlogged(f) <=> CheckLogDirsExist # {}
  BY <1>4, <1>6 DEF CheckLogDirsExist
<1>8. QED
  BY <1>1, <1>2, <1>3, <1>4, <1>7 DEF CheckFlow

LEMMA NotOrderable ==
  ASSUME NEW j \in flowToml.jobs, ~ (Parents(flowToml, j) \subseteq flowToml.jobs)
  PROVE  ~ Orderable(flowToml)
BY DEF Orderable

(***************************************************************************)
(* What the doctor FAILs in the files the user writes, but for the uuid,   *)
(* stops submit before a job reaches SLURM, whatever else the files say    *)
(* and whenever the report was asked for since the last edit.              *)
(***************************************************************************)
THEOREM FailsStopHolds == Spec => []FailsStop
<1>1. DInv => FailsStop
  <2> SUFFICES ASSUME DInv, Asked, NEW r \in Fails, OfFiles(r), r.check # "uuid",
                      last.cmd = "submit"
               PROVE  last.result # "Ok" /\ last.sent = {}
    BY DEF FailsStop
  <2> USE DEF DInv
  <2>1. r \in report
    BY DEF Fails
  <2>2. ~ (Loads /\ Orderable(flowToml))
    <3> SUFFICES ASSUME Loads, Orderable(flowToml) PROVE FALSE
      OBVIOUS
    <3>1. /\ commonToml # Broken /\ CheckFlow = {} /\ FileErrors(planToml) = {}
      BY SameFlow
    <3>2. ReadFlowErrors(flowToml, DoctorCommon) = {}
      BY <3>1 DEF CheckFlow
    <3>3. \A j \in flowToml.jobs : Parents(flowToml, j) \subseteq flowToml.jobs
      BY NotOrderable
    <3>4. QED
      BY <2>1, <3>1, <3>2, <3>3, ReportSays DEF OfFiles
  <2>3. RefusedEnds("submit", last)
    BY <2>2, LastOf DEF SubmitEnds
  <2>4. QED
    BY <2>3, RefusedResult DEF FileError
<1>2. QED
  BY <1>1, DoctorInvariance, PTL

(***************************************************************************)
(* submit ends at a missing log directory exactly when it gets that far    *)
(* and the doctor warned of one, and then it has submitted nothing.        *)
(***************************************************************************)
THEOREM LogDirsHold == Spec => []LogDirsAgree
<1>1. DInv => LogDirsAgree
  <2> SUFFICES ASSUME DInv, Asked, last.cmd = "submit",
                      last.result \in {"LogDirMissing", "Ok", "MissingPlanEntry", "RenderError"}
               PROVE  /\ last.result = "LogDirMissing" <=> \E r \in report : r.check = "log"
                      /\ last.result = "LogDirMissing" => last.sent = {}
    BY DEF LogDirsAgree
  <2> USE DEF DInv
  <2>1. ~ RefusedEnds("submit", last)
    BY RefusedResult DEF FileError
  <2>2. PICK f : Loads /\ f = TheFlow /\ RunEnds(f, "submit", last)
    BY <2>1, LastOf DEF SubmitEnds
  <2>3. flowToml # Absent /\ CheckFlow = {} /\ (Unlogged(f) <=> CheckLogDirsExist # {})
    BY <2>2, SameFlow
  <2>4. CheckLogDirsExist # {} => \E r \in report : r.check = "log"
    <3>1. CheckLogDirsExist \subseteq report
      BY <2>3, ReportHas DEF CheckFlow, FlowChecks
    <3>2. \A r \in CheckLogDirsExist : r.check = "log"
      BY DEF CheckLogDirsExist, Warn
    <3>3. QED
      BY <3>1, <3>2
  <2>5. (\E r \in report : r.check = "log") => CheckLogDirsExist # {}
    BY ReportSays
  <2>6. QED
    BY <2>2, <2>3, <2>4, <2>5, RunResult
<1>2. QED
  BY <1>1, DoctorInvariance, PTL

(***************************************************************************)
(* An empty report means that submit hands every job to SLURM, unless the  *)
(* flow cannot be ordered or an id is not valid.                           *)
(***************************************************************************)
THEOREM CleanReportHolds == Spec => []CleanMeansSubmits
<1>1. DInv => CleanMeansSubmits
  <2> SUFFICES ASSUME DInv, Asked, report = {}, flowToml # Absent, last.cmd = "submit",
                      Orderable(flowToml), flowToml.jobs \subseteq ValidId
               PROVE  last.result = "Ok" /\ {c.job : c \in last.sent} = flowToml.jobs
    BY DEF CleanMeansSubmits
  <2> USE DEF DInv
  <2>1. /\ commonToml # Broken /\ FileErrors(planToml) = {}
        /\ ReadFlowErrors(flowToml, DoctorCommon) = {} /\ FlowChecks = {}
    BY ReportHas
  <2>2. Loads
    <3>1. DoctorCommon = CommonForRead
      BY <2>1 DEF DoctorCommon, CommonForRead
    <3>2. QED
      BY <2>1, <3>1 DEF Loads, LoadErrors
  <2>3. ~ RefusedEnds("submit", last)
    BY <2>2, RefusedResult
  <2>4. PICK f : f = TheFlow /\ RunEnds(f, "submit", last)
    BY <2>3, LastOf DEF SubmitEnds
  <2>5. f.jobs = flowToml.jobs /\ ~ Unlogged(f)
    BY <2>1, <2>2, <2>4, SameFlow DEF FlowChecks
  <2>6. flowToml.jobs \subseteq planToml
    <3>1. {Warn("missing", j) : j \in flowToml.jobs \ planToml} = {}
      BY <2>1 DEF FlowChecks, CheckPlanCoverage
    <3>2. QED
      BY <3>1
  <2>7. Stops(f) = {}
    BY <2>5, <2>6 DEF Stops
  <2>8. last.result # "LogDirMissing"
    BY <2>4, <2>5, RunResult
  <2>9. QED
    BY <2>4, <2>5, <2>7, <2>8, RunResult
<1>2. QED
  BY <1>1, DoctorInvariance, PTL

(***************************************************************************)
(* Without a FAIL, tick and show of an orderable snapshot work, when no    *)
(* job of it has left flow.toml.                                           *)
(***************************************************************************)
THEOREM CleanTreeHolds == Spec => []CleanTreeTicks
<1>1. DInv => CleanTreeTicks
  <2> SUFFICES ASSUME DInv, Asked, Fails = {}, last.cmd \in {"tick", "show"},
                      flowToml # Absent, snapshot # Absent,
                      Orderable(snapshot), snapshot.jobs \subseteq flowToml.jobs
               PROVE  last.result = "Ok"
    BY DEF CleanTreeTicks
  <2> USE DEF DInv
  <2>1. \A check, j : Fail(check, j) \notin report
    BY DEF Fails, Fail
  <2>2. FileErrors(planToml) = {} /\ snapshot # Broken
    BY <2>1, ReportHas
  <2>3. \A j \in snapshot.jobs : status[j] # Broken
    <3>1. CheckStatusFiles \subseteq report
      BY <2>1, ReportHas
    <3>2. \A j \in flowToml.jobs : status[j] = Broken => Fail("status", j) \in CheckStatusFiles
      BY DEF CheckStatusFiles
    <3>3. QED
      BY <2>1, <3>1, <3>2
  <2>4. ASSUME NEW c PROVE InspectErrors(c) = {}
    BY <2>2, <2>3 DEF InspectErrors
  <2>5. PICK c : InspectEnds(c, last)
    BY LastOf
  <2>6. last = Ended(c, "Ok", {})
    BY <2>4, <2>5 DEF InspectEnds
  <2>7. QED
    BY <2>6 DEF Ended
<1>2. QED
  BY <1>1, DoctorInvariance, PTL

-----------------------------------------------------------------------------
(* The files of jm new can be ordered, and every job of them is planned.    *)
LEMMA TemplateOrderable == Orderable(FlowTemplate)
<1>1. /\ FlowTemplate.jobs = {Step1, Step2} /\ Step1 # Step2
      /\ FlowTemplate.parents[Step1] = <<>> /\ FlowTemplate.parents[Step2] = <<Step1>>
  BY FilesAssumption DEF FlowTemplate
<1>2. Parents(FlowTemplate, Step1) = {} /\ Parents(FlowTemplate, Step2) = {Step1}
  BY <1>1 DEF Parents
<1>3. Cardinality({}) = 0 /\ Cardinality({Step1}) = 1
  BY FS_EmptySet, FS_Singleton
<1>4. Len(<<>>) = 0 /\ Len(<<Step1>>) = 1
  OBVIOUS
<1>5. \A j \in FlowTemplate.jobs :
        /\ Parents(FlowTemplate, j) \subseteq FlowTemplate.jobs
        /\ Cardinality(Parents(FlowTemplate, j)) = Len(FlowTemplate.parents[j])
  BY <1>1, <1>2, <1>3, <1>4
<1>6. ASSUME NEW S \in (SUBSET FlowTemplate.jobs) \ {{}}
      PROVE  \E j \in S : Parents(FlowTemplate, j) \cap S = {}
  <2>1. S \subseteq {Step1, Step2} /\ S # {}
    BY <1>1, <1>6
  <2>2. CASE Step1 \in S
    BY <1>2, <2>2
  <2>3. CASE Step1 \notin S
    <3>1. Step2 \in S
      BY <2>1, <2>3
    <3>2. Parents(FlowTemplate, Step2) \cap S = {}
      BY <1>2, <2>3
    <3>3. QED
      BY <3>1, <3>2
  <2>4. QED
    BY <2>2, <2>3
<1>7. QED
  BY <1>5, <1>6 DEF Orderable

LEMMA TemplateReads ==
  ASSUME NEW c \in Common
  PROVE  /\ ReadFlowErrors(FlowTemplate, c) = {}
         /\ ReadFlow(FlowTemplate, c).jobs = {Step1, Step2}
         /\ \A j \in {Step1, Step2} : ReadFlow(FlowTemplate, c).config[j].partition = ReplaceMe
<1>1. /\ FlowTemplate.jobs = {Step1, Step2}
      /\ \A j \in {Step1, Step2} : FlowTemplate.config[j].partition = ReplaceMe
  BY DEF FlowTemplate
<1>2. FlowTemplate \notin {Absent, Broken}
  BY ContentsAreFlows DEF Contents
<1>3. ReplaceMe \in Part /\ ReplaceMe # None /\ ReplaceMe # Wrong
  BY FilesAssumption, MarkerAssumption
<1>4. IsRead(FlowTemplate)
  BY <1>1, <1>3, TemplateIsFlow DEF IsRead
<1>5. QED
  BY <1>1, <1>2, <1>4, ReadAgain

(***************************************************************************)
(* A flow that jm new has just made renders whatever common.toml says, the *)
(* doctor FAILs nothing of it, and its partition is the placeholder in     *)
(* every command that sbatch would be given.                               *)
(***************************************************************************)
THEOREM NewFlowHolds == Spec => []NewFlowRenders
<1>1. DInv => NewFlowRenders
  <2> SUFFICES ASSUME DInv, flowToml = FlowTemplate, planToml = PlanTemplate
               PROVE  /\ Asked => \A r \in Fails : r.check \in {"common", "snapshot", "status", "uuid"}
                      /\ commonToml # Broken /\ last.cmd = "render" => last.result = "Ok"
                      /\ \A c \in last.sent : c.partition = ReplaceMe
    BY DEF NewFlowRenders
  <2> USE DEF DInv
  <2>1. FileErrors(planToml) = {} /\ flowToml \notin {Absent, Broken}
    BY MarkerAssumption, ContentsAreFlows DEF FileErrors, Contents
  <2>2. DoctorCommon \in Common
    BY CommonsAreCommon DEF DoctorCommon, Known, Commons
  <2>3. ReadFlowErrors(flowToml, DoctorCommon) = {}
    BY <2>2, TemplateReads
  <2>4. Orderable(flowToml)
    BY TemplateOrderable
  <2>5. ASSUME Asked, NEW r \in Fails
        PROVE  r.check \in {"common", "snapshot", "status", "uuid"}
    <3>1. r \in report /\ r.severity = "Fail"
      BY DEF Fails
    <3>2. \A j \in flowToml.jobs : Parents(flowToml, j) \subseteq flowToml.jobs
      BY <2>4, NotOrderable
    <3>3. QED
      BY <2>1, <2>3, <2>5, <3>1, <3>2, ReportSays
  <2>6. commonToml # Broken => Loads
    <3> SUFFICES ASSUME commonToml # Broken PROVE Loads
      OBVIOUS
    <3>1. CommonForRead \in Common
      BY CommonRead, CommonsAreCommon
    <3>2. ReadFlowErrors(flowToml, CommonForRead) = {}
      BY <3>1, TemplateReads
    <3>3. QED
      BY <2>1, <3>2 DEF Loads, LoadErrors
  <2>7. ASSUME Loads, NEW f, f = TheFlow
        PROVE  /\ f.jobs = {Step1, Step2} /\ Stops(f) = {}
               /\ \A j \in f.jobs : EffectiveConfig(f, j).partition = ReplaceMe
    <3>1. commonToml # Broken
      BY <2>7, SameFlow
    <3>2. CommonForRead \in Common
      BY <3>1, CommonRead, CommonsAreCommon
    <3>3. /\ f.jobs = {Step1, Step2}
          /\ \A j \in {Step1, Step2} : f.config[j].partition = ReplaceMe
      BY <2>7, <3>2, TemplateReads DEF TheFlow
    <3>4. Stops(f) = {}
      BY <3>3, FilesAssumption DEF Stops, PlanTemplate
    <3>5. \A j \in f.jobs : EffectiveConfig(f, j).partition = f.config[j].partition
      BY DEF EffectiveConfig, Merge
    <3>6. QED
      BY <3>3, <3>4, <3>5
  <2>8. ASSUME commonToml # Broken, last.cmd = "render" PROVE last.result = "Ok"
    <3>1. ~ RefusedEnds("render", last)
      BY <2>4, <2>6, <2>8, RefusedResult
    <3>2. PICK f : Loads /\ f = TheFlow /\ RunEnds(f, "render", last)
      BY <2>8, <3>1, LastOf DEF SubmitEnds
    <3>3. Stops(f) = {} /\ last.result # "LogDirMissing"
      BY <2>7, <3>2, RunResult
    <3>4. QED
      BY <3>2, <3>3, RunResult
  <2>9. ASSUME NEW x \in last.sent PROVE x.partition = ReplaceMe
    <3>1. PICK c \in {"submit", "render"} : SubmitEnds(c, last)
      <4>1. \A c, e : Ended(c, e, {}).sent = {}
        BY DEF Ended
      <4>2. ~ ReadEnds(last)
        BY <2>9, <4>1 DEF ReadEnds
      <4>3. \A c : ~ InspectEnds(c, last)
        BY <2>9, <4>1 DEF InspectEnds
      <4>4. QED
        BY <2>9, <4>1, <4>2, <4>3 DEF LastFits, NoCommand
    <3>2. PICK f : Loads /\ f = TheFlow /\ RunEnds(f, c, last)
      BY <2>9, <3>1, RefusedResult DEF SubmitEnds
    <3>3. PICK j \in f.jobs : x = SbatchCmd(f, j)
      <4>1. \A y \in last.sent : \E j \in f.jobs : y = SbatchCmd(f, j)
        BY <3>2, RunResult
      <4>2. QED
        BY <2>9, <4>1
    <3>4. x.partition = EffectiveConfig(f, j).partition
      BY <3>3 DEF SbatchCmd
    <3>5. QED
      BY <2>7, <3>2, <3>4
  <2>10. QED
    BY <2>5, <2>8, <2>9
<1>2. QED
  BY <1>1, DoctorInvariance, PTL

(***************************************************************************)
(* An error of submit, render or a Python read is explained by a finding,  *)
(* unless the doctor does not look for its cause, and the exception Python *)
(* makes of it means what it says.                                         *)
(***************************************************************************)
THEOREM DoctorExplainsHolds == Spec => []DoctorExplains
<1>1. DInv => DoctorExplains
  <2> SUFFICES ASSUME DInv, Asked, last.cmd \in {"submit", "render", "read"}, last.result # "Ok"
               PROVE  /\ \/ NotLookedFor(last.result)
                         \/ \E r \in report : r.check \in Findings(last.result)
                      /\ Exception(last.result) = "KeyError" =>
                           \E r \in report : r.check = "missing"
                      /\ Exception(last.result) = "FileNotFoundError" =>
                           Absent \in {flowToml, planToml}
    BY DEF DoctorExplains
  <2> USE DEF DInv
  <2>1. \A check, j : Fail(check, j).check = check /\ Warn(check, j).check = check
    BY DEF Fail, Warn
  \* An error of reading the files.
  <2>2. ASSUME last.result \in LoadErrors \cup PyReadErrors
        PROVE  /\ \/ NotLookedFor(last.result)
                  \/ \E r \in report : r.check \in Findings(last.result)
               /\ Exception(last.result) # "KeyError"
               /\ Exception(last.result) = "FileNotFoundError" => Absent \in {flowToml, planToml}
    <3>1. last.result \in FileError
      BY <2>2, LoadErrorNames
    <3>2. \/ last.result \in FileErrors(planToml)
          \/ commonToml = Broken /\ last.result = "TomlParse"
          \/ commonToml # Broken /\ last.result \in ReadFlowErrors(flowToml, CommonForRead)
      BY <2>2 DEF LoadErrors, PyReadErrors
    <3>3. last.result \in {"PartitionMissing", "PartitionWrongType"} =>
            Exception(last.result) = "ValueError"
      BY DEF Exception
    <3>4. last.result = "TomlParse" => Exception(last.result) = "ValueError"
      BY DEF Exception
    <3>5. last.result = "NotFound" => Exception(last.result) = "FileNotFoundError"
      BY DEF Exception
    <3>6. CASE last.result \in FileErrors(planToml)
      <4>1. /\ last.result \in {"NotFound", "TomlParse"}
            /\ last.result = "NotFound" => planToml = Absent
        BY <3>6 DEF FileErrors
      <4>2. "plan" \in Findings(last.result)
        BY <4>1 DEF Findings
      <4>3. flowToml # Absent => Fail("plan", None) \in report
        BY <3>6, ReportHas
      <4>4. QED
        BY <2>1, <3>4, <3>5, <4>1, <4>2, <4>3 DEF NotLookedFor
    <3>7. CASE commonToml = Broken /\ last.result = "TomlParse"
      <4>1. "common" \in Findings(last.result)
        BY <3>7 DEF Findings
      <4>2. flowToml # Absent => Fail("common", None) \in report
        BY <3>7, ReportHas
      <4>3. QED
        BY <2>1, <3>4, <3>7, <4>1, <4>2 DEF NotLookedFor
    <3>8. CASE commonToml # Broken /\ last.result \in ReadFlowErrors(flowToml, CommonForRead)
      <4>1. DoctorCommon = CommonForRead
        BY <3>8 DEF DoctorCommon, CommonForRead
      <4>2. flowToml # Absent => Fail("flow", None) \in report
        BY <3>8, <4>1, ReportHas
      <4>3. "flow" \in Findings(last.result)
        BY <3>1 DEF Findings, FileError
      <4>4. last.result = "NotFound" => flowToml = Absent
        BY <3>8 DEF ReadFlowErrors, FileErrors
      <4>5. QED
        BY <2>1, <3>1, <3>3, <3>4, <3>5, <4>2, <4>3, <4>4 DEF NotLookedFor, FileError
    <3>9. QED
      BY <3>2, <3>6, <3>7, <3>8
  \* A flow that cannot be ordered.
  <2>3. ASSUME last.result = "DependencyCycle"
        PROVE  /\ \/ NotLookedFor(last.result)
                  \/ Loads => \E r \in report : r.check \in Findings(last.result)
               /\ Exception(last.result) = "ValueError"
    <3>1. Exception(last.result) = "ValueError"
      BY <2>3 DEF Exception
    <3>2. ASSUME Loads, NEW j \in flowToml.jobs, ~ (Parents(flowToml, j) \subseteq flowToml.jobs)
          PROVE  \E r \in report : r.check \in Findings(last.result)
      <4>1. Fail("parent", j) \in CheckParentsResolve
        BY <3>2 DEF CheckParentsResolve
      <4>2. CheckFlow = {} /\ flowToml # Absent
        BY <3>2, SameFlow
      <4>3. Fail("parent", j) \in report
        BY <4>1, <4>2, ReportHas DEF CheckFlow, FlowChecks
      <4>4. "parent" \in Findings(last.result)
        BY <2>3 DEF Findings
      <4>5. QED
        BY <2>1, <4>3, <4>4
    <3>3. QED
      BY <2>3, <3>1, <3>2 DEF NotLookedFor
  \* An error of the loop of submit.
  <2>4. ASSUME NEW c, NEW f, Loads, f = TheFlow, RunEnds(f, c, last)
        PROVE  /\ \/ NotLookedFor(last.result)
                  \/ \E r \in report : r.check \in Findings(last.result)
               /\ Exception(last.result) = "KeyError" => \E r \in report : r.check = "missing"
               /\ Exception(last.result) # "FileNotFoundError"
    <3>1. /\ flowToml # Absent /\ CheckFlow = {} /\ FileErrors(planToml) = {}
          /\ f.jobs = flowToml.jobs /\ (Unlogged(f) <=> CheckLogDirsExist # {})
      BY <2>4, SameFlow
    <3>2. FlowChecks \subseteq report
      BY <3>1, ReportHas DEF CheckFlow
    <3>3. last.result \in {"LogDirMissing", "MissingPlanEntry", "RenderError"}
      BY <2>4, RunResult
    <3>4. CASE last.result = "LogDirMissing"
      <4>1. CheckLogDirsExist # {}
        BY <2>4, <3>1, <3>4, RunResult
      <4>2. \A r \in CheckLogDirsExist : r.check = "log"
        BY <2>1 DEF CheckLogDirsExist
      <4>3. "log" \in Findings(last.result) /\ Exception(last.result) = "ValueError"
        BY <3>4 DEF Findings, Exception
      <4>4. QED
        BY <3>2, <4>1, <4>2, <4>3 DEF FlowChecks
    <3>5. CASE last.result = "MissingPlanEntry"
      <4>1. PICK j \in f.jobs : j \notin planToml
        <5>1. PICK j \in Stops(f) : last.result = JobError(j)
          BY <2>4, <3>5, RunResult
        <5>2. QED
          BY <3>5, <5>1 DEF Stops, JobError
      <4>2. Warn("missing", j) \in CheckPlanCoverage
        BY <3>1, <4>1 DEF CheckPlanCoverage
      <4>3. Warn("missing", j) \in report
        BY <3>2, <4>2 DEF FlowChecks
      <4>4. "missing" \in Findings(last.result) /\ Exception(last.result) = "KeyError"
        BY <3>5 DEF Findings, Exception
      <4>5. QED
        BY <2>1, <4>3, <4>4
    <3>6. CASE last.result = "RenderError"
      BY <3>6 DEF NotLookedFor, Exception
    <3>7. QED
      BY <3>3, <3>4, <3>5, <3>6
  <2>5. CASE last.cmd = "read"
    <3>1. ReadEnds(last)
      BY <2>5, LastOf
    <3>2. last.result \in PyReadErrors
      BY <3>1 DEF ReadEnds, Ended
    <3>3. QED
      BY <2>2, <3>2
  <2>6. ASSUME NEW c \in {"submit", "render"}, last.cmd = c
        PROVE  /\ \/ NotLookedFor(last.result)
                  \/ \E r \in report : r.check \in Findings(last.result)
               /\ Exception(last.result) = "KeyError" => \E r \in report : r.check = "missing"
               /\ Exception(last.result) = "FileNotFoundError" => Absent \in {flowToml, planToml}
    <3>1. SubmitEnds(c, last)
      BY <2>6, LastOf
    <3>2. CASE RefusedEnds(c, last)
      <4>1. CASE Loads
        BY <2>3, <3>2, <4>1, RefusedResult
      <4>2. CASE ~ Loads
        BY <2>2, <3>2, <4>2, RefusedResult
      <4>3. QED
        BY <4>1, <4>2
    <3>3. CASE ~ RefusedEnds(c, last)
      <4>1. PICK f : Loads /\ f = TheFlow /\ RunEnds(f, c, last)
        BY <3>1, <3>3 DEF SubmitEnds
      <4>2. QED
        BY <2>4, <4>1
    <3>4. QED
      BY <3>2, <3>3
  <2>7. QED
    BY <2>5, <2>6
<1>2. QED
  BY <1>1, DoctorInvariance, PTL

(* Reading a flow fixes its partitions and nothing else.                    *)
LEMMA ReadPins ==
  ASSUME NEW f, IsFlow(f), NEW c0 \in Common, NEW c \in Common,
         IsRead(ReadFlow(f, c0)), ReadFlow(f, c0) \notin {Absent, Broken}
  PROVE  LET g == ReadFlow(f, c0)
         IN  /\ g.jobs = f.jobs /\ g.parents = f.parents
             /\ ReadFlowErrors(g, c) = {}
             /\ \A j \in g.jobs :
                  Submitted(g, c, j) =
                    [Submitted(f, c, j) EXCEPT !.partition = Submitted(f, c0, j).partition]
<1> DEFINE g == ReadFlow(f, c0)
<1>1. g.jobs = f.jobs /\ g.parents = f.parents
  BY ReadShape
<1>2. ReadFlowErrors(g, c) = {} /\ ReadFlow(g, c) = g
  BY ReadAgain
<1>3. ASSUME NEW j \in f.jobs
      PROVE  Submitted(g, c, j) =
               [Submitted(f, c, j) EXCEPT !.partition = Submitted(f, c0, j).partition]
  <2> DEFINE l == f.config[j].log
             d == f.config[j].dependency
             p == g.config[j].partition
  <2>1. g.config[j].log = l /\ g.config[j].dependency = d
    BY ReadShape
  <2>2. ReadFlow(f, c).config[j].log = l /\ ReadFlow(f, c).config[j].dependency = d
    BY ReadShape
  <2>3. Submitted(f, c0, j).partition = p
    BY DEF Submitted, Merge
  <2>4. Submitted(g, c, j) =
          [partition |-> p, log |-> Or(l, c.log), dependency |-> Or(d, c.dependency)]
    BY <1>2, <2>1 DEF Submitted, Merge
  <2>5. Submitted(f, c, j) =
          [partition |-> ReadFlow(f, c).config[j].partition,
           log |-> Or(l, c.log), dependency |-> Or(d, c.dependency)]
    BY <2>2 DEF Submitted, Merge
  <2> HIDE DEF g, l, d, p
  <2>6. QED
    BY <2>3, <2>4, <2>5
<1>4. QED
  BY <1>1, <1>2, <1>3

(***************************************************************************)
(* A flow that Python has read and writes back can be read under any later *)
(* common.toml, and submits as the file it was read from would, but for    *)
(* the partitions that file left open, which stay what they were when it   *)
(* was read.                                                               *)
(***************************************************************************)
THEOREM ReadFlowHolds == Spec => []ReadFlowSettled
<1>1. DInv => ReadFlowSettled
  <2> SUFFICES ASSUME DInv, last.cmd = "read", last.result = "Ok",
                      NEW c \in Commons
               PROVE  /\ held.jobs = flowToml.jobs /\ held.parents = flowToml.parents
                      /\ ReadFlowErrors(held, c) = {}
                      /\ \A j \in held.jobs :
                           Submitted(held, c, j) =
                             [Submitted(flowToml, c, j) EXCEPT
                                !.partition = Submitted(flowToml, CommonForRead, j).partition]
    BY DEF ReadFlowSettled, Commons
  <2> USE DEF DInv
  <2>1. held = TheFlow /\ PyReadErrors = {}
    <3>1. "Ok" \notin PyReadErrors
      BY LoadErrorNames DEF FileError
    <3>2. QED
      BY <3>1, LastOf DEF ReadEnds, Ended
  <2>2. commonToml # Broken /\ ReadFlowErrors(flowToml, CommonForRead) = {}
    BY <2>1 DEF PyReadErrors
  <2>3. CommonForRead \in Commons /\ Commons \subseteq Common
    BY <2>2, CommonRead, CommonsAreCommon
  <2>4. TheFlow \in Reads /\ IsFlow(flowToml)
    BY <2>2, <2>3, ReadingFlow DEF Known, TheFlow
  <2>5. IsRead(TheFlow) /\ TheFlow \notin {Absent, Broken}
    BY <2>4, ReadsAreRead
  <2>6. QED
    BY <2>1, <2>3, <2>4, <2>5, ReadPins DEF TheFlow
<1>2. QED
  BY <1>1, DoctorInvariance, PTL
=============================================================================
