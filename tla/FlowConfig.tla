----------------------------- MODULE FlowConfig -----------------------------
(***************************************************************************)
(* What the commands make of flow.toml, plan.toml and common.toml:         *)
(* src/src/persistence/flow.rs and common.rs, src/src/flow/run.rs and      *)
(* src/src/slurm/logpath.rs, as operators on the contents of the files.    *)
(*                                                                         *)
(* A flow is its jobs, the `from` of each job's parent edges, in the order *)
(* of the file, and each job's config.  Of a config three keys are kept,   *)
(* which the code treats differently: `partition`, which must be there,    *)
(* `log` (log_stdout and log_stderr go through the same code) and          *)
(* `dependency`; the others are defaulted as `log` is.                     *)
(***************************************************************************)
EXTENDS Integers, Sequences, FiniteSets

CONSTANTS
  Job,       \* the job ids
  ValidId,   \* those parse_job_id accepts
  Dir,       \* the log directories a config can name
  Part,      \* the partitions a config can name
  Wrong,     \* a partition that is not a string
  Raw,       \* the raw SLURM dependencies a config can name
  Ghost,     \* a job no flow has
  None,      \* the key is not set
  Absent,    \* the file does not exist
  Broken     \* the file does not parse

Config ==
  [partition: Part \cup {None, Wrong}, log: Dir \cup {None}, dependency: Raw \cup {None}]

IsFlow(f) == /\ f = [jobs |-> f.jobs, parents |-> f.parents, config |-> f.config]
             /\ f.jobs \subseteq Job
             /\ f.parents \in [f.jobs -> Seq(Job \cup {Ghost})]
             /\ f.config \in [f.jobs -> Config]

\* [slurm_default] of common.toml; its partition is None when it is empty.
Common == [partition: Part \cup {None}, log: Dir \cup {None}, dependency: Raw \cup {None}]

SynthEmptyCommon == [partition |-> None, log |-> None, dependency |-> None]

Parents(f, j) == {f.parents[j][i] : i \in DOMAIN f.parents[j]}

\* topological_order returns Ok (see Topology).
Orderable(f) ==
  /\ \A j \in f.jobs : /\ Parents(f, j) \subseteq f.jobs
                       /\ Cardinality(Parents(f, j)) = Len(f.parents[j])
  /\ \A S \in (SUBSET f.jobs) \ {{}} : \E j \in S : Parents(f, j) \cap S = {}

\* What read_toml_string and toml::from_str say of a file.
FileErrors(file) ==
  IF file = Absent THEN {"NotFound"} ELSE IF file = Broken THEN {"TomlParse"} ELSE {}

\* The errors read_flow can end with; inject_partition_defaults stops at the first
\* job it finds no partition for.
ReadFlowErrors(f, common) ==
  IF f \in {Absent, Broken} THEN FileErrors(f)
  ELSE {IF f.config[j].partition = Wrong THEN "PartitionWrongType" ELSE "PartitionMissing" :
          j \in {j \in f.jobs : \/ f.config[j].partition = Wrong
                               \/ /\ f.config[j].partition = None
                                  /\ common.partition = None}}

\* An optional key of a job falls back to the default.
Or(own, default) == IF own = None THEN default ELSE own

\* merge_with_defaults.
Merge(common, config) ==
  [partition  |-> config.partition,
   log        |-> Or(config.log, common.log),
   dependency |-> Or(config.dependency, common.dependency)]

\* Mutant: every default is put in, not the partition alone.
ReadFlowBaked(f, common) ==
  [f EXCEPT !.config = [j \in f.jobs |->
     [Merge(common, @[j]) EXCEPT !.partition = Or(@, common.partition)]]]

\* Mutant: the partition is left to be defaulted later.
ReadFlowAsIs(f, common) == f

\* The JobFlow read_flow returns, which is also what the snapshot holds.
ReadFlow(f, common) ==
  [f EXCEPT !.config = [j \in f.jobs |->
     IF @[j].partition = None THEN [@[j] EXCEPT !.partition = common.partition] ELSE @[j]]]

\* missing_log_dirs finds something.
LogDirMissing(config, dirs) == config.log # None /\ config.log \notin dirs
=============================================================================
