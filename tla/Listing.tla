------------------------------- MODULE Listing -------------------------------
(***************************************************************************)
(* `jm ls` (src/src/listing) and the Python walk_flows over the walk of    *)
(* the flow directories (src/src/walk.rs), while `jm new` makes flow       *)
(* directories and takes them back, and submit and tick write statuses.    *)
(*                                                                         *)
(* A listing reads without any lock: first the names in the root, then     *)
(* each flow.toml, then each status.toml, up to Parallelism files at once. *)
(* Nothing is submitted twice and no two ticks overlap while it runs.      *)
(* The flows are numbered by their created_at; a greater one is newer.     *)
(***************************************************************************)
EXTENDS JobLifecycle, Integers, Sequences, FiniteSets, SequencesExt

CONSTANTS
  Flow,          \* the flow directories there can be, numbers
  Made,          \* those that `jm new` has made before (bounds the new ones)
  Edited,        \* those whose flow.toml the user edits (bounds the edits)
  Run,           \* those that are submitted and ticked (bounds the statuses)
  JobsOf,        \* each flow's jobs, in the order topo_or_key_order gives them
  Uuid,          \* each flow's uuid, a sequence of hexadecimal digits
  TagArgs,       \* the --tag arguments that jm new got for each flow
  Program,       \* the programs of each flow's jobs
  SlurmId,       \* the slurm_jobids that submit records for each flow's jobs
  Parallelism,   \* concurrency::parallelism()
  Filters,       \* the filters that are used
  MaxLimit,      \* the greatest --limit that is used (bounds the limits)
  None

Job == UNION {Range(JobsOf[f]) : f \in Flow}

Display == Lifecycle \cup {"Pending"}

\* SearchFilter; None, {} and {} when there is no such predicate.
IsFilter(x) ==
  /\ DOMAIN x = {"program", "tags", "status", "prefix", "after", "before", "slurm", "job"}
  /\ x.status \subseteq Display
  /\ x.after = None \/ x.after \in Nat
  /\ x.before = None \/ x.before \in Nat

NoFilter == [program |-> None, tags |-> {}, status |-> {}, prefix |-> None,
             after |-> None, before |-> None, slurm |-> None, job |-> None]

\* parse_tag of KEY=VALUE, at its first "="; None is an error. Of the characters a
\* key cannot have there are the blank and "=".
ParseTag(arg) ==
  LET at == SelectInSeq(arg, LAMBDA c : c = "=")
      key == SubSeq(arg, 1, at - 1)
  IN  IF at <= 1 \/ " " \in Range(key) THEN None
      ELSE <<key, SubSeq(arg, at + 1, Len(arg))>>

\* The tags of a sequence of arguments; of two with one key the last holds.
TagMap(args) ==
  LET tag == [k \in DOMAIN args |-> ParseTag(args[k])]
      last == {k \in DOMAIN tag : \A n \in DOMAIN tag : tag[n][1] = tag[k][1] => n <= k}
  IN  IF None \in Range(tag) THEN None ELSE {tag[k] : k \in last}

\* Each flow's tags.
Tags == [f \in Flow |-> TagMap(TagArgs[f])]

ASSUME ListingAssumption ==
  /\ Flow \subseteq Nat /\ Made \subseteq Flow /\ Edited \subseteq Flow /\ Run \subseteq Flow
  /\ \A f \in Flow : /\ JobsOf[f] \in Seq(Job)
                     /\ \A m, n \in DOMAIN JobsOf[f] : JobsOf[f][m] = JobsOf[f][n] => m = n
  /\ Parallelism \in Nat \ {0} /\ MaxLimit \in Nat /\ None \notin Nat
  /\ \A f \in Flow : Tags[f] # None
  /\ \A x \in Filters : IsFilter(x)

VARIABLES
  dir,        \* what there is of each flow's directory
  status,     \* each job's lifecycle in status.toml, None without one
  maker,      \* where the `jm new` of each flow is
  pc,         \* where the listing is
  names,      \* the directories read_dir has still to yield
  paths,      \* the flows the current stream has not begun to read
  reading,    \* the flows it is reading
  flows,      \* the flows read
  statuses,   \* what was read so far of the statuses of a flow
  rows,       \* collected: the flows with their statuses, as the reads end, then sorted
  unread,     \* the flows of which an error is printed, or given to Python
  steady,     \* history: the flows whose flow.toml was good since read_dir
  found       \* history: the candidates

files == <<dir, status>>
walk == <<names, paths, reading, flows, statuses, unread, found>>
vars == <<dir, status, maker, pc, walk, rows, steady>>

\* No directory, an empty one, one with flow.toml alone, one with plan.toml too,
\* and one whose flow.toml does not parse.
Dirs == {"absent", "empty", "flow", "both", "broken"}
HasFlowToml(f) == dir[f] \in {"flow", "both", "broken"}
GoodFlowToml(f) == dir[f] \in {"flow", "both"}

-----------------------------------------------------------------------------
(* The projections of what was collected.                                   *)

\* job_display.
Shown(st, j) == IF st[j] = None THEN "Pending" ELSE st[j]

\* Mutant: a job without a status does not count.
AggregateKnown(displays) ==
  LET known == displays \ {"Pending"} IN
  IF known = {} THEN "PENDING"
  ELSE IF "Failed" \in known THEN "FAILED"
  ELSE IF "Running" \in known THEN "RUNNING"
  ELSE IF "Queued" \in known THEN "QUEUED"
  ELSE IF known = {"Success"} THEN "DONE" ELSE "PARTIAL"

\* aggregate_flow_status of the displays of a flow's jobs, its returns in their
\* order.
AggregateFlowStatus(displays) ==
  IF displays = {} THEN "PENDING"
  ELSE IF "Failed" \in displays THEN "FAILED"
  ELSE IF "Running" \in displays THEN "RUNNING"
  ELSE IF "Queued" \in displays THEN "QUEUED"
  ELSE IF displays = {"Success"} THEN "DONE"
  ELSE IF displays \in {{"Skipped"}, {"Skipped", "Success"}} THEN "PARTIAL" ELSE "PENDING"

Displays(f, st) == {Shown(st, j) : j \in Range(JobsOf[f])}

HexLower == [c \in {"A", "B", "C", "D", "E", "F"} |->
  CASE c = "A" -> "a" [] c = "B" -> "b" [] c = "C" -> "c"
    [] c = "D" -> "d" [] c = "E" -> "e" [] c = "F" -> "f"]
ToLowercase(s) == [i \in DOMAIN s |-> IF s[i] \in DOMAIN HexLower THEN HexLower[s[i]] ELSE s[i]]

\* search::matches. A flow is as old as its number; a job without a status has
\* no slurm_jobid either.
Matches(f, j, st, x) ==
  /\ x.program \in {None, Program[f][j]}
  /\ x.tags \subseteq Tags[f]
  /\ x.status = {} \/ Shown(st, j) \in x.status
  /\ x.prefix = None \/ IsPrefix(ToLowercase(x.prefix), Uuid[f])
  /\ x.after = None \/ f >= x.after
  /\ x.before = None \/ f <= x.before
  /\ x.slurm = None \/ (st[j] # None /\ SlurmId[f][j] = x.slurm)
  /\ x.job \in {None, j}

IsDefaultFilter(x) == x = NoFilter

\* The loops push a row and then compare with the limit.
Cut(s, limit) ==
  IF limit = None THEN s
  ELSE SubSeq(s, 1, IF Len(s) < limit THEN Len(s) ELSE IF s # <<>> /\ limit = 0 THEN 1 ELSE limit)

JobRow(r, j) ==
  [flow |-> r.flow, job |-> j, status |-> Shown(r.statuses, j),
   slurm |-> IF r.statuses[j] = None THEN None ELSE SlurmId[r.flow][j],
   program |-> Program[r.flow][j]]

\* The entries of s that are in S, pushed one after the other.
Filtered(s, S) ==
  LET out[i \in 0..Len(s)] ==
        IF i = 0 THEN <<>> ELSE IF s[i] \in S THEN Append(out[i - 1], s[i]) ELSE out[i - 1]
  IN  out[Len(s)]

RowsOf(r, x) ==
  LET all == JobsOf[r.flow]
      jobs == Filtered(all, {j \in Range(all) : Matches(r.flow, j, r.statuses, x)})
  IN  [k \in DOMAIN jobs |-> JobRow(r, jobs[k])]

JobRows(x, limit) == Cut(FlattenSeq([i \in DOMAIN rows |-> RowsOf(rows[i], x)]), limit)

\* Mutant: a flow is shown when all its jobs match.
IncludeAll(r, x) ==
  IF JobsOf[r.flow] = <<>> THEN IsDefaultFilter(x)
  ELSE \A j \in Range(JobsOf[r.flow]) : Matches(r.flow, j, r.statuses, x)

Include(r, x) ==
  IF JobsOf[r.flow] = <<>> THEN IsDefaultFilter(x)
  ELSE \E j \in Range(JobsOf[r.flow]) : Matches(r.flow, j, r.statuses, x)

MatchedFlows(x, limit) == Cut(Filtered(rows, {r \in Range(rows) : Include(r, x)}), limit)

Done(r) == Cardinality({j \in Range(JobsOf[r.flow]) : Shown(r.statuses, j) = "Success"})

-----------------------------------------------------------------------------
(* jm new, submit and tick, and the user.                                   *)

\* The flows whose flow.toml stays good.
StillSteady == steady' = {f \in steady : dir'[f] \in {"flow", "both"}}

SetDir(f, d) == dir' = [dir EXCEPT ![f] = d] /\ StillSteady
SetMaker(f, l) == maker' = [maker EXCEPT ![f] = l]

\* cmd_new, after its check that the directory is not there; a read_dir that is
\* under way may see the new name.
Mkdir(f) ==
  /\ maker[f] = "none" /\ dir[f] = "absent"
  /\ SetDir(f, "empty") /\ SetMaker(f, "mkdir")
  /\ names' \in {names} \cup (IF pc = "names" THEN {names \cup {f}} ELSE {})
  /\ UNCHANGED <<status, pc, paths, reading, flows, statuses, unread, found, rows>>

WriteFlow(f) ==
  /\ maker[f] = "mkdir"
  /\ SetDir(f, "flow") /\ SetMaker(f, "flow")
  /\ UNCHANGED <<status, pc, walk, rows>>

WritePlan(f) ==
  /\ maker[f] = "flow"
  /\ SetDir(f, "both") /\ SetMaker(f, "done")
  /\ UNCHANGED <<status, pc, walk, rows>>

\* Mutant: the error is returned at once.
WriteFailsNoRollback(f) ==
  /\ maker[f] \in {"mkdir", "flow"}
  /\ SetMaker(f, "done")
  /\ UNCHANGED <<files, pc, walk, rows, steady>>

\* atomic_write_str fails, and remove_dir_all begins.
WriteFails(f) ==
  /\ maker[f] \in {"mkdir", "flow"}
  /\ SetMaker(f, "rollback")
  /\ UNCHANGED <<files, pc, walk, rows, steady>>

\* remove_dir_all removes the file, then the directory.
Rollback(f) ==
  /\ maker[f] = "rollback"
  /\ IF dir[f] = "flow" THEN SetDir(f, "empty") /\ UNCHANGED maker
                         ELSE SetDir(f, "absent") /\ SetMaker(f, "done")
  /\ UNCHANGED <<status, pc, walk, rows>>

\* A crash, or a remove_dir_all that fails, which nobody looks at.
MakerStops(f) ==
  /\ maker[f] \in {"mkdir", "flow", "rollback"}
  /\ SetMaker(f, "stopped")
  /\ UNCHANGED <<files, pc, walk, rows, steady>>

\* The user breaks a flow.toml, or mends it.
EditFlowToml(f) ==
  /\ f \in Edited /\ dir[f] \in {"both", "broken"}
  /\ SetDir(f, IF dir[f] = "both" THEN "broken" ELSE "both")
  /\ UNCHANGED <<status, maker, pc, walk, rows>>

\* What a tick may make of a status, whatever SLURM and the parents say.
Ticked(st) ==
  {Outcome(st, DecideTransition(st, q, ps)) :
     q \in {"Pending", "Running", "Completed", "Failed"}, ps \in {{}, {"Failed"}}}

\* submit's and tick's writes of a status file.
WriteStatus(f, j) ==
  /\ f \in Run /\ dir[f] \in {"both", "broken"}
  /\ j \in Range(JobsOf[f])
  /\ \/ status[f][j] = None /\ dir[f] = "both" /\ status' = [status EXCEPT ![f][j] = "Queued"]
     \/ /\ status[f][j] # None
        /\ \E s \in Ticked(status[f][j]) \ {status[f][j]} : status' = [status EXCEPT ![f][j] = s]
  /\ UNCHANGED <<dir, maker, pc, walk, rows, steady>>

-----------------------------------------------------------------------------
(* collect.                                                                 *)

Open ==
  /\ pc = "idle"
  /\ pc' = "names"
  /\ names' = {f \in Flow : dir[f] # "absent"}
  /\ steady' = {f \in Flow : GoodFlowToml(f)}
  /\ UNCHANGED <<files, maker, paths, reading, flows, statuses, unread, found, rows>>

\* candidate_paths: one entry.
CandidatePath(f) ==
  /\ pc = "names"
  /\ f \in names
  /\ names' = names \ {f}
  /\ paths' = IF HasFlowToml(f) THEN paths \cup {f} ELSE paths
  /\ found' = paths'
  /\ UNCHANGED <<files, maker, pc, reading, flows, statuses, unread, rows, steady>>

\* Mutant: one reader too many.
MayBeginLate == Cardinality(reading) <= Parallelism

\* buffer_unordered has a place.
MayBegin == Cardinality(reading) < Parallelism

Begin(f) ==
  /\ pc \in {"walk", "statuses"}
  /\ f \in paths /\ MayBegin
  /\ paths' = paths \ {f}
  /\ reading' = reading \cup {f}
  /\ UNCHANGED <<files, maker, pc, names, flows, statuses, unread, found, rows, steady>>

\* Mutant: an error ends the stream.
ReadFlowAborts(f) ==
  /\ pc = "walk"
  /\ f \in reading
  /\ IF GoodFlowToml(f)
     THEN flows' = flows \cup {f} /\ reading' = reading \ {f} /\ UNCHANGED <<paths, unread>>
     ELSE reading' = {} /\ paths' = {} /\ unread' = unread \cup {f} /\ UNCHANGED flows
  /\ UNCHANGED <<files, maker, pc, names, statuses, found, rows, steady>>

\* read_flow of one candidate; of a failure there is an error, and no flow.
ReadFlow(f) ==
  /\ pc = "walk"
  /\ f \in reading
  /\ reading' = reading \ {f}
  /\ IF GoodFlowToml(f) THEN flows' = flows \cup {f} /\ UNCHANGED unread
                        ELSE unread' = unread \cup {f} /\ UNCHANGED flows
  /\ UNCHANGED <<files, maker, pc, names, paths, statuses, found, rows, steady>>

\* read_job_run of one job; without a file, or one that cannot be read, None.
ReadStatus(f, j) ==
  /\ pc = "statuses"
  /\ f \in reading
  /\ j \in Range(JobsOf[f]) \ DOMAIN statuses[f]
  /\ \E s \in {status[f][j], None} :
       statuses' = [statuses EXCEPT ![f] =
         [k \in DOMAIN @ \cup {j} |-> IF k = j THEN s ELSE @[k]]]
  /\ UNCHANGED <<files, maker, pc, names, paths, reading, flows, unread, found, rows,
                 steady>>

Collected(f) ==
  /\ pc = "statuses"
  /\ f \in reading
  /\ DOMAIN statuses[f] = Range(JobsOf[f])
  /\ rows' = Append(rows, [flow |-> f, statuses |-> statuses[f]])
  /\ statuses' = [statuses EXCEPT ![f] = <<>>]
  /\ reading' = reading \ {f}
  /\ UNCHANGED <<files, maker, pc, names, paths, flows, unread, found, steady>>

\* Mutant: the rows stay as the stream gave them.
CompletionOrder == rows

\* sort_by_key(Reverse(created_at)).
Sorts(p) == \A i, k \in DOMAIN rows : i < k => rows[p[i]].flow >= rows[p[k]].flow

NewestToOldest ==
  LET p == CHOOSE p \in [DOMAIN rows -> DOMAIN rows] : Range(p) = DOMAIN rows /\ Sorts(p)
  IN  [i \in DOMAIN rows |-> rows[p[i]]]

\* The streams end: of the names, of the flows, of the statuses.
NamesEnd ==
  /\ pc = "names" /\ names = {}
  /\ pc' = "walk"
  /\ UNCHANGED <<files, maker, walk, rows, steady>>

CollectStatuses ==
  /\ pc = "walk" /\ paths \cup reading = {}
  /\ pc' = "statuses" /\ paths' = flows /\ flows' = {}
  /\ UNCHANGED <<files, maker, names, reading, statuses, unread, found, rows, steady>>

\* The Python walk_flows gives its caller the flows and the errors.
PyWalkFlows ==
  /\ pc = "walk" /\ paths \cup reading = {}
  /\ pc' = "returned"
  /\ UNCHANGED <<files, maker, walk, rows, steady>>

Sort ==
  /\ pc = "statuses" /\ paths \cup reading = {}
  /\ pc' = "listed" /\ rows' = NewestToOldest
  /\ UNCHANGED <<files, maker, walk, steady>>

Finish ==
  /\ pc \in {"listed", "returned"}
  /\ pc' = "idle"
  /\ flows' = {} /\ rows' = <<>> /\ unread' = {} /\ steady' = {} /\ found' = {}
  /\ UNCHANGED <<files, maker, names, paths, reading, statuses>>

-----------------------------------------------------------------------------
Init ==
  /\ dir = [f \in Flow |-> IF f \in Made THEN "both" ELSE "absent"]
  /\ status = [f \in Flow |-> [j \in Range(JobsOf[f]) |-> None]]
  /\ maker = [f \in Flow |-> "none"]
  /\ pc = "idle"
  /\ names = {} /\ paths = {} /\ reading = {}
  /\ flows = {} /\ statuses = [f \in Flow |-> <<>>] /\ rows = <<>>
  /\ unread = {} /\ steady = {} /\ found = {}

MakerStep(f) ==
  Mkdir(f) \/ WriteFlow(f) \/ WritePlan(f) \/ WriteFails(f) \/ Rollback(f) \/ MakerStops(f)

CollectStep(f) ==
  \/ CandidatePath(f) \/ Begin(f) \/ ReadFlow(f) \/ Collected(f)
  \/ \E j \in Job : ReadStatus(f, j)

Next ==
  \/ \E f \in Flow : \/ MakerStep(f) \/ CollectStep(f) \/ EditFlowToml(f)
                     \/ \E j \in Job : WriteStatus(f, j)
  \/ Open \/ NamesEnd \/ CollectStatuses \/ PyWalkFlows \/ Sort \/ Finish

Spec == Init /\ [][Next]_vars

-----------------------------------------------------------------------------
\* Type invariant; no more files are read at once than Parallelism allows.
TypeOK ==
  /\ dir \in [Flow -> Dirs]
  /\ \A f \in Flow : status[f] \in [Range(JobsOf[f]) -> Lifecycle \cup {None}]
  /\ maker \in [Flow -> {"none", "mkdir", "flow", "done", "rollback", "stopped"}]
  /\ pc \in {"idle", "names", "walk", "statuses", "listed", "returned"}
  /\ names \subseteq Flow /\ paths \subseteq Flow /\ steady \subseteq Flow
  /\ unread \subseteq found /\ found \subseteq Flow
  /\ reading \subseteq Flow /\ Cardinality(reading) <= Parallelism
  /\ flows \subseteq Flow

(***************************************************************************)
(* jm new leaves both files or nothing, unless it crashes or cannot remove *)
(* what it made (jm.rs:442-455).                                           *)
(***************************************************************************)
NewAllOrNothing ==
  \A f \in Flow : maker[f] \in {"none", "done"} => dir[f] \in {"absent", "both", "broken"}

(***************************************************************************)
(* Every candidate is a flow or an error, and not both; a flow whose       *)
(* flow.toml is there and good while the walk runs is a flow, and is       *)
(* listed once, whatever becomes of the others: "one malformed flow.toml   *)
(* does not hide the rest" (architecture.md:279-281, walk.rs:45-76,        *)
(* collect.rs:33-88, py_export/walk.rs:37-60).                             *)
(***************************************************************************)
EveryFlowListed ==
  /\ pc = "returned" => flows = found \ unread
  /\ pc = "listed" =>
       /\ {rows[i].flow : i \in DOMAIN rows} = found \ unread
       /\ \A i, k \in DOMAIN rows : rows[i].flow = rows[k].flow => i = k
  /\ pc \in {"returned", "listed"} => steady \subseteq found \ unread

(***************************************************************************)
(* In whatever order the concurrent reads end, `ls flows` shows the flows  *)
(* newest first, and a limit keeps the first rows of what is shown without *)
(* one, of the flows as of the jobs (collect.rs:20-21, 89, 104-167); a     *)
(* limit of zero keeps one row.                                            *)
(***************************************************************************)
FirstRows(some, all, n) ==
  /\ Len(some) = IF Len(all) < n THEN Len(all) ELSE n
  /\ \A i \in DOMAIN some : some[i] = all[i]

NewestFirst ==
  pc = "listed" =>
    \A x \in Filters :
      LET all == MatchedFlows(x, None) IN
      /\ \A i, k \in DOMAIN all : i < k => all[i].flow > all[k].flow
      /\ \A n \in 0..MaxLimit :
           LET rowsKept == IF n = 0 THEN 1 ELSE n
           IN  /\ FirstRows(MatchedFlows(x, n), all, rowsKept)
               /\ FirstRows(JobRows(x, n), JobRows(x, None), rowsKept)

(***************************************************************************)
(* The statuses of a flow are read one after the other while ticks write   *)
(* them, yet a final roll-up - FAILED, DONE or PARTIAL - is the one the    *)
(* files have by the end of the listing, and the jobs counted as done are  *)
(* (listing/mod.rs:134-166, collect.rs:48-81, 178-190).                    *)
(***************************************************************************)
RollupFinal ==
  pc = "listed" =>
    \A i \in DOMAIN rows :
      LET r == rows[i]
          now == [flow |-> r.flow, statuses |-> status[r.flow]]
          shown == AggregateFlowStatus(Displays(r.flow, r.statuses))
      IN  /\ shown \in {"FAILED", "DONE", "PARTIAL"} =>
               shown = AggregateFlowStatus(Displays(now.flow, now.statuses))
          /\ Done(r) <= Done(now)
=============================================================================
