----------------------------- MODULE ListOutput ------------------------------
(***************************************************************************)
(* What `jm ls` prints of what Listing collects (src/src/listing/format.rs *)
(* and mod.rs), and how the arguments of `jm ls` and of the Python         *)
(* SearchFilter become a filter: both ways between a row and a filter.     *)
(* A cell None is printed as a dash; dates and the layout are left out.    *)
(***************************************************************************)
EXTENDS Listing

Code == [d \in Display |->
  CASE d = "Pending" -> "PD" [] d = "Queued"  -> "Q" [] d = "Running" -> "R"
    [] d = "Success" -> "OK" [] d = "Failed"  -> "F" [] d = "Skipped" -> "SK"]

Long == [d \in Display |->
  CASE d = "Pending" -> "pending" [] d = "Queued" -> "queued" [] d = "Running" -> "running"
    [] d = "Success" -> "success" [] d = "Failed" -> "failed" [] d = "Skipped" -> "skipped"]

\* The short codes in lower case.
Short == [c \in Range(Code) |->
  CASE c = "PD" -> "pd" [] c = "Q" -> "q" [] c = "R" -> "r"
    [] c = "OK" -> "ok" [] c = "F" -> "f" [] c = "SK" -> "sk"]
TokenLowercase(t) == IF t \in DOMAIN Short THEN Short[t] ELSE t

\* Mutant: a token is taken as it is.
ParseTokenAsIs(t) ==
  LET named == {d \in Display : t \in {Short[Code[d]], Long[d]}}
  IN  IF named = {} THEN None ELSE CHOOSE d \in named : TRUE

\* DisplayLifecycle::parse_token; None is its error.
ParseToken(t) ==
  LET named == {d \in Display : TokenLowercase(t) \in {Short[Code[d]], Long[d]}}
  IN  IF named = {} THEN None ELSE CHOOSE d \in named : TRUE

\* The statuses of a sequence of tokens; an error when one is unknown.
ParseTokens(tokens) ==
  LET parsed == {ParseToken(t) : t \in Range(tokens)}
  IN  IF None \in parsed THEN None ELSE parsed

\* parse_status_set skips blank tokens.
ParseStatusSet(tokens) == ParseTokens(Filtered(tokens, Range(tokens) \ {""}))

\* FilterArgs and PySearchFilter: a filter with tokens instead of statuses and
\* --tag arguments, or the items of a Python dict, instead of tags.
BuildFilter(args) ==
  LET asked == ParseStatusSet(args.status)
      tags == TagMap(args.tags)
  IN  IF None \in {asked, tags} THEN None
      ELSE [args EXCEPT !.status = asked, !.tags = tags]

ToInner(args) ==
  LET asked == ParseTokens(args.status)
  IN  IF asked = None THEN None
      ELSE [args EXCEPT !.status = asked, !.tags = Range(args.tags)]

NoArgs == [NoFilter EXCEPT !.status = <<>>, !.tags = <<>>]

-----------------------------------------------------------------------------
ShortUuid(f) == SubSeq(Uuid[f], 1, 8)

UuidChar == {"0", "1", "2", "3", "4", "5", "6", "7", "8", "9", "a", "b", "c", "d", "e", "f", "-"}

\* Uuids are in lower case and of one length; None is no cell and no filter.
ASSUME OutputAssumption ==
  /\ None \notin Display /\ \A S \in SUBSET Display : None # S
  /\ \A f, g \in Flow :
       Uuid[f] \in Seq(UuidChar) /\ Len(Uuid[f]) >= 8 /\ Len(Uuid[f]) = Len(Uuid[g])
  /\ \A f \in Flow :
       /\ None # Uuid[f] /\ None # ShortUuid(f)
       /\ \A j \in Range(JobsOf[f]) :
            /\ None # j /\ None # Program[f][j] /\ None # SlurmId[f][j]
            /\ None \notin [program : {Program[f][j]}, tags : {{}}, status : SUBSET Display,
                            prefix : {Uuid[f], ShortUuid(f)}, after : {None}, before : {None},
                            slurm : {None, SlurmId[f][j]}, job : {j}]

\* A line of format_jobs_table, and of format_jobs_json.
JobCells(row) ==
  [FLOW |-> ShortUuid(row.flow), JOB |-> row.job, ST |-> Code[row.status],
   SLURM_ID |-> row.slurm, PROGRAM |-> row.program]

JobRowJson(row) ==
  [flow |-> Uuid[row.flow], job |-> row.job, status |-> Long[row.status],
   slurm_jobid |-> row.slurm, program |-> row.program]

FlowRow(r) ==
  [flow |-> r.flow, total |-> Len(JobsOf[r.flow]), done |-> Done(r),
   status |-> AggregateFlowStatus(Displays(r.flow, r.statuses))]

FlowRows(x, limit) ==
  LET matched == MatchedFlows(x, limit) IN [i \in DOMAIN matched |-> FlowRow(matched[i])]

\* A line of format_flows_table.
FlowCells(row) ==
  [FLOW |-> ShortUuid(row.flow), TOTAL |-> row.total, DONE |-> row.done, STATUS |-> row.status]

\* format_tree of a flow: its heading and a line for each job.
FormatTree(r) ==
  LET jobs == JobsOf[r.flow] IN
  [heading |-> FlowCells(FlowRow(r)),
   lines |-> [k \in DOMAIN jobs |-> <<jobs[k], Code[Shown(r.statuses, jobs[k])]>>]]

\* The Python CalcView.status: the lifecycle's name in lower case; None is the
\* exception when there is no status.toml.
PyStatus(st, j) == IF st[j] = None THEN None ELSE Long[st[j]]

-----------------------------------------------------------------------------
(***************************************************************************)
(* What a row shows can be asked for: the cells of a printed row, taken as *)
(* arguments of `jm ls jobs`, give the rows that look the same and no      *)
(* other, the upper-case codes and the short uuid too; so do the fields of *)
(* a JSON row, and a status from Python's CalcView in Python's             *)
(* SearchFilter. The --tag arguments a flow was made with find its rows    *)
(* among them (format.rs:20-32, 93-110, mod.rs:28-82, search.rs:27-82,     *)
(* jm.rs:165-192, 423-427, 471-493, py_export/search.rs:62-90, view.rs).   *)
(***************************************************************************)
RowFindsItself ==
  pc = "listed" =>
    LET all == JobRows(NoFilter, None) IN
    \A i \in DOMAIN all :
      LET row == all[i]
          cells == JobCells(row)
          json == JobRowJson(row)
          asked == [NoArgs EXCEPT !.prefix = cells.FLOW, !.job = cells.JOB,
                      !.status = <<cells.ST, "">>, !.slurm = cells.SLURM_ID,
                      !.program = cells.PROGRAM]
          askedJson == [NoArgs EXCEPT !.prefix = json.flow, !.job = json.job,
                          !.status = <<json.status>>, !.slurm = json.slurm_jobid,
                          !.program = json.program]
          r == CHOOSE c \in Range(rows) : c.flow = row.flow
          py == PyStatus(r.statuses, row.job)
          Finds(filter, View(_)) ==
            filter # None
              /\ JobRows(filter, None) =
                   Filtered(all, {other \in Range(all) : View(other) = View(row)})
      IN  /\ Finds(BuildFilter(asked), JobCells)
          /\ row \in Range(JobRows(BuildFilter([NoArgs EXCEPT !.tags = TagArgs[row.flow]]), None))
          /\ Finds(BuildFilter(askedJson), JobRowJson)
          /\ py # None => Finds(ToInner([askedJson EXCEPT !.status = <<py>>]), JobRowJson)

(***************************************************************************)
(* The three views agree: `ls flows` and `ls tree` show the flows that     *)
(* have a row in `ls jobs`, and one without jobs only when nothing is      *)
(* asked for; the totals of a flow are those of its rows, and DONE means   *)
(* that each of them is OK (collect.rs:104-194, mod.rs:134-166,            *)
(* format.rs:171-220).                                                     *)
(***************************************************************************)
ViewsAgree ==
  pc = "listed" =>
    /\ \A x \in Filters : \A i \in DOMAIN rows :
         LET f == rows[i].flow IN
         (\E m \in Range(MatchedFlows(x, None)) : m.flow = f)
           <=> \/ \E row \in Range(JobRows(x, None)) : row.flow = f
               \/ JobsOf[f] = <<>> /\ x = NoFilter
    /\ Len(FlowRows(NoFilter, None)) = Len(rows)
    /\ \A i \in DOMAIN rows :
         LET r == rows[i]
             all == JobRows(NoFilter, None)
             shown == Filtered(all, {row \in Range(all) : row.flow = r.flow})
             flow == FlowRows(NoFilter, None)[i]
             ok == Filtered(shown, {row \in Range(shown) : Code[row.status] = "OK"})
             tree == FormatTree(r)
         IN  /\ flow.total = Len(shown) /\ flow.done = Len(ok)
             /\ flow.status = "DONE" <=> flow.total > 0 /\ flow.done = flow.total
             /\ tree.lines = [k \in DOMAIN shown |-> <<shown[k].job, Code[shown[k].status]>>]
=============================================================================
