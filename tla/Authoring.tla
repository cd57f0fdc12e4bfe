------------------------------ MODULE Authoring ------------------------------
(***************************************************************************)
(* How a job gets its name, its plan entry and its script: the id is built *)
(* by the Python functions or typed, the plan entry made by ExperimentPlan *)
(* (src/src/py_export/plan.rs) or typed into plan.toml, and the script     *)
(* rendered from both (src/src/render/mod.rs). One job at a time.          *)
(***************************************************************************)
EXTENDS JobId

CONSTANTS
  Step,        \* the step ids an author tries
  Combo,       \* the sequences of axes <<name, index>> he combines them with
  Typed,       \* the ids he types instead
  Params       \* the plan entries: sequences of <<key, value>>, in key order

\* toml::Value; an array stands for one of scalars. An integer is not negative.
IsScalar(v) == \/ v.type = "string" /\ v.value \in Seq(Char)
               \/ v.type = "integer" /\ v.value \in Nat
IsValue(v) ==
  IF v.type = "array"
  THEN v.value \in Seq(Range(v.value)) /\ \A x \in Range(v.value) : IsScalar(x)
  ELSE IsScalar(v)

IsParams(p) ==
  /\ p \in Seq(Range(p)) /\ None # p
  /\ \A k \in DOMAIN p : p[k][1] \in Seq(Char) /\ IsValue(p[k][2])
  /\ \A k, n \in DOMAIN p : p[k][1] = p[n][1] => k = n

\* A fixed word of the script is one character.
ASSUME AuthoringAssumption ==
  /\ {"'", "\\", " ", "uuid"} \subseteq Char
  /\ Step \cup Typed \subseteq Seq(Char)
  /\ Combo \subseteq Seq(Seq(Char) \X (0..MaxIndex))
  /\ \A p \in Params : IsParams(p)

VARIABLES
  pc,        \* how far the job has come: "start", "named", ..., or "refused"
  jid,       \* its id
  built,     \* the arguments of build_job_id when Python built the id, or None
  plan,      \* the ExperimentPlan that Python made for it, or None
  planToml,  \* its entry in plan.toml, or None
  script     \* the exports of its batch.bash: <<variable, word>>, in order

vars == <<pc, jid, built, plan, planToml, script>>

-----------------------------------------------------------------------------
(* render/mod.rs.                                                           *)

Upper == [c \in {"a", "b"} |-> IF c = "a" THEN "A" ELSE "B"]

SanitizeVarName(name) ==
  [i \in DOMAIN name |->
    IF name[i] \in DOMAIN Upper THEN Upper[name[i]]
    ELSE IF name[i] \in Alphanumeric THEN name[i] ELSE "_"]

\* Mutant: a quote in the value is left as it is.
QuoteBare(value) == <<"'">> \o value \o <<"'">>

QuoteForBash(value) ==
  <<"'">> \o FlattenSeq([i \in DOMAIN value |->
               IF value[i] = "'" THEN <<"'", "\\", "'", "'">> ELSE <<value[i]>>]) \o <<"'">>

ScalarToString(v) == IF v.type = "string" THEN v.value ELSE ToDecimal(v.value)

TomlValueToString(v) ==
  IF v.type = "array"
  THEN FlattenSeq([i \in DOMAIN v.value |->
         (IF i = 1 THEN <<>> ELSE <<" ">>) \o ScalarToString(v.value[i])])
  ELSE ScalarToString(v)

\* The exports of render_batch_bash. The flow's uuid is the word "uuid".
RenderBatchBash(id, combo, params) ==
  << <<<<"FLOW_UUID">>, QuoteForBash(<<"uuid">>)>>, <<<<"JOB_ID">>, QuoteForBash(id)>> >>
  \o [k \in DOMAIN combo |->
       <<<<"AXIS">> \o SanitizeVarName(combo[k][1]), QuoteForBash(ToDecimal(combo[k][2]))>>]
  \o [k \in DOMAIN params |->
       <<<<"PARAM">> \o SanitizeVarName(params[k][1]),
         QuoteForBash(TomlValueToString(params[k][2]))>>]

-----------------------------------------------------------------------------
(* The author.                                                              *)

Refuse == pc' = "refused" /\ UNCHANGED <<jid, built, plan, planToml, script>>

\* The Python build_job_id, which looks at every name first.
BuildId(step, combo) ==
  /\ pc = "start"
  /\ IF ValidateStepId(step) /\ \A k \in DOMAIN combo : ValidateStepId(combo[k][1])
     THEN /\ pc' = "named"
          /\ jid' = BuildJobId(step, combo)
          /\ built' = [step |-> step, combo |-> combo]
          /\ UNCHANGED <<plan, planToml, script>>
     ELSE Refuse

TypeId(id) ==
  /\ pc = "start"
  /\ pc' = "named" /\ jid' = id
  /\ UNCHANGED <<built, plan, planToml, script>>

\* ExperimentPlan.__new__ in Python.
NewPlan(params) ==
  /\ pc = "named"
  /\ IF ValidateJobId(jid)
     THEN pc' = "planned" /\ plan' = params /\ UNCHANGED <<jid, built, planToml, script>>
     ELSE Refuse

WritePlan ==
  /\ pc = "planned"
  /\ pc' = "written" /\ planToml' = plan
  /\ UNCHANGED <<jid, built, plan, script>>

TypePlan(params) ==
  /\ pc = "named"
  /\ pc' = "written" /\ planToml' = params
  /\ UNCHANGED <<jid, built, plan, script>>

\* submit and render: read_plan, params_of, parse_job_id, render_batch_bash.
Render ==
  /\ pc = "written"
  /\ LET parts == ParseJobId(jid) IN
     IF parts # None
     THEN /\ pc' = "rendered"
          /\ script' = RenderBatchBash(jid, parts.combo, planToml)
          /\ UNCHANGED <<jid, built, plan, planToml>>
     ELSE Refuse

\* The Python render_batch_bash, which takes strings.
RenderDirectly(params) ==
  /\ pc = "named"
  /\ \A k \in DOMAIN params : params[k][2].type = "string"
  /\ LET parts == ParseJobId(jid) IN
     IF parts # None
     THEN /\ pc' = "rendered"
          /\ planToml' = params
          /\ script' = RenderBatchBash(jid, parts.combo, params)
          /\ UNCHANGED <<jid, built, plan>>
     ELSE Refuse

\* The next job.
NextJob ==
  /\ pc \in {"rendered", "refused"}
  /\ pc' = "start"
  /\ jid' = <<>> /\ built' = None /\ plan' = None /\ planToml' = None /\ script' = <<>>

Init ==
  /\ pc = "start"
  /\ jid = <<>> /\ built = None /\ plan = None /\ planToml = None /\ script = <<>>

Next ==
  \/ \E step \in Step, combo \in Combo : BuildId(step, combo)
  \/ \E id \in Typed : TypeId(id)
  \/ \E params \in Params : NewPlan(params) \/ TypePlan(params) \/ RenderDirectly(params)
  \/ WritePlan \/ Render \/ NextJob

Spec == Init /\ [][Next]_vars

-----------------------------------------------------------------------------
\* Type invariant; only a rendered job has a script, and an id that Python built
\* has only the characters of one.
TypeOK ==
  /\ pc \in {"start", "named", "planned", "written", "rendered", "refused"}
  /\ plan = None \/ plan \in Params
  /\ planToml = None \/ planToml \in Params
  /\ script # <<>> <=> pc = "rendered"
  /\ built # None => Range(jid) \subseteq ValidJobIdChar

(***************************************************************************)
(* What Python builds means what was asked for exactly when no name holds  *)
(* a separator and the step id of a sweep does not end in half of one;     *)
(* otherwise the id does not parse, or silently as another step of other   *)
(* axes: "opt_" at a=0 is step "opt" at _a=0 (jobid.rs:43-57, 66-111,      *)
(* py_export/jobid.rs:20-34).                                              *)
(***************************************************************************)
HoldsSeparator(s) == \E i \in 1..(Len(s) - 1) : s[i] = "_" /\ s[i + 1] = "_"

Unambiguous(b) ==
  /\ ~HoldsSeparator(b.step)
  /\ b.combo # <<>> => Last(b.step) # "_"
  /\ \A k \in DOMAIN b.combo : ~HoldsSeparator(b.combo[k][1])

IdMeansWhatWasBuilt == built # None => (ParseJobId(jid) = built <=> Unambiguous(built))

(***************************************************************************)
(* An id that parses is a single name of a directory, and no reserved one; *)
(* building it again gives the id back but for zeros and pluses            *)
(* (jobid.rs:66-111, persistence/path.rs:76-79).                           *)
(***************************************************************************)
ParsedIdIsName ==
  LET parts == ParseJobId(jid) IN
  pc # "start" /\ jid # <<>> /\ parts # None =>
    /\ Range(jid) \cap {"/", "."} = {} /\ jid \notin Reserved
    /\ parts.step \notin Reserved
    /\ \/ BuildJobId(parts.step, parts.combo) = jid
       \/ /\ Len(BuildJobId(parts.step, parts.combo)) < Len(jid)
          /\ \E i \in 2..Len(jid) : jid[i - 1] \in {"=", "+"} /\ jid[i] \in {"0", "+"}

(***************************************************************************)
(* The check in front of plan.toml and the one behind it agree: a job that *)
(* went through Python's ExperimentPlan is never refused when its script   *)
(* is rendered, and one that ExperimentPlan refuses would not render,      *)
(* unless its index is written with a plus (py_export/plan.rs:31-34,       *)
(* runner/flow.rs:231-235).                                                *)
(***************************************************************************)
PlannedJobsRender ==
  /\ pc = "refused" => plan = None
  /\ pc \notin {"start", "refused"} /\ "+" \notin Range(jid) =>
       (ValidateJobId(jid) <=> jid # <<>> /\ ParseJobId(jid) # None)

(***************************************************************************)
(* bash, given the script, finds in every variable the value of the last   *)
(* axis or param that has that variable: whatever characters a value has,  *)
(* it is neither expanded nor cut (render/mod.rs:23-27, 38-78).            *)
(***************************************************************************)
\* bash's reading of a word of the script: inside and outside of quotes.
Eat(state, c) ==
  CASE state.mode = "quoted" -> IF c = "'" THEN [state EXCEPT !.mode = "bare"]
                                           ELSE [state EXCEPT !.value = Append(@, c)]
    [] state.mode = "escaped" -> [mode |-> "bare", value |-> Append(state.value, c)]
    [] state.mode = "bare" /\ c = "'"  -> [state EXCEPT !.mode = "quoted"]
    [] state.mode = "bare" /\ c = "\\" -> [state EXCEPT !.mode = "escaped"]
    [] state.mode = "bare" /\ c \in {" ", "$"} -> [state EXCEPT !.mode = "cut"]
    [] state.mode = "bare" /\ c \notin {"'", "\\", " ", "$"} -> [state EXCEPT !.value = Append(@, c)]
    [] OTHER -> state

BashWord(word) ==
  LET read[k \in 0..Len(word)] ==
        IF k = 0 THEN [mode |-> "bare", value |-> <<>>] ELSE Eat(read[k - 1], word[k])
  IN  read[Len(word)]

Variables == {script[k][1] : k \in DOMAIN script}
LastExport(v) == LET ks == {k \in DOMAIN script : script[k][1] = v}
                 IN  CHOOSE k \in ks : \A n \in ks : n <= k

Environment == [v \in Variables |-> BashWord(script[LastExport(v)][2])]

LastOf(s, name) == LET ks == {k \in DOMAIN s : SanitizeVarName(s[k][1]) = name}
                   IN  CHOOSE k \in ks : \A n \in ks : n <= k

Whole(value) == [mode |-> "bare", value |-> value]

ScriptExportsAuthored ==
  pc = "rendered" =>
    LET combo == ParseJobId(jid).combo
        axes == {SanitizeVarName(combo[k][1]) : k \in DOMAIN combo}
        keys == {SanitizeVarName(planToml[k][1]) : k \in DOMAIN planToml}
    IN  /\ Environment[<<"FLOW_UUID">>] = Whole(<<"uuid">>)
        /\ Environment[<<"JOB_ID">>] = Whole(jid)
        /\ \A a \in axes :
             Environment[<<"AXIS">> \o a] = Whole(ToDecimal(combo[LastOf(combo, a)][2]))
        /\ \A x \in keys :
             Environment[<<"PARAM">> \o x] =
               Whole(TomlValueToString(planToml[LastOf(planToml, x)][2]))
        /\ Cardinality(Variables) = 2 + Cardinality(axes) + Cardinality(keys)

(***************************************************************************)
(* The design says that upper-casing makes no two names collide, as they   *)
(* were validated: different axes of a job have different variables        *)
(* (sp3-design.md:184).                                                    *)
(***************************************************************************)
AxesKeptApart ==
  pc = "rendered" =>
    LET combo == ParseJobId(jid).combo
    IN  \A k, n \in DOMAIN combo :
          SanitizeVarName(combo[k][1]) = SanitizeVarName(combo[n][1])
            => combo[k][1] = combo[n][1]
=============================================================================
