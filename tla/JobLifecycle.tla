---------------------------- MODULE JobLifecycle ----------------------------
(***************************************************************************)
(* The per-job lifecycle and the pure decision a tick takes for one job:   *)
(* src/src/job/lifecycle.rs and src/src/runner/transition.rs.              *)
(*                                                                         *)
(* "Pending" is not a lifecycle: it is the absence of a status file, which *)
(* the modules that keep the files represent by their own sentinel.        *)
(***************************************************************************)

\* The five values a status file can hold.
Lifecycle == {"Queued", "Running", "Success", "Failed", "Skipped"}

IsTerminal(l) == l \in {"Success", "Failed", "Skipped"}

(***************************************************************************)
(* The states SLURM reports, in the buckets decide_transition puts them.   *)
(***************************************************************************)
WaitingStates == {"Pending", "Configuring", "Requeued", "RequeueFed",
                  "RequeueHold", "ResvDelHold", "Suspended", "Stopped"}
AliveStates   == {"Running", "Completing", "Resizing", "Signaling", "StageOut"}
FailureStates == {"BootFail", "Cancelled", "Deadline", "Failed", "NodeFail",
                  "OutOfMemory", "Preempted", "Revoked", "SpecialExit", "Timeout"}

JobState == WaitingStates \cup AliveStates \cup FailureStates
              \cup {"Completed", "Unknown"}

\* The map the querier returned has no entry for the job.
NoState == "NoState"

\* The lifecycle a reported state stands for; an unparsable one changes nothing.
Bucket(current, state) ==
  CASE state \in WaitingStates -> "Queued"
    [] state \in AliveStates   -> "Running"
    [] state = "Completed"     -> "Success"
    [] state \in FailureStates -> "Failed"
    [] state = "Unknown"       -> current

\* Mutant: a child is skipped unless its parent has succeeded.
IsDeadUnlessSuccess(l) == l # "Success"

\* A parent in one of these lifecycles makes a queued child be skipped.
IsDead(l) == l \in {"Failed", "Skipped"}

NoChange       == [kind |-> "NoChange"]
Transition(l)  == [kind |-> "Transition", to |-> l]
SkipDueToParent == [kind |-> "SkipDueToParent"]

\* Mutant: a dead parent skips the job whatever its own lifecycle is.
DecideTransitionSkipsAny(current, query, parents) ==
  CASE \E l \in parents : IsDead(l) -> SkipDueToParent
    [] OTHER ->
         IF query = NoState \/ Bucket(current, query) = current
         THEN NoChange
         ELSE Transition(Bucket(current, query))

\* Mutant: no skip rule.
DecideTransitionNoSkip(current, query, parents) ==
  IF IsTerminal(current) \/ query = NoState \/ Bucket(current, query) = current
  THEN NoChange
  ELSE Transition(Bucket(current, query))

(***************************************************************************)
(* decide_transition.  "parents" is the set of lifecycles of the parents   *)
(* whose status is known; which of them is named as the culprit only       *)
(* decorates the result and is left out.                                   *)
(***************************************************************************)
DecideTransition(current, query, parents) ==
  CASE IsTerminal(current) -> NoChange
    [] current = "Queued" /\ (\E l \in parents : IsDead(l)) -> SkipDueToParent
    [] OTHER ->
         IF query = NoState \/ Bucket(current, query) = current
         THEN NoChange
         ELSE Transition(Bucket(current, query))

\* Mutant: a skipped job is stored as failed.
OutcomeSkipFails(current, decision) ==
  CASE decision.kind = "NoChange"        -> current
    [] decision.kind = "Transition"      -> decision.to
    [] decision.kind = "SkipDueToParent" -> "Failed"

\* The lifecycle a tick stores after a decision.
Outcome(current, decision) ==
  CASE decision.kind = "NoChange"        -> current
    [] decision.kind = "Transition"      -> decision.to
    [] decision.kind = "SkipDueToParent" -> "Skipped"
=============================================================================
