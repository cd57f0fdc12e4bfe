---------------------------- MODULE JobTracking -----------------------------
(***************************************************************************)
(* What a user takes the statuses of a flow to be, whatever commands run   *)
(* and fail: each job is at most once in SLURM as far as its status goes,  *)
(* follows what SLURM makes of that one submission until it ends, and is   *)
(* skipped only behind a parent that has failed or was skipped itself      *)
(* (README.md:287-298, docs/architecture.md:326-335).  FlowRunner          *)
(* implements it when commands do not overlap.                             *)
(***************************************************************************)
CONSTANTS Job, SlurmId, None

VARIABLES
  life,      \* each job's lifecycle, "Pending" before the first submission
  attempt,   \* the SLURM job it follows
  parents    \* each job's parents

vars == <<life, attempt, parents>>

Init ==
  /\ life = [j \in Job |-> "Pending"]
  /\ attempt = [j \in Job |-> None]
  /\ parents = [j \in Job |-> {}]

\* A submission, the first or a later one, of a job no other follows.
Queue(j, id) ==
  /\ \A i \in Job : attempt[i] # id
  /\ life' = [life EXCEPT ![j] = "Queued"]
  /\ attempt' = [attempt EXCEPT ![j] = id]
  /\ UNCHANGED parents

\* What SLURM says of the job.
Follow(j) ==
  /\ life[j] \in {"Queued", "Running"}
  /\ \E l \in {"Queued", "Running", "Success", "Failed"} : life' = [life EXCEPT ![j] = l]
  /\ UNCHANGED <<attempt, parents>>

Skip(j) ==
  /\ life[j] = "Queued"
  /\ \E i \in parents[j] : life[i] \in {"Failed", "Skipped"}
  /\ life' = [life EXCEPT ![j] = "Skipped"]
  /\ UNCHANGED <<attempt, parents>>

\* The flow that ticks go by is replaced.
Replace ==
  /\ parents' \in [Job -> SUBSET Job]
  /\ UNCHANGED <<life, attempt>>

Next ==
  \/ \E j \in Job : Follow(j) \/ Skip(j) \/ \E id \in SlurmId : Queue(j, id)
  \/ Replace

Spec == Init /\ [][Next]_vars
=============================================================================
