------------------------------ MODULE Topology ------------------------------
(***************************************************************************)
(* topological_order (src/src/flow/topology.rs): Kahn's algorithm over the *)
(* jobs of a flow, one iteration of its while loop per step.               *)
(*                                                                         *)
(* The keys of the BTreeMap are 1..N, in key order.  The parents of a job  *)
(* are a list, as in flow.toml: it may name a parent twice, and it may     *)
(* name Ghost, a job the flow does not have.                               *)
(***************************************************************************)
EXTENDS Integers, Sequences, FiniteSets

CONSTANTS N,           \* the number of jobs
          MaxParents   \* the longest list of parents (bounds the flows)

ASSUME SizeAssumption == N \in Nat /\ MaxParents \in Nat

Job   == 1..N
Ghost == 0
Ref   == Job \cup {Ghost}

VARIABLES
  parents,   \* the `from` of each job's parent edges
  indeg,     \* how many of its edges each job still waits for
  queue,     \* the jobs that wait for nothing
  order,     \* the jobs visited
  result     \* what the function returned

vars == <<parents, indeg, queue, order, result>>

Refs(j) == {parents[j][i] : i \in DOMAIN parents[j]}
Placed  == {order[i] : i \in DOMAIN order}

\* Every list that holds each element of S once, smallest key first.
Ascending(S) ==
  {q \in [1..Cardinality(S) -> S] :
     /\ \A m, n \in DOMAIN q : m < n => q[m] < q[n]
     /\ \A s \in S : \E n \in DOMAIN q : q[n] = s}

\* Mutant: a parent that is named twice is counted once.
EdgeCountDistinct(j) == Cardinality(Refs(j))

\* The indegree a job starts with.
EdgeCount(j) == Len(parents[j])

Init ==
  /\ parents \in [Job -> UNION {[1..n -> Ref] : n \in 0..MaxParents}]
  /\ indeg = [j \in Job |-> EdgeCount(j)]
  /\ queue \in Ascending({j \in Job : EdgeCount(j) = 0})
  /\ order = <<>>
  /\ result = "Running"

\* Mutant: every waiting job is lowered, named or not.
LoweredAll(j) == {o \in Job : indeg[o] > 0}

\* The jobs whose count the visit of j lowers: once, however often they name it.
Lowered(j) == {o \in Job : j \in Refs(o) /\ indeg[o] > 0}

Visit ==
  /\ queue # <<>>
  /\ order' = Append(order, Head(queue))
  /\ indeg' = [o \in Job |-> IF o \in Lowered(Head(queue)) THEN indeg[o] - 1 ELSE indeg[o]]
  /\ \E q \in Ascending({o \in Lowered(Head(queue)) : indeg[o] = 1}) :
       queue' = Tail(queue) \o q
  /\ UNCHANGED <<parents, result>>

\* Mutant: only the jobs none of whose parents was visited.
RemainingUntouched == {j \in Job : indeg[j] > 0 /\ indeg[j] = EdgeCount(j)}

\* The jobs that a DependencyCycle names.
Remaining == {j \in Job : indeg[j] > 0}

\* The queue is empty: an order of all jobs, or DependencyCycle.
Return ==
  /\ queue = <<>>
  /\ result = "Running"
  /\ result' = IF Len(order) = N THEN "Ok" ELSE "DependencyCycle"
  /\ UNCHANGED <<parents, indeg, queue, order>>

Next == Visit \/ Return

Spec == Init /\ [][Next]_vars

-----------------------------------------------------------------------------
TypeOK ==
  /\ parents \in [Job -> Seq(Ref)]
  /\ indeg \in [Job -> Nat]
  /\ queue \in Seq(Job)
  /\ order \in Seq(Job)
  /\ result \in {"Running", "Ok", "DependencyCycle"}

(***************************************************************************)
(* Submit and tick rely on this: an order that was returned holds each job *)
(* once, and every parent a job names stands before it (topology.rs:23-52).*)
(***************************************************************************)
Precedes(r, i) == \E k \in 1..(i - 1) : order[k] = r

OrderSound ==
  result = "Ok" =>
    /\ \A j \in Job : \E i \in DOMAIN order : order[i] = j
    /\ \A i, k \in DOMAIN order : order[i] = order[k] => i = k
    /\ \A i \in DOMAIN order : \A r \in Refs(order[i]) : Precedes(r, i)

(***************************************************************************)
(* Exactly these flows are given an order: no parent is missing, none is   *)
(* named twice, no set of jobs waits on itself.  FlowRunner's Orderable is *)
(* this contract (topology.rs:13-16, 27-37, 40-51).                        *)
(***************************************************************************)
Orderable ==
  /\ \A j \in Job : Ghost \notin Refs(j) /\ Cardinality(Refs(j)) = Len(parents[j])
  /\ \A S \in (SUBSET Job) \ {{}} : \E j \in S : Refs(j) \cap S = {}

OkIffOrderable ==
  result # "Running" => (result = "Ok" <=> Orderable)

(***************************************************************************)
(* An error names exactly the jobs that no order can hold, and at least    *)
(* one: those with a parent that is missing or named twice, those on a     *)
(* cycle, and what waits on any of them (topology.rs:40-51).               *)
(***************************************************************************)
Blocks(S) ==
  \A j \in S : \/ Ghost \in Refs(j) \/ Cardinality(Refs(j)) # Len(parents[j])
               \/ Refs(j) \cap S # {}

RemainingBlocked ==
  result = "DependencyCycle" =>
    /\ Remaining # {} /\ Blocks(Remaining)
    /\ \A S \in SUBSET Job : Blocks(S) => S \subseteq Remaining
=============================================================================
