---------------------------- MODULE ListingProofs ----------------------------
(***************************************************************************)
(* What a listing shows of flow directories that jm new, the user, submit  *)
(* and tick change while it reads: for any number of flows, readers and    *)
(* listings.                                                               *)
(***************************************************************************)
EXTENDS Listing, Lists, FiniteSetTheorems

\* What the status files of a flow can hold, and a row that was collected.
Statuses(f) == [Range(JobsOf[f]) -> Lifecycle \cup {None}]
Row == {r \in [flow : Flow, statuses : UNION {Statuses(f) : f \in Flow}] :
          r.statuses \in Statuses(r.flow)}

RowFlows == {rows[i].flow : i \in DOMAIN rows}

Typed ==
  /\ dir \in [Flow -> Dirs]
  /\ status \in [Flow -> UNION {Statuses(f) : f \in Flow}]
  /\ \A f \in Flow : status[f] \in Statuses(f)
  /\ maker \in [Flow -> {"none", "mkdir", "flow", "done", "rollback", "stopped"}]
  /\ pc \in {"idle", "names", "walk", "statuses", "listed", "returned"}
  /\ names \subseteq Flow /\ paths \subseteq Flow /\ steady \subseteq Flow
  /\ unread \subseteq found /\ found \subseteq Flow
  /\ reading \subseteq Flow /\ IsFiniteSet(reading) /\ Cardinality(reading) <= Parallelism
  /\ flows \subseteq Flow
  /\ DOMAIN statuses = Flow /\ statuses \in [Flow -> UNION {[S -> Lifecycle \cup {None}] : S \in SUBSET Job}]
  /\ \A f \in Flow : DOMAIN statuses[f] \subseteq Range(JobsOf[f])
  /\ rows \in Seq(Row)

\* What there is of a directory, by where its `jm new` is.
MakerFits ==
  \A f \in Flow :
    /\ maker[f] \in {"none", "done"} => dir[f] \in {"absent", "both", "broken"}
    /\ maker[f] = "mkdir" => dir[f] = "empty"
    /\ maker[f] = "flow" => dir[f] = "flow"
    /\ maker[f] \in {"rollback", "stopped"} => dir[f] \in {"empty", "flow"}

SteadyGood == \A f \in steady : GoodFlowToml(f)

\* Where a candidate is, phase by phase: in one place at a time.
Places ==
  /\ pc \in {"idle", "names"} => reading = {} /\ flows = {} /\ rows = <<>> /\ unread = {}
  /\ pc = "idle" => paths = {} /\ found = {}
  /\ pc = "names" => found = paths /\ steady \subseteq names \cup paths
  /\ pc \in {"walk", "returned"} =>
       /\ found = paths \cup reading \cup flows \cup unread /\ rows = <<>>
       /\ paths \cap reading = {} /\ flows \cap (paths \cup reading) = {}
       /\ unread \cap (paths \cup reading \cup flows) = {}
  /\ pc \in {"statuses", "listed"} =>
       /\ found \ unread = paths \cup reading \cup RowFlows /\ flows = {}
       /\ paths \cap reading = {} /\ RowFlows \cap (paths \cup reading) = {}
       /\ \A i, k \in DOMAIN rows : rows[i].flow = rows[k].flow => i = k
  /\ pc \in {"returned", "listed"} => paths \cup reading = {}
  /\ pc \in {"walk", "returned", "statuses", "listed"} => steady \subseteq found \ unread

\* A final status that was read is still the one in the file.
Fresh(f, st) ==
  \A j \in DOMAIN st : IsTerminal(st[j]) /\ st[j] # None => status[f][j] = st[j]

SeenFits ==
  /\ \A f \in Flow : Fresh(f, statuses[f])
  /\ \A i \in DOMAIN rows : Fresh(rows[i].flow, rows[i].statuses)

LInv == Typed /\ MakerFits /\ SteadyGood /\ Places /\ SeenFits

-----------------------------------------------------------------------------
\* p puts the keys in falling order.
Falling(p, key, n) ==
  /\ p \in [1..n -> 1..n]
  /\ \A x \in 1..n : \E i \in 1..n : p[i] = x
  /\ \A i, k \in 1..n : i < k => key[p[i]] >= key[p[k]]

(* Any keys can be put in falling order: the position of the least one goes *)
(* last, and the others are in order before it.                             *)
LEMMA OneMoreKey ==
  ASSUME NEW m \in Nat, NEW key \in [1..(m + 1) -> Nat],
         \A g \in [1..m -> Nat] : \E q : Falling(q, g, m)
  PROVE  \E p : Falling(p, key, m + 1)
<1> DEFINE n == m + 1
<1>1. n \in Nat /\ n \in 1..n /\ 1..m \subseteq 1..n /\ \A i \in 1..n : i = n \/ i \in 1..m
  OBVIOUS
<1>2. PICK l \in 1..n : \A i \in 1..n : key[l] <= key[i]
  <2> DEFINE K == {key[i] : i \in 1..n}
  <2>1. K \in SUBSET Nat /\ K # {}
    BY <1>1
  <2>2. PICK v \in K : \A k \in K : v <= k
    BY <2>1, LeastNumber
  <2>3. QED
    BY <2>2
<1> HIDE DEF n
<1> DEFINE g == [i \in 1..m |-> IF i = l THEN key[n] ELSE key[i]]
<1>3. g \in [1..m -> Nat]
  BY <1>1 DEF n
<1>4. PICK q : Falling(q, g, m)
  BY <1>3
<1> DEFINE p == [i \in 1..n |-> IF i = n THEN l ELSE IF q[i] = l THEN n ELSE q[i]]
<1>5. \A i \in 1..m : i \in 1..n /\ i # n /\ q[i] \in 1..m
  BY <1>1, <1>4 DEF Falling, n
<1>6. p \in [1..n -> 1..n]
  BY <1>1, <1>5
<1>7. \A i \in 1..m : key[p[i]] = g[q[i]]
  BY <1>5
<1>8. ASSUME NEW x \in 1..n PROVE \E i \in 1..n : p[i] = x
  <2>1. CASE x = l
    BY <1>1, <2>1
  <2>2. CASE x = n /\ x # l
    <3>1. l \in 1..m
      BY <1>1, <2>2
    <3>2. PICK i \in 1..m : q[i] = l
      BY <1>4, <3>1 DEF Falling
    <3>3. QED
      BY <1>5, <2>2, <3>2
  <2>3. CASE x # n /\ x # l
    <3>1. x \in 1..m
      BY <1>1, <2>3
    <3>2. PICK i \in 1..m : q[i] = x
      BY <1>4, <3>1 DEF Falling
    <3>3. QED
      BY <1>5, <2>3, <3>2
  <2>4. QED
    BY <2>1, <2>2, <2>3
<1>9. ASSUME NEW i \in 1..n, NEW k \in 1..n, i < k PROVE key[p[i]] >= key[p[k]]
  <2>1. i \in 1..m
    <3>1. i # n
      BY <1>1, <1>9 DEF n
    <3>2. QED
      BY <1>1, <3>1
  <2>2. CASE k = n
    <3>1. p[k] = l /\ p[i] \in 1..n
      BY <1>6, <2>2
    <3>2. key[l] <= key[p[i]]
      BY <1>2, <3>1
    <3>3. key[l] \in Nat /\ key[p[i]] \in Nat
      BY <3>1 DEF n
    <3>4. QED
      BY <3>1, <3>2, <3>3
  <2>3. CASE k \in 1..m
    <3>1. g[q[i]] >= g[q[k]]
      BY <1>4, <1>9, <2>1, <2>3 DEF Falling
    <3>2. QED
      BY <1>7, <2>1, <2>3, <3>1
  <2>4. QED
    BY <1>1, <2>2, <2>3
<1>10. QED
  BY <1>6, <1>8, <1>9 DEF Falling, n

LEMMA SortExists ==
  ASSUME NEW n \in Nat, NEW key \in [1..n -> Nat]
  PROVE  \E p : Falling(p, key, n)
<1> DEFINE Bad == {b \in Nat : \E k \in [1..b -> Nat] : \A p : ~ Falling(p, k, b)}
<1>1. SUFFICES Bad = {}
  OBVIOUS
<1>2. SUFFICES ASSUME Bad # {} PROVE FALSE
  OBVIOUS
<1>3. PICK b \in Bad : \A c \in Bad : b <= c
  <2>1. Bad \in SUBSET Nat
    OBVIOUS
  <2>2. QED
    BY <1>2, <2>1, LeastNumber
<1>4. PICK k \in [1..b -> Nat] : \A p : ~ Falling(p, k, b)
  OBVIOUS
<1>5. CASE b = 0
  <2> DEFINE p == [i \in 1..0 |-> i]
  <2>1. Falling(p, k, 0)
    BY DEF Falling
  <2>2. QED
    BY <1>4, <1>5, <2>1
<1>6. CASE b # 0
  <2> DEFINE m == b - 1
  <2>1. m \in Nat /\ b = m + 1 /\ ~ (b <= m)
    BY <1>6
  <2>2. m \notin Bad
    BY <1>3, <2>1
  <2>3. \A g \in [1..m -> Nat] : \E q : Falling(q, g, m)
    BY <2>1, <2>2
  <2> HIDE DEF m, Bad
  <2>4. k \in [1..(m + 1) -> Nat]
    BY <1>4, <2>1
  <2>5. \E p : Falling(p, k, m + 1)
    BY <2>1, <2>3, <2>4, OneMoreKey
  <2>6. QED
    BY <1>4, <2>1, <2>5
<1>7. QED
  BY <1>5, <1>6

(* What Sort makes of the rows: each once, newest first.                    *)
LEMMA SortedRows ==
  ASSUME Typed
  PROVE  \E p \in [DOMAIN rows -> DOMAIN rows] :
           /\ NewestToOldest = [i \in DOMAIN rows |-> rows[p[i]]]
           /\ \A x \in DOMAIN rows : \E i \in DOMAIN rows : p[i] = x
           /\ \A i, k \in DOMAIN rows : p[i] = p[k] => i = k
           /\ \A i, k \in DOMAIN rows : i < k => rows[p[i]].flow >= rows[p[k]].flow
<1> DEFINE n == Len(rows)
           key == [i \in 1..n |-> rows[i].flow]
           Sorting == {p \in [DOMAIN rows -> DOMAIN rows] : Range(p) = DOMAIN rows /\ Sorts(p)}
           p == CHOOSE p \in [DOMAIN rows -> DOMAIN rows] : Range(p) = DOMAIN rows /\ Sorts(p)
<1>1. rows \in Seq(Row) /\ n \in Nat /\ DOMAIN rows = 1..n
  BY LenProperties DEF Typed
<1>2. \A i \in 1..n : rows[i].flow \in Nat
  <2>1. \A i \in 1..n : rows[i] \in Row
    BY <1>1, ElementOfSeq
  <2>2. Flow \subseteq Nat
    BY ListingAssumption
  <2>3. QED
    BY <2>1, <2>2 DEF Row
<1>3. key \in [1..n -> Nat]
  BY <1>2
<1>4. PICK q : Falling(q, key, n)
  BY <1>1, <1>3, SortExists
<1>5. q \in [DOMAIN rows -> DOMAIN rows] /\ Range(q) = DOMAIN rows /\ Sorts(q)
  <2>1. q \in [DOMAIN rows -> DOMAIN rows] /\ Range(q) = DOMAIN rows
    BY <1>1, <1>4 DEF Falling, Range
  <2>2. Sorts(q)
    BY <1>1, <1>4 DEF Falling, Sorts
  <2>3. QED
    BY <2>1, <2>2
<1>6. p \in [DOMAIN rows -> DOMAIN rows] /\ Range(p) = DOMAIN rows /\ Sorts(p)
  BY <1>5
<1>7. NewestToOldest = [i \in DOMAIN rows |-> rows[p[i]]]
  BY DEF NewestToOldest
<1> HIDE DEF p
<1>8. \A x \in DOMAIN rows : \E i \in DOMAIN rows : p[i] = x
  BY <1>6 DEF Range
<1>9. \A i, k \in DOMAIN rows : p[i] = p[k] => i = k
  <2>1. p \in Surjection(1..n, 1..n)
    BY <1>1, <1>6, <1>8 DEF Surjection
  <2>2. IsFiniteSet(1..n)
    BY <1>1, FS_Interval
  <2>3. p \in Injection(1..n, 1..n)
    BY <2>1, <2>2, FS_Surjection
  <2>4. QED
    BY <1>1, <2>3 DEF Injection, IsInjective
<1>10. QED
  BY <1>6, <1>7, <1>8, <1>9 DEF Sorts

-----------------------------------------------------------------------------
LEMMA InitLInv == Init => LInv
<1> SUFFICES ASSUME Init PROVE LInv
  OBVIOUS
<1> USE ListingAssumption
<1>1. /\ dir \in [Flow -> Dirs] /\ maker \in [Flow -> {"none"}]
      /\ \A f \in Flow : dir[f] \in {"absent", "both"}
  BY DEF Init, Dirs
<1>2. \A f \in Flow : status[f] \in Statuses(f)
  BY DEF Init, Statuses
<1>3. status \in [Flow -> UNION {Statuses(f) : f \in Flow}]
  BY <1>2 DEF Init
<1>4. \A f \in Flow : statuses[f] = <<>> /\ DOMAIN statuses[f] = {}
  BY DEF Init
<1>5. statuses \in [Flow -> UNION {[S -> Lifecycle \cup {None}] : S \in SUBSET Job}]
  <2>1. <<>> \in [{} -> Lifecycle \cup {None}] /\ {} \in SUBSET Job
    OBVIOUS
  <2>2. <<>> \in UNION {[S -> Lifecycle \cup {None}] : S \in SUBSET Job}
    BY <2>1
  <2>3. QED
    BY <2>2 DEF Init
<1>6. IsFiniteSet(reading) /\ Cardinality(reading) <= Parallelism
  BY FS_EmptySet DEF Init
<1>7. Typed
  <2>1. maker \in [Flow -> {"none", "mkdir", "flow", "done", "rollback", "stopped"}]
    BY <1>1
  <2>2. /\ pc = "idle" /\ rows \in Seq(Row) /\ DOMAIN statuses = Flow
        /\ names = {} /\ paths = {} /\ reading = {} /\ flows = {} /\ unread = {}
        /\ steady = {} /\ found = {}
    BY DEF Init
  <2>3. QED
    BY <1>1, <1>2, <1>3, <1>4, <1>5, <1>6, <2>1, <2>2 DEF Typed
<1>8. MakerFits
  BY <1>1 DEF MakerFits
<1>9. SteadyGood /\ Places
  BY DEF Init, SteadyGood, Places
<1>10. SeenFits
  BY <1>4 DEF Init, SeenFits, Fresh
<1>11. QED
  BY <1>7, <1>8, <1>9, <1>10 DEF LInv

(* The steps, by what they are a part of.                                   *)
FilesStep(f) == MakerStep(f) \/ EditFlowToml(f)
StatusStep == \E f \in Flow, j \in Job : WriteStatus(f, j)
LsStep == Open \/ NamesEnd \/ CollectStatuses \/ PyWalkFlows \/ Sort \/ Finish

LEMMA NextCases ==
  ASSUME [Next]_vars
  PROVE  \/ \E f \in Flow : FilesStep(f) \/ CollectStep(f)
         \/ StatusStep \/ LsStep \/ UNCHANGED vars
BY DEF Next, FilesStep, StatusStep, LsStep

(* What a tick makes of a status is a status, and a final one stays.        *)
LEMMA TickedStatus ==
  ASSUME NEW st \in Lifecycle, NEW s \in Ticked(st)
  PROVE  s \in Lifecycle /\ (IsTerminal(st) => s = st)
<1>1. PICK q \in {"Pending", "Running", "Completed", "Failed"}, ps \in {{}, {"Failed"}} :
        s = Outcome(st, DecideTransition(st, q, ps))
  BY DEF Ticked
<1>2. Bucket(st, q) \in Lifecycle
  BY <1>1 DEF Bucket, Lifecycle, WaitingStates, AliveStates, FailureStates
<1>3. CASE IsTerminal(st)
  <2>1. DecideTransition(st, q, ps) = NoChange
    BY <1>3 DEF DecideTransition, IsTerminal
  <2>2. QED
    BY <1>1, <2>1 DEF Outcome, NoChange
<1>4. CASE ~ IsTerminal(st) /\ DecideTransition(st, q, ps) = SkipDueToParent
  BY <1>1, <1>4 DEF Outcome, SkipDueToParent, Lifecycle
<1>5. CASE ~ IsTerminal(st) /\ DecideTransition(st, q, ps) # SkipDueToParent
  <2>1. DecideTransition(st, q, ps) \in {NoChange, Transition(Bucket(st, q))}
    BY <1>5 DEF DecideTransition
  <2>2. QED
    BY <1>1, <1>2, <1>5, <2>1 DEF Outcome, NoChange, Transition
<1>6. QED
  BY <1>3, <1>4, <1>5

LEMMA StatusTyped ==
  ASSUME Typed, NEW f \in Flow, NEW j \in Job, WriteStatus(f, j)
  PROVE  /\ \A g \in Flow : status'[g] \in Statuses(g)
         /\ DOMAIN status' = Flow
         /\ \A g \in Flow : \A k \in Range(JobsOf[g]) :
              status[g][k] # None /\ IsTerminal(status[g][k]) => status'[g][k] = status[g][k]
<1>1. /\ j \in Range(JobsOf[f]) /\ status[f] \in Statuses(f)
      /\ status \in [Flow -> UNION {Statuses(g) : g \in Flow}]
  BY DEF WriteStatus, Typed
<1>2. PICK s : /\ status' = [status EXCEPT ![f][j] = s]
               /\ \/ status[f][j] = None /\ s = "Queued"
                  \/ status[f][j] # None /\ s \in Ticked(status[f][j])
  BY DEF WriteStatus
<1>3. status[f][j] \in Lifecycle \cup {None}
  BY <1>1 DEF Statuses
<1>4. s \in Lifecycle /\ (status[f][j] # None /\ IsTerminal(status[f][j]) => s = status[f][j])
  BY <1>2, <1>3, TickedStatus DEF Lifecycle
<1>5. status' = [status EXCEPT ![f] = [status[f] EXCEPT ![j] = s]]
  BY <1>2
<1>6. [status[f] EXCEPT ![j] = s] \in Statuses(f)
  BY <1>1, <1>4 DEF Statuses
<1>7. ASSUME NEW g \in Flow
      PROVE  /\ status'[g] \in Statuses(g)
             /\ \A k \in Range(JobsOf[g]) :
                  status[g][k] # None /\ IsTerminal(status[g][k]) => status'[g][k] = status[g][k]
  <2>1. CASE g = f
    <3>1. status'[g] = [status[f] EXCEPT ![j] = s]
      BY <1>1, <1>5, <2>1
    <3>2. QED
      BY <1>1, <1>4, <1>6, <2>1, <3>1 DEF Statuses
  <2>2. CASE g # f
    BY <1>1, <1>5, <2>2 DEF Typed
  <2>3. QED
    BY <2>1, <2>2
<1>8. QED
  BY <1>1, <1>5, <1>7

(* jm new and the user: what they leave alone, and what they make.          *)
LEMMA FilesEffect ==
  ASSUME LInv, NEW f \in Flow, FilesStep(f)
  PROVE  /\ UNCHANGED <<status, pc, paths, reading, flows, statuses, unread, found, rows>>
         /\ dir' \in [Flow -> Dirs]
         /\ maker' \in [Flow -> {"none", "mkdir", "flow", "done", "rollback", "stopped"}]
         /\ MakerFits'
         /\ steady' \subseteq steady
         /\ \A g \in steady' : dir'[g] \in {"flow", "both"}
         /\ names \subseteq names' /\ names' \subseteq Flow
<1> DEFINE M == {"none", "mkdir", "flow", "done", "rollback", "stopped"}
<1>1. /\ dir \in [Flow -> Dirs] /\ maker \in [Flow -> M] /\ names \subseteq Flow
      /\ \A g \in steady : dir[g] \in {"flow", "both"}
  BY DEF LInv, Typed, SteadyGood, GoodFlowToml
<1>2. UNCHANGED <<status, pc, paths, reading, flows, statuses, unread, found, rows>>
  BY DEF FilesStep, MakerStep, Mkdir, WriteFlow, WritePlan, WriteFails, Rollback, MakerStops,
         EditFlowToml, walk, files
<1>3. names \subseteq names' /\ names' \subseteq Flow
  BY <1>1 DEF FilesStep, MakerStep, Mkdir, WriteFlow, WritePlan, WriteFails, Rollback, MakerStops,
              EditFlowToml, walk, files
<1>4. PICK d, l : /\ dir' = [dir EXCEPT ![f] = d] /\ maker' = [maker EXCEPT ![f] = l]
                  /\ d \in Dirs /\ l \in M
                  /\ l \in {"none", "done"} => d \in {"absent", "both", "broken"}
                  /\ l = "mkdir" => d = "empty"
                  /\ l = "flow" => d = "flow"
                  /\ l \in {"rollback", "stopped"} => d \in {"empty", "flow"}
  <2>1. /\ dir = [dir EXCEPT ![f] = dir[f]] /\ maker = [maker EXCEPT ![f] = maker[f]]
        /\ maker[f] \in M /\ dir[f] \in Dirs
    BY <1>1
  <2>2. /\ maker[f] \in {"none", "done"} => dir[f] \in {"absent", "both", "broken"}
        /\ maker[f] = "mkdir" => dir[f] = "empty"
        /\ maker[f] = "flow" => dir[f] = "flow"
        /\ maker[f] \in {"rollback", "stopped"} => dir[f] \in {"empty", "flow"}
    BY DEF LInv, MakerFits
  <2> DEFINE d == dir'[f]
             l == maker'[f]
  <2>3. CASE Mkdir(f)
    <3>1. dir' = [dir EXCEPT ![f] = "empty"] /\ maker' = [maker EXCEPT ![f] = "mkdir"]
      BY <2>3 DEF Mkdir, SetDir, SetMaker
    <3> WITNESS "empty", "mkdir"
    <3>2. QED
      BY <3>1 DEF Dirs
  <2>4. CASE WriteFlow(f)
    <3>1. dir' = [dir EXCEPT ![f] = "flow"] /\ maker' = [maker EXCEPT ![f] = "flow"]
      BY <2>4 DEF WriteFlow, SetDir, SetMaker
    <3> WITNESS "flow", "flow"
    <3>2. QED
      BY <3>1 DEF Dirs
  <2>5. CASE WritePlan(f)
    <3>1. dir' = [dir EXCEPT ![f] = "both"] /\ maker' = [maker EXCEPT ![f] = "done"]
      BY <2>5 DEF WritePlan, SetDir, SetMaker
    <3> WITNESS "both", "done"
    <3>2. QED
      BY <3>1 DEF Dirs
  <2>6. CASE WriteFails(f)
    <3>1. dir' = [dir EXCEPT ![f] = dir[f]] /\ maker' = [maker EXCEPT ![f] = "rollback"]
      BY <2>1, <2>6 DEF WriteFails, SetMaker, files
    <3>2. dir[f] \in {"empty", "flow"}
      BY <2>2, <2>6 DEF WriteFails
    <3> WITNESS dir[f], "rollback"
    <3>3. QED
      BY <2>1, <3>1, <3>2
  <2>7. CASE Rollback(f)
    <3>1. CASE dir[f] = "flow"
      <4>1. /\ dir' = [dir EXCEPT ![f] = "empty"] /\ maker[f] = "rollback"
            /\ maker' = [maker EXCEPT ![f] = "rollback"]
        BY <2>1, <2>7, <3>1 DEF Rollback, SetDir
      <4> WITNESS "empty", "rollback"
      <4>2. QED
        BY <4>1 DEF Dirs
    <3>2. CASE dir[f] # "flow"
      <4>1. dir' = [dir EXCEPT ![f] = "absent"] /\ maker' = [maker EXCEPT ![f] = "done"]
        BY <2>7, <3>2 DEF Rollback, SetDir, SetMaker
      <4> WITNESS "absent", "done"
      <4>2. QED
        BY <4>1 DEF Dirs
    <3>3. QED
      BY <3>1, <3>2
  <2>8. CASE MakerStops(f)
    <3>1. dir' = [dir EXCEPT ![f] = dir[f]] /\ maker' = [maker EXCEPT ![f] = "stopped"]
      BY <2>1, <2>8 DEF MakerStops, SetMaker, files
    <3>2. dir[f] \in {"empty", "flow"}
      BY <2>2, <2>8 DEF MakerStops
    <3> WITNESS dir[f], "stopped"
    <3>3. QED
      BY <2>1, <3>1, <3>2
  <2>9. CASE EditFlowToml(f)
    <3>1. maker[f] \in {"none", "done"}
      BY <2>1, <2>2, <2>9 DEF EditFlowToml
    <3>2. PICK x \in {"both", "broken"} : dir' = [dir EXCEPT ![f] = x]
      BY <2>9 DEF EditFlowToml, SetDir
    <3>3. maker' = [maker EXCEPT ![f] = maker[f]]
      BY <2>1, <2>9 DEF EditFlowToml
    <3>4. QED
      BY <2>1, <3>1, <3>2, <3>3 DEF Dirs
  <2>10. QED
    BY <2>3, <2>4, <2>5, <2>6, <2>7, <2>8, <2>9 DEF FilesStep, MakerStep
<1>5. dir' \in [Flow -> Dirs] /\ maker' \in [Flow -> M]
  BY <1>1, <1>4
<1>6. MakerFits'
  <2> SUFFICES ASSUME NEW g \in Flow
               PROVE  /\ maker'[g] \in {"none", "done"} => dir'[g] \in {"absent", "both", "broken"}
                      /\ maker'[g] = "mkdir" => dir'[g] = "empty"
                      /\ maker'[g] = "flow" => dir'[g] = "flow"
                      /\ maker'[g] \in {"rollback", "stopped"} => dir'[g] \in {"empty", "flow"}
    BY DEF MakerFits
  <2>1. CASE g = f
    BY <1>1, <1>4, <2>1
  <2>2. CASE g # f
    BY <1>1, <1>4, <2>2 DEF LInv, MakerFits
  <2>3. QED
    BY <2>1, <2>2
<1>7. steady' \subseteq steady /\ \A g \in steady' : dir'[g] \in {"flow", "both"}
  <2>1. CASE StillSteady
    BY <2>1 DEF StillSteady
  <2>2. CASE UNCHANGED <<dir, steady>>
    BY <1>1, <2>2
  <2>3. StillSteady \/ UNCHANGED <<dir, steady>>
    BY DEF FilesStep, MakerStep, Mkdir, WriteFlow, WritePlan, WriteFails, Rollback, MakerStops,
           EditFlowToml, SetDir, files
  <2>4. QED
    BY <2>1, <2>2, <2>3
<1>8. QED
  BY <1>2, <1>3, <1>5, <1>6, <1>7

LEMMA FilesLInv == ASSUME LInv, NEW f \in Flow, FilesStep(f) PROVE LInv'
<1>1. /\ UNCHANGED <<status, pc, paths, reading, flows, statuses, unread, found, rows>>
      /\ dir' \in [Flow -> Dirs]
      /\ maker' \in [Flow -> {"none", "mkdir", "flow", "done", "rollback", "stopped"}]
      /\ MakerFits'
      /\ steady' \subseteq steady
      /\ \A g \in steady' : dir'[g] \in {"flow", "both"}
      /\ names \subseteq names' /\ names' \subseteq Flow
  BY FilesEffect
<1>2. Typed'
  BY <1>1 DEF LInv, Typed
<1>3. SteadyGood'
  BY <1>1 DEF SteadyGood, GoodFlowToml
<1>4. RowFlows' = RowFlows
  BY <1>1 DEF RowFlows
<1>5. Places'
  BY <1>1, <1>4 DEF LInv, Places
<1>6. SeenFits'
  BY <1>1 DEF LInv, SeenFits, Fresh
<1>7. QED
  BY <1>1, <1>2, <1>3, <1>5, <1>6 DEF LInv

LEMMA StatusLInv == ASSUME LInv, StatusStep PROVE LInv'
<1>1. PICK f \in Flow, j \in Job : WriteStatus(f, j)
  BY DEF StatusStep
<1>2. UNCHANGED <<dir, maker, pc, names, paths, reading, flows, statuses, unread, found, rows, steady>>
  BY <1>1 DEF WriteStatus, walk
<1>3. /\ \A g \in Flow : status'[g] \in Statuses(g)
      /\ DOMAIN status' = Flow
      /\ \A g \in Flow : \A k \in Range(JobsOf[g]) :
           status[g][k] # None /\ IsTerminal(status[g][k]) => status'[g][k] = status[g][k]
  BY <1>1, StatusTyped DEF LInv
<1>4. status' = [g \in Flow |-> status'[g]]
  BY <1>1 DEF WriteStatus, LInv, Typed
<1>5. status' \in [Flow -> UNION {Statuses(g) : g \in Flow}]
  BY <1>3, <1>4
<1>6. Typed'
  BY <1>2, <1>3, <1>5 DEF LInv, Typed
<1>7. MakerFits' /\ SteadyGood'
  BY <1>2 DEF LInv, MakerFits, SteadyGood, GoodFlowToml
<1>8. Places'
  <2>1. RowFlows' = RowFlows
    BY <1>2 DEF RowFlows
  <2>2. QED
    BY <1>2, <2>1 DEF LInv, Places
<1>9. SeenFits'
  <2>1. ASSUME NEW g \in Flow, NEW st, Fresh(g, st), DOMAIN st \subseteq Range(JobsOf[g])
        PROVE  Fresh(g, st)'
    BY <1>3, <2>1 DEF Fresh
  <2>2. ASSUME NEW g \in Flow PROVE Fresh(g, statuses[g])'
    <3>1. PICK st : st = statuses[g]
      OBVIOUS
    <3>2. Fresh(g, st) /\ DOMAIN st \subseteq Range(JobsOf[g])
      BY <3>1 DEF LInv, SeenFits, Typed
    <3>3. QED
      BY <1>2, <2>1, <3>1, <3>2
  <2>3. ASSUME NEW i \in DOMAIN rows PROVE Fresh(rows[i].flow, rows[i].statuses)'
    <3>1. PICK g, st : g = rows[i].flow /\ st = rows[i].statuses
      OBVIOUS
    <3>2. rows[i] \in Row
      BY ElementOfSeq DEF LInv, Typed
    <3>3. g \in Flow /\ DOMAIN st \subseteq Range(JobsOf[g])
      BY <3>1, <3>2 DEF Row, Statuses
    <3>4. Fresh(g, st)
      BY <3>1 DEF LInv, SeenFits
    <3>5. QED
      BY <1>2, <2>1, <3>1, <3>3, <3>4
  <2>4. QED
    BY <1>2, <2>2, <2>3 DEF SeenFits
<1>10. QED
  BY <1>6, <1>7, <1>8, <1>9 DEF LInv

(* Steps that leave the files and the rows alone.                           *)
LEMMA SameFiles ==
  ASSUME LInv, UNCHANGED <<dir, status, maker>>, steady' \subseteq steady
  PROVE  MakerFits' /\ SteadyGood'
BY DEF LInv, MakerFits, SteadyGood, GoodFlowToml

LEMMA SameSeen ==
  ASSUME LInv, UNCHANGED <<status, statuses, rows>>
  PROVE  SeenFits' /\ RowFlows' = RowFlows
BY DEF LInv, SeenFits, Fresh, RowFlows

LEMMA CandidateLInv == ASSUME LInv, NEW f \in Flow, CandidatePath(f) PROVE LInv'
<1>1. /\ UNCHANGED <<dir, status, maker, pc, reading, flows, statuses, unread, rows, steady>>
      /\ pc = "names" /\ f \in names /\ names' = names \ {f} /\ found' = paths'
      /\ paths' = IF HasFlowToml(f) THEN paths \cup {f} ELSE paths
  BY DEF CandidatePath, files
<1>2. Typed'
  <2>1. unread = {}
    BY <1>1 DEF LInv, Places
  <2>2. QED
    BY <1>1, <2>1 DEF LInv, Typed
<1>3. Places'
  <2>1. f \in steady => HasFlowToml(f)
    BY DEF LInv, SteadyGood, GoodFlowToml, HasFlowToml
  <2>2. QED
    BY <1>1, <2>1 DEF LInv, Places
<1>4. QED
  BY <1>1, <1>2, <1>3, SameFiles, SameSeen DEF LInv

LEMMA BeginLInv == ASSUME LInv, NEW f \in Flow, Begin(f) PROVE LInv'
<1>1. /\ UNCHANGED <<dir, status, maker, pc, names, flows, statuses, unread, found, rows, steady>>
      /\ pc \in {"walk", "statuses"} /\ f \in paths /\ Cardinality(reading) < Parallelism
      /\ paths' = paths \ {f} /\ reading' = reading \cup {f}
  BY DEF Begin, MayBegin, files
<1>2. RowFlows' = RowFlows
  BY <1>1, SameSeen
<1>3. IsFiniteSet(reading') /\ Cardinality(reading') <= Parallelism
  <2>1. IsFiniteSet(reading) /\ f \notin reading
    BY <1>1 DEF LInv, Typed, Places
  <2>2. IsFiniteSet(reading') /\ Cardinality(reading') = Cardinality(reading) + 1
    BY <1>1, <2>1, FS_AddElement
  <2>3. Cardinality(reading) \in Nat /\ Parallelism \in Nat
    BY <2>1, FS_CardinalityType, ListingAssumption
  <2>4. QED
    BY <1>1, <2>2, <2>3
<1>4. Typed'
  BY <1>1, <1>3 DEF LInv, Typed
<1>5. Places'
  BY <1>1, <1>2 DEF LInv, Places
<1>6. QED
  BY <1>1, <1>4, <1>5, SameFiles, SameSeen DEF LInv

LEMMA FewerReading ==
  ASSUME LInv, NEW f, f \in reading
  PROVE  IsFiniteSet(reading \ {f}) /\ Cardinality(reading \ {f}) <= Parallelism
<1>1. IsFiniteSet(reading)
  BY DEF LInv, Typed
<1>2. IsFiniteSet(reading \ {f}) /\ Cardinality(reading \ {f}) <= Cardinality(reading)
  BY <1>1, FS_Subset
<1>3. /\ Cardinality(reading) \in Nat /\ Cardinality(reading \ {f}) \in Nat
      /\ Parallelism \in Nat /\ Cardinality(reading) <= Parallelism
  BY <1>1, <1>2, FS_CardinalityType, ListingAssumption DEF LInv, Typed
<1>4. QED
  BY <1>2, <1>3

LEMMA ReadFlowLInv == ASSUME LInv, NEW f \in Flow, ReadFlow(f) PROVE LInv'
<1>1. /\ UNCHANGED <<dir, status, maker, pc, names, paths, statuses, found, rows, steady>>
      /\ pc = "walk" /\ f \in reading /\ reading' = reading \ {f}
      /\ \/ GoodFlowToml(f) /\ flows' = flows \cup {f} /\ unread' = unread
         \/ ~ GoodFlowToml(f) /\ unread' = unread \cup {f} /\ flows' = flows
  BY DEF ReadFlow, files
<1>2. RowFlows' = RowFlows
  BY <1>1, SameSeen
<1>3. f \in found /\ f \notin flows /\ f \notin unread
  BY <1>1 DEF LInv, Places
<1>4. Typed'
  BY <1>1, <1>3, FewerReading DEF LInv, Typed
<1>5. Places'
  <2>1. ~ GoodFlowToml(f) => f \notin steady
    BY DEF LInv, SteadyGood
  <2>2. QED
    BY <1>1, <1>2, <1>3, <2>1 DEF LInv, Places
<1>6. QED
  BY <1>1, <1>4, <1>5, SameFiles, SameSeen DEF LInv

LEMMA ReadStatusLInv ==
  ASSUME LInv, NEW f \in Flow, NEW j \in Job, ReadStatus(f, j)
  PROVE  LInv'
<1> DEFINE Values == Lifecycle \cup {None}
           Partial == UNION {[S -> Values] : S \in SUBSET Job}
<1>1. /\ UNCHANGED <<dir, status, maker, pc, names, paths, reading, flows, unread, found, rows, steady>>
      /\ j \in Range(JobsOf[f])
  BY DEF ReadStatus, files
<1>2. PICK s \in {status[f][j], None} :
        statuses' = [statuses EXCEPT ![f] =
          [k \in DOMAIN statuses[f] \cup {j} |-> IF k = j THEN s ELSE statuses[f][k]]]
  BY DEF ReadStatus
<1> DEFINE st == statuses[f]
           new == [k \in DOMAIN st \cup {j} |-> IF k = j THEN s ELSE st[k]]
<1>3. /\ statuses \in [Flow -> Partial] /\ status[f][j] \in Values
      /\ DOMAIN st \subseteq Range(JobsOf[f])
  BY <1>1 DEF LInv, Typed, Statuses
<1>4. DOMAIN st \subseteq Job /\ \A k \in DOMAIN st : st[k] \in Values
  BY <1>3
<1>5. new \in [DOMAIN st \cup {j} -> Values] /\ DOMAIN st \cup {j} \in SUBSET Job
  BY <1>3, <1>4
<1>6. new \in Partial /\ DOMAIN new \subseteq Range(JobsOf[f])
  BY <1>1, <1>3, <1>5
<1>7. Fresh(f, new)
  <2>1. Fresh(f, st)
    BY DEF LInv, SeenFits
  <2>2. QED
    BY <1>2, <2>1 DEF Fresh
<1> HIDE DEF new, Partial
<1>8. /\ statuses' \in [Flow -> Partial] /\ statuses'[f] = new
      /\ \A g \in Flow : g # f => statuses'[g] = statuses[g]
  BY <1>2, <1>3, <1>6 DEF new
<1>9. Typed'
  <2>1. \A g \in Flow : DOMAIN statuses'[g] \subseteq Range(JobsOf[g])
    BY <1>6, <1>8 DEF LInv, Typed
  <2>2. QED
    BY <1>1, <1>8, <2>1 DEF LInv, Typed, Partial
<1>10. RowFlows' = RowFlows
  BY <1>1 DEF RowFlows
<1>11. Places'
  BY <1>1, <1>10 DEF LInv, Places
<1>12. SeenFits'
  <2>1. \A g \in Flow : Fresh(g, statuses'[g])
    BY <1>7, <1>8 DEF LInv, SeenFits
  <2>2. QED
    BY <1>1, <2>1 DEF LInv, SeenFits, Fresh
<1>13. QED
  BY <1>1, <1>9, <1>11, <1>12, SameFiles DEF LInv

LEMMA CollectedLInv == ASSUME LInv, NEW f \in Flow, Collected(f) PROVE LInv'
<1> DEFINE n == Len(rows)
           row == [flow |-> f, statuses |-> statuses[f]]
<1>1. /\ UNCHANGED <<dir, status, maker, pc, names, paths, flows, unread, found, steady>>
      /\ pc = "statuses" /\ f \in reading /\ reading' = reading \ {f}
      /\ DOMAIN statuses[f] = Range(JobsOf[f])
      /\ rows' = Append(rows, row) /\ statuses' = [statuses EXCEPT ![f] = <<>>]
  BY DEF Collected, files
<1>2. row \in Row
  <2>1. statuses[f] \in Statuses(f)
    BY <1>1 DEF LInv, Typed, Statuses
  <2>2. QED
    BY <2>1 DEF Row
<1>3. rows \in Seq(Row) /\ n \in Nat /\ DOMAIN rows = 1..n
  BY LenProperties DEF LInv, Typed
<1> HIDE DEF row
<1>4. /\ rows' \in Seq(Row) /\ DOMAIN rows' = 1..(n + 1) /\ rows'[n + 1] = row
      /\ \A i \in 1..n : rows'[i] = rows[i]
  BY <1>1, <1>2, <1>3, LenProperties
<1>5. \A i \in DOMAIN rows' : i = n + 1 \/ i \in DOMAIN rows
  BY <1>3, <1>4
<1>6. row.flow = f /\ row.statuses = statuses[f]
  BY DEF row
<1>7. RowFlows' = RowFlows \cup {f}
  <2>1. n + 1 \in DOMAIN rows' /\ DOMAIN rows \subseteq DOMAIN rows'
    BY <1>3, <1>4
  <2>2. QED
    BY <1>3, <1>4, <1>5, <1>6, <2>1 DEF RowFlows
<1>8. f \notin RowFlows /\ f \notin paths
  BY <1>1 DEF LInv, Places
<1>9. \A i, k \in DOMAIN rows' : rows'[i].flow = rows'[k].flow => i = k
  <2>1. \A i \in DOMAIN rows : rows[i].flow # f
    BY <1>8 DEF RowFlows
  <2>2. \A i, k \in DOMAIN rows : rows[i].flow = rows[k].flow => i = k
    BY <1>1 DEF LInv, Places
  <2>3. QED
    BY <1>3, <1>4, <1>5, <1>6, <2>1, <2>2
<1>10. Places'
  BY <1>1, <1>7, <1>8, <1>9 DEF LInv, Places
<1>11. /\ statuses' \in [Flow -> UNION {[S -> Lifecycle \cup {None}] : S \in SUBSET Job}]
       /\ statuses'[f] = <<>> /\ \A g \in Flow : g # f => statuses'[g] = statuses[g]
  <2>1. <<>> \in [{} -> Lifecycle \cup {None}] /\ {} \in SUBSET Job
    OBVIOUS
  <2>2. <<>> \in UNION {[S -> Lifecycle \cup {None}] : S \in SUBSET Job}
    BY <2>1
  <2>3. statuses \in [Flow -> UNION {[S -> Lifecycle \cup {None}] : S \in SUBSET Job}]
    BY DEF LInv, Typed
  <2> HIDE DEF n
  <2>4. QED
    BY <1>1, <2>2, <2>3
<1>12. Typed'
  <2>1. ASSUME NEW g \in Flow PROVE DOMAIN statuses'[g] \subseteq Range(JobsOf[g])
    <3>1. CASE g = f
      <4>1. DOMAIN <<>> = {}
        OBVIOUS
      <4>2. QED
        BY <1>11, <3>1, <4>1
    <3>2. CASE g # f
      <4>1. DOMAIN statuses[g] \subseteq Range(JobsOf[g])
        BY DEF LInv, Typed
      <4>2. QED
        BY <1>11, <3>2, <4>1
    <3>3. QED
      BY <3>1, <3>2
  <2>2. QED
    BY <1>1, <1>4, <1>11, <2>1, FewerReading DEF LInv, Typed
<1>13. SeenFits'
  <2>1. \A g \in Flow : Fresh(g, statuses'[g])
    BY <1>11 DEF LInv, SeenFits, Fresh
  <2>2. \A i \in DOMAIN rows' : Fresh(rows'[i].flow, rows'[i].statuses)
    BY <1>3, <1>4, <1>5, <1>6 DEF LInv, SeenFits
  <2>3. QED
    BY <1>1, <2>1, <2>2 DEF SeenFits, Fresh
<1>14. QED
  BY <1>1, <1>10, <1>12, <1>13, SameFiles DEF LInv

LEMMA SortLInv == ASSUME LInv, Sort PROVE LInv'
<1>1. /\ UNCHANGED <<dir, status, maker, names, paths, reading, flows, statuses, unread, found, steady>>
      /\ pc = "statuses" /\ pc' = "listed" /\ paths \cup reading = {} /\ rows' = NewestToOldest
  BY DEF Sort, files, walk
<1>2. PICK p \in [DOMAIN rows -> DOMAIN rows] :
        /\ rows' = [i \in DOMAIN rows |-> rows[p[i]]]
        /\ \A x \in DOMAIN rows : \E i \in DOMAIN rows : p[i] = x
        /\ \A i, k \in DOMAIN rows : p[i] = p[k] => i = k
  BY <1>1, SortedRows DEF LInv
<1>3. rows \in Seq(Row) /\ Len(rows) \in Nat /\ DOMAIN rows = 1..Len(rows)
  BY LenProperties DEF LInv, Typed
<1>4. DOMAIN rows' = DOMAIN rows /\ \A i \in DOMAIN rows : rows'[i] = rows[p[i]]
  BY <1>2
<1>5. rows' \in Seq(Row)
  <2>1. rows' \in [1..Len(rows) -> Row]
    BY <1>2, <1>3, <1>4, ElementOfSeq
  <2>2. QED
    BY <1>3, <2>1, SeqDef
<1>6. RowFlows' = RowFlows
  BY <1>2, <1>4 DEF RowFlows
<1>7. \A i, k \in DOMAIN rows' : rows'[i].flow = rows'[k].flow => i = k
  <2>1. \A i, k \in DOMAIN rows : rows[i].flow = rows[k].flow => i = k
    BY <1>1 DEF LInv, Places
  <2>2. QED
    BY <1>2, <1>4, <2>1
<1>8. Typed'
  BY <1>1, <1>5 DEF LInv, Typed
<1>9. Places'
  BY <1>1, <1>6, <1>7 DEF LInv, Places
<1>10. SeenFits'
  <2>1. \A i \in DOMAIN rows' : Fresh(rows'[i].flow, rows'[i].statuses)
    BY <1>4 DEF LInv, SeenFits
  <2>2. QED
    BY <1>1, <2>1 DEF LInv, SeenFits, Fresh
<1>11. QED
  BY <1>1, <1>8, <1>9, <1>10, SameFiles DEF LInv

(* The steps between the phases of a listing.                               *)
LEMMA PhaseLInv ==
  ASSUME LInv, Open \/ NamesEnd \/ CollectStatuses \/ PyWalkFlows \/ Finish
  PROVE  LInv'
<1>1. UNCHANGED <<dir, status, maker, statuses, reading>>
  BY DEF Open, NamesEnd, CollectStatuses, PyWalkFlows, Finish, files, walk
<1>2. MakerFits'
  BY <1>1 DEF LInv, MakerFits
<1>3. CASE Open
  <2>1. /\ UNCHANGED <<paths, flows, unread, found, rows>>
        /\ pc = "idle" /\ pc' = "names" /\ names' = {f \in Flow : dir[f] # "absent"}
        /\ steady' = {f \in Flow : GoodFlowToml(f)}
    BY <1>3 DEF Open
  <2>2. Typed'
    BY <1>1, <2>1 DEF LInv, Typed
  <2>3. SteadyGood'
    BY <1>1, <2>1 DEF SteadyGood, GoodFlowToml
  <2>4. Places'
    BY <1>1, <2>1 DEF LInv, Places, GoodFlowToml
  <2>5. SeenFits'
    BY <1>1, <2>1, SameSeen
  <2>6. QED
    BY <1>2, <2>2, <2>3, <2>4, <2>5 DEF LInv
<1>4. CASE NamesEnd \/ PyWalkFlows
  <2>1. /\ UNCHANGED <<names, paths, flows, unread, found, rows, steady>>
        /\ \/ pc = "names" /\ names = {} /\ pc' = "walk"
           \/ pc = "walk" /\ paths \cup reading = {} /\ pc' = "returned"
    BY <1>4 DEF NamesEnd, PyWalkFlows, walk
  <2>2. SeenFits' /\ RowFlows' = RowFlows
    BY <1>1, <2>1, SameSeen
  <2>3. Places'
    BY <1>1, <2>1, <2>2 DEF LInv, Places
  <2>4. Typed'
    BY <1>1, <2>1 DEF LInv, Typed
  <2>5. QED
    BY <1>1, <2>1, <2>2, <2>3, <2>4, SameFiles DEF LInv
<1>5. CASE CollectStatuses
  <2>1. /\ UNCHANGED <<names, unread, found, rows, steady>>
        /\ pc = "walk" /\ paths \cup reading = {}
        /\ pc' = "statuses" /\ paths' = flows /\ flows' = {}
    BY <1>5 DEF CollectStatuses
  <2>2. SeenFits' /\ RowFlows' = RowFlows
    BY <1>1, <2>1, SameSeen
  <2>3. rows = <<>> /\ RowFlows = {}
    BY <2>1 DEF LInv, Places, RowFlows
  <2>4. Places'
    BY <1>1, <2>1, <2>2, <2>3 DEF LInv, Places
  <2>5. Typed'
    BY <1>1, <2>1 DEF LInv, Typed
  <2>6. QED
    BY <1>1, <2>1, <2>2, <2>4, <2>5, SameFiles DEF LInv
<1>6. CASE Finish
  <2>1. /\ UNCHANGED <<names, paths>> /\ pc \in {"listed", "returned"} /\ pc' = "idle"
        /\ flows' = {} /\ rows' = <<>> /\ unread' = {} /\ steady' = {} /\ found' = {}
    BY <1>6 DEF Finish
  <2>2. Typed'
    <3>1. rows' \in Seq(Row)
      BY <2>1
    <3>2. QED
      BY <1>1, <2>1, <3>1 DEF LInv, Typed
  <2>3. Places' /\ SteadyGood'
    BY <1>1, <2>1 DEF LInv, Places, SteadyGood
  <2>4. SeenFits'
    BY <1>1, <2>1 DEF LInv, SeenFits, Fresh
  <2>5. QED
    BY <1>2, <2>2, <2>3, <2>4 DEF LInv
<1>7. QED
  BY <1>3, <1>4, <1>5, <1>6

LEMMA StepLInv == LInv /\ [Next]_vars => LInv'
<1> SUFFICES ASSUME LInv, [Next]_vars PROVE LInv'
  OBVIOUS
<1>1. ASSUME NEW f \in Flow, CollectStep(f) PROVE LInv'
  BY <1>1, CandidateLInv, BeginLInv, ReadFlowLInv, ReadStatusLInv, CollectedLInv DEF CollectStep
<1>2. CASE UNCHANGED vars
  <2>1. UNCHANGED <<dir, status, maker, pc, names, paths, reading, flows, statuses, unread, found, rows, steady>>
    BY <1>2 DEF vars, walk
  <2>2. Typed'
    BY <2>1 DEF LInv, Typed
  <2>3. Places'
    BY <2>1, SameSeen DEF LInv, Places
  <2>4. QED
    BY <2>1, <2>2, <2>3, SameFiles, SameSeen DEF LInv
<1>3. QED
  BY <1>1, <1>2, NextCases, FilesLInv, StatusLInv, SortLInv, PhaseLInv DEF LsStep

LEMMA ListingInvariance == Spec => []LInv
BY InitLInv, StepLInv, PTL DEF Spec

-----------------------------------------------------------------------------
(* Directories, statuses and the sets of flows of a listing keep their      *)
(* types, and never more files are read at once than parallelism() says, in *)
(* any number of listings.                                                  *)
THEOREM TypesHold == Spec => []TypeOK
<1>1. LInv => TypeOK
  BY DEF LInv, Typed, TypeOK, Statuses
<1>2. QED
  BY <1>1, ListingInvariance, PTL

(* `jm new` leaves flow.toml and plan.toml or no directory, unless it is     *)
(* killed or cannot remove what it made.                                    *)
THEOREM NewHolds == Spec => []NewAllOrNothing
<1>1. LInv => NewAllOrNothing
  BY DEF LInv, MakerFits, NewAllOrNothing
<1>2. QED
  BY <1>1, ListingInvariance, PTL

(* Every candidate of a listing is a flow or an error and not both, a flow  *)
(* is listed once, and one whose flow.toml stays good is listed whatever    *)
(* becomes of the others, in whatever order the reads begin and end.        *)
THEOREM EveryFlowHolds == Spec => []EveryFlowListed
<1>1. ASSUME LInv PROVE EveryFlowListed
  <2>1. ASSUME pc = "returned" PROVE flows = found \ unread
    <3>1. /\ found = paths \cup reading \cup flows \cup unread /\ paths \cup reading = {}
          /\ unread \cap (paths \cup reading \cup flows) = {}
      BY <1>1, <2>1 DEF LInv, Places
    <3>2. QED
      BY <3>1
  <2>2. ASSUME pc = "listed"
        PROVE  /\ {rows[i].flow : i \in DOMAIN rows} = found \ unread
               /\ \A i, k \in DOMAIN rows : rows[i].flow = rows[k].flow => i = k
    <3>1. /\ found \ unread = paths \cup reading \cup RowFlows /\ paths \cup reading = {}
          /\ \A i, k \in DOMAIN rows : rows[i].flow = rows[k].flow => i = k
      BY <1>1, <2>2 DEF LInv, Places
    <3>2. QED
      BY <3>1 DEF RowFlows
  <2>3. pc \in {"returned", "listed"} => steady \subseteq found \ unread
    BY <1>1 DEF LInv, Places
  <2>4. QED
    BY <2>1, <2>2, <2>3 DEF EveryFlowListed
<1>2. QED
  BY <1>1, ListingInvariance, PTL

-----------------------------------------------------------------------------
(* A flow has finitely many jobs.                                           *)
LEMMA JobsFinite == ASSUME NEW f \in Flow PROVE IsFiniteSet(Range(JobsOf[f]))
<1> DEFINE s == JobsOf[f]
<1>1. s \in Seq(Job)
  BY ListingAssumption
<1>2. Len(s) \in Nat /\ DOMAIN s = 1..Len(s)
  BY <1>1, LenProperties
<1>3. s \in [1..Len(s) -> Job]
  BY <1>1, LenProperties
<1>4. s \in Surjection(1..Len(s), Range(s))
  <2> HIDE DEF s
  <2>1. QED
    BY <1>2, <1>3 DEF Surjection, Range
<1>5. QED
  BY <1>2, <1>4, FS_Interval, FS_Surjection

(* One failed job makes the roll-up FAILED.                                 *)
LEMMA FailedFirst == ASSUME NEW d, "Failed" \in d PROVE AggregateFlowStatus(d) = "FAILED"
<1>1. ~ (d = {})
  OBVIOUS
<1>2. QED
  BY <1>1 DEF AggregateFlowStatus

(* A final roll-up of some statuses is that of any later ones which keep    *)
(* the final statuses, and the done jobs stay done.                         *)
LEMMA FinalRollup ==
  ASSUME NEW f \in Flow, NEW st \in Statuses(f), NEW now \in Statuses(f),
         \A j \in DOMAIN st : IsTerminal(st[j]) /\ st[j] # None => now[j] = st[j],
         AggregateFlowStatus(Displays(f, st)) \in {"FAILED", "DONE", "PARTIAL"}
  PROVE  AggregateFlowStatus(Displays(f, st)) = AggregateFlowStatus(Displays(f, now))
<1> DEFINE J == Range(JobsOf[f])
           d == Displays(f, st)
           e == Displays(f, now)
<1>1. DOMAIN st = J /\ DOMAIN now = J
  BY DEF Statuses
<1>2. \A j \in J : Shown(st, j) \in {"Failed", "Success", "Skipped"} => Shown(now, j) = Shown(st, j)
  BY <1>1 DEF Shown, IsTerminal
<1>3. CASE "Failed" \in d
  <2>1. "Failed" \in e
    BY <1>2, <1>3 DEF Displays
  <2> HIDE DEF d, e
  <2>2. AggregateFlowStatus(d) = "FAILED" /\ AggregateFlowStatus(e) = "FAILED"
    BY <1>3, <2>1, FailedFirst
  <2>3. QED
    BY <2>2 DEF d, e
<1>4. CASE d \subseteq {"Success", "Skipped"}
  <2>1. \A j \in J : Shown(now, j) = Shown(st, j)
    BY <1>2, <1>4 DEF Displays
  <2>2. d = e
    BY <2>1 DEF Displays
  <2>3. QED
    BY <2>2
<1>5. "Failed" \in d \/ d \subseteq {"Success", "Skipped"}
  <2> SUFFICES ASSUME "Failed" \notin d PROVE d \subseteq {"Success", "Skipped"}
    OBVIOUS
  <2> HIDE DEF d
  <2>1. AggregateFlowStatus(d) \in {"FAILED", "DONE", "PARTIAL"}
    BY DEF d
  <2>2. d # {} /\ "Running" \notin d /\ "Queued" \notin d
    BY <2>1 DEF AggregateFlowStatus
  <2>3. d = {"Success"} \/ d \in {{"Skipped"}, {"Skipped", "Success"}}
    BY <2>1, <2>2 DEF AggregateFlowStatus
  <2>4. QED
    BY <2>3
<1>6. QED
  BY <1>3, <1>4, <1>5

(* However the ticks write between the reads of one flow's status files, a  *)
(* final roll-up is still true of the files when the listing is done, and   *)
(* so are the jobs counted as done.                                         *)
THEOREM RollupHolds == Spec => []RollupFinal
<1>1. ASSUME LInv, pc = "listed", NEW i \in DOMAIN rows
      PROVE  LET r == rows[i]
                 now == [flow |-> r.flow, statuses |-> status[r.flow]]
                 shown == AggregateFlowStatus(Displays(r.flow, r.statuses))
             IN  /\ shown \in {"FAILED", "DONE", "PARTIAL"} =>
                      shown = AggregateFlowStatus(Displays(now.flow, now.statuses))
                 /\ Done(r) <= Done(now)
  <2> DEFINE r == rows[i]
             f == r.flow
             st == r.statuses
             files1 == status[f]
             now == [flow |-> f, statuses |-> files1]
             J == Range(JobsOf[f])
  <2>1. r \in Row
    BY <1>1, LenProperties, ElementOfSeq DEF LInv, Typed
  <2>2. f \in Flow /\ st \in Statuses(f)
    BY <2>1 DEF Row
  <2>3. files1 \in Statuses(f)
    BY <1>1, <2>2 DEF LInv, Typed
  <2>4. \A j \in DOMAIN st : IsTerminal(st[j]) /\ st[j] # None => files1[j] = st[j]
    BY <1>1 DEF LInv, SeenFits, Fresh
  <2>5. now.flow = f /\ now.statuses = files1
    OBVIOUS
  <2> HIDE DEF r, f, st, files1, now, J
  <2>6. AggregateFlowStatus(Displays(f, st)) \in {"FAILED", "DONE", "PARTIAL"} =>
          AggregateFlowStatus(Displays(f, st)) = AggregateFlowStatus(Displays(f, files1))
    BY <2>2, <2>3, <2>4, FinalRollup
  <2>7. {j \in J : Shown(st, j) = "Success"} \subseteq {j \in J : Shown(files1, j) = "Success"}
    <3>1. DOMAIN st = J
      BY <2>2 DEF Statuses, J
    <3>2. QED
      BY <2>4, <3>1 DEF Shown, IsTerminal
  <2>8. Done(r) <= Done(now)
    <3>1. IsFiniteSet({j \in J : Shown(files1, j) = "Success"})
      BY <2>2, JobsFinite, FS_Subset DEF J
    <3>2. Cardinality({j \in J : Shown(st, j) = "Success"})
            <= Cardinality({j \in J : Shown(files1, j) = "Success"})
      BY <2>7, <3>1, FS_Subset
    <3>3. Done(r) = Cardinality({j \in J : Shown(st, j) = "Success"})
      BY DEF Done, J, f, st
    <3>4. Done(now) = Cardinality({j \in J : Shown(files1, j) = "Success"})
      BY <2>5 DEF Done, J
    <3>5. QED
      BY <3>2, <3>3, <3>4
  <2>9. QED
    BY <2>5, <2>6, <2>8 DEF r, f, st, files1, now
<1>2. LInv => RollupFinal
  BY <1>1 DEF RollupFinal
<1>3. QED
  BY <1>2, ListingInvariance, PTL

-----------------------------------------------------------------------------
\* The collected flows of a listing that is done, the newest first.
RowsFall ==
  pc = "listed" => \A i, k \in DOMAIN rows : i < k => rows[i].flow > rows[k].flow

(* Whatever order the concurrent reads ended in, the rows of a listing that *)
(* is done are in falling order of created_at, no flow twice: what the      *)
(* filters and limits of `jm ls` then take from.                            *)
THEOREM SortedHolds == Spec => []RowsFall
<1>1. Init => RowsFall
  BY DEF Init, RowsFall
<1>2. ASSUME LInv, LInv', RowsFall, [Next]_vars PROVE RowsFall'
  <2>1. CASE Sort
    <3>1. pc' = "listed" /\ rows' = NewestToOldest
      BY <2>1 DEF Sort
    <3>2. PICK p \in [DOMAIN rows -> DOMAIN rows] :
            /\ rows' = [i \in DOMAIN rows |-> rows[p[i]]]
            /\ \A i, k \in DOMAIN rows : i < k => rows[p[i]].flow >= rows[p[k]].flow
      BY <1>2, <3>1, SortedRows DEF LInv
    <3>3. \A i, k \in DOMAIN rows' : rows'[i].flow = rows'[k].flow => i = k
      BY <1>2, <3>1 DEF LInv, Places
    <3>4. rows' \in Seq(Row) /\ DOMAIN rows' \subseteq Nat /\ DOMAIN rows' = DOMAIN rows
      BY <1>2, <3>2, LenProperties DEF LInv, Typed
    <3>5. \A i \in DOMAIN rows' : rows'[i].flow \in Nat
      <4>1. \A i \in DOMAIN rows' : rows'[i] \in Row
        BY <3>4, LenProperties, ElementOfSeq
      <4>2. QED
        BY <4>1, ListingAssumption DEF Row
    <3>6. ASSUME NEW i \in DOMAIN rows', NEW k \in DOMAIN rows', i < k
          PROVE  rows'[i].flow > rows'[k].flow
      <4>1. rows'[i].flow >= rows'[k].flow
        BY <3>2, <3>4, <3>6
      <4>2. rows'[i].flow # rows'[k].flow
        BY <3>3, <3>4, <3>6
      <4>3. QED
        BY <3>5, <4>1, <4>2
    <3>7. QED
      BY <3>6 DEF RowsFall
  <2>2. CASE pc' # "listed"
    BY <2>2 DEF RowsFall
  <2>3. CASE pc' = pc /\ rows' = rows
    BY <1>2, <2>3 DEF RowsFall
  <2>4. Sort \/ pc' # "listed" \/ (pc' = pc /\ rows' = rows)
    <3>1. CASE UNCHANGED vars
      BY <3>1 DEF vars
    <3>2. ASSUME NEW f \in Flow, MakerStep(f) \/ EditFlowToml(f) \/ \E j \in Job : WriteStatus(f, j)
          PROVE  pc' = pc /\ rows' = rows
      BY <3>2 DEF MakerStep, Mkdir, WriteFlow, WritePlan, WriteFails, Rollback, MakerStops,
                  EditFlowToml, WriteStatus
    <3>3. ASSUME NEW f \in Flow, CollectStep(f)
          PROVE  pc' # "listed" \/ (pc' = pc /\ rows' = rows)
      BY <3>3 DEF CollectStep, CandidatePath, Begin, ReadFlow, ReadStatus, Collected
    <3>4. CASE Open \/ NamesEnd \/ CollectStatuses \/ PyWalkFlows \/ Finish
      BY <3>4 DEF Open, NamesEnd, CollectStatuses, PyWalkFlows, Finish
    <3>5. QED
      BY <1>2, <3>1, <3>2, <3>3, <3>4 DEF Next
  <2>5. QED
    BY <2>1, <2>2, <2>3, <2>4
<1>3. QED
  BY <1>1, <1>2, ListingInvariance, PTL DEF Spec

-----------------------------------------------------------------------------
\* What Filtered has pushed after each round.
Pushed(out, T, s, E) ==
  /\ out \in [0..Len(s) -> Seq(T)] /\ out[0] = <<>>
  /\ \A i \in 1..Len(s) :
       out[i] = IF s[i] \in E THEN Append(out[i - 1], s[i]) ELSE out[i - 1]

(* The rounds of Filtered.                                                  *)
LEMMA FilteredLoop ==
  ASSUME NEW T, NEW s \in Seq(T), NEW E
  PROVE  \E out : Pushed(out, T, s, E) /\ Filtered(s, E) = out[Len(s)]
<1> DEFINE n == Len(s)
           V == Seq(T)
           b == <<>>
           Next1(i, v) == IF s[i] \in E THEN Append(v, s[i]) ELSE v
           G == [i \in 1..n |-> [v \in V |-> Next1(i, v)]]
           Loop(f) == f = [i \in 0..n |-> IF i = 0 THEN <<>>
                             ELSE IF s[i] \in E THEN Append(f[i - 1], s[i]) ELSE f[i - 1]]
<1>1. n \in Nat /\ b \in V /\ \A i \in 1..n : s[i] \in T
  BY LenProperties, ElementOfSeq, EmptySeq
<1>2. G \in [1..n -> [V -> V]]
  BY <1>1, AppendProperties
<1>3. PICK f \in [0..n -> V] : f[0] = b /\ \A i \in 1..n : f[i] = G[i][f[i - 1]]
  <2>1. n \in Nat /\ b \in V
    BY <1>1
  <2> HIDE DEF G, V, n, b
  <2>2. \E f : Rounds(f, n, V, b, G)
    BY <2>1, <1>2, LoopExists
  <2>3. QED
    BY <2>2 DEF Rounds
<1>4. \A i \in 1..n : f[i] = Next1(i, f[i - 1])
  <2> SUFFICES ASSUME NEW i \in 1..n PROVE f[i] = Next1(i, f[i - 1])
    OBVIOUS
  <2>1. i - 1 \in 0..n
    BY <1>1
  <2> HIDE DEF n, V
  <2>2. f[i - 1] \in V /\ f[i] = G[i][f[i - 1]]
    BY <1>3, <2>1
  <2> HIDE DEF Next1
  <2>3. QED
    BY <2>2
<1>5. Loop(f)
  <2> DEFINE g == [i \in 0..n |-> IF i = 0 THEN <<>> ELSE Next1(i, f[i - 1])]
  <2>1. \A i \in 0..n : i = 0 \/ i \in 1..n
    BY <1>1
  <2> HIDE DEF n, V, Next1
  <2>2. \A i \in 0..n : f[i] = g[i]
    BY <1>3, <1>4, <2>1 DEF b
  <2>3. f = g
    BY <1>3, <2>2
  <2>4. QED
    BY <2>3 DEF Next1
<1> DEFINE out == CHOOSE g : Loop(g)
<1>6. Filtered(s, E) = out[n]
  BY DEF Filtered
<1>7. Loop(out)
  <2> HIDE DEF Loop
  <2>1. QED
    BY <1>5
<1> HIDE DEF out
<1>8. out[0] = b /\ \A i \in 1..n : out[i] = Next1(i, out[i - 1])
  <2>1. out = [i \in 0..n |-> IF i = 0 THEN <<>> ELSE Next1(i, out[i - 1])]
    BY <1>7
  <2>2. 0 \in 0..n /\ \A i \in 1..n : i \in 0..n /\ i # 0
    BY <1>1
  <2> HIDE DEF n, Next1, Loop
  <2>3. QED
    BY <2>1, <2>2
<1>9. DOMAIN out = 0..n
  BY <1>7
<1>10. out \in [0..n -> V]
  <2>1. ASSUME NEW i \in 0..n PROVE out[i] \in V
    <3> DEFINE P == {k \in 0..i : out[k] \in V}
    <3>1. 0 \in P /\ i \in Nat
      <4>1. i \in Nat /\ 0 \in 0..i /\ out[0] \in V
        BY <1>1, <1>8
      <4>2. QED
        BY <4>1
    <3>2. ASSUME NEW k \in 1..i, k - 1 \in P PROVE k \in P
      <4>1. k \in 1..n /\ out[k] = Next1(k, out[k - 1]) /\ out[k - 1] \in V /\ s[k] \in T
        BY <1>1, <1>8, <3>2
      <4>2. Next1(k, out[k - 1]) \in V
        BY <4>1, AppendProperties
      <4> HIDE DEF Next1
      <4>3. QED
        BY <4>1, <4>2
    <3>3. P \in SUBSET (0..i)
      OBVIOUS
    <3> HIDE DEF P
    <3>4. i \in P
      BY <3>1, <3>2, <3>3, Climb
    <3>5. QED
      BY <3>4 DEF P
  <2>2. out = [i \in 0..n |-> out[i]]
    BY <1>7, <1>9
  <2>3. QED
    BY <2>1, <2>2
<1>11. Pushed(out, T, s, E)
  BY <1>8, <1>10 DEF b, Pushed
<1>12. QED
  BY <1>6, <1>11

\* out has the entries of the first n of s that are in E, in their order; q says
\* which is where.
Picks(q, s, E, n, out) ==
  /\ q \in [DOMAIN out -> 1..n]
  /\ \A i \in DOMAIN out : out[i] = s[q[i]] /\ s[q[i]] \in E
  /\ \A i, k \in DOMAIN out : i < k => q[i] < q[k]
  /\ \A m \in 1..n : s[m] \in E => \E i \in DOMAIN out : q[i] = m

(* What Filtered gives: the entries in E and no other, in their order.      *)
LEMMA FilteredPicks ==
  ASSUME NEW T, NEW s \in Seq(T), NEW E
  PROVE  /\ Filtered(s, E) \in Seq(T)
         /\ \E q : Picks(q, s, E, Len(s), Filtered(s, E))
<1> DEFINE n == Len(s)
<1>1. n \in Nat /\ \A i \in 1..n : s[i] \in T
  BY LenProperties, ElementOfSeq
<1>2. PICK out :
        /\ out \in [0..n -> Seq(T)] /\ out[0] = <<>> /\ Filtered(s, E) = out[n]
        /\ \A i \in 1..n : out[i] = IF s[i] \in E THEN Append(out[i - 1], s[i]) ELSE out[i - 1]
  <2>1. PICK out : Pushed(out, T, s, E) /\ Filtered(s, E) = out[n]
    BY FilteredLoop
  <2>2. QED
    BY <2>1 DEF Pushed
<1> DEFINE P == {m \in 0..n : \E q : Picks(q, s, E, m, out[m])}
<1> HIDE DEF n
<1>3. 0 \in P
  <2>1. Picks(<<>>, s, E, 0, <<>>)
    BY DEF Picks
  <2>2. 0 \in 0..n
    BY <1>1
  <2>3. QED
    BY <1>2, <2>1, <2>2
<1>4. ASSUME NEW m \in 1..n, m - 1 \in P PROVE m \in P
  <2>1. PICK q : Picks(q, s, E, m - 1, out[m - 1])
    BY <1>4
  <2>2. /\ m \in Nat /\ m - 1 \in Nat /\ m - 1 \in 0..n
        /\ \A i \in 1..m : i = m \/ i \in 1..(m - 1)
        /\ \A i \in 1..(m - 1) : i \in 1..m /\ i < m
    BY <1>1
  <2> DEFINE v == out[m - 1]
             l == Len(v)
  <2>3. v \in Seq(T) /\ l \in Nat /\ DOMAIN v = 1..l
    BY <1>2, <2>2, LenProperties
  <2>4. /\ q \in [DOMAIN v -> 1..(m - 1)]
        /\ \A i \in DOMAIN v : v[i] = s[q[i]] /\ s[q[i]] \in E
        /\ \A i, k \in DOMAIN v : i < k => q[i] < q[k]
        /\ \A x \in 1..(m - 1) : s[x] \in E => \E i \in DOMAIN v : q[i] = x
    BY <2>1 DEF Picks
  <2>5. CASE s[m] \notin E
    <3>1. out[m] = v
      BY <1>2, <2>5
    <3> HIDE DEF v, l
    <3>2. Picks(q, s, E, m, v)
      BY <2>2, <2>4, <2>5 DEF Picks
    <3>3. QED
      BY <1>1, <2>2, <3>1, <3>2
  <2>6. CASE s[m] \in E
    <3> DEFINE w == Append(v, s[m])
               r == [i \in 1..(l + 1) |-> IF i = l + 1 THEN m ELSE q[i]]
    <3>1. out[m] = w
      BY <1>2, <2>6
    <3> HIDE DEF v, l
    <3>2. /\ w \in Seq(T) /\ DOMAIN w = 1..(l + 1) /\ w[l + 1] = s[m]
          /\ \A i \in 1..l : w[i] = v[i]
      BY <1>1, <2>3, AppendProperties, LenProperties DEF l
    <3>3. \A i \in 1..(l + 1) : i = l + 1 \/ i \in 1..l
      BY <2>3
    <3>4. /\ r[l + 1] = m /\ DOMAIN r = 1..(l + 1) /\ l + 1 \in 1..(l + 1)
          /\ \A i \in 1..l : i # l + 1 /\ i \in 1..(l + 1) /\ r[i] = q[i] /\ q[i] \in 1..(m - 1)
      BY <2>3, <2>4
    <3> HIDE DEF w
    <3>5. r \in [1..(l + 1) -> 1..m]
      <4>1. \A i \in 1..(l + 1) : r[i] \in 1..m
        <5> HIDE DEF r
        <5>1. QED
          BY <2>2, <3>3, <3>4
      <4>2. r = [i \in 1..(l + 1) |-> r[i]]
        OBVIOUS
      <4> HIDE DEF r
      <4>3. QED
        BY <4>1, <4>2
    <3> HIDE DEF r
    <3>6. \A i \in 1..(l + 1) : w[i] = s[r[i]] /\ s[r[i]] \in E
      BY <2>3, <2>4, <2>6, <3>2, <3>3, <3>4
    <3>7. ASSUME NEW i \in 1..(l + 1), NEW k \in 1..(l + 1), i < k PROVE r[i] < r[k]
      <4>1. i \in 1..l
        BY <2>3, <3>7
      <4>2. CASE k = l + 1
        BY <2>2, <3>4, <4>1, <4>2
      <4>3. CASE k # l + 1
        <5>1. k \in 1..l
          BY <3>3, <4>3
        <5>2. q[i] < q[k]
          BY <2>3, <2>4, <3>7, <4>1, <5>1
        <5>3. QED
          BY <3>4, <4>1, <5>1, <5>2
      <4>4. QED
        BY <4>2, <4>3
    <3>8. ASSUME NEW x \in 1..m, s[x] \in E PROVE \E i \in 1..(l + 1) : r[i] = x
      <4>1. CASE x = m
        BY <3>4, <4>1
      <4>2. CASE x # m
        <5>1. PICK i \in 1..l : q[i] = x
          BY <2>2, <2>3, <2>4, <3>8, <4>2
        <5>2. QED
          BY <3>4, <5>1
      <4>3. QED
        BY <4>1, <4>2
    <3>9. Picks(r, s, E, m, w)
      BY <3>2, <3>5, <3>6, <3>7, <3>8 DEF Picks
    <3>10. QED
      BY <1>1, <2>2, <3>1, <3>9
  <2>7. QED
    BY <2>5, <2>6
<1>5. n \in P
  <2>1. P \in SUBSET (0..n)
    OBVIOUS
  <2> HIDE DEF P
  <2>2. QED
    BY <1>1, <1>3, <1>4, <2>1, Climb
<1>6. out[n] \in Seq(T)
  BY <1>1, <1>2
<1>7. QED
  BY <1>2, <1>5, <1>6 DEF n

(* A limit keeps the first entries, at least one.                           *)
LEMMA CutKeeps ==
  ASSUME NEW T, NEW s \in Seq(T), NEW n \in Nat
  PROVE  FirstRows(Cut(s, n), Cut(s, None), IF n = 0 THEN 1 ELSE n)
<1> DEFINE l == Len(s)
           m == IF l < n THEN l ELSE IF s # <<>> /\ n = 0 THEN 1 ELSE n
           keep == IF n = 0 THEN 1 ELSE n
<1>1. l \in Nat /\ \A i \in 1..l : s[i] \in T
  BY LenProperties, ElementOfSeq
<1>2. s = <<>> <=> l = 0
  BY EmptySeq
<1>3. Cut(s, None) = s /\ Cut(s, n) = SubSeq(s, 1, m)
  BY ListingAssumption DEF Cut
<1>4. m \in Nat /\ m <= l /\ m = IF l < keep THEN l ELSE keep
  BY <1>1, <1>2
<1> HIDE DEF m, l
<1>5. \A i \in 1..m : s[i] \in T
  BY <1>1, <1>4
<1>6. /\ SubSeq(s, 1, m) \in Seq(T) /\ Len(SubSeq(s, 1, m)) = m
      /\ \A i \in 1..m : SubSeq(s, 1, m)[i] = s[i]
  BY <1>4, <1>5, SubSeqProperties
<1>7. DOMAIN SubSeq(s, 1, m) = 1..m
  BY <1>6, LenProperties
<1>8. QED
  BY <1>3, <1>4, <1>6, <1>7 DEF FirstRows, l

\* The rows that `jm ls jobs` can print.
Printed == {JobRow(r, j) : r \in Row, j \in Job}

(* The rows of one flow are a list of printed rows, whatever the filter.    *)
LEMMA RowsOfList == ASSUME NEW r \in Row, NEW x PROVE RowsOf(r, x) \in Seq(Printed)
<1> DEFINE all == JobsOf[r.flow]
           jobs == Filtered(all, {j \in Range(all) : Matches(r.flow, j, r.statuses, x)})
<1>1. all \in Seq(Job)
  BY ListingAssumption DEF Row
<1>2. jobs \in Seq(Job)
  <2> HIDE DEF all
  <2>1. QED
    BY <1>1, FilteredPicks
<1>3. RowsOf(r, x) = [k \in DOMAIN jobs |-> JobRow(r, jobs[k])]
  BY DEF RowsOf
<1> HIDE DEF jobs
<1>4. Len(jobs) \in Nat /\ DOMAIN jobs = 1..Len(jobs) /\ \A k \in DOMAIN jobs : jobs[k] \in Job
  BY <1>2, LenProperties, ElementOfSeq
<1>5. \A k \in DOMAIN jobs : JobRow(r, jobs[k]) \in Printed
  BY <1>4 DEF Printed
<1> HIDE DEF Printed
<1>6. RowsOf(r, x) \in [1..Len(jobs) -> Printed]
  BY <1>3, <1>4, <1>5
<1>7. QED
  BY <1>4, <1>6, SeqDef

(* Without a limit, `jm ls jobs` prints a list of rows.                     *)
LEMMA JobRowsList ==
  ASSUME NEW R, R \in Seq(Row), R = rows, NEW x
  PROVE  FlattenSeq([i \in DOMAIN R |-> RowsOf(R[i], x)]) \in Seq(Printed)
<1> DEFINE s == [i \in DOMAIN R |-> RowsOf(R[i], x)]
<1>1. Len(R) \in Nat /\ DOMAIN R = 1..Len(R) /\ \A i \in DOMAIN R : R[i] \in Row
  BY LenProperties, ElementOfSeq
<1>2. s \in [1..Len(R) -> Seq(Printed)]
  BY <1>1, RowsOfList
<1> HIDE DEF s
<1>3. s \in Seq(Seq(Printed))
  BY <1>1, <1>2, SeqDef
<1>4. Len(s) \in Nat
  BY <1>3, LenProperties
<1>5. PICK out : Joined(out, Printed, s) /\ FlattenSeq(s) = out[Len(s)]
  BY <1>3, FlattenLoop
<1>6. QED
  BY <1>4, <1>5 DEF Joined, s

(* `jm ls flows` shows the flows newest first whatever order the concurrent *)
(* reads ended in and whatever is asked for, and a limit keeps the first    *)
(* rows of what is shown without one, at least one, of the jobs too.        *)
THEOREM NewestHolds == Spec => []NewestFirst
<1>1. ASSUME LInv, RowsFall, pc = "listed", NEW x \in Filters
      PROVE  LET all == MatchedFlows(x, None) IN
             /\ \A i, k \in DOMAIN all : i < k => all[i].flow > all[k].flow
             /\ \A n \in 0..MaxLimit :
                  LET rowsKept == IF n = 0 THEN 1 ELSE n
                  IN  /\ FirstRows(MatchedFlows(x, n), all, rowsKept)
                      /\ FirstRows(JobRows(x, n), JobRows(x, None), rowsKept)
  <2> DEFINE shown == Filtered(rows, {r \in Range(rows) : Include(r, x)})
             jobs == FlattenSeq([i \in DOMAIN rows |-> RowsOf(rows[i], x)])
  <2>1. rows \in Seq(Row)
    BY <1>1 DEF LInv, Typed
  <2>2. PICK R : R = rows
    OBVIOUS
  <2>3. PICK E : E = {r \in Range(rows) : Include(r, x)}
    OBVIOUS
  <2>4. Filtered(R, E) \in Seq(Row) /\ \E q : Picks(q, R, E, Len(R), Filtered(R, E))
    BY <2>1, <2>2, FilteredPicks
  <2>5. shown = Filtered(R, E)
    BY <2>2, <2>3
  <2>6. jobs \in Seq(Printed)
    BY <2>1, <2>2, JobRowsList
  <2>7. /\ \A limit : MatchedFlows(x, limit) = Cut(shown, limit)
        /\ \A limit : JobRows(x, limit) = Cut(jobs, limit)
    BY DEF MatchedFlows, JobRows
  <2>8. MatchedFlows(x, None) = shown
    BY <2>7 DEF Cut
  <2> HIDE DEF shown, jobs
  <2>9. ASSUME NEW i \in DOMAIN shown, NEW k \in DOMAIN shown, i < k
        PROVE  shown[i].flow > shown[k].flow
    <3>1. PICK q : Picks(q, R, E, Len(R), shown)
      BY <2>4, <2>5
    <3>2. DOMAIN rows = 1..Len(R)
      BY <2>1, <2>2, LenProperties
    <3>3. /\ q[i] \in DOMAIN rows /\ q[k] \in DOMAIN rows /\ q[i] < q[k]
          /\ shown[i] = rows[q[i]] /\ shown[k] = rows[q[k]]
      BY <2>2, <2>9, <3>1, <3>2 DEF Picks
    <3>4. QED
      BY <1>1, <3>3 DEF RowsFall
  <2>10. ASSUME NEW n \in 0..MaxLimit
         PROVE  /\ FirstRows(MatchedFlows(x, n), shown, IF n = 0 THEN 1 ELSE n)
                /\ FirstRows(JobRows(x, n), JobRows(x, None), IF n = 0 THEN 1 ELSE n)
    <3>1. n \in Nat
      BY ListingAssumption
    <3>2. PICK S, J : S = shown /\ J = jobs
      OBVIOUS
    <3>3. S \in Seq(Row) /\ J \in Seq(Printed)
      BY <2>4, <2>5, <2>6, <3>2
    <3>4. /\ FirstRows(Cut(S, n), Cut(S, None), IF n = 0 THEN 1 ELSE n)
          /\ FirstRows(Cut(J, n), Cut(J, None), IF n = 0 THEN 1 ELSE n)
      BY <3>1, <3>3, CutKeeps
    <3>5. MatchedFlows(x, n) = Cut(S, n) /\ shown = Cut(S, None)
      BY <2>7, <2>8, <3>2
    <3>6. JobRows(x, n) = Cut(J, n) /\ JobRows(x, None) = Cut(J, None)
      BY <2>7, <3>2
    <3>7. QED
      BY <3>4, <3>5, <3>6
  <2>11. QED
    BY <2>8, <2>9, <2>10
<1>2. LInv /\ RowsFall => NewestFirst
  BY <1>1 DEF NewestFirst
<1>3. QED
  BY <1>2, ListingInvariance, SortedHolds, PTL
==============================================================================
