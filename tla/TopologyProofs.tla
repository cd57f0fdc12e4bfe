--------------------------- MODULE TopologyProofs ---------------------------
(***************************************************************************)
(* For every number of jobs and every flow over them, an order that        *)
(* topological_order returns is sound, it returns one exactly when there   *)
(* is one, and the error names exactly the jobs that no order can hold.    *)
(*                                                                         *)
(* The argument.  A job's count is the number of its edges minus the       *)
(* number of DISTINCT parents visited (CountsLeft), so a count of zero     *)
(* means that every parent was visited (AllPlaced): the jobs in the queue  *)
(* and in the order have count zero (LineReady) and a job is appended only *)
(* after its parents (ParentsFirst).  No job stands twice in the order or  *)
(* the queue (NoRepeat), so N entries are all N jobs.  A job of count zero *)
(* is in the queue or the order (ZeroListed): when the queue is empty, the *)
(* jobs left each wait for one of themselves.                              *)
(***************************************************************************)
EXTENDS Topology, Lists, FiniteSetTheorems

CountsLeft ==
  \A j \in Job : indeg[j] + Cardinality(Refs(j) \cap Placed) = Len(parents[j])

LineReady ==
  /\ \A i \in DOMAIN order : indeg[order[i]] = 0
  /\ \A i \in DOMAIN queue : indeg[queue[i]] = 0

NoRepeat ==
  /\ \A i, k \in DOMAIN order : order[i] = order[k] => i = k
  /\ \A i, k \in DOMAIN queue : queue[i] = queue[k] => i = k
  /\ \A i \in DOMAIN order, k \in DOMAIN queue : order[i] # queue[k]

ParentsFirst ==
  \A i \in DOMAIN order : \A r \in Refs(order[i]) : Precedes(r, i)

ReturnFinal ==
  /\ result # "Running" => queue = <<>>
  /\ result = "Ok" => Len(order) = N

IInv == TypeOK /\ CountsLeft /\ LineReady /\ NoRepeat /\ ParentsFirst /\ ReturnFinal

\* A job that waits for nothing is in one of the two lists.
ZeroListed ==
  \A j \in Job : indeg[j] = 0 => j \in Placed \/ \E i \in DOMAIN queue : queue[i] = j

CycleFinal == result = "DependencyCycle" => Len(order) # N

ListedInv == IInv /\ ZeroListed /\ CycleFinal

-----------------------------------------------------------------------------
(* A list has at most as many elements as entries.                          *)
LEMMA RangeSize ==
  ASSUME NEW S, NEW s \in Seq(S)
  PROVE  LET R == {s[i] : i \in DOMAIN s}
         IN  IsFiniteSet(R) /\ Cardinality(R) <= Len(s)
<1> DEFINE R == {s[i] : i \in DOMAIN s}
<1>1. Len(s) \in Nat /\ DOMAIN s = 1..Len(s)
  BY LenProperties
<1>2. IsFiniteSet(1..Len(s)) /\ Cardinality(1..Len(s)) = Len(s)
  BY <1>1, FS_Interval
<1>3. s \in Surjection(1..Len(s), R)
  BY <1>1, LenProperties DEF Surjection
<1>4. QED
  BY <1>2, <1>3, FS_Surjection

(* Seq holds every finite function from 1..n.                               *)
LEMMA ListIsSeq ==
  ASSUME NEW S, NEW n \in Nat, NEW q \in [1..n -> S]
  PROVE  q \in Seq(S) /\ Len(q) = n /\ DOMAIN q = 1..n
<1>1. q \in Seq(S)
  BY SeqDef
<1>2. QED
  BY <1>1, LenProperties

(* What Ascending returns: a list of S without repetition, when S is finite.*)
LEMMA AscendingList ==
  ASSUME NEW S \in SUBSET Int, IsFiniteSet(S), NEW q \in Ascending(S)
  PROVE  /\ q \in Seq(S)
         /\ \A i, k \in DOMAIN q : q[i] = q[k] => i = k
<1>1. Cardinality(S) \in Nat
  BY FS_CardinalityType
<1>2. q \in Seq(S) /\ DOMAIN q = 1..Cardinality(S)
  BY <1>1, ListIsSeq DEF Ascending
<1>3. \A i, k \in DOMAIN q : q[i] \in Int /\ (i < k => q[i] < q[k])
  BY <1>2, LenProperties, ElementOfSeq DEF Ascending
<1>4. QED
  BY <1>1, <1>2, <1>3

(* The parents a job names, as a set.                                       *)
LEMMA RefsFinite ==
  ASSUME TypeOK, NEW j \in Job
  PROVE  /\ parents[j] \in Seq(Ref)
         /\ Len(parents[j]) \in Nat
         /\ IsFiniteSet(Refs(j))
         /\ Cardinality(Refs(j)) <= Len(parents[j])
         /\ IsFiniteSet(Refs(j) \cap Placed)
         /\ Cardinality(Refs(j) \cap Placed) \in Nat
         /\ Cardinality(Refs(j)) \in Nat
<1>1. parents[j] \in Seq(Ref) /\ Len(parents[j]) \in Nat
  BY LenProperties DEF TypeOK
<1>2. IsFiniteSet(Refs(j)) /\ Cardinality(Refs(j)) <= Len(parents[j])
  BY <1>1, RangeSize DEF Refs
<1>3. IsFiniteSet(Refs(j) \cap Placed)
  BY <1>2, FS_Subset
<1>4. QED
  BY <1>1, <1>2, <1>3, FS_CardinalityType

(* A job whose count is zero has all its parents in the order.              *)
LEMMA AllPlaced ==
  ASSUME TypeOK, CountsLeft, NEW j \in Job, indeg[j] = 0
  PROVE  Refs(j) \subseteq Placed
<1> DEFINE C == Cardinality(Refs(j) \cap Placed)
<1>1. C = Len(parents[j])
  <2>1. C \in Nat /\ Len(parents[j]) \in Nat
    BY RefsFinite
  <2>2. 0 + C = Len(parents[j])
    BY DEF CountsLeft
  <2>3. QED
    BY <2>1, <2>2
<1>2. Cardinality(Refs(j) \cap Placed) <= Cardinality(Refs(j))
  BY RefsFinite, FS_Subset
<1>3. Cardinality(Refs(j) \cap Placed) = Cardinality(Refs(j))
  BY <1>1, <1>2, RefsFinite
<1>4. Refs(j) \cap Placed = Refs(j)
  BY <1>3, RefsFinite, FS_Subset
<1>5. QED
  BY <1>4

(* There are finitely many jobs.                                            *)
LEMMA JobFinite == IsFiniteSet(Job) /\ Cardinality(Job) = N
<1>1. 1 \in Int /\ N \in Int /\ N \in Nat
  BY SizeAssumption
<1>2. IsFiniteSet(1..N) /\ Cardinality(1..N) = N
  BY <1>1, FS_Interval
<1>3. QED
  BY <1>2 DEF Job

-----------------------------------------------------------------------------
LEMMA InitIInv == Init => IInv
<1> SUFFICES ASSUME Init PROVE IInv
  OBVIOUS
<1> USE SizeAssumption
<1>1. parents \in [Job -> Seq(Ref)]
  <2>1. ASSUME NEW l \in UNION {[1..n -> Ref] : n \in 0..MaxParents}
        PROVE  l \in Seq(Ref)
    BY <2>1, ListIsSeq
  <2>2. QED
    BY <2>1 DEF EdgeCount, Init
<1>2. \A j \in Job : Len(parents[j]) \in Nat
  BY <1>1, LenProperties
<1> DEFINE Free == {j \in Job : Len(parents[j]) = 0}
<1>3. Free \subseteq Job /\ Free \in SUBSET Int /\ IsFiniteSet(Free)
  <2>1. Free \subseteq Job /\ Job \subseteq Int
    BY DEF Job
  <2>2. QED
    BY <2>1, JobFinite, FS_Subset
<1>4. queue \in Seq(Free) /\ \A i, k \in DOMAIN queue : queue[i] = queue[k] => i = k
  BY <1>3, AscendingList DEF EdgeCount, Init
<1>5. queue \in Seq(Job)
  BY <1>3, <1>4, SeqMonotonic
<1>6. TypeOK
  BY <1>1, <1>2, <1>5, EmptySeq DEF EdgeCount, Init, TypeOK
<1>7. DOMAIN order = {} /\ Placed = {}
  BY DEF EdgeCount, Init, Placed
<1>8. CountsLeft
  BY <1>2, <1>7, FS_EmptySet DEF EdgeCount, Init, CountsLeft
<1>9. LineReady
  BY <1>4, <1>7, LenProperties, ElementOfSeq DEF EdgeCount, Init, LineReady
<1>10. NoRepeat /\ ParentsFirst /\ ReturnFinal
  BY <1>4, <1>7 DEF EdgeCount, Init, NoRepeat, ParentsFirst, ReturnFinal
<1>11. QED
  BY <1>6, <1>8, <1>9, <1>10 DEF IInv

LEMMA VisitIInv == IInv /\ Visit => IInv'
<1> SUFFICES ASSUME IInv, Visit PROVE IInv'
  OBVIOUS
<1> USE DEF IInv
<1> DEFINE jid == Head(queue)
           n == Len(order)
           New == {o \in Lowered(jid) : indeg[o] = 1}
<1>1. /\ queue \in Seq(Job) /\ order \in Seq(Job) /\ indeg \in [Job -> Nat]
      /\ n \in Nat /\ DOMAIN order = 1..n
      /\ Len(queue) \in Nat /\ DOMAIN queue = 1..Len(queue)
  BY LenProperties DEF TypeOK
<1>2. /\ jid \in Job /\ jid = queue[1] /\ Tail(queue) \in Seq(Job)
      /\ Len(queue) > 0 /\ Len(Tail(queue)) = Len(queue) - 1
      /\ \A i \in 1..(Len(queue) - 1) : Tail(queue)[i] = queue[i + 1]
  BY <1>1, HeadTailProperties, EmptySeq DEF Visit
<1>3. /\ order' \in Seq(Job) /\ DOMAIN order' = 1..(n + 1)
      /\ order'[n + 1] = jid
      /\ \A i \in 1..n : order'[i] = order[i]
  BY <1>1, <1>2, LenProperties DEF Visit
<1>4. Placed' = Placed \cup {jid}
  <2>1. Placed' = {order'[i] : i \in 1..(n + 1)} /\ Placed = {order[i] : i \in 1..n}
    BY <1>1, <1>3 DEF Placed
  <2>2. Placed' \subseteq Placed \cup {jid}
    <3> SUFFICES ASSUME NEW i \in 1..(n + 1) PROVE order'[i] \in Placed \cup {jid}
      BY <2>1
    <3>1. i = n + 1 \/ i \in 1..n
      <4> HIDE DEF n
      <4>1. n \in Nat
        BY <1>1
      <4>2. QED
        BY <4>1
    <3>2. CASE i = n + 1
      BY <1>3, <3>2
    <3>3. CASE i \in 1..n
      <4>1. order'[i] = order[i]
        BY <1>3, <3>3
      <4>2. QED
        BY <2>1, <3>3, <4>1
    <3>4. QED
      BY <3>1, <3>2, <3>3
  <2>3. jid \in Placed'
    <3>1. n + 1 \in 1..(n + 1)
      BY <1>1
    <3>2. QED
      BY <1>3, <2>1, <3>1
  <2>4. Placed \subseteq Placed'
    <3> SUFFICES ASSUME NEW i \in 1..n PROVE order[i] \in Placed'
      BY <2>1
    <3>1. i \in 1..(n + 1) /\ order'[i] = order[i]
      BY <1>1, <1>3
    <3>2. QED
      BY <2>1, <3>1
  <2>5. QED
    BY <2>2, <2>3, <2>4
<1>5. jid \notin Placed
  <2>1. 1 \in DOMAIN queue
    BY <1>1, <1>2
  <2>2. \A i \in DOMAIN order : order[i] # queue[1]
    BY <2>1 DEF NoRepeat
  <2>3. QED
    BY <1>2, <2>2 DEF Placed
<1>6. PICK q \in Ascending(New) : queue' = Tail(queue) \o q
  BY DEF Visit
<1>7. New \subseteq Job /\ New \in SUBSET Int /\ IsFiniteSet(New)
  <2>1. New \subseteq Job
    BY DEF Lowered
  <2>2. Job \subseteq Int
    BY SizeAssumption DEF Job
  <2>3. QED
    BY <2>1, <2>2, JobFinite, FS_Subset
<1>8. /\ q \in Seq(New) /\ q \in Seq(Job)
      /\ \A i, k \in DOMAIN q : q[i] = q[k] => i = k
      /\ Len(q) \in Nat /\ DOMAIN q = 1..Len(q)
      /\ \A i \in DOMAIN q : q[i] \in New
  BY <1>7, AscendingList, SeqMonotonic, LenProperties, ElementOfSeq
<1> DEFINE m == Len(queue) - 1
<1>9. /\ queue' \in Seq(Job) /\ DOMAIN queue' = 1..(m + Len(q)) /\ m \in Nat
      /\ \A i \in 1..(m + Len(q)) :
           queue'[i] = IF i <= m THEN queue[i + 1] ELSE q[i - m]
  <2>1. /\ Tail(queue) \o q \in Seq(Job)
        /\ Len(Tail(queue) \o q) = Len(Tail(queue)) + Len(q)
        /\ \A i \in 1..(Len(Tail(queue)) + Len(q)) :
             (Tail(queue) \o q)[i] =
               IF i <= Len(Tail(queue)) THEN Tail(queue)[i] ELSE q[i - Len(Tail(queue))]
    BY <1>2, <1>8, ConcatProperties
  <2>2. QED
    BY <1>1, <1>2, <1>6, <1>8, <2>1, LenProperties
<1>10. parents' = parents /\ result' = result /\ \A j \in Job : Refs(j)' = Refs(j)
  BY DEF Visit, Refs
<1>11. indeg' = [o \in Job |-> IF o \in Lowered(jid) THEN indeg[o] - 1 ELSE indeg[o]]
  BY DEF Visit
<1>12. indeg' \in [Job -> Nat]
  BY <1>1, <1>11 DEF Lowered
<1>13. TypeOK'
  BY <1>3, <1>9, <1>10, <1>12 DEF TypeOK
\* A job that names jid still waits for it, so its count is lowered.
<1>14. ASSUME NEW o \in Job, jid \in Refs(o)
       PROVE  o \in Lowered(jid)
  <2>1. Refs(o) # Refs(o) \cap Placed
    BY <1>5, <1>14
  <2>2. /\ Cardinality(Refs(o) \cap Placed) <= Cardinality(Refs(o))
        /\ Cardinality(Refs(o) \cap Placed) # Cardinality(Refs(o))
    BY <2>1, RefsFinite, FS_Subset
  <2>3. indeg[o] > 0
    <3> DEFINE C == Cardinality(Refs(o) \cap Placed)
               K == Cardinality(Refs(o))
    <3>1. indeg[o] + C = Len(parents[o])
      BY DEF CountsLeft
    <3>2. C \in Nat /\ K \in Nat /\ Len(parents[o]) \in Nat /\ K <= Len(parents[o])
      BY RefsFinite
    <3>3. indeg[o] \in Nat /\ C <= K /\ C # K
      BY <1>1, <2>2
    <3> HIDE DEF C, K
    <3>4. QED
      BY <3>1, <3>2, <3>3
  <2>4. QED
    BY <1>14, <2>3 DEF Lowered
<1>15. CountsLeft'
  <2> SUFFICES ASSUME NEW o \in Job
               PROVE  indeg'[o] + Cardinality(Refs(o) \cap Placed') = Len(parents[o])
    BY <1>10 DEF CountsLeft
  <2>1. CASE jid \in Refs(o)
    <3>1. indeg'[o] = indeg[o] - 1
      BY <1>11, <1>14, <2>1
    <3>2. Refs(o) \cap Placed' = (Refs(o) \cap Placed) \cup {jid}
      BY <1>4, <2>1
    <3>3. Cardinality(Refs(o) \cap Placed') = Cardinality(Refs(o) \cap Placed) + 1
      BY <1>5, <3>2, RefsFinite, FS_AddElement
    <3>4. indeg[o] + Cardinality(Refs(o) \cap Placed) = Len(parents[o])
      BY DEF CountsLeft
    <3>5. Cardinality(Refs(o) \cap Placed) \in Nat /\ indeg[o] \in Nat
      BY <1>1, RefsFinite
    <3>6. QED
      BY <3>1, <3>3, <3>4, <3>5
  <2>2. CASE jid \notin Refs(o)
    <3>1. indeg'[o] = indeg[o]
      BY <1>11, <2>2 DEF Lowered
    <3>2. Refs(o) \cap Placed' = Refs(o) \cap Placed
      BY <1>4, <2>2
    <3>3. QED
      BY <3>1, <3>2 DEF CountsLeft
  <2>3. QED
    BY <2>1, <2>2
<1>16. \A o \in Job : indeg[o] = 0 => indeg'[o] = 0
  BY <1>11 DEF Lowered
<1>17. \A o \in New : o \in Job /\ indeg[o] = 1 /\ indeg'[o] = 0
  BY <1>1, <1>11 DEF Lowered
\* An entry of the new queue was in the old one, or joins it with this visit.
<1> DEFINE Old(k) == k + 1 \in DOMAIN queue /\ k + 1 # 1 /\ queue'[k] = queue[k + 1]
           Joins(k) == k - m \in DOMAIN q /\ queue'[k] = q[k - m] /\ queue'[k] \in New
<1>18. ASSUME NEW k \in DOMAIN queue'
       PROVE  k \in Int /\ (k <= m => Old(k)) /\ (~(k <= m) => Joins(k))
  <2>1. k \in 1..(m + Len(q)) /\ m \in Nat /\ Len(q) \in Nat /\ Len(queue) = m + 1
    BY <1>1, <1>8, <1>9, <1>18
  <2>2. CASE k <= m
    <3>1. k + 1 \in 1..Len(queue) /\ k + 1 # 1
      BY <2>1, <2>2
    <3>2. QED
      BY <1>1, <1>9, <2>1, <2>2, <3>1
  <2>3. CASE ~(k <= m)
    <3>1. k - m \in 1..Len(q)
      BY <2>1, <2>3
    <3>2. QED
      BY <1>8, <1>9, <2>1, <2>3, <3>1
  <2>4. QED
    BY <2>1, <2>2, <2>3
<1>19. /\ jid \in Job /\ m \in Nat /\ n \in Nat /\ 1 \in DOMAIN queue /\ queue[1] = jid
       /\ \A l \in DOMAIN order : order[l] \in Job
       /\ \A l \in DOMAIN queue : queue[l] \in Job
  BY <1>1, <1>2, <1>9, ElementOfSeq
<1> HIDE DEF jid, New, m, n
<1>20. \A l \in DOMAIN order' : order'[l] = jid \/ \E k \in DOMAIN order : k = l /\ order'[l] = order[l]
  <2>1. ASSUME NEW l \in 1..(n + 1) PROVE l = n + 1 \/ l \in 1..n
    BY <1>19
  <2>2. QED
    BY <1>1, <1>3, <2>1
<1>21. LineReady'
  <2>1. ASSUME NEW l \in DOMAIN order' PROVE indeg'[order'[l]] = 0
    <3>1. indeg[jid] = 0 /\ \A k \in DOMAIN order : indeg[order[k]] = 0
      BY <1>19 DEF LineReady
    <3>2. QED
      BY <1>16, <1>19, <1>20, <3>1
  <2>2. ASSUME NEW k \in DOMAIN queue' PROVE indeg'[queue'[k]] = 0
    <3>1. CASE k <= m
      <4>1. indeg[queue[k + 1]] = 0 /\ queue[k + 1] \in Job
        BY <1>18, <1>19, <3>1 DEF LineReady, Old
      <4>2. QED
        BY <1>16, <1>18, <3>1, <4>1 DEF Old
    <3>2. CASE ~(k <= m)
      BY <1>17, <1>18, <3>2 DEF Joins
    <3>3. QED
      BY <3>1, <3>2
  <2>3. QED
    BY <2>1, <2>2 DEF LineReady
\* The jobs that join the queue were in neither list: their count was one.
<1>22. /\ \A l \in DOMAIN order : order[l] \notin New
       /\ \A l \in DOMAIN queue : queue[l] \notin New
  BY <1>17 DEF LineReady
<1>23. \A l \in DOMAIN order : order[l] # jid
  BY <1>19 DEF NoRepeat
<1>24. NoRepeat'
  <2>1. ASSUME NEW i \in DOMAIN order', NEW k \in DOMAIN order', order'[i] = order'[k]
        PROVE  i = k
    <3>1. ASSUME NEW l \in DOMAIN order', order'[l] = jid PROVE l = n + 1
      <4>1. l \notin 1..n
        BY <1>1, <1>3, <1>23, <3>1
      <4>2. l \in 1..(n + 1)
        BY <1>3
      <4>3. QED
        BY <1>19, <4>1, <4>2
    <3>2. CASE order'[i] = jid
      BY <2>1, <3>1, <3>2
    <3>3. CASE order'[i] # jid
      BY <1>20, <2>1, <3>3 DEF NoRepeat
    <3>4. QED
      BY <3>2, <3>3
  <2>2. ASSUME NEW i \in DOMAIN queue', NEW k \in DOMAIN queue', queue'[i] = queue'[k]
        PROVE  i = k
    <3>1. i \in Int /\ k \in Int /\ m \in Nat
      BY <1>18, <1>19
    <3>2. CASE Old(i) /\ Old(k)
      <4>1. i + 1 = k + 1
        BY <2>2, <3>2 DEF NoRepeat, Old
      <4>2. QED
        BY <3>1, <4>1
    <3>3. CASE Joins(i) /\ Joins(k)
      <4>1. i - m = k - m
        BY <1>8, <2>2, <3>3 DEF Joins
      <4>2. QED
        BY <3>1, <4>1
    <3>4. CASE Old(i) /\ Joins(k)
      BY <1>22, <2>2, <3>4 DEF Old, Joins
    <3>5. CASE Joins(i) /\ Old(k)
      BY <1>22, <2>2, <3>5 DEF Old, Joins
    <3> HIDE DEF Old, Joins
    <3>6. QED
      BY <1>18, <3>2, <3>3, <3>4, <3>5
  <2>3. ASSUME NEW i \in DOMAIN order', NEW k \in DOMAIN queue'
        PROVE  order'[i] # queue'[k]
    <3>1. CASE Old(k)
      <4>1. queue[k + 1] # jid /\ \A l \in DOMAIN order : order[l] # queue[k + 1]
        BY <1>19, <3>1 DEF NoRepeat, Old
      <4>2. QED
        BY <1>20, <3>1, <4>1 DEF Old
    <3>2. CASE Joins(k)
      <4>1. jid \notin New
        BY <1>19, <1>22
      <4>2. QED
        BY <1>20, <1>22, <3>2, <4>1 DEF Joins
    <3> HIDE DEF Old, Joins
    <3>3. QED
      BY <1>18, <3>1, <3>2
  <2>4. QED
    BY <2>1, <2>2, <2>3 DEF NoRepeat
<1>25. ParentsFirst'
  <2> SUFFICES ASSUME NEW i \in DOMAIN order', NEW l \in DOMAIN parents'[order'[i]]
               PROVE  \E k \in 1..(i - 1) : order'[k] = parents'[order'[i]][l]
    BY DEF ParentsFirst, Precedes, Refs
  <2> DEFINE r == parents[order'[i]][l]
  <2>0. r \in Refs(order'[i]) /\ r = parents'[order'[i]][l] /\ i \in 1..(n + 1)
    BY <1>3, <1>10 DEF Refs
  <2> HIDE DEF r
  <2>1. CASE i = n + 1
    <3>1. indeg[jid] = 0
      BY <1>1, <1>2 DEF LineReady
    <3>2. r \in Placed
      BY <1>2, <1>3, <2>0, <2>1, <3>1, AllPlaced
    <3>3. QED
      BY <1>1, <1>3, <2>0, <2>1, <3>2 DEF Placed
  <2>2. CASE i \in 1..n
    <3>1. order'[i] = order[i]
      BY <1>3, <2>2
    <3>2. PICK k \in 1..(i - 1) : order[k] = r
      BY <1>1, <2>0, <2>2, <3>1 DEF ParentsFirst, Precedes
    <3>3. k \in 1..n
      BY <1>1, <2>2, <3>2
    <3>4. QED
      BY <1>3, <2>0, <3>2, <3>3
  <2>3. QED
    BY <1>1, <2>0, <2>1, <2>2
<1>26. ReturnFinal'
  BY <1>10 DEF ReturnFinal, Visit
<1>27. QED
  BY <1>13, <1>15, <1>21, <1>24, <1>25, <1>26

LEMMA ReturnIInv == IInv /\ Return => IInv'
<1> SUFFICES ASSUME IInv, Return PROVE IInv'
  OBVIOUS
<1>1. TypeOK' /\ ReturnFinal'
  BY DEF IInv, Return, TypeOK, ReturnFinal
<1>2. CountsLeft' /\ LineReady' /\ NoRepeat' /\ ParentsFirst'
  BY DEF IInv, Return, CountsLeft, LineReady, NoRepeat, ParentsFirst, Precedes, Refs, Placed
<1>3. QED
  BY <1>1, <1>2 DEF IInv

LEMMA StutterIInv == IInv /\ UNCHANGED vars => IInv'
<1> SUFFICES ASSUME IInv, UNCHANGED vars PROVE IInv'
  OBVIOUS
<1>1. TypeOK' /\ LineReady' /\ NoRepeat' /\ ReturnFinal'
  BY DEF IInv, vars, TypeOK, LineReady, NoRepeat, ReturnFinal
<1>2. CountsLeft'
  BY DEF IInv, vars, CountsLeft, Refs, Placed
<1>3. ParentsFirst'
  BY DEF IInv, vars, ParentsFirst, Precedes, Refs
<1>4. QED
  BY <1>1, <1>2, <1>3 DEF IInv

LEMMA IInvSound == IInv => OrderSound
<1> SUFFICES ASSUME IInv, result = "Ok"
             PROVE  \A j \in Job : \E i \in DOMAIN order : order[i] = j
  BY DEF IInv, OrderSound, NoRepeat, ParentsFirst
<1>1. Len(order) = N /\ order \in [1..N -> Job] /\ DOMAIN order = 1..N
  BY LenProperties DEF IInv, ReturnFinal, TypeOK
<1>2. order \in Injection(1..N, Job)
  BY <1>1 DEF IInv, NoRepeat, Injection, IsInjective
<1>3. order \in Surjection(1..N, Job)
  <2>1. /\ IsFiniteSet(1..N) /\ IsFiniteSet(Job) /\ Cardinality(1..N) = Cardinality(Job)
    BY JobFinite DEF Job
  <2>2. QED
    BY <1>2, <2>1, FS_Injection
<1>4. QED
  BY <1>1, <1>3 DEF Surjection

(***************************************************************************)
(* Whatever the flow, the order topological_order returns holds each job   *)
(* once and every parent before its children.                              *)
(***************************************************************************)
THEOREM OrderIsSound == Spec => []OrderSound
<1>1. IInv /\ [Next]_vars => IInv'
  BY VisitIInv, ReturnIInv, StutterIInv DEF Next
<1>2. QED
  BY <1>1, InitIInv, IInvSound, PTL DEF Spec

(***************************************************************************)
(* The types, whatever the flow.                                           *)
(***************************************************************************)
THEOREM TypesHold == Spec => []TypeOK
<1>1. IInv /\ [Next]_vars => IInv'
  BY VisitIInv, ReturnIInv, StutterIInv DEF Next
<1>2. QED
  BY <1>1, InitIInv, PTL DEF Spec, IInv

-----------------------------------------------------------------------------
(* Every element of S is in an ascending list of S.                         *)
LEMMA AscendingHolds ==
  ASSUME NEW S \in SUBSET Int, IsFiniteSet(S), NEW q \in Ascending(S), NEW s \in S
  PROVE  \E i \in DOMAIN q : q[i] = s
BY DEF Ascending

LEMMA InitListed == Init => ZeroListed /\ CycleFinal
<1> SUFFICES ASSUME Init PROVE ZeroListed /\ CycleFinal
  OBVIOUS
<1>1. CycleFinal
  BY DEF Init, CycleFinal
<1>2. ZeroListed
  <2> SUFFICES ASSUME NEW j \in Job, indeg[j] = 0
               PROVE  \E i \in DOMAIN queue : queue[i] = j
    BY DEF ZeroListed
  <2>1. j \in {k \in Job : EdgeCount(k) = 0}
    BY DEF Init
  <2>2. QED
    BY <2>1 DEF Init, Ascending
<1>3. QED
  BY <1>1, <1>2

(* A visit moves the first job of the queue to the order and queues every   *)
(* job whose count it brings to zero.                                       *)
LEMMA VisitListed == ListedInv /\ Visit => ZeroListed'
<1> SUFFICES ASSUME ListedInv, Visit, NEW j \in Job, indeg'[j] = 0
             PROVE  j \in Placed' \/ \E i \in DOMAIN queue' : queue'[i] = j
  BY DEF ZeroListed
<1> DEFINE jid == Head(queue)
           m == Len(queue) - 1
           New == {o \in Lowered(jid) : indeg[o] = 1}
<1>1. /\ queue \in Seq(Job) /\ order \in Seq(Job) /\ indeg \in [Job -> Nat]
      /\ Len(order) \in Nat /\ DOMAIN order = 1..Len(order)
      /\ Len(queue) \in Nat /\ DOMAIN queue = 1..Len(queue)
  BY LenProperties DEF ListedInv, IInv, TypeOK
<1>2. /\ jid \in Job /\ jid = queue[1] /\ Tail(queue) \in Seq(Job)
      /\ m \in Nat /\ Len(Tail(queue)) = m
      /\ \A i \in 1..m : Tail(queue)[i] = queue[i + 1]
  BY <1>1, HeadTailProperties, EmptySeq DEF Visit
<1>3. PICK q \in Ascending(New) : queue' = Tail(queue) \o q
  BY DEF Visit
<1>4. New \in SUBSET Int /\ IsFiniteSet(New) /\ New \subseteq Job
  <2>1. New \subseteq Job
    BY DEF Lowered
  <2>2. Job \subseteq Int
    BY SizeAssumption DEF Job
  <2>3. QED
    BY <2>1, <2>2, JobFinite, FS_Subset
<1>5. q \in Seq(Job) /\ Len(q) \in Nat /\ DOMAIN q = 1..Len(q)
  BY <1>4, AscendingList, SeqMonotonic, LenProperties
<1>6. /\ DOMAIN queue' = 1..(m + Len(q))
      /\ \A i \in 1..m : queue'[i] = queue[i + 1]
      /\ \A i \in 1..Len(q) : queue'[m + i] = q[i]
  <2>1. /\ Tail(queue) \o q \in Seq(Job)
        /\ Len(Tail(queue) \o q) = m + Len(q)
        /\ \A i \in 1..(m + Len(q)) :
             (Tail(queue) \o q)[i] = IF i <= m THEN Tail(queue)[i] ELSE q[i - m]
    BY <1>2, <1>5, ConcatProperties
  <2>2. DOMAIN queue' = 1..(m + Len(q))
    BY <1>3, <2>1, LenProperties
  <2> HIDE DEF m, New, jid
  <2>3. \A i \in 1..m : queue'[i] = queue[i + 1]
    BY <1>2, <1>3, <1>5, <2>1
  <2>4. ASSUME NEW i \in 1..Len(q) PROVE queue'[m + i] = q[i]
    <3>1. m + i \in 1..(m + Len(q)) /\ ~(m + i <= m) /\ (m + i) - m = i
      BY <1>2, <1>5
    <3>2. (Tail(queue) \o q)[m + i] = q[(m + i) - m]
      BY <2>1, <3>1
    <3>3. QED
      BY <1>3, <3>1, <3>2
  <2>5. QED
    BY <2>2, <2>3, <2>4
<1>7. jid \in Placed' /\ Placed \subseteq Placed'
  <2>1. /\ DOMAIN order' = 1..(Len(order) + 1) /\ order'[Len(order) + 1] = jid
        /\ \A i \in 1..Len(order) : order'[i] = order[i]
    BY <1>1, <1>2, LenProperties DEF Visit
  <2>2. Len(order) + 1 \in DOMAIN order' /\ 1..Len(order) \subseteq DOMAIN order'
    BY <1>1, <2>1
  <2>3. QED
    BY <1>1, <2>1, <2>2 DEF Placed
<1>8. CASE j \in New
  <2>1. PICK i \in DOMAIN q : q[i] = j
    BY <1>4, <1>8, AscendingHolds
  <2>2. i \in 1..Len(q) /\ m + i \in 1..(m + Len(q))
    BY <1>2, <1>5
  <2>3. QED
    BY <1>6, <2>1, <2>2
<1>9. CASE j \notin New
  <2>1. indeg[j] = 0
    BY <1>1, <1>9 DEF Visit, Lowered
  <2>2. CASE j \in Placed
    BY <1>7, <2>2
  <2>3. CASE \E i \in DOMAIN queue : queue[i] = j
    <3>1. PICK i \in 1..Len(queue) : queue[i] = j
      BY <1>1, <2>3
    <3>2. CASE i = 1
      BY <1>2, <1>7, <3>1, <3>2
    <3>3. CASE i # 1
      <4>1. i - 1 \in 1..m /\ i - 1 \in 1..(m + Len(q)) /\ (i - 1) + 1 = i
        BY <1>1, <1>5, <3>3
      <4>2. queue'[i - 1] = queue[(i - 1) + 1]
        BY <1>6, <4>1
      <4>3. i - 1 \in DOMAIN queue' /\ queue'[i - 1] = j
        BY <1>6, <3>1, <4>1, <4>2
      <4>4. QED
        BY <4>3
    <3>4. QED
      BY <3>2, <3>3
  <2>4. QED
    BY <2>1, <2>2, <2>3 DEF ListedInv, ZeroListed
<1>10. QED
  BY <1>8, <1>9

LEMMA StepListed == ListedInv /\ [Next]_vars => ListedInv'
<1> SUFFICES ASSUME ListedInv, [Next]_vars PROVE ListedInv'
  OBVIOUS
<1>1. IInv'
  BY VisitIInv, ReturnIInv, StutterIInv DEF Next, ListedInv
<1>2. CASE Visit
  <2>1. CycleFinal'
    BY <1>2 DEF ListedInv, IInv, ReturnFinal, Visit, CycleFinal
  <2>2. QED
    BY <1>1, <1>2, <2>1, VisitListed DEF ListedInv
<1>3. CASE Return
  BY <1>1, <1>3 DEF ListedInv, ZeroListed, CycleFinal, Placed, Return
<1>4. CASE UNCHANGED vars
  BY <1>1, <1>4 DEF ListedInv, ZeroListed, CycleFinal, Placed, vars
<1>5. QED
  BY <1>2, <1>3, <1>4 DEF Next

(* A flow whose jobs are all in the order can be ordered.                   *)
LEMMA OkOrderable == ListedInv /\ result = "Ok" => Orderable
<1> SUFFICES ASSUME ListedInv, result = "Ok" PROVE Orderable
  OBVIOUS
<1> USE DEF ListedInv, IInv
<1>1. \A j \in Job : \E i \in DOMAIN order : order[i] = j
  BY IInvSound DEF OrderSound
<1>2. /\ order \in Seq(Job) /\ Placed \subseteq Job
      /\ DOMAIN order \subseteq Nat
  BY LenProperties, ElementOfSeq DEF TypeOK, Placed
<1>3. ASSUME NEW j \in Job
      PROVE  Ghost \notin Refs(j) /\ Cardinality(Refs(j)) = Len(parents[j])
  <2>1. indeg[j] = 0
    BY <1>1 DEF LineReady
  <2>2. Refs(j) \subseteq Placed
    BY <2>1, AllPlaced
  <2>3. Ghost \notin Job
    BY DEF Ghost, Job
  <2>4. Refs(j) \cap Placed = Refs(j)
    BY <2>2
  <2>5. 0 + Cardinality(Refs(j)) = Len(parents[j])
    BY <2>1, <2>4 DEF CountsLeft
  <2>6. Cardinality(Refs(j)) \in Nat
    BY RefsFinite
  <2>7. QED
    BY <1>2, <2>2, <2>3, <2>5, <2>6
\* The job of S that stands first in the order waits for none of S.
<1>4. ASSUME NEW S \in (SUBSET Job) \ {{}}
      PROVE  \E j \in S : Refs(j) \cap S = {}
  <2> DEFINE P == {i \in DOMAIN order : order[i] \in S}
  <2>1. P \in SUBSET Nat /\ P # {}
    <3>1. PICK s \in S : s \in Job
      BY <1>4
    <3>2. PICK i \in DOMAIN order : order[i] = s
      BY <1>1, <3>1
    <3>3. i \in P
      BY <3>1, <3>2
    <3>4. QED
      BY <1>2, <3>3
  <2>2. PICK i \in P : \A k \in P : i <= k
    BY <2>1, LeastNumber
  <2>3. i \in DOMAIN order /\ order[i] \in S /\ i \in Nat
    BY <1>2, <2>2
  <2>4. ASSUME NEW r \in Refs(order[i]), r \in S PROVE FALSE
    <3>1. PICK k \in 1..(i - 1) : order[k] = r
      BY <2>3 DEF ParentsFirst, Precedes
    <3>2. k \in DOMAIN order
      BY <1>2, <2>3, <3>1, LenProperties
    <3>3. k \in P /\ k \in Nat /\ k < i
      BY <1>2, <2>3, <2>4, <3>1, <3>2
    <3>4. QED
      BY <2>2, <2>3, <3>3
  <2>5. QED
    BY <2>3, <2>4
<1>5. QED
  BY <1>3, <1>4 DEF Orderable

(* When the queue runs empty, the jobs that are left wait on each other, on *)
(* a missing job, or twice on one.                                          *)
LEMMA CycleNotOrderable == ListedInv /\ result = "DependencyCycle" => ~ Orderable
<1> SUFFICES ASSUME ListedInv, result = "DependencyCycle", Orderable PROVE FALSE
  OBVIOUS
<1> USE DEF ListedInv, IInv
<1>1. queue = <<>> /\ Len(order) # N
  BY DEF ReturnFinal, CycleFinal
<1>2. order \in Seq(Job) /\ Len(order) \in Nat /\ DOMAIN order = 1..Len(order)
  BY LenProperties DEF TypeOK
<1> DEFINE S == Job \ Placed
<1>3. S # {}
  <2> SUFFICES ASSUME Job \subseteq Placed PROVE FALSE
    OBVIOUS
  <2>1. \A i \in DOMAIN order : order[i] \in Job
    BY <1>2, ElementOfSeq
  <2>2. order \in Bijection(1..Len(order), Job)
    <3>1. order \in [1..Len(order) -> Job]
      BY <1>2, LenProperties
    <3>2. order \in Surjection(1..Len(order), Job)
      BY <1>2, <3>1 DEF Surjection, Placed
    <3>3. order \in Injection(1..Len(order), Job)
      BY <1>2, <3>1 DEF NoRepeat, Injection, IsInjective
    <3>4. QED
      BY <3>2, <3>3 DEF Bijection
  <2>3. IsFiniteSet(1..Len(order)) /\ Cardinality(1..Len(order)) = Len(order)
    BY <1>2, FS_Interval
  <2>4. Cardinality(Job) = Len(order)
    BY <2>2, <2>3, FS_Bijection DEF ExistsBijection
  <2>5. QED
    BY <1>1, <2>4, JobFinite
<1>4. PICK j \in S : Refs(j) \cap S = {}
  <2>1. S \in (SUBSET Job) \ {{}}
    BY <1>3
  <2>2. QED
    BY <2>1 DEF Orderable
<1>5. Refs(j) \subseteq Placed
  <2>1. Refs(j) \subseteq Ref
    <3>1. parents[j] \in Seq(Ref)
      BY RefsFinite
    <3>2. \A i \in DOMAIN parents[j] : parents[j][i] \in Ref
      BY <3>1, LenProperties, ElementOfSeq
    <3>3. QED
      BY <3>2 DEF Refs
  <2>2. Ghost \notin Refs(j)
    BY DEF Orderable
  <2>3. QED
    BY <1>4, <2>1, <2>2 DEF Ref
<1>6. indeg[j] = 0
  <2> DEFINE C == Cardinality(Refs(j))
  <2>1. Refs(j) \cap Placed = Refs(j)
    BY <1>5
  <2>2. indeg[j] + C = Len(parents[j])
    BY <2>1 DEF CountsLeft
  <2>3. C = Len(parents[j]) /\ C \in Nat /\ indeg[j] \in Nat
    BY RefsFinite DEF Orderable, TypeOK
  <2> HIDE DEF C
  <2>4. QED
    BY <2>2, <2>3
<1>7. DOMAIN queue = {}
  BY <1>1
<1>8. QED
  BY <1>4, <1>6, <1>7 DEF ZeroListed

(***************************************************************************)
(* For every flow, topological_order returns an order if no job is missing,*)
(* none is named twice by a child and no jobs wait on each other, and      *)
(* returns DependencyCycle if not: what submit and tick refuse is exactly  *)
(* what cannot be ordered.                                                 *)
(***************************************************************************)
THEOREM OrdersWhatCanBe == Spec => []OkIffOrderable
<1>1. Init => ListedInv
  BY InitIInv, InitListed DEF ListedInv
<1>2. ListedInv => OkIffOrderable
  <2> SUFFICES ASSUME ListedInv, result # "Running" PROVE result = "Ok" <=> Orderable
    BY DEF OkIffOrderable
  <2>1. result \in {"Ok", "DependencyCycle"}
    BY DEF ListedInv, IInv, TypeOK
  <2>2. QED
    BY <2>1, OkOrderable, CycleNotOrderable
<1>3. QED
  BY <1>1, <1>2, StepListed, PTL DEF Spec

(* A job that still waits is not in the order, and every other job is.      *)
LEMMA RemainingUnplaced ==
  ASSUME ListedInv, queue = <<>>
  PROVE  Remaining = Job \ Placed
<1> USE DEF ListedInv, IInv
<1>1. ASSUME NEW j \in Placed PROVE indeg[j] = 0
  BY <1>1 DEF LineReady, Placed
<1>2. ASSUME NEW j \in Job, j \notin Placed PROVE indeg[j] > 0
  <2>1. indeg[j] # 0
    BY <1>2 DEF ZeroListed
  <2>2. indeg[j] \in Nat
    BY DEF TypeOK
  <2>3. QED
    BY <2>1, <2>2
<1>3. QED
  BY <1>1, <1>2 DEF Remaining

(* What is left blocks itself: each waits for a parent that is missing,     *)
(* named twice or left.                                                     *)
LEMMA RemainingBlocks == ListedInv /\ queue = <<>> => Blocks(Remaining)
<1> SUFFICES ASSUME ListedInv, queue = <<>>, NEW j \in Remaining, Ghost \notin Refs(j),
                    Cardinality(Refs(j)) = Len(parents[j])
             PROVE  Refs(j) \cap Remaining # {}
  BY DEF Blocks
<1> USE DEF ListedInv, IInv
<1>1. j \in Job /\ indeg[j] > 0 /\ Remaining = Job \ Placed
  BY RemainingUnplaced DEF Remaining
<1>2. Refs(j) \subseteq Job
  <2>1. \A i \in DOMAIN parents[j] : parents[j][i] \in Ref
    BY <1>1, RefsFinite, LenProperties, ElementOfSeq
  <2>2. QED
    BY <2>1 DEF Refs, Ref
<1>3. SUFFICES ASSUME Refs(j) \subseteq Placed PROVE FALSE
  BY <1>1, <1>2
<1> DEFINE C == Cardinality(Refs(j))
<1>4. Refs(j) \cap Placed = Refs(j)
  BY <1>3
<1>5. indeg[j] + C = C
  BY <1>1, <1>4 DEF CountsLeft
<1>6. C \in Nat /\ indeg[j] \in Nat
  BY <1>1, RefsFinite DEF TypeOK
<1> HIDE DEF C
<1>7. QED
  BY <1>1, <1>5, <1>6

(* No job of the order is in a set that blocks itself: the first of the     *)
(* set to be visited would wait for one that was not.                       *)
LEMMA BlockedUnplaced ==
  ASSUME IInv, NEW S \in SUBSET Job, Blocks(S)
  PROVE  S \cap Placed = {}
<1> USE DEF IInv
<1> SUFFICES ASSUME S \cap Placed # {} PROVE FALSE
  OBVIOUS
<1> DEFINE P == {i \in DOMAIN order : order[i] \in S}
<1>1. /\ order \in Seq(Job) /\ Placed \subseteq Job
      /\ DOMAIN order \subseteq Nat /\ DOMAIN order = 1..Len(order)
      /\ Len(order) \in Nat
  BY LenProperties, ElementOfSeq DEF TypeOK, Placed
<1>2. P \in SUBSET Nat /\ P # {}
  BY <1>1 DEF Placed
<1>3. PICK i \in P : \A k \in P : i <= k
  BY <1>2, LeastNumber
<1>4. i \in DOMAIN order /\ order[i] \in S /\ i \in Nat /\ order[i] \in Job
  BY <1>1, <1>3
<1>5. Refs(order[i]) \subseteq Placed
  BY <1>4, AllPlaced DEF LineReady
<1>6. Ghost \notin Refs(order[i])
  BY <1>1, <1>5 DEF Ghost, Job
<1>7. Cardinality(Refs(order[i])) = Len(parents[order[i]])
  <2> DEFINE C == Cardinality(Refs(order[i]))
  <2>1. Refs(order[i]) \cap Placed = Refs(order[i])
    BY <1>5
  <2>2. indeg[order[i]] = 0
    BY <1>4 DEF LineReady
  <2>3. 0 + C = Len(parents[order[i]])
    BY <1>4, <2>1, <2>2 DEF CountsLeft
  <2>4. C \in Nat
    BY <1>4, RefsFinite
  <2>5. QED
    BY <2>3, <2>4
<1>8. ASSUME NEW r \in Refs(order[i]), r \in S PROVE FALSE
  <2>1. PICK k \in 1..(i - 1) : order[k] = r
    BY <1>4 DEF ParentsFirst, Precedes
  <2>2. k \in DOMAIN order /\ k < i /\ k \in Nat
    BY <1>1, <1>4, <2>1
  <2>3. k \in P
    BY <1>8, <2>1, <2>2
  <2>4. QED
    BY <1>3, <1>4, <2>2, <2>3
<1>9. QED
  BY <1>4, <1>6, <1>7, <1>8 DEF Blocks

(***************************************************************************)
(* For every flow, a DependencyCycle names a job, and it names exactly the *)
(* jobs that no order can hold: the largest set of jobs of which each one  *)
(* waits for a parent that is missing, named twice or in the set.          *)
(***************************************************************************)
THEOREM RemainingHolds == Spec => []RemainingBlocked
<1>1. Init => ListedInv
  BY InitIInv, InitListed DEF ListedInv
<1>2. ListedInv => RemainingBlocked
  <2> SUFFICES ASSUME ListedInv, result = "DependencyCycle"
               PROVE  /\ Remaining # {} /\ Blocks(Remaining)
                      /\ \A S \in SUBSET Job : Blocks(S) => S \subseteq Remaining
    BY DEF RemainingBlocked
  <2>1. queue = <<>>
    BY DEF ListedInv, IInv, ReturnFinal
  <2>2. Remaining = Job \ Placed
    BY <2>1, RemainingUnplaced
  <2>3. \A S \in SUBSET Job : Blocks(S) => S \subseteq Remaining
    BY <2>2, BlockedUnplaced DEF ListedInv
  <2>4. Blocks(Remaining)
    BY <2>1, RemainingBlocks
  <2>5. Remaining # {}
    <3>1. ~ Orderable
      BY CycleNotOrderable
    <3>2. CASE \E j \in Job : ~(Ghost \notin Refs(j) /\ Cardinality(Refs(j)) = Len(parents[j]))
      <4>1. PICK j \in Job : Ghost \in Refs(j) \/ Cardinality(Refs(j)) # Len(parents[j])
        BY <3>2
      <4>2. Blocks({j})
        BY <4>1 DEF Blocks
      <4>3. QED
        BY <2>3, <4>2
    <3>3. CASE \E S \in (SUBSET Job) \ {{}} : \A j \in S : Refs(j) \cap S # {}
      <4>1. PICK S \in (SUBSET Job) \ {{}} : Blocks(S)
        BY <3>3 DEF Blocks
      <4>2. QED
        BY <2>3, <4>1
    <3>4. QED
      BY <3>1, <3>2, <3>3 DEF Orderable
  <2>6. QED
    BY <2>3, <2>4, <2>5
<1>3. QED
  BY <1>1, <1>2, StepListed, PTL DEF Spec
=============================================================================
