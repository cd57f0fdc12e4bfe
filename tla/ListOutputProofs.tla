--------------------------- MODULE ListOutputProofs --------------------------
(***************************************************************************)
(* What `jm ls` prints of what was collected: for any flows, jobs and      *)
(* filters.                                                                *)
(***************************************************************************)
EXTENDS ListOutput, ListingProofs

-----------------------------------------------------------------------------
(* Lists put one behind the other, filtered, and what is in them.           *)

(* Filtering what is put together is putting together what is filtered.     *)
LEMMA FilteredConcat ==
  ASSUME NEW T, NEW s, NEW t, NEW E, s \in Seq(T), t \in Seq(T)
  PROVE  Filtered(Behind(s, t), E) = Behind(Filtered(s, E), Filtered(t, E))
<1> DEFINE u == s \o t
<1>1. /\ u \in Seq(T) /\ Len(s) \in Nat /\ Len(t) \in Nat /\ Len(u) = Len(s) + Len(t)
      /\ \A i \in 1..Len(s) : u[i] = s[i] /\ s[i] \in T
      /\ \A i \in 1..Len(t) : u[Len(s) + i] = t[i] /\ t[i] \in T
  <2>1. /\ u \in Seq(T) /\ Len(u) = Len(s) + Len(t)
        /\ \A i \in 1..(Len(s) + Len(t)) : u[i] = IF i <= Len(s) THEN s[i] ELSE t[i - Len(s)]
    BY ConcatProperties
  <2>2. /\ Len(s) \in Nat /\ Len(t) \in Nat
        /\ (\A i \in 1..Len(s) : s[i] \in T) /\ (\A i \in 1..Len(t) : t[i] \in T)
    BY SeqParts
  <2> HIDE DEF u
  <2>3. \A i \in 1..Len(t) : /\ Len(s) + i \in 1..(Len(s) + Len(t)) /\ ~(Len(s) + i <= Len(s))
                             /\ (Len(s) + i) - Len(s) = i
    BY <2>2
  <2>4. \A i \in 1..Len(s) : i \in 1..(Len(s) + Len(t)) /\ i <= Len(s)
    BY <2>2
  <2>5. QED
    BY <2>1, <2>2, <2>3, <2>4
<1> HIDE DEF u
<1>2. PICK a : Pushed(a, T, s, E) /\ Filtered(s, E) = a[Len(s)]
  BY FilteredLoop
<1>3. PICK b : Pushed(b, T, t, E) /\ Filtered(t, E) = b[Len(t)]
  BY FilteredLoop
<1>4. PICK c : Pushed(c, T, u, E) /\ Filtered(u, E) = c[Len(u)]
  BY <1>1, FilteredLoop
<1>5. c[Len(s)] = a[Len(s)]
  <2> DEFINE P == {i \in 0..Len(s) : c[i] = a[i]}
  <2>1. 0 \in P
    BY <1>1, <1>2, <1>4 DEF Pushed
  <2>2. ASSUME NEW i \in 1..Len(s), i - 1 \in P PROVE i \in P
    <3>1. i \in 1..Len(u) /\ u[i] = s[i] /\ c[i - 1] = a[i - 1] /\ i \in 0..Len(s)
      BY <1>1, <2>2
    <3>2. a[i] = IF s[i] \in E THEN Append(a[i - 1], s[i]) ELSE a[i - 1]
      BY <1>2 DEF Pushed
    <3>3. c[i] = IF u[i] \in E THEN Append(c[i - 1], u[i]) ELSE c[i - 1]
      BY <1>4, <3>1 DEF Pushed
    <3>4. QED
      BY <3>1, <3>2, <3>3
  <2>3. P \in SUBSET (0..Len(s))
    OBVIOUS
  <2> HIDE DEF P
  <2>4. Len(s) \in P
    BY <1>1, <2>1, <2>2, <2>3, Climb
  <2>5. QED
    BY <2>4 DEF P
<1>6. a[Len(s)] \in Seq(T) /\ \A i \in 0..Len(t) : b[i] \in Seq(T)
  <2>1. a \in [0..Len(s) -> Seq(T)] /\ b \in [0..Len(t) -> Seq(T)]
    BY <1>2, <1>3 DEF Pushed
  <2>2. Len(s) \in 0..Len(s)
    BY <1>1
  <2>3. QED
    BY <2>1, <2>2
<1>7. c[Len(s) + Len(t)] = Behind(a[Len(s)], b[Len(t)])
  <2> DEFINE P == {i \in 0..Len(t) : c[Len(s) + i] = Behind(a[Len(s)], b[i])}
  <2>1. 0 \in P
    <3>1. b[0] = <<>> /\ Len(s) + 0 = Len(s) /\ 0 \in 0..Len(t)
      BY <1>1, <1>3 DEF Pushed
    <3>2. Behind(a[Len(s)], <<>>) = a[Len(s)]
      BY <1>6, ConcatEmptySeq DEF Behind
    <3>3. QED
      BY <1>5, <3>1, <3>2
  <2>2. ASSUME NEW i \in 1..Len(t), i - 1 \in P PROVE i \in P
    <3>1. /\ i \in 0..Len(t) /\ i - 1 \in 0..Len(t) /\ Len(s) + i \in 1..Len(u)
          /\ (Len(s) + i) - 1 = Len(s) + (i - 1)
      BY <1>1
    <3>2. /\ u[Len(s) + i] = t[i] /\ t[i] \in T
          /\ c[Len(s) + (i - 1)] = Behind(a[Len(s)], b[i - 1])
      BY <1>1, <2>2
    <3>3. b[i] = IF t[i] \in E THEN Append(b[i - 1], t[i]) ELSE b[i - 1]
      BY <1>3 DEF Pushed
    <3>4. c[Len(s) + i] = IF t[i] \in E THEN Append(Behind(a[Len(s)], b[i - 1]), t[i])
                          ELSE Behind(a[Len(s)], b[i - 1])
      BY <1>4, <3>1, <3>2 DEF Pushed
    <3>5. a[Len(s)] \in Seq(T) /\ b[i - 1] \in Seq(T)
      BY <1>6, <3>1
    <3>6. Append(Behind(a[Len(s)], b[i - 1]), t[i]) = Behind(a[Len(s)], Append(b[i - 1], t[i]))
      BY <3>2, <3>5, PushBehind
    <3>7. QED
      BY <3>1, <3>3, <3>4, <3>6
  <2>3. P \in SUBSET (0..Len(t))
    OBVIOUS
  <2> HIDE DEF P
  <2>4. Len(t) \in P
    BY <1>1, <2>1, <2>2, <2>3, Climb
  <2>5. QED
    BY <2>4 DEF P
<1>8. Filtered(u, E) = Behind(Filtered(s, E), Filtered(t, E))
  BY <1>1, <1>2, <1>3, <1>4, <1>7
<1>9. QED
  BY <1>8 DEF u, Behind

(* Filtering keeps a list that is all in the set, and nothing of one that   *)
(* has nothing in it.                                                       *)
LEMMA FilteredAll ==
  ASSUME NEW T, NEW s \in Seq(T), NEW E, \A i \in 1..Len(s) : s[i] \in E
  PROVE  Filtered(s, E) = s
<1> DEFINE n == Len(s)
<1>1. n \in Nat /\ \A i \in 1..n : s[i] \in T
  BY SeqParts
<1>2. PICK a : Pushed(a, T, s, E) /\ Filtered(s, E) = a[n]
  BY FilteredLoop
<1> DEFINE P == {i \in 0..n : Len(a[i]) = i /\ \A k \in 1..i : a[i][k] = s[k]}
<1>3. \A i \in 0..n : a[i] \in Seq(T)
  BY <1>2 DEF Pushed
<1>4. 0 \in P
  <2>1. a[0] = <<>> /\ Len(<<>>) = 0 /\ 0 \in 0..n
    BY <1>1, <1>2 DEF Pushed
  <2>2. QED
    BY <2>1
<1>5. ASSUME NEW i \in 1..n, i - 1 \in P PROVE i \in P
  <2>1. /\ i \in 0..n /\ i - 1 \in 0..n /\ Len(a[i - 1]) = i - 1 /\ s[i] \in T
        /\ \A k \in 1..(i - 1) : a[i - 1][k] = s[k]
    BY <1>1, <1>5
  <2>2. a[i] = Append(a[i - 1], s[i])
    BY <1>2 DEF Pushed
  <2>3. a[i - 1] \in Seq(T)
    BY <1>3, <2>1
  <2>4. /\ Len(a[i]) = Len(a[i - 1]) + 1 /\ a[i][Len(a[i - 1]) + 1] = s[i]
        /\ \A k \in 1..Len(a[i - 1]) : a[i][k] = a[i - 1][k]
    BY <2>1, <2>2, <2>3, AppendProperties
  <2>5. Len(a[i]) = i /\ a[i][i] = s[i] /\ \A k \in 1..(i - 1) : a[i][k] = s[k]
    BY <1>1, <2>1, <2>4
  <2>6. \A k \in 1..i : k = i \/ k \in 1..(i - 1)
    BY <1>1
  <2>7. QED
    BY <2>1, <2>5, <2>6
<1>6. n \in P
  <2>1. P \in SUBSET (0..n)
    OBVIOUS
  <2> HIDE DEF P, n
  <2>2. QED
    BY <1>1, <1>4, <1>5, <2>1, Climb
<1>7. QED
  BY <1>1, <1>2, <1>3, <1>6, SameList

LEMMA FilteredNone ==
  ASSUME NEW T, NEW s \in Seq(T), NEW E, \A i \in 1..Len(s) : s[i] \notin E
  PROVE  Filtered(s, E) = <<>>
<1> DEFINE n == Len(s)
<1>1. n \in Nat
  BY SeqParts
<1>2. PICK a : Pushed(a, T, s, E) /\ Filtered(s, E) = a[n]
  BY FilteredLoop
<1> DEFINE P == {i \in 0..n : a[i] = <<>>}
<1>3. 0 \in P
  BY <1>1, <1>2 DEF Pushed
<1>4. ASSUME NEW i \in 1..n, i - 1 \in P PROVE i \in P
  <2>1. i \in 0..n /\ a[i - 1] = <<>>
    BY <1>1, <1>4
  <2>2. a[i] = a[i - 1]
    BY <1>2 DEF Pushed
  <2>3. QED
    BY <2>1, <2>2
<1>5. n \in P
  <2>1. P \in SUBSET (0..n)
    OBVIOUS
  <2> HIDE DEF P, n
  <2>2. QED
    BY <1>1, <1>3, <1>4, <2>1, Climb
<1>6. QED
  BY <1>2, <1>5

(* Filtering the flat list is filtering each list.                          *)
LEMMA FlattenFiltered ==
  ASSUME NEW T, NEW s, NEW t, NEW E, s \in Seq(Seq(T)), t \in Seq(Seq(T)), Len(t) = Len(s),
         \A i \in 1..Len(s) : t[i] = Filtered(s[i], E)
  PROVE  Filtered(FlattenSeq(s), E) = FlattenSeq(t)
<1> DEFINE n == Len(s)
<1>1. n \in Nat /\ Len(t) = n /\ \A i \in 1..n : s[i] \in Seq(T) /\ t[i] \in Seq(T)
  BY SeqParts
<1>2. PICK a : /\ FlattenSeq(s) = a[n] /\ a[0] = <<>>
               /\ \A i \in 0..n : a[i] \in Seq(T)
               /\ \A i \in 1..n : a[i] = Behind(a[i - 1], s[i])
  <2>1. PICK a : Flat(a, T, s)
    BY FlattenRounds
  <2>2. QED
    BY <2>1 DEF Flat
<1>3. PICK b : /\ FlattenSeq(t) = b[n] /\ b[0] = <<>>
               /\ \A i \in 0..n : b[i] \in Seq(T)
               /\ \A i \in 1..n : b[i] = Behind(b[i - 1], t[i])
  <2>1. PICK b : Flat(b, T, t)
    BY FlattenRounds
  <2>2. QED
    BY <1>1, <2>1 DEF Flat
<1> DEFINE P == {i \in 0..n : Filtered(a[i], E) = b[i]}
<1>4. 0 \in P
  <2>1. <<>> \in Seq(T) /\ \A i \in 1..Len(<<>>) : <<>>[i] \notin E
    OBVIOUS
  <2>2. Filtered(<<>>, E) = <<>>
    BY <2>1, FilteredNone
  <2>3. QED
    BY <1>1, <1>2, <1>3, <2>2
<1>5. ASSUME NEW i \in 1..n, i - 1 \in P PROVE i \in P
  <2>1. i \in 0..n /\ i - 1 \in 0..n /\ Filtered(a[i - 1], E) = b[i - 1]
    BY <1>1, <1>5
  <2>2. PICK x, y : x = a[i - 1] /\ y = s[i] /\ x \in Seq(T) /\ y \in Seq(T)
    BY <1>1, <1>2, <2>1
  <2>3. Filtered(Behind(x, y), E) = Behind(Filtered(x, E), Filtered(y, E))
    BY <2>2, FilteredConcat
  <2>4. a[i] = Behind(x, y) /\ b[i] = Behind(b[i - 1], t[i])
    BY <1>2, <1>3, <2>2
  <2>5. t[i] = Filtered(y, E) /\ b[i - 1] = Filtered(x, E)
    BY <2>1, <2>2
  <2>6. b[i] = Behind(Filtered(x, E), Filtered(y, E))
    BY <2>4, <2>5
  <2>7. QED
    BY <2>1, <2>3, <2>4, <2>6
<1>6. n \in P
  <2>1. P \in SUBSET (0..n)
    OBVIOUS
  <2> HIDE DEF P, n
  <2>2. QED
    BY <1>1, <1>4, <1>5, <2>1, Climb
<1>7. QED
  BY <1>2, <1>3, <1>6

\* g takes what is in S into T.
Takes(g, S, T) == g \in [S -> T]

\* g of each entry of s.
Mapped(g, s) == [k \in DOMAIN s |-> g[s[k]]]

LEMMA MappedList ==
  ASSUME NEW S, NEW T, NEW g, NEW s, Takes(g, S, T), s \in Seq(S)
  PROVE  /\ Mapped(g, s) \in Seq(T) /\ Len(Mapped(g, s)) = Len(s)
         /\ \A k \in 1..Len(s) : Mapped(g, s)[k] = g[s[k]]
<1>1. Len(s) \in Nat /\ DOMAIN s = 1..Len(s) /\ \A i \in 1..Len(s) : s[i] \in S
  BY SeqParts
<1>2. Mapped(g, s) \in [1..Len(s) -> T] /\ \A k \in 1..Len(s) : Mapped(g, s)[k] = g[s[k]]
  BY <1>1 DEF Mapped, Takes
<1>3. Mapped(g, s) \in Seq(T)
  BY <1>1, <1>2, SeqDef
<1>4. DOMAIN Mapped(g, s) = 1..Len(s) /\ Len(Mapped(g, s)) \in Nat
      /\ DOMAIN Mapped(g, s) = 1..Len(Mapped(g, s))
  BY <1>2, <1>3, SeqParts
<1>5. Len(Mapped(g, s)) = Len(s)
  BY <1>1, <1>4
<1>6. QED
  BY <1>2, <1>3, <1>5

(* What is pushed to a list is pushed to what it is mapped to.              *)
LEMMA MappedPush ==
  ASSUME NEW S, NEW T, NEW g, NEW s, NEW e, Takes(g, S, T), s \in Seq(S), e \in S
  PROVE  Mapped(g, Append(s, e)) = Append(Mapped(g, s), g[e])
<1>1. PICK u, v : u = Append(s, e) /\ v = Mapped(g, s)
  OBVIOUS
<1>2. v \in Seq(T) /\ Len(v) = Len(s) /\ Len(s) \in Nat /\ g[e] \in T
      /\ \A k \in 1..Len(s) : v[k] = g[s[k]]
  <2>1. v \in Seq(T) /\ Len(v) = Len(s) /\ \A k \in 1..Len(s) : v[k] = g[s[k]]
    BY <1>1, MappedList
  <2>2. Len(s) \in Nat /\ g[e] \in T
    BY SeqParts DEF Takes
  <2>3. QED
    BY <2>1, <2>2
<1>3. /\ u \in Seq(S) /\ Len(u) = Len(s) + 1 /\ u[Len(s) + 1] = e
      /\ \A k \in 1..Len(s) : u[k] = s[k]
  BY <1>1, AppendProperties
<1>4. PICK w, z : w = Mapped(g, u) /\ z = Append(v, g[e])
  OBVIOUS
<1>5. /\ w \in Seq(T) /\ Len(w) = Len(s) + 1
      /\ \A k \in 1..(Len(s) + 1) : w[k] = g[u[k]]
  BY <1>3, <1>4, MappedList
<1>6. /\ z \in Seq(T) /\ Len(z) = Len(s) + 1 /\ z[Len(s) + 1] = g[e]
      /\ \A k \in 1..Len(s) : z[k] = v[k]
  BY <1>2, <1>4, AppendProperties
<1>7. ASSUME NEW k \in 1..(Len(s) + 1) PROVE w[k] = z[k]
  <2>1. w[k] = g[u[k]]
    BY <1>5
  <2>2. CASE k = Len(s) + 1
    BY <1>3, <1>6, <2>1, <2>2
  <2>3. CASE k \in 1..Len(s)
    BY <1>2, <1>3, <1>6, <2>1, <2>3
  <2>4. QED
    BY <1>2, <2>2, <2>3
<1>8. w = z
  BY <1>5, <1>6, <1>7, SameList
<1>9. QED
  BY <1>1, <1>4, <1>8

(* A list is filtered before or after it is mapped.                         *)
LEMMA MappedFiltered ==
  ASSUME NEW S, NEW T, NEW g, NEW s, NEW E, NEW F, Takes(g, S, T), s \in Seq(S),
         \A j \in Range(s) : j \in F <=> g[j] \in E
  PROVE  Filtered(Mapped(g, s), E) = Mapped(g, Filtered(s, F))
<1> DEFINE n == Len(s)
<1>1. n \in Nat /\ DOMAIN s = 1..n /\ \A i \in 1..n : s[i] \in S
  BY SeqParts
<1>2. PICK m : m = Mapped(g, s)
  OBVIOUS
<1>3. m \in Seq(T) /\ Len(m) = n /\ \A k \in 1..n : m[k] = g[s[k]]
  BY <1>2, MappedList
<1>4. PICK a : Pushed(a, S, s, F) /\ Filtered(s, F) = a[n]
  BY FilteredLoop
<1>5. PICK b : Pushed(b, T, m, E) /\ Filtered(m, E) = b[n]
  <2>1. PICK b : Pushed(b, T, m, E) /\ Filtered(m, E) = b[Len(m)]
    BY <1>3, FilteredLoop
  <2>2. QED
    BY <1>3, <2>1
<1> DEFINE P == {i \in 0..n : b[i] = Mapped(g, a[i])}
<1>6. 0 \in P
  <2>1. a[0] = <<>> /\ b[0] = <<>> /\ 0 \in 0..n
    BY <1>1, <1>4, <1>5 DEF Pushed
  <2>2. Mapped(g, <<>>) = <<>>
    BY DEF Mapped
  <2>3. QED
    BY <2>1, <2>2
<1>7. ASSUME NEW i \in 1..n, i - 1 \in P PROVE i \in P
  <2>1. i \in 0..n /\ i - 1 \in 0..n /\ b[i - 1] = Mapped(g, a[i - 1]) /\ s[i] \in S
    BY <1>1, <1>7
  <2>2. a[i] = IF s[i] \in F THEN Append(a[i - 1], s[i]) ELSE a[i - 1]
    BY <1>4 DEF Pushed
  <2>3. b[i] = IF m[i] \in E THEN Append(b[i - 1], m[i]) ELSE b[i - 1]
    BY <1>3, <1>5 DEF Pushed
  <2>4. m[i] = g[s[i]] /\ s[i] \in Range(s)
    BY <1>1, <1>3 DEF Range
  <2>5. s[i] \in F <=> m[i] \in E
    BY <2>4
  <2>6. a[i - 1] \in Seq(S)
    BY <1>4, <2>1 DEF Pushed
  <2>7. Mapped(g, Append(a[i - 1], s[i])) = Append(Mapped(g, a[i - 1]), g[s[i]])
    <3>1. PICK x, y : x = a[i - 1] /\ y = s[i]
      OBVIOUS
    <3>2. x \in Seq(S) /\ y \in S
      BY <2>1, <2>6, <3>1
    <3>3. Mapped(g, Append(x, y)) = Append(Mapped(g, x), g[y])
      BY <3>2, MappedPush
    <3>4. QED
      BY <3>1, <3>3
  <2>8. b[i] = Mapped(g, a[i])
    BY <2>1, <2>2, <2>3, <2>4, <2>5, <2>7
  <2>9. QED
    BY <2>1, <2>8
<1>8. n \in P
  <2>1. P \in SUBSET (0..n)
    OBVIOUS
  <2> HIDE DEF P, n
  <2>2. QED
    BY <1>1, <1>6, <1>7, <2>1, Climb
<1>9. QED
  BY <1>2, <1>4, <1>5, <1>8

(* What is in a filtered list.                                              *)
LEMMA FilteredRange ==
  ASSUME NEW T, NEW s, NEW E, s \in Seq(T)
  PROVE  Filtered(s, E) \in Seq(T) /\ Range(Filtered(s, E)) = Range(s) \cap E
<1>1. Len(s) \in Nat /\ DOMAIN s = 1..Len(s)
  BY SeqParts
<1>2. PICK u : u = Filtered(s, E)
  OBVIOUS
<1>3. u \in Seq(T) /\ \E q : Picks(q, s, E, Len(s), u)
  BY <1>2, FilteredPicks
<1>4. PICK q : Picks(q, s, E, Len(s), u)
  BY <1>3
<1>5. /\ \A i \in DOMAIN u : q[i] \in DOMAIN s /\ u[i] = s[q[i]] /\ s[q[i]] \in E
      /\ \A m \in DOMAIN s : s[m] \in E => \E i \in DOMAIN u : q[i] = m
  BY <1>1, <1>4 DEF Picks
<1>6. \A i \in DOMAIN u : u[i] \in Range(s) \cap E
  BY <1>5 DEF Range
<1>7. \A m \in DOMAIN s : s[m] \in E => s[m] \in Range(u)
  BY <1>5 DEF Range
<1>8. QED
  BY <1>2, <1>3, <1>6, <1>7 DEF Range

-----------------------------------------------------------------------------
(* The rows of a flow, as its jobs give them.                               *)

\* The row of each job.
Lines(r) == [j \in Job |-> JobRow(r, j)]

\* The jobs of a flow that match.
Hits(r, x) == {j \in Range(JobsOf[r.flow]) : Matches(r.flow, j, r.statuses, x)}

LEMMA JobsListed ==
  ASSUME NEW r \in Row
  PROVE  /\ r.flow \in Flow /\ JobsOf[r.flow] \in Seq(Job) /\ Range(JobsOf[r.flow]) \subseteq Job
         /\ Takes(Lines(r), Job, Printed)
<1>1. r.flow \in Flow /\ JobsOf[r.flow] \in Seq(Job)
  BY ListingAssumption DEF Row
<1>2. Range(JobsOf[r.flow]) \subseteq Job
  <2>1. PICK s : s = JobsOf[r.flow]
    OBVIOUS
  <2>2. DOMAIN s = 1..Len(s) /\ \A i \in 1..Len(s) : s[i] \in Job
    BY <1>1, <2>1, SeqParts
  <2>3. QED
    BY <2>1, <2>2 DEF Range
<1>3. \A j \in Job : JobRow(r, j) \in Printed
  BY DEF Printed
<1>4. Takes(Lines(r), Job, Printed)
  <2> HIDE DEF Printed, Job
  <2>1. QED
    BY <1>3 DEF Lines, Takes
<1>5. QED
  BY <1>1, <1>2, <1>4

LEMMA RowsMapped ==
  ASSUME NEW r \in Row, NEW x
  PROVE  RowsOf(r, x) = Mapped(Lines(r), Filtered(JobsOf[r.flow], Hits(r, x)))
<1>1. PICK jobs : jobs = Filtered(JobsOf[r.flow], Hits(r, x))
  OBVIOUS
<1>2. PICK all : all = JobsOf[r.flow]
  OBVIOUS
<1>3. all \in Seq(Job)
  BY <1>2, JobsListed
<1>4. jobs \in Seq(Job)
  BY <1>1, <1>2, <1>3, FilteredRange
<1>5. \A k \in DOMAIN jobs : jobs[k] \in Job
  BY <1>4, SeqParts
<1>6. RowsOf(r, x) = [k \in DOMAIN jobs |-> JobRow(r, jobs[k])]
  BY <1>1 DEF RowsOf, Hits
<1>7. Mapped(Lines(r), jobs) = [k \in DOMAIN jobs |-> JobRow(r, jobs[k])]
  BY <1>5 DEF Mapped, Lines
<1>8. QED
  BY <1>1, <1>6, <1>7

(* Without a filter every job has its row.                                  *)
LEMMA NoFilterHits ==
  ASSUME NEW r \in Row
  PROVE  Hits(r, NoFilter) = Range(JobsOf[r.flow])
BY DEF Hits, Matches, NoFilter

LEMMA AllRows == ASSUME NEW r \in Row PROVE RowsOf(r, NoFilter) = Mapped(Lines(r), JobsOf[r.flow])
<1>1. PICK s : s = JobsOf[r.flow]
  OBVIOUS
<1>2. s \in Seq(Job)
  BY <1>1, JobsListed
<1>3. DOMAIN s = 1..Len(s)
  BY <1>2, SeqParts
<1>4. \A i \in 1..Len(s) : s[i] \in Range(s)
  BY <1>3 DEF Range
<1>5. Filtered(s, Range(s)) = s
  BY <1>2, <1>4, FilteredAll
<1>6. QED
  BY <1>1, <1>5, RowsMapped, NoFilterHits

LEMMA RowsRange ==
  ASSUME NEW r \in Row, NEW x
  PROVE  Range(RowsOf(r, x)) = {JobRow(r, j) : j \in Hits(r, x)}
<1>1. PICK s, u : s = JobsOf[r.flow] /\ u = Filtered(s, Hits(r, x))
  OBVIOUS
<1>2. s \in Seq(Job) /\ Takes(Lines(r), Job, Printed) /\ Range(s) \subseteq Job
  BY <1>1, JobsListed
<1>3. u \in Seq(Job) /\ Range(u) = Range(s) \cap Hits(r, x)
  BY <1>1, <1>2, FilteredRange
<1>4. Hits(r, x) \subseteq Range(s) /\ Hits(r, x) \subseteq Job
  BY <1>1, <1>2 DEF Hits
<1>5. Range(u) = Hits(r, x)
  BY <1>3, <1>4
<1>6. RowsOf(r, x) = Mapped(Lines(r), u)
  BY <1>1, RowsMapped
<1>7. Range(Mapped(Lines(r), u)) = {Lines(r)[j] : j \in Range(u)}
  BY DEF Mapped, Range
<1>8. \A j \in Hits(r, x) : Lines(r)[j] = JobRow(r, j)
  BY <1>4 DEF Lines
<1>9. QED
  BY <1>5, <1>6, <1>7, <1>8

(* A filter that asks for the rows in E keeps them.                         *)
LEMMA RowsFiltered ==
  ASSUME NEW r \in Row, NEW x, NEW E,
         \A j \in Range(JobsOf[r.flow]) : Matches(r.flow, j, r.statuses, x) <=> JobRow(r, j) \in E
  PROVE  RowsOf(r, x) = Filtered(RowsOf(r, NoFilter), E)
<1>1. PICK s, g, F : s = JobsOf[r.flow] /\ g = Lines(r) /\ F = Hits(r, x)
  OBVIOUS
<1>2. s \in Seq(Job) /\ Takes(g, Job, Printed) /\ Range(s) \subseteq Job
  BY <1>1, JobsListed
<1>3. \A j \in Range(s) : j \in F <=> g[j] \in E
  BY <1>1, <1>2 DEF Hits, Lines
<1>4. Filtered(Mapped(g, s), E) = Mapped(g, Filtered(s, F))
  BY <1>2, <1>3, MappedFiltered
<1>5. QED
  BY <1>1, <1>4, RowsMapped, AllRows

\* The rows of each flow.
PerFlow(R, x) == [i \in DOMAIN R |-> RowsOf(R[i], x)]

LEMMA PerFlowLists ==
  ASSUME NEW R, NEW x, R \in Seq(Row)
  PROVE  /\ PerFlow(R, x) \in Seq(Seq(Printed)) /\ Len(PerFlow(R, x)) = Len(R)
         /\ \A i \in 1..Len(R) : PerFlow(R, x)[i] = RowsOf(R[i], x)
<1>1. Len(R) \in Nat /\ DOMAIN R = 1..Len(R) /\ \A i \in DOMAIN R : R[i] \in Row
  BY LenProperties, ElementOfSeq
<1>2. PICK s : s = PerFlow(R, x)
  OBVIOUS
<1>3. \A i \in 1..Len(R) : s[i] = RowsOf(R[i], x)
  BY <1>1, <1>2 DEF PerFlow
<1>4. s \in [1..Len(R) -> Seq(Printed)]
  BY <1>1, <1>2, RowsOfList DEF PerFlow
<1>5. s \in Seq(Seq(Printed))
  BY <1>1, <1>4, SeqDef
<1>6. Len(s) = Len(R)
  <2>1. DOMAIN s = 1..Len(s) /\ Len(s) \in Nat
    BY <1>5, LenProperties
  <2>2. QED
    BY <1>1, <1>4, <2>1
<1>7. QED
  BY <1>2, <1>3, <1>5, <1>6

(* Without a limit, `jm ls jobs` prints the rows of each flow in turn.      *)
LEMMA JobRowsFlat == ASSUME NEW R, R = rows, NEW x PROVE JobRows(x, None) = FlattenSeq(PerFlow(R, x))
BY DEF JobRows, PerFlow, Cut

LEMMA JobRowsRange ==
  ASSUME NEW R, R = rows, R \in Seq(Row), NEW x
  PROVE  /\ JobRows(x, None) \in Seq(Printed)
         /\ Range(JobRows(x, None)) = UNION {{JobRow(R[i], j) : j \in Hits(R[i], x)} : i \in DOMAIN R}
<1>1. Len(R) \in Nat /\ DOMAIN R = 1..Len(R) /\ \A i \in DOMAIN R : R[i] \in Row
  BY LenProperties, ElementOfSeq
<1>2. PICK s : s = PerFlow(R, x)
  OBVIOUS
<1>3. s \in Seq(Seq(Printed)) /\ Len(s) = Len(R) /\ \A i \in 1..Len(R) : s[i] = RowsOf(R[i], x)
  BY <1>2, PerFlowLists
<1>4. FlattenSeq(s) \in Seq(Printed) /\ Range(FlattenSeq(s)) = UNION {Range(s[i]) : i \in 1..Len(s)}
  BY <1>3, FlattenRange
<1>5. \A i \in DOMAIN R : Range(s[i]) = {JobRow(R[i], j) : j \in Hits(R[i], x)}
  BY <1>1, <1>3, RowsRange
<1>6. UNION {Range(s[i]) : i \in 1..Len(s)}
        = UNION {{JobRow(R[i], j) : j \in Hits(R[i], x)} : i \in DOMAIN R}
  <2> DEFINE H(i) == {JobRow(R[i], j) : j \in Hits(R[i], x)}
  <2>1. \A i \in DOMAIN R : Range(s[i]) = H(i)
    BY <1>5
  <2> HIDE DEF H
  <2>2. {Range(s[i]) : i \in DOMAIN R} = {H(i) : i \in DOMAIN R}
    BY <2>1
  <2>3. UNION {Range(s[i]) : i \in DOMAIN R} = UNION {H(i) : i \in DOMAIN R}
    BY <2>2
  <2>4. 1..Len(s) = DOMAIN R
    BY <1>1, <1>3
  <2>5. QED
    BY <2>3, <2>4 DEF H
<1>7. QED
  BY <1>2, <1>4, <1>6, JobRowsFlat

(* A filter that asks for the rows in E gives them, in their order.         *)
LEMMA JobRowsFiltered ==
  ASSUME NEW R, R = rows, R \in Seq(Row), NEW x, NEW E,
         \A i \in DOMAIN R : \A j \in Range(JobsOf[R[i].flow]) :
           Matches(R[i].flow, j, R[i].statuses, x) <=> JobRow(R[i], j) \in E
  PROVE  JobRows(x, None) = Filtered(JobRows(NoFilter, None), E)
<1>1. Len(R) \in Nat /\ DOMAIN R = 1..Len(R) /\ \A i \in DOMAIN R : R[i] \in Row
  BY LenProperties, ElementOfSeq
<1>2. PICK s, t : s = PerFlow(R, NoFilter) /\ t = PerFlow(R, x)
  OBVIOUS
<1>3. /\ s \in Seq(Seq(Printed)) /\ Len(s) = Len(R)
      /\ \A i \in 1..Len(R) : s[i] = RowsOf(R[i], NoFilter)
  BY <1>2, PerFlowLists
<1>4. t \in Seq(Seq(Printed)) /\ Len(t) = Len(R) /\ \A i \in 1..Len(R) : t[i] = RowsOf(R[i], x)
  BY <1>2, PerFlowLists
<1>5. \A i \in 1..Len(R) : RowsOf(R[i], x) = Filtered(RowsOf(R[i], NoFilter), E)
  BY <1>1, RowsFiltered
<1>6. \A i \in 1..Len(s) : t[i] = Filtered(s[i], E)
  BY <1>3, <1>4, <1>5
<1>7. Filtered(FlattenSeq(s), E) = FlattenSeq(t)
  BY <1>3, <1>4, <1>6, FlattenFiltered
<1>8. QED
  BY <1>2, <1>7, JobRowsFlat

-----------------------------------------------------------------------------
(* The flows that `ls flows` shows.                                         *)

LEMMA IncludeHits ==
  ASSUME NEW r \in Row, NEW x
  PROVE  Include(r, x) <=> Hits(r, x) # {} \/ (JobsOf[r.flow] = <<>> /\ x = NoFilter)
<1>1. CASE JobsOf[r.flow] = <<>>
  <2>1. Range(JobsOf[r.flow]) = {}
    BY <1>1 DEF Range
  <2>2. Hits(r, x) = {}
    BY <2>1 DEF Hits
  <2>3. QED
    BY <1>1, <2>2 DEF Include, IsDefaultFilter
<1>2. CASE JobsOf[r.flow] # <<>>
  <2>1. Include(r, x) <=> \E j \in Range(JobsOf[r.flow]) : Matches(r.flow, j, r.statuses, x)
    BY <1>2 DEF Include
  <2>2. Hits(r, x) # {} <=> \E j \in Range(JobsOf[r.flow]) : Matches(r.flow, j, r.statuses, x)
    BY DEF Hits
  <2>3. QED
    BY <1>2, <2>1, <2>2
<1>3. QED
  BY <1>1, <1>2

LEMMA MatchedRange ==
  ASSUME NEW R, R = rows, R \in Seq(Row), NEW x
  PROVE  Range(MatchedFlows(x, None)) = {r \in Range(R) : Include(r, x)}
<1>1. PICK E : E = {r \in Range(R) : Include(r, x)}
  OBVIOUS
<1>2. Range(Filtered(R, E)) = Range(R) \cap E
  BY FilteredRange
<1>3. MatchedFlows(x, None) = Filtered(R, E)
  BY <1>1 DEF MatchedFlows, Cut
<1>4. QED
  BY <1>1, <1>2, <1>3

(* Without a filter every flow is shown.                                    *)
LEMMA AllFlows == ASSUME NEW R, R = rows, R \in Seq(Row) PROVE MatchedFlows(NoFilter, None) = R
<1>1. Len(R) \in Nat /\ DOMAIN R = 1..Len(R) /\ \A i \in 1..Len(R) : R[i] \in Row
  BY LenProperties, ElementOfSeq
<1>2. ASSUME NEW r \in Row PROVE Include(r, NoFilter)
  <2>1. JobsOf[r.flow] # <<>> => Range(JobsOf[r.flow]) # {}
    <3>1. PICK s : s = JobsOf[r.flow]
      OBVIOUS
    <3>2. s \in Seq(Job)
      BY <3>1, JobsListed
    <3>3. DOMAIN s = 1..Len(s) /\ Len(s) \in Nat /\ (s = <<>> <=> Len(s) = 0)
      BY <3>2, SeqParts, EmptySeq
    <3>4. s # <<>> => 1 \in DOMAIN s
      BY <3>3
    <3>5. QED
      BY <3>1, <3>4 DEF Range
  <2>2. Hits(r, NoFilter) = Range(JobsOf[r.flow])
    BY NoFilterHits
  <2>3. QED
    BY <2>1, <2>2, IncludeHits
<1>3. PICK E : E = {r \in Range(R) : Include(r, NoFilter)}
  OBVIOUS
<1>4. \A i \in 1..Len(R) : R[i] \in E
  BY <1>1, <1>2, <1>3 DEF Range
<1>5. Filtered(R, E) = R
  BY <1>4, FilteredAll
<1>6. MatchedFlows(NoFilter, None) = Filtered(R, E)
  BY <1>3 DEF MatchedFlows, Cut
<1>7. QED
  BY <1>5, <1>6

(* A flow is shown when one of its rows is, or when it has no jobs and      *)
(* nothing is asked for.                                                    *)
LEMMA ShownFlows ==
  ASSUME NEW R, R = rows, R \in Seq(Row), NEW x, NEW i \in DOMAIN R,
         \A k \in DOMAIN R : R[k].flow = R[i].flow => k = i
  PROVE  (\E m \in Range(MatchedFlows(x, None)) : m.flow = R[i].flow)
           <=> \/ \E row \in Range(JobRows(x, None)) : row.flow = R[i].flow
               \/ JobsOf[R[i].flow] = <<>> /\ x = NoFilter
<1>1. \A k \in DOMAIN R : R[k] \in Row
  BY LenProperties, ElementOfSeq
<1>2. (\E m \in Range(MatchedFlows(x, None)) : m.flow = R[i].flow) <=> Include(R[i], x)
  <2>1. \A m : m \in Range(MatchedFlows(x, None)) <=> m \in Range(R) /\ Include(m, x)
    BY MatchedRange
  <2>2. \A m \in Range(R) : m.flow = R[i].flow => m = R[i]
    BY DEF Range
  <2>3. R[i] \in Range(R)
    BY DEF Range
  <2>4. QED
    BY <2>1, <2>2, <2>3
<1>3. (\E row \in Range(JobRows(x, None)) : row.flow = R[i].flow) <=> Hits(R[i], x) # {}
  <2>1. \A row : row \in Range(JobRows(x, None))
                   <=> \E k \in DOMAIN R : \E j \in Hits(R[k], x) : row = JobRow(R[k], j)
    BY JobRowsRange
  <2>2. \A k \in DOMAIN R : \A j : JobRow(R[k], j).flow = R[k].flow
    BY DEF JobRow
  <2>3. QED
    BY <2>1, <2>2
<1>4. Include(R[i], x) <=> Hits(R[i], x) # {} \/ (JobsOf[R[i].flow] = <<>> /\ x = NoFilter)
  BY <1>1, IncludeHits
<1>5. QED
  BY <1>2, <1>3, <1>4

-----------------------------------------------------------------------------
(* The counts of a flow.                                                    *)

\* q lists each of S once, in n places.
Counts(q, n, S) ==
  /\ q \in [1..n -> S]
  /\ \A i, k \in 1..n : q[i] = q[k] => i = k
  /\ \A e \in S : \E i \in 1..n : q[i] = e

(* A one-to-one list counts what it lists.                                  *)
LEMMA OneToOne ==
  ASSUME NEW n, NEW q, NEW S, n \in Nat, Counts(q, n, S)
  PROVE  IsFiniteSet(S) /\ Cardinality(S) = n
<1>1. q \in Bijection(1..n, S)
  BY DEF Bijection, Injection, IsInjective, Surjection, Counts
<1>2. ExistsBijection(1..n, S)
  BY <1>1 DEF ExistsBijection
<1>3. IsFiniteSet(1..n) /\ Cardinality(1..n) = n
  BY FS_Interval
<1>4. QED
  BY <1>2, <1>3, FS_Bijection

(* A filtered list is as long as there are places that are kept.            *)
LEMMA FilteredLen ==
  ASSUME NEW T, NEW s, NEW E, s \in Seq(T)
  PROVE  LET kept == {m \in 1..Len(s) : s[m] \in E}
         IN  IsFiniteSet(kept) /\ Cardinality(kept) = Len(Filtered(s, E))
<1>1. PICK u : u = Filtered(s, E)
  OBVIOUS
<1>2. u \in Seq(T) /\ \E q : Picks(q, s, E, Len(s), u)
  BY <1>1, FilteredPicks
<1>3. PICK q : Picks(q, s, E, Len(s), u)
  BY <1>2
<1>4. PICK kept : kept = {m \in 1..Len(s) : s[m] \in E}
  OBVIOUS
<1>5. Len(u) \in Nat /\ DOMAIN u = 1..Len(u) /\ Len(s) \in Nat
  BY <1>2, SeqParts
<1>6. q \in [1..Len(u) -> kept]
  BY <1>3, <1>4, <1>5 DEF Picks
<1>7. \A i, k \in 1..Len(u) : q[i] = q[k] => i = k
  <2>1. \A i, k \in 1..Len(u) : i < k => q[i] < q[k]
    BY <1>3, <1>5 DEF Picks
  <2>2. \A i \in 1..Len(u) : q[i] \in Int
    BY <1>4, <1>5, <1>6
  <2>3. QED
    BY <1>5, <2>1, <2>2
<1>8. \A e \in kept : \E i \in 1..Len(u) : q[i] = e
  BY <1>3, <1>4, <1>5 DEF Picks
<1>9. Counts(q, Len(u), kept)
  BY <1>6, <1>7, <1>8 DEF Counts
<1>10. IsFiniteSet(kept) /\ Cardinality(kept) = Len(u)
  BY <1>5, <1>9, OneToOne
<1>11. QED
  BY <1>1, <1>4, <1>10

(* A flow has as many jobs as are listed.                                   *)
LEMMA JobsCounted ==
  ASSUME NEW f \in Flow
  PROVE  /\ IsFiniteSet(Range(JobsOf[f])) /\ Cardinality(Range(JobsOf[f])) = Len(JobsOf[f])
         /\ Len(JobsOf[f]) \in Nat
<1>1. PICK s : s = JobsOf[f]
  OBVIOUS
<1>2. s \in Seq(Job) /\ \A m, n \in DOMAIN s : s[m] = s[n] => m = n
  BY <1>1, ListingAssumption
<1>3. Len(s) \in Nat /\ DOMAIN s = 1..Len(s)
  BY <1>2, SeqParts
<1>4. s \in [1..Len(s) -> Range(s)] /\ \A e \in Range(s) : \E i \in 1..Len(s) : s[i] = e
  <2>1. s = [i \in 1..Len(s) |-> s[i]]
    BY <1>2, LenProperties
  <2>2. \A i \in 1..Len(s) : s[i] \in Range(s)
    BY <1>3 DEF Range
  <2>3. \A e \in Range(s) : \E i \in 1..Len(s) : s[i] = e
    BY <1>3 DEF Range
  <2>4. QED
    BY <2>1, <2>2, <2>3
<1>5. Counts(s, Len(s), Range(s))
  BY <1>2, <1>3, <1>4 DEF Counts
<1>6. IsFiniteSet(Range(s)) /\ Cardinality(Range(s)) = Len(s)
  BY <1>3, <1>5, OneToOne
<1>7. QED
  BY <1>1, <1>3, <1>6

(* The successful jobs are as many as the places where one is listed.       *)
LEMMA DonePlaces ==
  ASSUME NEW r \in Row, NEW K,
         K = {m \in 1..Len(JobsOf[r.flow]) : Shown(r.statuses, JobsOf[r.flow][m]) = "Success"},
         IsFiniteSet(K)
  PROVE  Done(r) = Cardinality(K)
<1>1. PICK s, J : s = JobsOf[r.flow]
                  /\ J = {j \in Range(JobsOf[r.flow]) : Shown(r.statuses, j) = "Success"}
  OBVIOUS
<1>2. r.flow \in Flow /\ s \in Seq(Job)
  BY <1>1, JobsListed
<1>3. \A m, n \in DOMAIN s : s[m] = s[n] => m = n
  BY <1>1, <1>2, ListingAssumption
<1>4. DOMAIN s = 1..Len(s)
  BY <1>2, SeqParts
<1> DEFINE g == [m \in K |-> s[m]]
<1>5. g \in [K -> J] /\ \A m \in K : g[m] = s[m] /\ m \in DOMAIN s
  BY <1>1, <1>4 DEF Range
<1>6. \A j \in J : \E m \in K : g[m] = j
  BY <1>1, <1>4 DEF Range
<1> HIDE DEF g
<1>7. g \in Bijection(K, J)
  BY <1>3, <1>5, <1>6 DEF Bijection, Injection, IsInjective, Surjection
<1>8. Cardinality(J) = Cardinality(K)
  BY <1>7, FS_Bijection DEF ExistsBijection
<1>9. QED
  BY <1>1, <1>8 DEF Done

(* The rows of one flow among those of all.                                 *)
LEMMA ShownRows ==
  ASSUME NEW R, R = rows, R \in Seq(Row), NEW i \in DOMAIN R,
         \A k \in DOMAIN R : R[k].flow = R[i].flow => k = i
  PROVE  LET all == JobRows(NoFilter, None)
         IN  Filtered(all, {row \in Range(all) : row.flow = R[i].flow}) = RowsOf(R[i], NoFilter)
<1>1. Len(R) \in Nat /\ DOMAIN R = 1..Len(R) /\ \A k \in DOMAIN R : R[k] \in Row
  BY LenProperties, ElementOfSeq
<1>2. PICK all, s : all = JobRows(NoFilter, None) /\ s = PerFlow(R, NoFilter)
  OBVIOUS
<1>3. PICK E : E = {row \in Range(all) : row.flow = R[i].flow}
  OBVIOUS
<1>4. /\ s \in Seq(Seq(Printed)) /\ Len(s) = Len(R)
      /\ \A k \in 1..Len(R) : s[k] = RowsOf(R[k], NoFilter)
  BY <1>2, PerFlowLists
<1>5. all = FlattenSeq(s)
  BY <1>2, JobRowsFlat
<1>6. Range(all) = UNION {Range(s[k]) : k \in 1..Len(s)}
  BY <1>4, <1>5, FlattenRange
<1>7. \A k \in 1..Len(R) : s[k] \in Seq(Printed)
  BY <1>4, SeqParts
<1>8. ASSUME NEW k \in 1..Len(R), NEW n \in 1..Len(s[k])
      PROVE  s[k][n] \in E <=> k = i
  <2>1. PICK u : u = s[k]
    OBVIOUS
  <2>2. DOMAIN u = 1..Len(u)
    BY <1>7, <2>1, SeqParts
  <2>3. u[n] \in Range(u)
    BY <2>1, <2>2 DEF Range
  <2>4. Range(u) = {JobRow(R[k], j) : j \in Hits(R[k], NoFilter)}
    BY <1>1, <1>4, <2>1, RowsRange
  <2>5. u[n].flow = R[k].flow
    BY <2>3, <2>4 DEF JobRow
  <2>6. u[n] \in Range(all)
    BY <1>4, <1>6, <2>1, <2>3
  <2>7. QED
    BY <1>1, <1>3, <2>1, <2>5, <2>6
<1> DEFINE t == [k \in 1..Len(R) |-> Filtered(s[k], E)]
<1>9. \A k \in 1..Len(R) : t[k] = Filtered(s[k], E) /\ t[k] \in Seq(Printed)
  BY <1>7, FilteredRange
<1>10. t \in Seq(Seq(Printed)) /\ Len(t) = Len(R)
  <2>1. t \in [1..Len(R) -> Seq(Printed)]
    BY <1>9
  <2> HIDE DEF t
  <2>2. t \in Seq(Seq(Printed))
    BY <1>1, <2>1, SeqDef
  <2>3. DOMAIN t = 1..Len(t) /\ Len(t) \in Nat
    BY <2>2, LenProperties
  <2>4. QED
    BY <1>1, <2>1, <2>2, <2>3
<1> HIDE DEF t
<1>11. ASSUME NEW k \in 1..Len(R), k # i PROVE t[k] = <<>>
  <2>1. PICK u : u = s[k] /\ u \in Seq(Printed)
    BY <1>7
  <2>2. \A n \in 1..Len(u) : u[n] \notin E
    BY <1>8, <1>11, <2>1
  <2>3. Filtered(u, E) = <<>>
    BY <2>1, <2>2, FilteredNone
  <2>4. QED
    BY <1>9, <2>1, <2>3
<1>12. t[i] = s[i]
  BY <1>1, <1>7, <1>8, <1>9, FilteredAll
<1>13. Filtered(all, E) = FlattenSeq(t)
  BY <1>4, <1>5, <1>9, <1>10, FlattenFiltered
<1>14. FlattenSeq(t) = t[i]
  <2>1. i \in 1..Len(t) /\ \A k \in 1..Len(t) : k # i => t[k] = <<>>
    BY <1>1, <1>10, <1>11
  <2>2. QED
    BY <1>10, <2>1, FlattenOne
<1>15. QED
  BY <1>1, <1>2, <1>3, <1>4, <1>12, <1>13, <1>14

(* Each job of a flow has its row, in its place.                            *)
LEMMA RowPlaces ==
  ASSUME NEW r \in Row, NEW u, u = RowsOf(r, NoFilter)
  PROVE  /\ u \in Seq(Printed) /\ Len(u) = Len(JobsOf[r.flow])
         /\ DOMAIN u = DOMAIN JobsOf[r.flow] /\ DOMAIN u = 1..Len(u)
         /\ \A k \in DOMAIN u : /\ u[k] = JobRow(r, JobsOf[r.flow][k])
                                /\ Shown(r.statuses, JobsOf[r.flow][k]) \in Display
<1>1. PICK s, g : s = JobsOf[r.flow] /\ g = Lines(r)
  OBVIOUS
<1>2. s \in Seq(Job) /\ Takes(g, Job, Printed)
  BY <1>1, JobsListed
<1>3. u = Mapped(g, s)
  BY <1>1, AllRows
<1>4. u \in Seq(Printed) /\ Len(u) = Len(s) /\ \A k \in 1..Len(s) : u[k] = g[s[k]]
  BY <1>2, <1>3, MappedList
<1>5. /\ DOMAIN u = 1..Len(u) /\ DOMAIN s = 1..Len(s)
      /\ \A k \in 1..Len(s) : s[k] \in Job
  BY <1>2, <1>4, SeqParts
<1>6. \A k \in 1..Len(s) : u[k] = JobRow(r, s[k])
  BY <1>1, <1>4, <1>5 DEF Lines
<1>7. \A k \in 1..Len(s) : Shown(r.statuses, s[k]) \in Display
  <2>1. r.statuses \in [Range(s) -> Lifecycle \cup {None}]
    BY <1>1 DEF Row, Statuses
  <2>2. \A k \in 1..Len(s) : s[k] \in Range(s)
    BY <1>5 DEF Range
  <2>3. QED
    BY <2>1, <2>2 DEF Shown, Display
<1>8. QED
  BY <1>1, <1>4, <1>5, <1>6, <1>7

(* The rows that are OK are the jobs that count as done.                    *)
LEMMA OkRows ==
  ASSUME NEW r \in Row, NEW u, u = RowsOf(r, NoFilter)
  PROVE  Len(Filtered(u, {row \in Range(u) : Code[row.status] = "OK"})) = Done(r)
<1>1. PICK E, s : E = {row \in Range(u) : Code[row.status] = "OK"} /\ s = JobsOf[r.flow]
  OBVIOUS
<1>2. /\ u \in Seq(Printed) /\ Len(u) = Len(s) /\ DOMAIN u = 1..Len(u)
      /\ \A k \in DOMAIN u : u[k] = JobRow(r, s[k]) /\ Shown(r.statuses, s[k]) \in Display
  BY <1>1, RowPlaces
<1>3. PICK K : K = {m \in 1..Len(s) : Shown(r.statuses, s[m]) = "Success"}
  OBVIOUS
<1>4. \A d \in Display : Code[d] = "OK" <=> d = "Success"
  BY DEF Code, Display, Lifecycle
<1>5. \A m \in 1..Len(u) : u[m] \in E <=> m \in K
  <2>1. \A m \in 1..Len(u) : u[m] \in Range(u) /\ u[m].status = Shown(r.statuses, s[m])
    BY <1>2 DEF Range, JobRow
  <2>2. QED
    BY <1>1, <1>2, <1>3, <1>4, <2>1
<1>6. K = {m \in 1..Len(u) : u[m] \in E}
  BY <1>2, <1>3, <1>5
<1>7. IsFiniteSet(K) /\ Cardinality(K) = Len(Filtered(u, E))
  <2>1. u \in Seq(Printed)
    BY <1>2
  <2>2. LET kept == {m \in 1..Len(u) : u[m] \in E}
        IN  IsFiniteSet(kept) /\ Cardinality(kept) = Len(Filtered(u, E))
    BY <2>1, FilteredLen
  <2>3. QED
    BY <1>6, <2>2
<1>8. Done(r) = Cardinality(K)
  BY <1>1, <1>3, <1>7, DonePlaces
<1>9. QED
  BY <1>1, <1>7, <1>8

(* DONE means that there are jobs, and that each is done.                   *)
LEMMA DoneRollup ==
  ASSUME NEW r \in Row
  PROVE  AggregateFlowStatus(Displays(r.flow, r.statuses)) = "DONE"
           <=> Len(JobsOf[r.flow]) > 0 /\ Done(r) = Len(JobsOf[r.flow])
<1>1. PICK J, D, d : /\ J = Range(JobsOf[r.flow]) /\ d = Displays(r.flow, r.statuses)
                     /\ D = {j \in J : Shown(r.statuses, j) = "Success"}
  OBVIOUS
<1>2. r.flow \in Flow
  BY JobsListed
<1>3. IsFiniteSet(J) /\ Cardinality(J) = Len(JobsOf[r.flow]) /\ Len(JobsOf[r.flow]) \in Nat
  BY <1>1, <1>2, JobsCounted
<1>4. Done(r) = Cardinality(D) /\ D \in SUBSET J
  BY <1>1 DEF Done
<1>5. Cardinality(D) = Cardinality(J) <=> D = J
  BY <1>3, <1>4, FS_Subset
<1>6. Cardinality(J) > 0 <=> J # {}
  BY <1>3, FS_EmptySet
<1>7. AggregateFlowStatus(d) = "DONE" <=> d = {"Success"}
  BY DEF AggregateFlowStatus
<1>8. d = {Shown(r.statuses, j) : j \in J}
  BY <1>1 DEF Displays
<1>9. d = {"Success"} <=> J # {} /\ D = J
  BY <1>1, <1>8
<1>10. QED
  BY <1>1, <1>3, <1>4, <1>5, <1>6, <1>7, <1>9

(* What `ls flows` and `ls tree` show of one flow is what its rows say.     *)
LEMMA FlowAgrees ==
  ASSUME NEW R, R = rows, R \in Seq(Row), NEW i \in DOMAIN R,
         \A k \in DOMAIN R : R[k].flow = R[i].flow => k = i
  PROVE  LET r == rows[i]
             all == JobRows(NoFilter, None)
             shown == Filtered(all, {row \in Range(all) : row.flow = r.flow})
             flow == FlowRows(NoFilter, None)[i]
             ok == Filtered(shown, {row \in Range(shown) : Code[row.status] = "OK"})
             tree == FormatTree(r)
         IN  /\ flow.total = Len(shown) /\ flow.done = Len(ok)
             /\ flow.status = "DONE" <=> flow.total > 0 /\ flow.done = flow.total
             /\ tree.lines = [k \in DOMAIN shown |-> <<shown[k].job, Code[shown[k].status]>>]
<1> DEFINE r == rows[i]
           all == JobRows(NoFilter, None)
           shown == Filtered(all, {row \in Range(all) : row.flow = r.flow})
           flow == FlowRows(NoFilter, None)[i]
           ok == Filtered(shown, {row \in Range(shown) : Code[row.status] = "OK"})
           tree == FormatTree(r)
<1>1. r = R[i] /\ r \in Row
  BY LenProperties, ElementOfSeq
<1>2. PICK u : u = RowsOf(r, NoFilter)
  OBVIOUS
<1>3. shown = u
  <2>1. Filtered(all, {row \in Range(all) : row.flow = R[i].flow}) = RowsOf(R[i], NoFilter)
    BY ShownRows
  <2> HIDE DEF all
  <2>2. {row \in Range(all) : row.flow = R[i].flow} = {row \in Range(all) : row.flow = r.flow}
    BY <1>1
  <2>3. QED
    BY <1>1, <1>2, <2>1, <2>2
<1>4. flow = FlowRow(r)
  <2>1. MatchedFlows(NoFilter, None) = R
    BY AllFlows
  <2>2. QED
    BY <1>1, <2>1 DEF FlowRows
<1>5. ok = Filtered(u, {row \in Range(u) : Code[row.status] = "OK"})
  <2> HIDE DEF shown
  <2>1. {row \in Range(shown) : Code[row.status] = "OK"} = {row \in Range(u) : Code[row.status] = "OK"}
    BY <1>3
  <2>2. QED
    BY <1>3, <2>1
<1> HIDE DEF r, flow, shown, all, ok
<1>6. /\ flow.total = Len(JobsOf[r.flow]) /\ flow.done = Done(r)
      /\ flow.status = AggregateFlowStatus(Displays(r.flow, r.statuses))
  BY <1>4 DEF FlowRow
<1>7. /\ Len(u) = Len(JobsOf[r.flow]) /\ DOMAIN u = DOMAIN JobsOf[r.flow]
      /\ \A k \in DOMAIN u : u[k] = JobRow(r, JobsOf[r.flow][k])
  BY <1>1, <1>2, RowPlaces
<1>8. Len(ok) = Done(r)
  BY <1>1, <1>2, <1>5, OkRows
<1>9. flow.status = "DONE" <=> flow.total > 0 /\ flow.done = flow.total
  BY <1>1, <1>6, DoneRollup
<1>10. tree.lines = [k \in DOMAIN u |-> <<u[k].job, Code[u[k].status]>>]
  <2>1. \A j : JobRow(r, j).job = j /\ JobRow(r, j).status = Shown(r.statuses, j)
    BY DEF JobRow
  <2>2. \A k \in DOMAIN u : /\ u[k].job = JobsOf[r.flow][k]
                            /\ u[k].status = Shown(r.statuses, JobsOf[r.flow][k])
    BY <1>7, <2>1
  <2>3. tree.lines = [k \in DOMAIN JobsOf[r.flow] |->
          <<JobsOf[r.flow][k], Code[Shown(r.statuses, JobsOf[r.flow][k])]>>]
    BY DEF FormatTree
  <2>4. QED
    BY <1>7, <2>2, <2>3
<1>11. /\ flow.total = Len(shown) /\ flow.done = Len(ok)
       /\ flow.status = "DONE" <=> flow.total > 0 /\ flow.done = flow.total
       /\ tree.lines = [k \in DOMAIN shown |-> <<shown[k].job, Code[shown[k].status]>>]
  BY <1>3, <1>6, <1>7, <1>8, <1>9, <1>10
<1>12. QED
  BY <1>11 DEF r, flow, shown, all, ok, tree

(* `ls flows` and `ls tree` show the flows that have a row in `ls jobs`,    *)
(* their totals and their DONE are what those rows say, for any flows, jobs *)
(* and filters.                                                             *)
THEOREM ViewsHold == Spec => []ViewsAgree
<1>1. ASSUME LInv, pc = "listed"
      PROVE  ViewsAgree
  <2>1. PICK R : R = rows
    OBVIOUS
  <2>2. R \in Seq(Row)
    BY <1>1, <2>1 DEF LInv, Typed
  <2>3. \A i, k \in DOMAIN R : R[k].flow = R[i].flow => k = i
    BY <1>1, <2>1 DEF LInv, Places
  <2>4. Len(FlowRows(NoFilter, None)) = Len(rows)
    <3>1. MatchedFlows(NoFilter, None) = R
      BY <2>1, <2>2, AllFlows
    <3>2. FlowRows(NoFilter, None) = [i \in DOMAIN R |-> FlowRow(R[i])]
      BY <3>1 DEF FlowRows
    <3>3. Len(R) \in Nat /\ DOMAIN R = 1..Len(R)
      BY <2>2, LenProperties
    <3>4. Len([i \in 1..Len(R) |-> FlowRow(R[i])]) = Len(R)
      BY <3>3
    <3>5. QED
      BY <2>1, <3>2, <3>3, <3>4
  <2>5. ASSUME NEW x \in Filters, NEW i \in DOMAIN rows
        PROVE  (\E m \in Range(MatchedFlows(x, None)) : m.flow = rows[i].flow)
                 <=> \/ \E row \in Range(JobRows(x, None)) : row.flow = rows[i].flow
                     \/ JobsOf[rows[i].flow] = <<>> /\ x = NoFilter
    <3>1. i \in DOMAIN R /\ \A k \in DOMAIN R : R[k].flow = R[i].flow => k = i
      BY <2>1, <2>3, <2>5
    <3>2. (\E m \in Range(MatchedFlows(x, None)) : m.flow = R[i].flow)
            <=> \/ \E row \in Range(JobRows(x, None)) : row.flow = R[i].flow
                \/ JobsOf[R[i].flow] = <<>> /\ x = NoFilter
      BY <2>1, <2>2, <3>1, ShownFlows
    <3>3. QED
      BY <2>1, <3>2
  <2>6. ASSUME NEW i \in DOMAIN rows
        PROVE  LET r == rows[i]
                   all == JobRows(NoFilter, None)
                   shown == Filtered(all, {row \in Range(all) : row.flow = r.flow})
                   flow == FlowRows(NoFilter, None)[i]
                   ok == Filtered(shown, {row \in Range(shown) : Code[row.status] = "OK"})
                   tree == FormatTree(r)
               IN  /\ flow.total = Len(shown) /\ flow.done = Len(ok)
                   /\ flow.status = "DONE" <=> flow.total > 0 /\ flow.done = flow.total
                   /\ tree.lines = [k \in DOMAIN shown |->
                                      <<shown[k].job, Code[shown[k].status]>>]
    <3>1. i \in DOMAIN R /\ \A k \in DOMAIN R : R[k].flow = R[i].flow => k = i
      BY <2>1, <2>3, <2>6
    <3>2. QED
      BY <2>1, <2>2, <3>1, FlowAgrees
  <2>7. QED
    BY <2>4, <2>5, <2>6 DEF ViewsAgree
<1>2. LInv => ViewsAgree
  BY <1>1 DEF ViewsAgree
<1>3. QED
  BY <1>2, ListingInvariance, PTL

-----------------------------------------------------------------------------
(* What a row shows, asked for.                                             *)

(* The status columns tell the statuses apart, and are read back.           *)
LEMMA CodesDiffer ==
  ASSUME NEW d \in Display, NEW e \in Display
  PROVE  (Code[d] = Code[e] <=> d = e) /\ (Long[d] = Long[e] <=> d = e) /\ Code[d] # ""
BY DEF Display, Lifecycle, Code, Long

LEMMA ShortDiffer ==
  ASSUME NEW d \in Display, NEW e \in Display
  PROVE  /\ Code[d] \in DOMAIN Short /\ Long[d] \notin DOMAIN Short
         /\ (Short[Code[d]] = Short[Code[e]] <=> d = e)
         /\ (Short[Code[d]] = Long[e] => d = e) /\ (Long[d] = Short[Code[e]] => d = e)
<1>1. DOMAIN Short = {"PD", "Q", "R", "OK", "F", "SK"}
  <2>1. DOMAIN Code = Display
    BY DEF Code
  <2>2. \A c : c \in Range(Code) <=> \E a \in Display : c = Code[a]
    BY <2>1 DEF Range
  <2>3. Range(Code) = {"PD", "Q", "R", "OK", "F", "SK"}
    BY <2>2 DEF Display, Lifecycle, Code
  <2>4. QED
    BY <2>3 DEF Short
<1>2. \A a \in Display : Code[a] \in DOMAIN Short /\ Long[a] \notin DOMAIN Short
  BY <1>1 DEF Display, Lifecycle, Code, Long
<1>3. \A c \in {"PD", "Q", "R", "OK", "F", "SK"} :
        Short[c] = CASE c = "PD" -> "pd" [] c = "Q" -> "q" [] c = "R" -> "r"
                     [] c = "OK" -> "ok" [] c = "F" -> "f" [] c = "SK" -> "sk"
  BY <1>1 DEF Short
<1>4. /\ Short["PD"] = "pd" /\ Short["Q"] = "q" /\ Short["R"] = "r"
      /\ Short["OK"] = "ok" /\ Short["F"] = "f" /\ Short["SK"] = "sk"
  BY <1>3
<1>5. /\ (Short[Code[d]] = Short[Code[e]] <=> d = e)
      /\ (Short[Code[d]] = Long[e] => d = e) /\ (Long[d] = Short[Code[e]] => d = e)
  BY <1>4 DEF Display, Lifecycle, Code, Long
<1>6. QED
  BY <1>2, <1>5

LEMMA ReadBack ==
  ASSUME NEW d \in Display
  PROVE  ParseToken(Code[d]) = d /\ ParseToken(Long[d]) = d
<1>1. TokenLowercase(Code[d]) = Short[Code[d]] /\ TokenLowercase(Long[d]) = Long[d]
  BY ShortDiffer DEF TokenLowercase
<1>2. ASSUME NEW e \in Display
      PROVE  /\ TokenLowercase(Code[d]) \in {Short[Code[e]], Long[e]} <=> e = d
             /\ TokenLowercase(Long[d]) \in {Short[Code[e]], Long[e]} <=> e = d
  <2>1. /\ (Short[Code[d]] = Short[Code[e]] <=> d = e)
        /\ (Short[Code[d]] = Long[e] => d = e) /\ (Long[d] = Short[Code[e]] => d = e)
        /\ (Long[d] = Long[e] <=> d = e)
    BY ShortDiffer, CodesDiffer
  <2>2. QED
    BY <1>1, <2>1
<1>3. /\ {e \in Display : TokenLowercase(Code[d]) \in {Short[Code[e]], Long[e]}} = {d}
      /\ {e \in Display : TokenLowercase(Long[d]) \in {Short[Code[e]], Long[e]}} = {d}
  <2> HIDE DEF Display
  <2>1. QED
    BY <1>2
<1>4. QED
  BY <1>3 DEF ParseToken

(* A uuid, or its first part, asks for the flows with that.                 *)
LEMMA LowerAlready == ASSUME NEW s, s \in Seq(UuidChar) PROVE ToLowercase(s) = s
<1>1. DOMAIN s = 1..Len(s) /\ \A i \in 1..Len(s) : s[i] \in UuidChar
  BY SeqParts
<1>2. s = [i \in DOMAIN s |-> s[i]]
  BY LenProperties
<1>3. \A i \in DOMAIN s : s[i] \notin DOMAIN HexLower
  BY <1>1 DEF UuidChar, HexLower
<1>4. QED
  BY <1>2, <1>3 DEF ToLowercase

LEMMA UuidAsks ==
  ASSUME NEW f \in Flow, NEW g \in Flow
  PROVE  /\ IsPrefix(ToLowercase(Uuid[f]), Uuid[g]) <=> Uuid[f] = Uuid[g]
         /\ IsPrefix(ToLowercase(ShortUuid(f)), Uuid[g]) <=> ShortUuid(f) = ShortUuid(g)
<1>1. PICK s, t : s = Uuid[f] /\ t = Uuid[g]
  OBVIOUS
<1>2. s \in Seq(UuidChar) /\ t \in Seq(UuidChar) /\ Len(s) >= 8 /\ Len(s) = Len(t)
  BY <1>1, OutputAssumption
<1>3. Len(s) \in Nat /\ \A i \in 1..Len(s) : s[i] \in UuidChar
  BY <1>2, SeqParts
<1>4. PICK u : u = SubSeq(s, 1, 8)
  OBVIOUS
<1>5. u \in Seq(UuidChar) /\ Len(u) = 8
  <2>1. \A i \in 1..8 : s[i] \in UuidChar
    BY <1>2, <1>3
  <2>2. SubSeq(s, 1, 8) \in Seq(UuidChar) /\ Len(SubSeq(s, 1, 8)) = 8
    BY <2>1, SubSeqProperties
  <2>3. QED
    BY <1>4, <2>2
<1>6. SubSeq(s, 1, Len(s)) = s /\ SubSeq(t, 1, Len(t)) = t /\ SubSeq(u, 1, Len(u)) = u
  BY <1>2, <1>5, SubSeqFull
<1>7. ToLowercase(s) = s /\ ToLowercase(u) = u
  BY <1>2, <1>5, LowerAlready
<1>8. IsPrefix(s, t) <=> s = t
  BY <1>2, <1>3, <1>6 DEF IsPrefix
<1>9. IsPrefix(u, t) <=> u = SubSeq(t, 1, 8)
  BY <1>2, <1>3, <1>5, <1>6 DEF IsPrefix
<1>10. QED
  BY <1>1, <1>4, <1>7, <1>8, <1>9 DEF ShortUuid

\* The filter that asks for what a row shows, its flow by p.
AskedFor(row, p) ==
  [program |-> row.program, tags |-> {}, status |-> {row.status}, prefix |-> p,
   after |-> None, before |-> None, slurm |-> row.slurm, job |-> row.job]

LEMMA RowCells ==
  ASSUME NEW r \in Row, NEW j \in Range(JobsOf[r.flow])
  PROVE  /\ r.flow \in Flow
         /\ JobRow(r, j).flow = r.flow /\ JobRow(r, j).job = j
         /\ JobRow(r, j).program = Program[r.flow][j]
         /\ JobRow(r, j).status = Shown(r.statuses, j) /\ JobRow(r, j).status \in Display
         /\ JobRow(r, j).slurm = IF r.statuses[j] = None THEN None ELSE SlurmId[r.flow][j]
         /\ JobRow(r, j).status = "Pending" <=> JobRow(r, j).slurm = None
         /\ None # j /\ None # Program[r.flow][j] /\ None # SlurmId[r.flow][j]
<1>1. r.flow \in Flow
  BY JobsListed
<1>2. None # j /\ None # Program[r.flow][j] /\ None # SlurmId[r.flow][j]
  BY <1>1, OutputAssumption
<1>3. r.statuses[j] \in Lifecycle \cup {None}
  BY DEF Row, Statuses
<1>4. /\ Shown(r.statuses, j) \in Display
      /\ Shown(r.statuses, j) = "Pending" <=> r.statuses[j] = None
  BY <1>3 DEF Shown, Display, Lifecycle
<1>5. /\ JobRow(r, j).flow = r.flow /\ JobRow(r, j).job = j
      /\ JobRow(r, j).program = Program[r.flow][j]
      /\ JobRow(r, j).status = Shown(r.statuses, j)
      /\ JobRow(r, j).slurm = IF r.statuses[j] = None THEN None ELSE SlurmId[r.flow][j]
  BY DEF JobRow
<1>6. QED
  BY <1>1, <1>2, <1>4, <1>5

(* It matches what looks the same.                                          *)
LEMMA AskedMatches ==
  ASSUME NEW q \in Row, NEW i \in Range(JobsOf[q.flow]), NEW row, row = JobRow(q, i),
         NEW r \in Row, NEW j \in Range(JobsOf[r.flow]), NEW other, other = JobRow(r, j),
         NEW p, p # None
  PROVE  Matches(r.flow, j, r.statuses, AskedFor(row, p))
           <=> /\ IsPrefix(ToLowercase(p), Uuid[r.flow])
               /\ other.job = row.job /\ other.status = row.status
               /\ other.slurm = row.slurm /\ other.program = row.program
<1>1. PICK x : x = AskedFor(row, p)
  OBVIOUS
<1>2. /\ x.program = row.program /\ x.tags = {} /\ x.status = {row.status} /\ x.prefix = p
      /\ x.after = None /\ x.before = None /\ x.slurm = row.slurm /\ x.job = row.job
  BY <1>1 DEF AskedFor
<1>3. /\ row.job = i /\ row.program = Program[q.flow][i] /\ None # i /\ None # Program[q.flow][i]
      /\ row.status = "Pending" <=> row.slurm = None
  BY RowCells
<1>4. /\ other.job = j /\ other.program = Program[r.flow][j] /\ other.status = Shown(r.statuses, j)
      /\ other.slurm = IF r.statuses[j] = None THEN None ELSE SlurmId[r.flow][j]
      /\ other.status = "Pending" <=> other.slurm = None
      /\ None # SlurmId[r.flow][j]
  BY RowCells
<1>5. Matches(r.flow, j, r.statuses, x)
        <=> /\ row.program = Program[r.flow][j]
            /\ Shown(r.statuses, j) = row.status
            /\ IsPrefix(ToLowercase(p), Uuid[r.flow])
            /\ row.slurm = None \/ (r.statuses[j] # None /\ SlurmId[r.flow][j] = row.slurm)
            /\ row.job = j
  BY <1>2, <1>3 DEF Matches
<1>6. other.status = row.status =>
        (other.slurm = row.slurm
           <=> row.slurm = None \/ (r.statuses[j] # None /\ SlurmId[r.flow][j] = row.slurm))
  BY <1>3, <1>4
<1>7. QED
  BY <1>1, <1>4, <1>5, <1>6

(* The arguments of `jm ls jobs` and of SearchFilter become this filter.    *)
LEMMA NoTags == TagMap(<<>>) = {} /\ Range(<<>>) = {}
<1>1. Range(<<>>) = {}
  BY DEF Range
<1>2. \A t : DOMAIN t = {} => Range(t) = {}
  BY DEF Range
<1>3. QED
  BY <1>1, <1>2 DEF TagMap

LEMMA OneToken ==
  ASSUME NEW a
  PROVE  <<a>> \in Seq({a}) /\ Range(<<a>>) = {a}
<1>1. PICK s : s = <<a>>
  OBVIOUS
<1>2. Len(s) = 1 /\ DOMAIN s = 1..1 /\ s[1] = a
  BY <1>1
<1>3. s \in [1..1 -> {a}]
  BY <1>1, <1>2
<1>4. s \in Seq({a})
  BY <1>3, SeqDef
<1>5. Range(s) = {a}
  BY <1>2 DEF Range
<1>6. QED
  BY <1>1, <1>4, <1>5

LEMMA TwoTokens ==
  ASSUME NEW a, NEW b
  PROVE  <<a, b>> \in Seq({a, b}) /\ Range(<<a, b>>) = {a, b}
<1>1. PICK s : s = <<a, b>>
  OBVIOUS
<1>2. Len(s) = 2 /\ DOMAIN s = 1..2 /\ s[1] = a /\ s[2] = b
  BY <1>1
<1>3. s \in [1..2 -> {a, b}]
  BY <1>1, <1>2
<1>4. s \in Seq({a, b})
  BY <1>3, SeqDef
<1>5. Range(s) = {s[k] : k \in 1..2}
  BY <1>2 DEF Range
<1>6. {s[k] : k \in 1..2} = {a, b}
  BY <1>2
<1>7. QED
  BY <1>1, <1>4, <1>5, <1>6

(* Blank tokens are skipped.                                                *)
LEMMA BlankSkipped ==
  ASSUME NEW a, a # ""
  PROVE  /\ Range(Filtered(<<a, "">>, Range(<<a, "">>) \ {""})) = {a}
         /\ Range(Filtered(<<a>>, Range(<<a>>) \ {""})) = {a}
<1>1. PICK s, t : s = <<a, "">> /\ t = <<a>>
  OBVIOUS
<1>2. /\ s \in Seq({a, ""}) /\ Range(s) = {a, ""}
      /\ t \in Seq({a}) /\ Range(t) = {a}
  BY <1>1, OneToken, TwoTokens
<1>3. PICK E, F : E = Range(s) \ {""} /\ F = Range(t) \ {""}
  OBVIOUS
<1>4. Range(Filtered(s, E)) = Range(s) \cap E /\ Range(Filtered(t, F)) = Range(t) \cap F
  <2>1. PICK S, T : S = {a, ""} /\ T = {a}
    OBVIOUS
  <2>2. s \in Seq(S) /\ t \in Seq(T)
    BY <1>2, <2>1
  <2>3. Range(Filtered(s, E)) = Range(s) \cap E
    BY <2>2, FilteredRange
  <2>4. Range(Filtered(t, F)) = Range(t) \cap F
    BY <2>2, FilteredRange
  <2>5. QED
    BY <2>3, <2>4
<1>5. QED
  BY <1>1, <1>2, <1>3, <1>4

LEMMA StatusAsked ==
  ASSUME NEW d \in Display
  PROVE  /\ ParseStatusSet(<<Code[d], "">>) = {d} /\ ParseStatusSet(<<Long[d]>>) = {d}
         /\ ParseTokens(<<Long[d]>>) = {d}
<1>1. Code[d] # "" /\ Long[d] # ""
  BY DEF Display, Lifecycle, Code, Long
<1>2. PICK a, b : a = Code[d] /\ b = Long[d]
  OBVIOUS
<1>3. ParseToken(a) = d /\ ParseToken(b) = d /\ None # d
  BY <1>2, ReadBack, OutputAssumption
<1>4. /\ Range(Filtered(<<a, "">>, Range(<<a, "">>) \ {""})) = {a}
      /\ Range(Filtered(<<b>>, Range(<<b>>) \ {""})) = {b} /\ Range(<<b>>) = {b}
  BY <1>1, <1>2, BlankSkipped, OneToken
<1>5. ASSUME NEW u, Range(u) = {a} \/ Range(u) = {b} PROVE ParseTokens(u) = {d}
  <2>1. {ParseToken(t) : t \in Range(u)} = {d}
    BY <1>3, <1>5
  <2>2. QED
    BY <1>3, <2>1 DEF ParseTokens
<1>6. ParseTokens(Filtered(<<a, "">>, Range(<<a, "">>) \ {""})) = {d}
  BY <1>4, <1>5
<1>7. ParseTokens(Filtered(<<b>>, Range(<<b>>) \ {""})) = {d} /\ ParseTokens(<<b>>) = {d}
  BY <1>4, <1>5
<1>8. QED
  BY <1>2, <1>6, <1>7 DEF ParseStatusSet

LEMMA NoStatus == ParseStatusSet(<<>>) = {}
<1>1. Range(<<>>) = {} /\ Filtered(<<>>, {} \ {""}) = <<>>
  <2>1. PICK s, E : s = <<>> /\ E = {} \ {""}
    OBVIOUS
  <2>2. s \in Seq({}) /\ \A i \in 1..Len(s) : s[i] \notin E
    BY <2>1
  <2>3. Filtered(s, E) = <<>>
    BY <2>2, FilteredNone
  <2>4. QED
    BY <2>1, <2>3, NoTags
<1>2. {ParseToken(t) : t \in {}} = {}
  OBVIOUS
<1>3. QED
  BY <1>1, <1>2 DEF ParseStatusSet, ParseTokens

\* Arguments that ask for what a row shows, its status by these tokens.
ArgsFor(row, p, tokens) ==
  [program |-> row.program, tags |-> <<>>, status |-> tokens, prefix |-> p,
   after |-> None, before |-> None, slurm |-> row.slurm, job |-> row.job]

LEMMA ArgsWritten ==
  ASSUME NEW row, NEW p, NEW tokens
  PROVE  [NoArgs EXCEPT !.prefix = p, !.job = row.job, !.status = tokens, !.slurm = row.slurm,
            !.program = row.program] = ArgsFor(row, p, tokens)
<1>1. PICK args : args = [NoArgs EXCEPT !.prefix = p, !.job = row.job, !.status = tokens,
                            !.slurm = row.slurm, !.program = row.program]
  OBVIOUS
<1>2. args \in [program : {row.program}, tags : {<<>>}, status : {tokens}, prefix : {p},
                after : {None}, before : {None}, slurm : {row.slurm}, job : {row.job}]
  BY <1>1 DEF NoArgs, NoFilter
<1>3. args = ArgsFor(row, p, tokens)
  BY <1>2 DEF ArgsFor
<1>4. QED
  BY <1>1, <1>3

LEMMA Completed ==
  ASSUME NEW row, NEW p, NEW tokens
  PROVE  [ArgsFor(row, p, tokens) EXCEPT !.status = {row.status}, !.tags = {}] = AskedFor(row, p)
<1>1. PICK args, x : /\ args = ArgsFor(row, p, tokens)
                     /\ x = [args EXCEPT !.status = {row.status}, !.tags = {}]
  OBVIOUS
<1>2. args \in [program : {row.program}, tags : {<<>>}, status : {tokens}, prefix : {p},
                after : {None}, before : {None}, slurm : {row.slurm}, job : {row.job}]
  BY <1>1 DEF ArgsFor
<1>3. x \in [program : {row.program}, tags : {{}}, status : {{row.status}}, prefix : {p},
             after : {None}, before : {None}, slurm : {row.slurm}, job : {row.job}]
  BY <1>1, <1>2
<1>4. x = AskedFor(row, p)
  BY <1>3 DEF AskedFor
<1>5. QED
  BY <1>1, <1>4

LEMMA Built ==
  ASSUME NEW row, NEW p, row.status \in Display
  PROVE  /\ BuildFilter(ArgsFor(row, p, <<Code[row.status], "">>)) = AskedFor(row, p)
         /\ BuildFilter(ArgsFor(row, p, <<Long[row.status]>>)) = AskedFor(row, p)
         /\ ToInner(ArgsFor(row, p, <<Long[row.status]>>)) = AskedFor(row, p)
<1>1. PICK d : d = row.status
  OBVIOUS
<1>2. None # {d} /\ None # {}
  BY <1>1, OutputAssumption
<1>3. ASSUME NEW tokens, ParseStatusSet(tokens) = {d}
      PROVE  BuildFilter(ArgsFor(row, p, tokens)) = AskedFor(row, p)
  <2>1. PICK args : args = ArgsFor(row, p, tokens)
    OBVIOUS
  <2>2. args.status = tokens /\ args.tags = <<>>
    BY <2>1 DEF ArgsFor
  <2>3. BuildFilter(args) = [args EXCEPT !.status = {d}, !.tags = {}]
    BY <1>2, <1>3, <2>2, NoTags DEF BuildFilter
  <2>4. [args EXCEPT !.status = {d}, !.tags = {}] = AskedFor(row, p)
    BY <1>1, <2>1, Completed
  <2>5. QED
    BY <2>1, <2>3, <2>4
<1>4. ASSUME NEW tokens, ParseTokens(tokens) = {d}
      PROVE  ToInner(ArgsFor(row, p, tokens)) = AskedFor(row, p)
  <2>1. PICK args : args = ArgsFor(row, p, tokens)
    OBVIOUS
  <2>2. args.status = tokens /\ args.tags = <<>>
    BY <2>1 DEF ArgsFor
  <2>3. ToInner(args) = [args EXCEPT !.status = {d}, !.tags = {}]
    BY <1>2, <1>4, <2>2, NoTags DEF ToInner
  <2>4. [args EXCEPT !.status = {d}, !.tags = {}] = AskedFor(row, p)
    BY <1>1, <2>1, Completed
  <2>5. QED
    BY <2>1, <2>3, <2>4
<1>5. /\ ParseStatusSet(<<Code[d], "">>) = {d} /\ ParseStatusSet(<<Long[d]>>) = {d}
      /\ ParseTokens(<<Long[d]>>) = {d}
  BY <1>1, StatusAsked
<1>6. QED
  BY <1>1, <1>3, <1>4, <1>5

(* The --tag arguments of a flow give its tags.                             *)
LEMMA TagsBuilt ==
  ASSUME NEW f \in Flow
  PROVE  LET x == BuildFilter([NoArgs EXCEPT !.tags = TagArgs[f]])
         IN  /\ x.tags = Tags[f] /\ x.status = {} /\ x.program = None /\ x.prefix = None
             /\ x.after = None /\ x.before = None /\ x.slurm = None /\ x.job = None
<1>1. PICK args : args = [NoArgs EXCEPT !.tags = TagArgs[f]]
  OBVIOUS
<1>2. args \in [program : {None}, tags : {TagArgs[f]}, status : {<<>>}, prefix : {None},
                after : {None}, before : {None}, slurm : {None}, job : {None}]
  BY <1>1 DEF NoArgs, NoFilter
<1>3. args.status = <<>> /\ args.tags = TagArgs[f]
  BY <1>2
<1>4. TagMap(TagArgs[f]) = Tags[f] /\ Tags[f] # None /\ None # {}
  BY ListingAssumption, OutputAssumption DEF Tags
<1>5. BuildFilter(args) = [args EXCEPT !.status = {}, !.tags = Tags[f]]
  BY <1>3, <1>4, NoStatus DEF BuildFilter
<1>6. PICK x : x = [args EXCEPT !.status = {}, !.tags = Tags[f]]
  OBVIOUS
<1>7. /\ x.tags = Tags[f] /\ x.status = {} /\ x.program = None /\ x.prefix = None
      /\ x.after = None /\ x.before = None /\ x.slurm = None /\ x.job = None
  BY <1>2, <1>6
<1>8. QED
  BY <1>1, <1>5, <1>6, <1>7

LEMMA TagsMatch ==
  ASSUME NEW r \in Row, NEW j \in Range(JobsOf[r.flow])
  PROVE  Matches(r.flow, j, r.statuses, BuildFilter([NoArgs EXCEPT !.tags = TagArgs[r.flow]]))
<1>1. PICK x : x = BuildFilter([NoArgs EXCEPT !.tags = TagArgs[r.flow]])
  OBVIOUS
<1>2. r.flow \in Flow
  BY JobsListed
<1>3. /\ x.tags = Tags[r.flow] /\ x.status = {} /\ x.program = None /\ x.prefix = None
      /\ x.after = None /\ x.before = None /\ x.slurm = None /\ x.job = None
  BY <1>1, <1>2, TagsBuilt
<1>4. Matches(r.flow, j, r.statuses, x)
  BY <1>3 DEF Matches
<1>5. QED
  BY <1>1, <1>4

(* Every job has its row among all.                                         *)
LEMMA RowThere ==
  ASSUME NEW R, R = rows, R \in Seq(Row), NEW m \in DOMAIN R, NEW j \in Range(JobsOf[R[m].flow])
  PROVE  JobRow(R[m], j) \in Range(JobRows(NoFilter, None))
<1>1. R[m] \in Row
  BY LenProperties, ElementOfSeq
<1>2. j \in Hits(R[m], NoFilter)
  BY <1>1, NoFilterHits
<1>3. QED
  BY <1>2, JobRowsRange

\* What row shows, asked for, gives the rows of all that look the same.
Found(row, all) ==
  /\ JobRows(AskedFor(row, ShortUuid(row.flow)), None)
       = Filtered(all, {other \in Range(all) : JobCells(other) = JobCells(row)})
  /\ JobRows(AskedFor(row, Uuid[row.flow]), None)
       = Filtered(all, {other \in Range(all) : JobRowJson(other) = JobRowJson(row)})

(* What a printed row shows, asked for, gives the rows that look the same;  *)
(* and so does what a row in JSON shows.                                    *)
LEMMA AskedFinds ==
  ASSUME NEW R, R = rows, R \in Seq(Row), NEW k \in DOMAIN R,
         NEW i \in Range(JobsOf[R[k].flow]), NEW row, row = JobRow(R[k], i),
         NEW all, all = JobRows(NoFilter, None)
  PROVE  Found(row, all)
<1>1. \A m \in DOMAIN R : R[m] \in Row
  BY LenProperties, ElementOfSeq
<1>2. row.flow = R[k].flow /\ row.flow \in Flow /\ row.status \in Display
  BY <1>1, RowCells
<1>3. None # ShortUuid(row.flow) /\ None # Uuid[row.flow]
  BY <1>2, OutputAssumption
<1>4. PICK E, F : /\ E = {other \in Range(all) : JobCells(other) = JobCells(row)}
                  /\ F = {other \in Range(all) : JobRowJson(other) = JobRowJson(row)}
  OBVIOUS
<1>5. ASSUME NEW m \in DOMAIN R, NEW j \in Range(JobsOf[R[m].flow])
      PROVE  /\ Matches(R[m].flow, j, R[m].statuses, AskedFor(row, ShortUuid(row.flow)))
                  <=> JobRow(R[m], j) \in E
             /\ Matches(R[m].flow, j, R[m].statuses, AskedFor(row, Uuid[row.flow]))
                  <=> JobRow(R[m], j) \in F
  <2>1. PICK other, r, q : other = JobRow(R[m], j) /\ r = R[m] /\ q = R[k]
    OBVIOUS
  <2>2. r \in Row /\ q \in Row /\ j \in Range(JobsOf[r.flow]) /\ i \in Range(JobsOf[q.flow])
        /\ other = JobRow(r, j) /\ row = JobRow(q, i)
    BY <1>1, <2>1
  <2>3. other \in Range(all)
    BY <2>1, RowThere
  <2>4. other.flow = r.flow /\ r.flow \in Flow /\ other.status \in Display
    BY <2>2, RowCells
  <2>5. ASSUME NEW p, p # None
        PROVE  Matches(r.flow, j, r.statuses, AskedFor(row, p))
                 <=> /\ IsPrefix(ToLowercase(p), Uuid[r.flow])
                     /\ other.job = row.job /\ other.status = row.status
                     /\ other.slurm = row.slurm /\ other.program = row.program
    BY <2>2, <2>5, AskedMatches
  <2>6. /\ IsPrefix(ToLowercase(Uuid[row.flow]), Uuid[r.flow]) <=> Uuid[row.flow] = Uuid[other.flow]
        /\ IsPrefix(ToLowercase(ShortUuid(row.flow)), Uuid[r.flow])
             <=> ShortUuid(row.flow) = ShortUuid(other.flow)
    BY <1>2, <2>4, UuidAsks
  <2>7. /\ Code[other.status] = Code[row.status] <=> other.status = row.status
        /\ Long[other.status] = Long[row.status] <=> other.status = row.status
    BY <1>2, <2>4, CodesDiffer
  <2>8. JobCells(other) = JobCells(row)
          <=> /\ ShortUuid(other.flow) = ShortUuid(row.flow) /\ other.job = row.job
              /\ Code[other.status] = Code[row.status]
              /\ other.slurm = row.slurm /\ other.program = row.program
    BY DEF JobCells
  <2>9. JobRowJson(other) = JobRowJson(row)
          <=> /\ Uuid[other.flow] = Uuid[row.flow] /\ other.job = row.job
              /\ Long[other.status] = Long[row.status]
              /\ other.slurm = row.slurm /\ other.program = row.program
    BY DEF JobRowJson
  <2>10. Matches(r.flow, j, r.statuses, AskedFor(row, ShortUuid(row.flow))) <=> other \in E
    BY <1>3, <1>4, <2>3, <2>5, <2>6, <2>7, <2>8
  <2>11. Matches(r.flow, j, r.statuses, AskedFor(row, Uuid[row.flow])) <=> other \in F
    BY <1>3, <1>4, <2>3, <2>5, <2>6, <2>7, <2>9
  <2>12. QED
    BY <2>1, <2>10, <2>11
<1>6. JobRows(AskedFor(row, ShortUuid(row.flow)), None) = Filtered(all, E)
  <2>1. PICK x : x = AskedFor(row, ShortUuid(row.flow))
    OBVIOUS
  <2>2. \A m \in DOMAIN R : \A j \in Range(JobsOf[R[m].flow]) :
          Matches(R[m].flow, j, R[m].statuses, x) <=> JobRow(R[m], j) \in E
    BY <1>5, <2>1
  <2>3. QED
    BY <2>1, <2>2, JobRowsFiltered
<1>7. JobRows(AskedFor(row, Uuid[row.flow]), None) = Filtered(all, F)
  <2>1. PICK x : x = AskedFor(row, Uuid[row.flow])
    OBVIOUS
  <2>2. \A m \in DOMAIN R : \A j \in Range(JobsOf[R[m].flow]) :
          Matches(R[m].flow, j, R[m].statuses, x) <=> JobRow(R[m], j) \in F
    BY <1>5, <2>1
  <2>3. QED
    BY <2>1, <2>2, JobRowsFiltered
<1>8. QED
  BY <1>4, <1>6, <1>7 DEF Found

(* A filter that is built is no error.                                      *)
LEMMA NoError ==
  ASSUME NEW r \in Row, NEW j \in Range(JobsOf[r.flow]), NEW row, row = JobRow(r, j)
  PROVE  AskedFor(row, ShortUuid(row.flow)) # None /\ AskedFor(row, Uuid[row.flow]) # None
<1>1. PICK f : f = r.flow
  OBVIOUS
<1>2. /\ f \in Flow /\ row.flow = f /\ row.job = j /\ row.program = Program[f][j]
      /\ row.status \in Display /\ row.slurm \in {None, SlurmId[f][j]}
      /\ j \in Range(JobsOf[f])
  BY <1>1, RowCells
<1>3. PICK Args : Args = [program : {Program[f][j]}, tags : {{}}, status : SUBSET Display,
                          prefix : {Uuid[f], ShortUuid(f)}, after : {None}, before : {None},
                          slurm : {None, SlurmId[f][j]}, job : {j}]
  OBVIOUS
<1>4. None \notin Args
  BY <1>2, <1>3, OutputAssumption
<1>5. ASSUME NEW p \in {Uuid[f], ShortUuid(f)} PROVE AskedFor(row, p) \in Args
  <2>1. {row.status} \in SUBSET Display
    BY <1>2
  <2> HIDE DEF Display
  <2>2. QED
    BY <1>2, <1>3, <2>1 DEF AskedFor
<1>6. QED
  BY <1>2, <1>4, <1>5

(* A row finds itself, however its fields are asked for.                    *)
LEMMA RowFound ==
  ASSUME NEW R, R = rows, R \in Seq(Row), \A m, n \in DOMAIN R : R[m].flow = R[n].flow => m = n,
         NEW i \in DOMAIN JobRows(NoFilter, None)
  PROVE  LET all == JobRows(NoFilter, None)
             row == all[i]
             cells == JobCells(row)
             json == JobRowJson(row)
             asked == [NoArgs EXCEPT !.prefix = cells.FLOW, !.job = cells.JOB,
                         !.status = <<cells.ST, "">>, !.slurm = cells.SLURM_ID,
                         !.program = cells.PROGRAM]
             askedJson == [NoArgs EXCEPT !.prefix = json.flow, !.job = json.job,
                             !.status = <<json.status>>, !.slurm = json.slurm_jobid,
                             !.program = json.program]
             r == CHOOSE c \in Range(rows) : c.flow = row.flow
             py == PyStatus(r.statuses, row.job)
             askedPy == [askedJson EXCEPT !.status = <<py>>]
         IN  /\ BuildFilter(asked) # None
             /\ JobRows(BuildFilter(asked), None)
                  = Filtered(all, {other \in Range(all) : JobCells(other) = JobCells(row)})
             /\ row \in Range(JobRows(BuildFilter([NoArgs EXCEPT !.tags = TagArgs[row.flow]]), None))
             /\ BuildFilter(askedJson) # None
             /\ JobRows(BuildFilter(askedJson), None)
                  = Filtered(all, {other \in Range(all) : JobRowJson(other) = JobRowJson(row)})
             /\ py # None =>
                  /\ ToInner(askedPy) # None
                  /\ JobRows(ToInner(askedPy), None)
                       = Filtered(all, {other \in Range(all) : JobRowJson(other) = JobRowJson(row)})
<1> DEFINE all == JobRows(NoFilter, None)
           row == all[i]
           cells == JobCells(row)
           json == JobRowJson(row)
           asked == [NoArgs EXCEPT !.prefix = cells.FLOW, !.job = cells.JOB,
                       !.status = <<cells.ST, "">>, !.slurm = cells.SLURM_ID,
                       !.program = cells.PROGRAM]
           askedJson == [NoArgs EXCEPT !.prefix = json.flow, !.job = json.job,
                           !.status = <<json.status>>, !.slurm = json.slurm_jobid,
                           !.program = json.program]
           r == CHOOSE c \in Range(rows) : c.flow = row.flow
           py == PyStatus(r.statuses, row.job)
           askedPy == [askedJson EXCEPT !.status = <<py>>]
<1>1. PICK k \in DOMAIN R : \E j \in Hits(R[k], NoFilter) : row = JobRow(R[k], j)
  <2>1. row \in Range(all)
    BY DEF Range
  <2> HIDE DEF row
  <2>2. Range(all) = UNION {{JobRow(R[m], n) : n \in Hits(R[m], NoFilter)} : m \in DOMAIN R}
    BY JobRowsRange
  <2>3. QED
    BY <2>1, <2>2
<1>2. PICK j \in Hits(R[k], NoFilter) : row = JobRow(R[k], j)
  BY <1>1
<1>3. \A m \in DOMAIN R : R[m] \in Row
  BY LenProperties, ElementOfSeq
<1>4. j \in Range(JobsOf[R[k].flow])
  BY <1>3, NoFilterHits
<1>5. /\ cells.FLOW = ShortUuid(row.flow) /\ cells.JOB = row.job /\ cells.ST = Code[row.status]
      /\ cells.SLURM_ID = row.slurm /\ cells.PROGRAM = row.program
  BY DEF JobCells
<1>6. /\ json.flow = Uuid[row.flow] /\ json.job = row.job /\ json.status = Long[row.status]
      /\ json.slurm_jobid = row.slurm /\ json.program = row.program
  BY DEF JobRowJson
<1> HIDE DEF row, all, cells, json
<1>7. asked = ArgsFor(row, ShortUuid(row.flow), <<Code[row.status], "">>)
  BY <1>5, ArgsWritten
<1>8. askedJson = ArgsFor(row, Uuid[row.flow], <<Long[row.status]>>)
  BY <1>6, ArgsWritten
<1> HIDE DEF asked, askedJson
<1>9. /\ row.status \in Display /\ row.flow = R[k].flow /\ row.job = j
      /\ row.status = Shown(R[k].statuses, j)
  BY <1>2, <1>3, <1>4, RowCells
<1>10. /\ BuildFilter(asked) = AskedFor(row, ShortUuid(row.flow))
      /\ BuildFilter(askedJson) = AskedFor(row, Uuid[row.flow])
  BY <1>7, <1>8, <1>9, Built
<1>11. AskedFor(row, ShortUuid(row.flow)) # None /\ AskedFor(row, Uuid[row.flow]) # None
  BY <1>2, <1>3, <1>4, NoError
<1>12. /\ JobRows(AskedFor(row, ShortUuid(row.flow)), None)
            = Filtered(all, {other \in Range(all) : JobCells(other) = JobCells(row)})
       /\ JobRows(AskedFor(row, Uuid[row.flow]), None)
            = Filtered(all, {other \in Range(all) : JobRowJson(other) = JobRowJson(row)})
  <2>1. all = JobRows(NoFilter, None)
    BY DEF all
  <2>2. row = JobRow(R[k], j)
    BY <1>2
  <2>3. Found(row, all)
    BY <1>4, <2>1, <2>2, AskedFinds
  <2>4. QED
    BY <2>3 DEF Found
<1>13. row \in Range(JobRows(BuildFilter([NoArgs EXCEPT !.tags = TagArgs[row.flow]]), None))
  <2>1. PICK x : x = BuildFilter([NoArgs EXCEPT !.tags = TagArgs[row.flow]])
    OBVIOUS
  <2>2. j \in Hits(R[k], x)
    BY <1>3, <1>4, <1>9, <2>1, TagsMatch DEF Hits
  <2>3. Range(JobRows(x, None)) = UNION {{JobRow(R[m], n) : n \in Hits(R[m], x)} : m \in DOMAIN R}
    BY JobRowsRange
  <2>4. QED
    BY <1>2, <2>1, <2>2, <2>3
<1>14. r = R[k]
  <2>1. R[k] \in Range(rows) /\ R[k].flow = row.flow
    BY <1>9 DEF Range
  <2>2. \A c \in Range(rows) : c.flow = row.flow => c = R[k]
    BY <1>9 DEF Range
  <2>3. QED
    BY <2>1, <2>2
<1>15. py # None => askedPy = askedJson
  <2>1. py # None => py = Long[row.status]
    BY <1>9, <1>14 DEF PyStatus, Shown
  <2> HIDE DEF py
  <2>2. [askedJson EXCEPT !.status = <<Long[row.status]>>] = askedJson
    <3>1. PICK p, tokens : p = Uuid[row.flow] /\ tokens = <<Long[row.status]>>
      OBVIOUS
    <3>2. PICK args : args = askedJson
      OBVIOUS
    <3>3. args \in [program : {row.program}, tags : {<<>>}, status : {tokens}, prefix : {p},
                    after : {None}, before : {None}, slurm : {row.slurm}, job : {row.job}]
      BY <1>8, <3>1, <3>2 DEF ArgsFor
    <3>4. [args EXCEPT !.status = tokens] = args
      BY <3>3
    <3>5. QED
      BY <3>1, <3>2, <3>4
  <2>3. QED
    BY <2>1, <2>2
<1>16. py # None => ToInner(askedPy) = AskedFor(row, Uuid[row.flow])
  <2>1. ToInner(askedJson) = AskedFor(row, Uuid[row.flow])
    BY <1>8, <1>9, Built
  <2> HIDE DEF py, askedPy
  <2>2. QED
    BY <1>15, <2>1
<1> HIDE DEF r, py, askedPy
<1>17. /\ BuildFilter(asked) # None
       /\ JobRows(BuildFilter(asked), None)
            = Filtered(all, {other \in Range(all) : JobCells(other) = JobCells(row)})
       /\ BuildFilter(askedJson) # None
       /\ JobRows(BuildFilter(askedJson), None)
            = Filtered(all, {other \in Range(all) : JobRowJson(other) = JobRowJson(row)})
  BY <1>10, <1>11, <1>12
<1>18. py # None =>
         /\ ToInner(askedPy) # None
         /\ JobRows(ToInner(askedPy), None)
              = Filtered(all, {other \in Range(all) : JobRowJson(other) = JobRowJson(row)})
  BY <1>11, <1>12, <1>16
<1>19. QED
  BY <1>13, <1>17, <1>18 DEF all, row, cells, json, asked, askedJson, r, py, askedPy

(* What a row of `jm ls jobs`, in print or in JSON, or Python's CalcView    *)
(* shows of a job can be asked for, and gives the rows that look the same   *)
(* and no other; the --tag arguments of its flow find it too.               *)
THEOREM RowsFound == Spec => []RowFindsItself
<1>1. ASSUME LInv, pc = "listed", NEW i \in DOMAIN JobRows(NoFilter, None)
      PROVE  LET all == JobRows(NoFilter, None)
                 row == all[i]
                 cells == JobCells(row)
                 json == JobRowJson(row)
                 asked == [NoArgs EXCEPT !.prefix = cells.FLOW, !.job = cells.JOB,
                             !.status = <<cells.ST, "">>, !.slurm = cells.SLURM_ID,
                             !.program = cells.PROGRAM]
                 askedJson == [NoArgs EXCEPT !.prefix = json.flow, !.job = json.job,
                                 !.status = <<json.status>>, !.slurm = json.slurm_jobid,
                                 !.program = json.program]
                 r == CHOOSE c \in Range(rows) : c.flow = row.flow
                 py == PyStatus(r.statuses, row.job)
                 askedPy == [askedJson EXCEPT !.status = <<py>>]
             IN  /\ BuildFilter(asked) # None
                 /\ JobRows(BuildFilter(asked), None)
                      = Filtered(all, {other \in Range(all) : JobCells(other) = JobCells(row)})
                 /\ row \in Range(JobRows(BuildFilter([NoArgs EXCEPT !.tags = TagArgs[row.flow]]), None))
                 /\ BuildFilter(askedJson) # None
                 /\ JobRows(BuildFilter(askedJson), None)
                      = Filtered(all, {other \in Range(all) : JobRowJson(other) = JobRowJson(row)})
                 /\ py # None =>
                      /\ ToInner(askedPy) # None
                      /\ JobRows(ToInner(askedPy), None)
                           = Filtered(all, {other \in Range(all) : JobRowJson(other) = JobRowJson(row)})
  <2>1. PICK R : R = rows
    OBVIOUS
  <2>2. R \in Seq(Row) /\ \A m, n \in DOMAIN R : R[m].flow = R[n].flow => m = n
    BY <1>1, <2>1 DEF LInv, Typed, Places
  <2>3. QED
    BY <2>1, <2>2, RowFound
<1>2. LInv => RowFindsItself
  BY <1>1 DEF RowFindsItself
<1>3. QED
  BY <1>2, ListingInvariance, PTL
==============================================================================
