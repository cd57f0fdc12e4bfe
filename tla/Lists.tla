-------------------------------- MODULE Lists --------------------------------
(***************************************************************************)
(* Lemmas that more than one component needs: of loops, which are written  *)
(* as recursive functions of the number of rounds, and of lists put one    *)
(* behind the other.                                                       *)
(*                                                                         *)
(* What a loop computes is proved round by round: if the rounds at which   *)
(* it would fail were not none, there would be a least one (LeastNumber),  *)
(* and the round before it leads to it (Climb).                            *)
(***************************************************************************)
EXTENDS Integers, Sequences, SequencesExt, SequenceTheorems, WellFoundedInduction, TLAPS

(* A nonempty set of numbers has a least one.                               *)
LEMMA LeastNumber ==
  ASSUME NEW P \in SUBSET Nat, P # {}
  PROVE  \E i \in P : \A k \in P : i <= k
<1>1. IsWellFoundedOn(OpToRel(<, Nat), Nat)
  BY NatLessThanWellFounded
<1>2. PICK i \in P : \A k \in P : ~ (<<k, i>> \in OpToRel(<, Nat))
  BY <1>1, WFMin
<1>3. ASSUME NEW k \in P PROVE i <= k
  <2>1. <<k, i>> \in Nat \X Nat /\ <<k, i>>[1] = k /\ <<k, i>>[2] = i
    OBVIOUS
  <2>2. ~ (k < i)
    BY <1>2, <2>1 DEF OpToRel
  <2>3. QED
    BY <2>2
<1>4. QED
  BY <1>2, <1>3

(* A set that has 0 and with each number the next has all of 0..n.          *)
LEMMA Climb ==
  ASSUME NEW n \in Nat, NEW P \in SUBSET (0..n), 0 \in P,
         \A i \in 1..n : i - 1 \in P => i \in P
  PROVE  n \in P
<1> SUFFICES ASSUME n \notin P PROVE FALSE
  OBVIOUS
<1> DEFINE B == (0..n) \ P
<1>1. B \in SUBSET Nat /\ B # {}
  OBVIOUS
<1>2. PICK m \in B : \A k \in B : m <= k
  BY <1>1, LeastNumber
<1>3. m \in 1..n /\ m - 1 \in 0..n
  BY <1>2
<1>4. m - 1 \notin B
  BY <1>2, <1>3
<1>5. QED
  BY <1>2, <1>3, <1>4

\* The greatest of a set of numbers.
Latest(K) == CHOOSE k \in K : \A j \in K : j <= k

(* A set of numbers up to n has a greatest, which moves with the set.       *)
LEMMA LatestMoves ==
  ASSUME NEW n \in Nat, NEW K, K \subseteq 1..n, K # {}, NEW d \in Nat,
         NEW J, J = {d + k : k \in K}
  PROVE  Latest(K) \in K /\ Latest(J) = d + Latest(K) /\ Latest(J) \in J
<1> DEFINE B == {n - k : k \in K}
<1>0. \A k \in K : k \in Nat /\ n - k \in Nat
  OBVIOUS
<1>1. B \in SUBSET Nat /\ B # {}
  BY <1>0
<1>2. PICK b \in B : \A j \in B : b <= j
  <2> HIDE DEF B
  <2>1. QED
    BY <1>1, LeastNumber
<1>3. PICK top \in K : b = n - top
  OBVIOUS
<1>4. ASSUME NEW j \in K PROVE j <= top
  <2>1. n - j \in B
    OBVIOUS
  <2>2. n - top <= n - j
    BY <1>2, <1>3, <2>1
  <2>3. j \in 1..n /\ top \in 1..n
    OBVIOUS
  <2>4. QED
    BY <2>2, <2>3
<1>5. Latest(K) \in K /\ \A j \in K : j <= Latest(K)
  BY <1>3, <1>4 DEF Latest
<1>6. d + Latest(K) \in J /\ \A j \in J : j <= d + Latest(K)
  <2>1. d + Latest(K) \in J
    BY <1>5
  <2>2. ASSUME NEW j \in J PROVE j <= d + Latest(K)
    <3>1. PICK k \in K : j = d + k
      OBVIOUS
    <3>2. k <= Latest(K) /\ k \in Nat /\ Latest(K) \in Nat
      BY <1>0, <1>5
    <3>3. QED
      BY <3>1, <3>2
  <2>3. QED
    BY <2>1, <2>2
<1>7. Latest(J) \in J /\ \A j \in J : j <= Latest(J)
  BY <1>6 DEF Latest
<1>8. \A j \in J : j \in Nat
  OBVIOUS
<1>9. Latest(J) <= d + Latest(K) /\ d + Latest(K) <= Latest(J)
  BY <1>6, <1>7
<1>10. Latest(J) = d + Latest(K)
  BY <1>6, <1>7, <1>8, <1>9
<1>11. QED
  BY <1>5, <1>7, <1>10

LEMMA RoundBefore ==
  ASSUME NEW n \in Nat, NEW i \in 1..n
  PROVE  /\ i - 1 \in 0..n /\ i - 1 < n /\ (i - 1) + 1 = i
         /\ i - 1 # 0 => i - 1 \in 1..n
OBVIOUS

\* The values of a loop of n rounds that begins with b; round i makes G[i][v] of v.
Rounds(f, n, V, b, G) ==
  /\ f \in [0..n -> V] /\ f[0] = b
  /\ \A i \in 1..n : f[i] = G[i][f[i - 1]]

(* A loop has a value after each of its rounds.                             *)
LEMMA LoopExists ==
  ASSUME NEW n \in Nat, NEW V, NEW b \in V, NEW G \in [1..n -> [V -> V]]
  PROVE  \E f : Rounds(f, n, V, b, G)
<1> DEFINE Runs(f, m) == f[0] = b /\ \A i \in 1..m : f[i] = G[i][f[i - 1]]
           P == {m \in 0..n : \E f \in [0..m -> V] : Runs(f, m)}
<1>1. 0 \in P
  <2>1. [i \in 0..0 |-> b] \in [0..0 -> V] /\ Runs([i \in 0..0 |-> b], 0)
    OBVIOUS
  <2> HIDE DEF Runs
  <2>2. QED
    BY <2>1
<1>2. ASSUME NEW m \in 1..n, m - 1 \in P PROVE m \in P
  <2>1. PICK g \in [0..(m - 1) -> V] : Runs(g, m - 1)
    BY <1>2
  <2> DEFINE f == [i \in 0..m |-> IF i = m THEN G[m][g[m - 1]] ELSE g[i]]
  <2>2. f \in [0..m -> V]
    BY <2>1
  <2>3. f[0] = b
    BY <2>1
  <2>4. ASSUME NEW i \in 1..m PROVE f[i] = G[i][f[i - 1]]
    <3>1. f[i - 1] = g[i - 1]
      OBVIOUS
    <3>2. CASE i = m
      BY <3>1, <3>2
    <3>3. CASE i # m
      <4>1. i \in 1..(m - 1)
        BY <3>3
      <4>2. g[i] = G[i][g[i - 1]]
        BY <2>1, <4>1
      <4>3. QED
        BY <3>1, <3>3, <4>2
    <3>4. QED
      BY <3>2, <3>3
  <2>5. Runs(f, m)
    BY <2>3, <2>4
  <2> HIDE DEF f, Runs
  <2>6. QED
    BY <2>2, <2>5
<1>3. n \in P
  <2> HIDE DEF P
  <2>1. P \in SUBSET (0..n)
    BY DEF P
  <2>2. QED
    BY <1>1, <1>2, <2>1, Climb
<1>4. QED
  BY <1>3 DEF Rounds

(* So has every function that goes on as the loop does.                     *)
LEMMA LoopUnique ==
  ASSUME NEW n \in Nat, NEW V, NEW b \in V, NEW G \in [1..n -> [V -> V]], NEW f,
         f = [i \in 0..n |-> f[i]], f[0] = b,
         \A i \in 1..n : f[i - 1] \in V => f[i] = G[i][f[i - 1]]
  PROVE  Rounds(f, n, V, b, G)
<1>1. ASSUME NEW m \in 0..n PROVE f[m] \in V
  <2> DEFINE P == {k \in 0..m : f[k] \in V}
  <2>1. m \in Nat /\ 0 \in P /\ P \in SUBSET (0..m)
    OBVIOUS
  <2>2. ASSUME NEW k \in 1..m, k - 1 \in P PROVE k \in P
    <3>1. k \in 1..n /\ k \in 0..m /\ f[k - 1] \in V
      BY <2>2
    <3>2. G[k] \in [V -> V] /\ f[k] = G[k][f[k - 1]]
      BY <3>1
    <3>3. f[k] \in V
      BY <3>1, <3>2
    <3>4. QED
      BY <3>1, <3>3
  <2> HIDE DEF P
  <2>3. m \in P
    BY <2>1, <2>2, Climb
  <2>4. QED
    BY <2>3 DEF P
<1>2. f \in [0..n -> V]
  BY <1>1
<1>3. \A i \in 1..n : i - 1 \in 0..n
  OBVIOUS
<1>4. QED
  BY <1>1, <1>2, <1>3 DEF Rounds

(* A function on the first numbers is a list.                               *)
LEMMA FcnList ==
  ASSUME NEW n \in Nat, NEW S, NEW f \in [1..n -> S]
  PROVE  f \in Seq(S) /\ Len(f) = n
<1>1. f \in Seq(S)
  BY SeqDef
<1>2. DOMAIN f = 1..n /\ DOMAIN f = 1..Len(f) /\ Len(f) \in Nat
  BY <1>1, LenProperties
<1>3. QED
  BY <1>1, <1>2

LEMMA SeqParts ==
  ASSUME NEW T, NEW s \in Seq(T)
  PROVE  Len(s) \in Nat /\ DOMAIN s = 1..Len(s) /\ \A i \in 1..Len(s) : s[i] \in T
BY LenProperties, ElementOfSeq

(* Lists of one length with the same entries are the same.                  *)
LEMMA SameList ==
  ASSUME NEW T, NEW s \in Seq(T), NEW t \in Seq(T), Len(s) = Len(t),
         \A i \in 1..Len(s) : s[i] = t[i]
  PROVE  s = t
BY LenProperties

(* A list with one more entry.                                              *)
LEMMA AppendParts ==
  ASSUME NEW T, NEW s, s \in Seq(T), NEW e, e \in T
  PROVE  /\ Append(s, e) \in Seq(T) /\ Append(s, e) # <<>>
         /\ Len(Append(s, e)) = Len(s) + 1 /\ Append(s, e)[Len(s) + 1] = e
         /\ \A i \in 1..Len(s) : Append(s, e)[i] = s[i]
BY AppendProperties

LEMMA ShortLists ==
  ASSUME NEW T
  PROVE  /\ \A c \in T : <<c>> \in Seq(T) /\ Len(<<c>>) = 1 /\ <<c>>[1] = c
         /\ \A c, d \in T : /\ <<c, d>> \in Seq(T) /\ Len(<<c, d>>) = 2
                           /\ <<c, d>>[1] = c /\ <<c, d>>[2] = d
OBVIOUS

(* Two lists, one behind the other.                                         *)
LEMMA ConcatParts ==
  ASSUME NEW T, NEW s, s \in Seq(T), NEW t, t \in Seq(T), NEW m, m = Len(s), NEW n, n = Len(t)
  PROVE  /\ s \o t \in Seq(T) /\ Len(s \o t) = m + n
         /\ \A i \in 1..(m + n) : (s \o t)[i] = IF i <= m THEN s[i] ELSE t[i - m]
BY ConcatProperties

\* t behind s.
Behind(s, t) == s \o t

(* What is pushed to the list behind is pushed to both.                     *)
LEMMA PushBehind ==
  ASSUME NEW T, NEW s, NEW t, NEW e, s \in Seq(T), t \in Seq(T), e \in T
  PROVE  Append(Behind(s, t), e) = Behind(s, Append(t, e)) /\ Behind(s, <<>>) = s
<1>1. <<e>> \in Seq(T)
  OBVIOUS
<1>2. s \o t \in Seq(T) /\ Append(t, e) = t \o <<e>> /\ s \o <<>> = s
  BY ConcatProperties, AppendIsConcat, ConcatEmptySeq
<1>3. Append(s \o t, e) = (s \o t) \o <<e>>
  BY <1>2, AppendIsConcat
<1>4. (s \o t) \o <<e>> = s \o (t \o <<e>>)
  BY <1>1, ConcatAssociative
<1>5. QED
  BY <1>2, <1>3, <1>4 DEF Behind

LEMMA RangeBehind ==
  ASSUME NEW T, NEW s, NEW t, s \in Seq(T), t \in Seq(T)
  PROVE  Behind(s, t) \in Seq(T) /\ Range(Behind(s, t)) = Range(s) \cup Range(t)
<1> DEFINE u == s \o t
           m == Len(s)
           n == Len(t)
<1>1. m \in Nat /\ n \in Nat /\ DOMAIN s = 1..m /\ DOMAIN t = 1..n
  BY SeqParts
<1>2. /\ u \in Seq(T) /\ Len(u) = m + n
      /\ \A i \in 1..(m + n) : u[i] = IF i <= m THEN s[i] ELSE t[i - m]
  BY ConcatProperties
<1>3. DOMAIN u = 1..(m + n)
  BY <1>2, SeqParts
<1> HIDE DEF u, m, n
<1>4. /\ \A i \in 1..m : i \in 1..(m + n) /\ u[i] = s[i]
      /\ \A i \in 1..n : m + i \in 1..(m + n) /\ u[m + i] = t[i]
      /\ \A i \in 1..(m + n) : i \in 1..m \/ (i - m \in 1..n /\ i = m + (i - m))
  BY <1>1, <1>2
<1>5. \A i \in 1..(m + n) : u[i] \in Range(s) \cup Range(t)
  BY <1>1, <1>4 DEF Range
<1>6. Range(s) \cup Range(t) \subseteq Range(u)
  BY <1>1, <1>3, <1>4 DEF Range
<1>7. Range(u) \subseteq Range(s) \cup Range(t)
  BY <1>3, <1>5 DEF Range
<1>8. QED
  BY <1>2, <1>6, <1>7 DEF Behind, u

\* The first i entries of s.
Prefix(s, i) == SubSeq(s, 1, i)

LEMMA PrefixParts ==
  ASSUME NEW T, NEW s, s \in Seq(T)
  PROVE  /\ Prefix(s, 0) = <<>> /\ Prefix(s, Len(s)) = s
         /\ \A i \in 0..Len(s) : Prefix(s, i) \in Seq(T)
         /\ \A i \in 1..Len(s) : Prefix(s, i) = Append(Prefix(s, i - 1), s[i])
<1>1. Len(s) \in Nat /\ \A i \in 1..Len(s) : s[i] \in T
  BY SeqParts
<1>2. ASSUME NEW i \in 0..Len(s) PROVE Prefix(s, i) \in Seq(T)
  <2>1. \A k \in 1..i : s[k] \in T
    BY <1>1
  <2>2. 1 \in Int /\ i \in Int
    OBVIOUS
  <2>3. QED
    BY <2>1, <2>2, SubSeqProperties DEF Prefix
<1>3. ASSUME NEW i \in 1..Len(s) PROVE Prefix(s, i) = Append(Prefix(s, i - 1), s[i])
  <2>1. 1 \in 1..Len(s) /\ i \in 1..Len(s) /\ i - 1 \in 0..Len(s)
    BY <1>1
  <2>2. SubSeq(s, 1, i) = SubSeq(s, 1, i - 1) \o <<s[i]>>
    BY <2>1, SubSeqRecursiveSecond
  <2>3. SubSeq(s, 1, i - 1) \in Seq(T) /\ s[i] \in T
    BY <1>1, <1>2, <2>1 DEF Prefix
  <2>4. QED
    BY <2>2, <2>3, AppendIsConcat DEF Prefix
<1>4. Prefix(s, 0) = <<>>
  BY SubSeqEmpty DEF Prefix
<1>5. Prefix(s, Len(s)) = s
  BY SubSeqFull DEF Prefix
<1>6. QED
  BY <1>2, <1>3, <1>4, <1>5

LEMMA AppendOne ==
  ASSUME NEW T, NEW s, s \in Seq(T), NEW a, a \in T
  PROVE  Behind(s, <<a>>) = Append(s, a)
BY AppendIsConcat DEF Behind

(* Four entries behind a list are put there one after the other.            *)
LEMMA AppendFour ==
  ASSUME NEW T, NEW s, s \in Seq(T), NEW a, a \in T, NEW b, b \in T, NEW c, c \in T, NEW d, d \in T
  PROVE  /\ <<a, b, c, d>> \in Seq(T)
         /\ Behind(s, <<a, b, c, d>>) = Append(Append(Append(Append(s, a), b), c), d)
<1> DEFINE t1 == <<a>>
           t2 == Append(t1, b)
           t3 == Append(t2, c)
           t4 == Append(t3, d)
<1>1. t1 \in Seq(T) /\ Behind(s, t1) = Append(s, a)
  BY AppendIsConcat DEF Behind
<1>2. <<a, b, c, d>> = t4
  OBVIOUS
<1>3. t2 \in Seq(T) /\ t3 \in Seq(T) /\ t4 \in Seq(T)
  OBVIOUS
<1> HIDE DEF t1
<1>4. Behind(s, t2) = Append(Behind(s, t1), b)
  BY <1>1, PushBehind
<1> HIDE DEF t2
<1>5. Behind(s, t3) = Append(Behind(s, t2), c)
  BY <1>3, PushBehind DEF t3
<1> HIDE DEF t3
<1>6. Behind(s, t4) = Append(Behind(s, t3), d)
  BY <1>3, PushBehind DEF t4
<1>7. QED
  BY <1>1, <1>2, <1>3, <1>4, <1>5, <1>6 DEF t1

\* The first lists of s, one behind the other.
Joined(out, T, s) ==
  /\ out \in [0..Len(s) -> Seq(T)] /\ out[0] = <<>>
  /\ \A i \in 1..Len(s) : out[i] = out[i - 1] \o s[i]

(* FlattenSeq puts lists one behind the other.                              *)
LEMMA FlattenLoop ==
  ASSUME NEW T, NEW s \in Seq(Seq(T))
  PROVE  \E out : Joined(out, T, s) /\ FlattenSeq(s) = out[Len(s)]
<1> DEFINE n == Len(s)
           V == Seq(T)
           b == <<>>
           G == [i \in 1..n |-> [v \in V |-> v \o s[i]]]
           Loop(f) == f = [i \in 1..n |-> IF i = 1 THEN s[i] ELSE f[i - 1] \o s[i]]
<1>1. n \in Nat /\ b \in V /\ \A i \in 1..n : s[i] \in V
  BY LenProperties, ElementOfSeq, EmptySeq
<1>2. G \in [1..n -> [V -> V]]
  BY <1>1, ConcatProperties
<1>3. PICK f \in [0..n -> V] : f[0] = b /\ \A i \in 1..n : f[i] = G[i][f[i - 1]]
  <2>1. n \in Nat /\ b \in V
    BY <1>1
  <2> HIDE DEF G, V, n, b
  <2>2. \E f : Rounds(f, n, V, b, G)
    BY <2>1, <1>2, LoopExists
  <2>3. QED
    BY <2>2 DEF Rounds
<1>4. \A i \in 1..n : f[i] = f[i - 1] \o s[i]
  <2> SUFFICES ASSUME NEW i \in 1..n PROVE f[i] = f[i - 1] \o s[i]
    OBVIOUS
  <2>1. i - 1 \in 0..n
    BY <1>1
  <2> HIDE DEF n, V
  <2>2. f[i - 1] \in V /\ f[i] = G[i][f[i - 1]]
    BY <1>3, <2>1
  <2>3. QED
    BY <2>2
<1>5. Joined(f, T, s)
  BY <1>3, <1>4 DEF b, Joined
<1>6. CASE n = 0
  <2>1. FlattenSeq(s) = s
    BY <1>6 DEF FlattenSeq
  <2>2. s = <<>>
    BY <1>6, EmptySeq
  <2>3. QED
    BY <1>3, <1>5, <1>6, <2>1, <2>2 DEF b
<1>7. CASE n # 0
  <2> DEFINE F == CHOOSE g : Loop(g)
             g == [i \in 1..n |-> f[i]]
  <2>1. Loop(g)
    <3>1. s[1] = f[1] /\ \A i \in 1..n : i # 1 => i - 1 \in 1..n
      <4>1. 1 \in 1..n /\ 1 - 1 = 0
        BY <1>1, <1>7
      <4>2. f[1] = b \o s[1] /\ s[1] \in V
        BY <1>1, <1>3, <1>4, <4>1
      <4>3. b \o s[1] = s[1]
        BY <4>2, ConcatEmptySeq
      <4>4. QED
        BY <1>1, <4>2, <4>3
    <3> HIDE DEF n, V
    <3>2. \A i \in 1..n : g[i] = IF i = 1 THEN s[i] ELSE g[i - 1] \o s[i]
      BY <1>4, <3>1
    <3>3. QED
      BY <3>2
  <2>2. FlattenSeq(s) = F[n]
    BY <1>7 DEF FlattenSeq
  <2> HIDE DEF g
  <2>3. Loop(F)
    <3> HIDE DEF Loop
    <3>1. QED
      BY <2>1
  <2> HIDE DEF F
  <2>4. \A i \in 1..n : F[i] = f[i]
    <3> SUFFICES ASSUME NEW m \in 1..n PROVE F[m] = f[m]
      OBVIOUS
    <3> DEFINE P == {i \in 0..m : i = 0 \/ F[i] = f[i]}
    <3>1. m \in Nat /\ 0 \in P
      BY <1>1
    <3>2. ASSUME NEW i \in 1..m, i - 1 \in P PROVE i \in P
      <4>1. i \in 1..n /\ 1 \in 1..n /\ i \in 0..m
        BY <1>1
      <4>2. F[i] = IF i = 1 THEN s[i] ELSE F[i - 1] \o s[i]
        BY <2>3, <4>1
      <4>3. CASE i = 1
        <5>1. f[1] = b \o s[1] /\ s[1] \in V
          <6>1. f[1] = f[1 - 1] \o s[1] /\ s[1] \in V
            BY <1>1, <1>4, <4>1
          <6>2. 1 - 1 = 0
            OBVIOUS
          <6>3. QED
            BY <1>3, <6>1, <6>2
        <5>2. b \o s[1] = s[1]
          BY <5>1, ConcatEmptySeq
        <5>3. QED
          BY <4>1, <4>2, <4>3, <5>1, <5>2
      <4>4. CASE i # 1
        <5>1. F[i - 1] = f[i - 1]
          BY <3>2, <4>1, <4>4
        <5>2. QED
          BY <1>4, <4>1, <4>2, <4>4, <5>1
      <4>5. QED
        BY <4>3, <4>4
    <3>3. P \in SUBSET (0..m)
      OBVIOUS
    <3> HIDE DEF P
    <3>4. m \in P
      BY <3>1, <3>2, <3>3, Climb
    <3>5. QED
      BY <1>1, <3>4 DEF P
  <2>5. FlattenSeq(s) = f[n]
    BY <1>1, <1>7, <2>2, <2>4
  <2>6. QED
    BY <1>5, <2>5
<1>8. QED
  BY <1>6, <1>7

\* What FlattenSeq has put together after each round.
Flat(a, T, s) ==
  /\ FlattenSeq(s) = a[Len(s)] /\ a[0] = <<>>
  /\ \A i \in 0..Len(s) : a[i] \in Seq(T)
  /\ \A i \in 1..Len(s) : a[i] = Behind(a[i - 1], s[i])

(* The rounds of FlattenSeq.                                                *)
LEMMA FlattenRounds == ASSUME NEW T, NEW s, s \in Seq(Seq(T)) PROVE \E a : Flat(a, T, s)
<1>1. PICK a : Joined(a, T, s) /\ FlattenSeq(s) = a[Len(s)]
  BY FlattenLoop
<1>2. Flat(a, T, s)
  BY <1>1 DEF Joined, Behind, Flat
<1>3. QED
  BY <1>2

(* What is in the flat list is in one of the lists.                         *)
LEMMA FlattenRange ==
  ASSUME NEW T, NEW s \in Seq(Seq(T))
  PROVE  /\ FlattenSeq(s) \in Seq(T)
         /\ Range(FlattenSeq(s)) = UNION {Range(s[i]) : i \in 1..Len(s)}
<1> DEFINE n == Len(s)
           Up(i) == UNION {Range(s[k]) : k \in 1..i}
<1>1. n \in Nat /\ \A i \in 1..n : s[i] \in Seq(T)
  BY SeqParts
<1>2. PICK a : /\ FlattenSeq(s) = a[n] /\ a[0] = <<>>
               /\ \A i \in 0..n : a[i] \in Seq(T)
               /\ \A i \in 1..n : a[i] = Behind(a[i - 1], s[i])
  <2>1. PICK a : Flat(a, T, s)
    BY FlattenRounds
  <2>2. QED
    BY <2>1 DEF Flat
<1> DEFINE P == {i \in 0..n : Range(a[i]) = Up(i)}
<1>3. 0 \in P
  <2>1. Range(<<>>) = {} /\ Up(0) = {} /\ 0 \in 0..n
    BY <1>1 DEF Range
  <2>2. QED
    BY <1>2, <2>1
<1>4. ASSUME NEW i \in 1..n, i - 1 \in P PROVE i \in P
  <2>1. i \in 0..n /\ i - 1 \in 0..n /\ \A k \in 1..i : k = i \/ k \in 1..(i - 1)
    BY <1>1
  <2>2. \A k \in 1..(i - 1) : k \in 1..i
    BY <1>1
  <2>3. i \in 1..i
    BY <1>1
  <2>4. Up(i) = Up(i - 1) \cup Range(s[i])
    BY <2>1, <2>2, <2>3
  <2>5. Range(a[i]) = Range(a[i - 1]) \cup Range(s[i])
    <3>1. PICK x, y : x = a[i - 1] /\ y = s[i] /\ x \in Seq(T) /\ y \in Seq(T)
      BY <1>1, <1>2, <2>1
    <3>2. Range(Behind(x, y)) = Range(x) \cup Range(y)
      BY <3>1, RangeBehind
    <3>3. a[i] = Behind(x, y)
      BY <1>2, <3>1
    <3>4. QED
      BY <3>1, <3>2, <3>3
  <2> HIDE DEF Up
  <2>6. QED
    BY <1>4, <2>1, <2>4, <2>5
<1>5. n \in P
  <2>1. P \in SUBSET (0..n)
    OBVIOUS
  <2> HIDE DEF P, n
  <2>2. QED
    BY <1>1, <1>3, <1>4, <2>1, Climb
<1>6. QED
  BY <1>1, <1>2, <1>5

(* A list among empty ones is the flat list.                                *)
LEMMA FlattenOne ==
  ASSUME NEW T, NEW s \in Seq(Seq(T)), NEW m \in 1..Len(s),
         \A i \in 1..Len(s) : i # m => s[i] = <<>>
  PROVE  FlattenSeq(s) = s[m]
<1> DEFINE n == Len(s)
<1>1. n \in Nat /\ \A i \in 1..n : s[i] \in Seq(T)
  BY SeqParts
<1>2. PICK a : /\ FlattenSeq(s) = a[n] /\ a[0] = <<>>
               /\ \A i \in 0..n : a[i] \in Seq(T)
               /\ \A i \in 1..n : a[i] = Behind(a[i - 1], s[i])
  <2>1. PICK a : Flat(a, T, s)
    BY FlattenRounds
  <2>2. QED
    BY <2>1 DEF Flat
<1> DEFINE P == {i \in 0..n : a[i] = IF i < m THEN <<>> ELSE s[m]}
<1>3. 0 \in P
  BY <1>1, <1>2
<1>4. ASSUME NEW i \in 1..n, i - 1 \in P PROVE i \in P
  <2>1. i \in 0..n /\ i - 1 \in 0..n /\ m \in 1..n /\ a[i - 1] \in Seq(T)
    BY <1>1, <1>2
  <2>2. a[i - 1] = IF i - 1 < m THEN <<>> ELSE s[m]
    BY <1>4
  <2>3. a[i] = Behind(a[i - 1], s[i])
    BY <1>2
  <2>4. CASE i = m
    <3>1. a[i - 1] = <<>> /\ ~(i < m)
      BY <1>1, <2>1, <2>2, <2>4
    <3>2. a[i] = <<>> \o s[m] /\ s[m] \in Seq(T)
      BY <1>1, <2>1, <2>3, <2>4, <3>1 DEF Behind
    <3>3. a[i] = s[m]
      BY <3>2, ConcatEmptySeq
    <3>4. QED
      BY <2>1, <3>1, <3>3
  <2>5. CASE i # m
    <3>1. s[i] = <<>> /\ (i - 1 < m <=> i < m)
      BY <1>1, <2>1, <2>5
    <3>2. a[i] = a[i - 1] \o <<>>
      BY <2>3, <3>1 DEF Behind
    <3>3. a[i] = a[i - 1]
      BY <2>1, <3>2, ConcatEmptySeq
    <3>4. QED
      BY <2>1, <2>2, <3>1, <3>3
  <2>6. QED
    BY <2>4, <2>5
<1>5. n \in P
  <2>1. P \in SUBSET (0..n)
    OBVIOUS
  <2> HIDE DEF P, n
  <2>2. QED
    BY <1>1, <1>3, <1>4, <2>1, Climb
<1>6. QED
  BY <1>1, <1>2, <1>5

(* What is put together as FlattenSeq does it is what FlattenSeq returns.   *)
LEMMA FlattenUnique ==
  ASSUME NEW T, NEW s, s \in Seq(Seq(T)), NEW n, n = Len(s), NEW b, b[0] = <<>>,
         \A i \in 1..n : b[i] = Behind(b[i - 1], s[i])
  PROVE  FlattenSeq(s) = b[n]
<1>1. PICK a : Flat(a, T, s)
  BY FlattenRounds
<1>2. /\ FlattenSeq(s) = a[n] /\ a[0] = <<>> /\ \A i \in 1..n : a[i] = Behind(a[i - 1], s[i])
  BY <1>1 DEF Flat
<1>3. n \in Nat
  BY SeqParts
<1> DEFINE P == {i \in 0..n : a[i] = b[i]}
<1>4. P \in SUBSET (0..n) /\ 0 \in P
  BY <1>2, <1>3
<1>5. ASSUME NEW i \in 1..n, i - 1 \in P PROVE i \in P
  <2>1. a[i] = Behind(a[i - 1], s[i]) /\ b[i] = Behind(b[i - 1], s[i]) /\ a[i - 1] = b[i - 1]
    BY <1>2, <1>5
  <2>2. i \in 0..n
    BY <1>3
  <2>3. QED
    BY <2>1, <2>2
<1>6. n \in P
  <2> HIDE DEF P
  <2>1. QED
    BY <1>3, <1>4, <1>5, Climb
<1>7. QED
  BY <1>2, <1>6

LEMMA FlattenAppend ==
  ASSUME NEW T, NEW s, s \in Seq(Seq(T)), NEW e, e \in Seq(T)
  PROVE  FlattenSeq(Append(s, e)) = Behind(FlattenSeq(s), e) /\ FlattenSeq(s) \in Seq(T)
<1> DEFINE n == Len(s)
           t == Append(s, e)
<1>1. n \in Nat
  BY SeqParts
<1>2. t \in Seq(Seq(T)) /\ Len(t) = n + 1 /\ t[n + 1] = e /\ \A i \in 1..n : t[i] = s[i]
  BY AppendParts
<1>3. PICK a : Flat(a, T, s)
  BY FlattenRounds
<1>4. /\ FlattenSeq(s) = a[n] /\ a[0] = <<>> /\ \A i \in 1..n : a[i] = Behind(a[i - 1], s[i])
      /\ \A i \in 0..n : a[i] \in Seq(T)
  BY <1>3 DEF Flat
<1> DEFINE b == [i \in 0..(n + 1) |-> IF i = n + 1 THEN Behind(a[n], e) ELSE a[i]]
<1> HIDE DEF t, n
<1>5. b[0] = <<>> /\ b[n + 1] = Behind(a[n], e)
  BY <1>1, <1>4
<1>6. ASSUME NEW i \in 1..(n + 1) PROVE b[i] = Behind(b[i - 1], t[i])
  <2>1. CASE i = n + 1
    <3>1. (n + 1) - 1 = n /\ n \in 0..(n + 1) /\ n # n + 1
      BY <1>1
    <3>2. b[n] = a[n]
      BY <3>1
    <3> HIDE DEF b
    <3>3. QED
      BY <1>2, <1>5, <2>1, <3>1, <3>2
  <2>2. CASE i # n + 1
    <3>1. i \in 1..n /\ i \in 0..(n + 1) /\ i - 1 \in 0..(n + 1) /\ i - 1 # n + 1
      BY <1>1, <2>2
    <3>2. b[i] = a[i] /\ b[i - 1] = a[i - 1]
      BY <2>2, <3>1
    <3> HIDE DEF b
    <3>3. QED
      BY <1>2, <1>4, <3>1, <3>2
  <2>3. QED
    BY <2>1, <2>2
<1> HIDE DEF b
<1> DEFINE m == n + 1
<1>7. m = Len(t) /\ \A i \in 1..m : b[i] = Behind(b[i - 1], t[i])
  BY <1>2, <1>6
<1> HIDE DEF m
<1>8. FlattenSeq(t) = b[m]
  BY <1>2, <1>5, <1>7, FlattenUnique
<1>9. n \in 0..n
  BY <1>1
<1>10. QED
  BY <1>4, <1>5, <1>8, <1>9 DEF t, m

LEMMA BehindTwo ==
  ASSUME NEW T, NEW x, NEW y, NEW z, x \in Seq(T), y \in Seq(T), z \in Seq(T)
  PROVE  Behind(x, Behind(y, z)) = Behind(Behind(x, y), z)
<1>1. x \in Seq(T) /\ y \in Seq(T) /\ z \in Seq(T)
  OBVIOUS
<1>2. (x \o y) \o z = x \o (y \o z)
  BY ONLY <1>1, ConcatAssociative
<1>3. QED
  BY <1>2 DEF Behind

(* A list put in front goes in front of the flat list.                      *)
LEMMA FlattenFront ==
  ASSUME NEW T, NEW s, s \in Seq(Seq(T)), NEW x, x \in Seq(T)
  PROVE  /\ Behind(<<x>>, s) \in Seq(Seq(T)) /\ Len(Behind(<<x>>, s)) = Len(s) + 1
         /\ Behind(<<x>>, s)[1] = x
         /\ \A i \in 1..Len(s) : Behind(<<x>>, s)[i + 1] = s[i]
         /\ FlattenSeq(Behind(<<x>>, s)) = Behind(x, FlattenSeq(s))
<1> DEFINE n == Len(s)
           h == <<x>>
           t == Behind(h, s)
<1>1. n \in Nat /\ \A i \in 1..n : s[i] \in Seq(T)
  BY SeqParts
<1>2. h \in Seq(Seq(T)) /\ Len(h) = 1 /\ h[1] = x
  BY ShortLists
<1> HIDE DEF h
<1>3. /\ h \o s \in Seq(Seq(T)) /\ Len(h \o s) = Len(h) + n
      /\ \A i \in 1..(Len(h) + n) : (h \o s)[i] = IF i <= Len(h) THEN h[i] ELSE s[i - Len(h)]
  BY <1>2, ConcatProperties
<1>4. /\ t \in Seq(Seq(T)) /\ Len(t) = n + 1
      /\ \A i \in 1..(n + 1) : t[i] = IF i <= 1 THEN h[i] ELSE s[i - 1]
  <2>1. 1 + n = n + 1
    BY <1>1
  <2>2. QED
    BY <1>2, <1>3, <2>1 DEF Behind
<1> HIDE DEF t
<1>5. t[1] = x /\ \A i \in 1..n : t[i + 1] = s[i]
  <2>1. 1 \in 1..(n + 1) /\ 1 <= 1
    BY <1>1
  <2>2. \A i \in 1..n : i + 1 \in 1..(n + 1) /\ ~(i + 1 <= 1) /\ (i + 1) - 1 = i
    BY <1>1
  <2> HIDE DEF n
  <2>3. QED
    BY <1>2, <1>4, <2>1, <2>2
<1>6. PICK a : Flat(a, T, s)
  BY FlattenRounds
<1>7. /\ FlattenSeq(s) = a[n] /\ a[0] = <<>> /\ \A i \in 1..n : a[i] = Behind(a[i - 1], s[i])
      /\ \A i \in 0..n : a[i] \in Seq(T)
  BY <1>6 DEF Flat
<1> HIDE DEF n
<1> DEFINE m == n + 1
           b == [i \in 0..m |-> IF i = 0 THEN <<>> ELSE Behind(x, a[i - 1])]
<1>8. b[0] = <<>> /\ b[m] = Behind(x, a[n])
  BY <1>1
<1>9. ASSUME NEW i \in 1..m PROVE b[i] = Behind(b[i - 1], t[i])
  <2>1. b[i] = Behind(x, a[i - 1])
    BY <1>1
  <2>2. CASE i = 1
    <3>1. a[i - 1] = <<>> /\ b[i - 1] = <<>> /\ t[i] = x
      BY <1>5, <1>7, <1>8, <2>2
    <3>2. x \o <<>> = x /\ <<>> \o x = x
      BY ConcatEmptySeq
    <3>3. QED
      BY <2>1, <3>1, <3>2 DEF Behind
  <2>3. CASE i # 1
    <3> DEFINE j == i - 1
    <3>1. j \in 1..n /\ j - 1 \in 0..n /\ j + 1 = i /\ j # 0 /\ j \in 0..m
      BY <1>1, <2>3
    <3>2. b[j] = Behind(x, a[j - 1])
      BY <3>1
    <3>3. a[j] = Behind(a[j - 1], s[j]) /\ t[i] = s[j] /\ a[j - 1] \in Seq(T) /\ s[j] \in Seq(T)
      BY <1>1, <1>5, <1>7, <3>1
    <3> HIDE DEF b, j
    <3>4. PICK y, z : y = a[j - 1] /\ z = s[j] /\ y \in Seq(T) /\ z \in Seq(T)
      BY <3>3
    <3>5. Behind(x, Behind(y, z)) = Behind(Behind(x, y), z)
      <4>1. x \in Seq(T) /\ y \in Seq(T) /\ z \in Seq(T)
        BY <3>4
      <4>2. QED
        BY ONLY <4>1, BehindTwo
    <3>6. b[i] = Behind(x, a[j])
      BY <2>1 DEF j
    <3>7. b[i] = Behind(b[j], t[i])
      BY <3>2, <3>3, <3>4, <3>5, <3>6
    <3>8. QED
      BY <3>7 DEF j
  <2>4. QED
    BY <2>2, <2>3
<1>10. m = Len(t)
  BY <1>4
<1> HIDE DEF b, m
<1>11. FlattenSeq(t) = b[m]
  <2>1. b[0] = <<>> /\ (\A i \in 1..m : b[i] = Behind(b[i - 1], t[i])) /\ t \in Seq(Seq(T))
    BY <1>4, <1>8, <1>9
  <2>2. QED
    BY ONLY <1>10, <2>1, FlattenUnique
<1>12. QED
  BY <1>4, <1>5, <1>7, <1>8, <1>11 DEF t, h, n
=============================================================================
