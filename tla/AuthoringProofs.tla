--------------------------- MODULE AuthoringProofs ---------------------------
(***************************************************************************)
(* What a job's id, plan entry and script say of each other: for any names *)
(* and values, of any length.                                              *)
(***************************************************************************)
EXTENDS Authoring, Lists, FiniteSetTheorems

Text == Seq(Char)

-----------------------------------------------------------------------------
(* Splitting an id.                                                         *)

\* A separator begins at i, and none at i - 1.
CutsAt(s, i, before) == i < Len(s) /\ s[i] = "_" /\ s[i + 1] = "_" /\ ~before

(* The separators are found from the left, and do not overlap.              *)
LEMMA CutsFound ==
  ASSUME NEW s, s \in Text
  PROVE  /\ Separators(s) \subseteq 1..Len(s)
         /\ \A i \in 1..Len(s) : i \in Separators(s) <=> CutsAt(s, i, i - 1 \in Separators(s))
<1> DEFINE n == Len(s)
           At(i, v) == IF CutsAt(s, i, v) THEN TRUE ELSE FALSE
           G == [i \in 1..n |-> [v \in BOOLEAN |-> At(i, v)]]
           Loop(f) == f = [i \in 0..n |-> i \in 1..(n - 1) /\ s[i] = "_" /\ s[i + 1] = "_" /\ ~f[i - 1]]
<1>1. n \in Nat
  BY LenProperties DEF Text
<1>2. G \in [1..n -> [BOOLEAN -> BOOLEAN]]
  OBVIOUS
<1>3. PICK f \in [0..n -> BOOLEAN] : f[0] = FALSE /\ \A i \in 1..n : f[i] = G[i][f[i - 1]]
  <2> HIDE DEF G, n
  <2>1. \E f : Rounds(f, n, BOOLEAN, FALSE, G)
    BY <1>1, <1>2, LoopExists
  <2>2. QED
    BY <2>1 DEF Rounds
<1>4. \A i \in 1..n : f[i] = At(i, f[i - 1])
  <2> SUFFICES ASSUME NEW i \in 1..n PROVE f[i] = At(i, f[i - 1])
    OBVIOUS
  <2>1. i - 1 \in 0..n
    BY <1>1
  <2> HIDE DEF n
  <2>2. f[i - 1] \in BOOLEAN /\ f[i] = G[i][f[i - 1]]
    BY <1>3, <2>1
  <2> HIDE DEF At
  <2>3. QED
    BY <2>2
<1>5. Loop(f)
  <2>1. \A i \in 0..n : f[i] = (i \in 1..(n - 1) /\ s[i] = "_" /\ s[i + 1] = "_" /\ ~f[i - 1])
    <3> SUFFICES ASSUME NEW i \in 0..n
                 PROVE f[i] = (i \in 1..(n - 1) /\ s[i] = "_" /\ s[i + 1] = "_" /\ ~f[i - 1])
      OBVIOUS
    <3>1. CASE i = 0
      BY <1>1, <1>3, <3>1
    <3>2. CASE i # 0
      <4>1. i \in 1..n /\ (i \in 1..(n - 1) <=> i < n)
        BY <1>1, <3>2
      <4>2. f[i] = At(i, f[i - 1])
        BY <1>4, <4>1
      <4>3. QED
        BY <4>1, <4>2 DEF CutsAt
    <3>3. QED
      BY <3>1, <3>2
  <2>2. QED
    BY <1>3, <2>1
<1> DEFINE found == CHOOSE f2 : Loop(f2)
<1>6. Separators(s) = {i \in 1..n : found[i]}
  BY DEF Separators
<1>7. Loop(found)
  <2> HIDE DEF Loop
  <2>1. QED
    BY <1>5
<1> HIDE DEF found
<1> DEFINE Cut(i) == i \in 1..(n - 1) /\ s[i] = "_" /\ s[i + 1] = "_" /\ ~found[i - 1]
<1>8. \A i \in 0..n : found[i] = Cut(i)
  BY <1>7
<1>9. ASSUME NEW i \in 1..n
      PROVE  i \in Separators(s) <=> CutsAt(s, i, i - 1 \in Separators(s))
  <2>1. i \in 0..n /\ i - 1 \in 0..n /\ (i \in 1..(n - 1) <=> i < n)
    BY <1>1
  <2>2. found[i] = Cut(i) /\ found[i - 1] = Cut(i - 1)
    BY <1>8, <2>1
  <2>3. found[i - 1] => i - 1 \in 1..n
    <3>1. Cut(i - 1) => i - 1 \in 1..(n - 1)
      OBVIOUS
    <3> HIDE DEF Cut
    <3>2. QED
      BY <1>1, <2>2, <3>1
  <2>4. found[i - 1] <=> i - 1 \in Separators(s)
    BY <1>6, <2>3
  <2>5. found[i] <=> i \in Separators(s)
    BY <1>6
  <2>6. Cut(i) <=> CutsAt(s, i, i - 1 \in Separators(s))
    BY <2>1, <2>4 DEF CutsAt
  <2> HIDE DEF Cut
  <2>7. QED
    BY <2>2, <2>5, <2>6
<1>10. QED
  BY <1>6, <1>9

\* The last piece of q has c put behind it.
PutIn(q, c) == [q EXCEPT ![Len(q)] = Append(@, c)]

\* A round of Split.
NextPieces(s, i, q) ==
  IF i \in Separators(s) THEN Append(q, <<>>)
  ELSE IF i - 1 \in Separators(s) THEN q ELSE PutIn(q, s[i])

PieceLists == Seq(Text) \ {<<>>}

\* The pieces after each round.
SplitRounds(p, s) ==
  /\ p \in [0..Len(s) -> PieceLists] /\ p[0] = << <<>> >>
  /\ \A i \in 1..Len(s) : p[i] = NextPieces(s, i, p[i - 1])

LEMMA PieceParts ==
  ASSUME NEW q \in PieceLists
  PROVE  /\ q \in Seq(Text) /\ Len(q) \in Nat /\ Len(q) >= 1 /\ DOMAIN q = 1..Len(q)
         /\ \A m \in 1..Len(q) : q[m] \in Text
<1>1. q \in Seq(Text) /\ q # <<>>
  BY DEF PieceLists
<1>2. Len(q) \in Nat /\ Len(q) # 0
  BY <1>1, EmptySeq
<1>3. QED
  BY <1>1, <1>2, SeqParts

LEMMA PutInParts ==
  ASSUME NEW q \in PieceLists, NEW c \in Char
  PROVE  /\ PutIn(q, c) \in PieceLists /\ Len(PutIn(q, c)) = Len(q)
         /\ PutIn(q, c)[Len(q)] = Append(q[Len(q)], c)
         /\ \A m \in 1..(Len(q) - 1) : PutIn(q, c)[m] = q[m]
<1> DEFINE n == Len(q)
           e == Append(q[n], c)
<1>1. q \in Seq(Text) /\ n \in Nat /\ n \in 1..n /\ q[n] \in Text
  BY PieceParts
<1>2. e \in Text
  BY <1>1, AppendProperties DEF Text
<1>3. PutIn(q, c) = [q EXCEPT ![n] = e]
  BY DEF PutIn
<1> HIDE DEF n, e
<1>4. /\ [q EXCEPT ![n] = e] \in Seq(Text) /\ Len([q EXCEPT ![n] = e]) = Len(q)
      /\ \A j \in 1..Len(q) : [q EXCEPT ![n] = e][j] = IF j = n THEN e ELSE q[j]
  BY <1>1, <1>2, ExceptSeq DEF n
<1>5. [q EXCEPT ![n] = e] # <<>>
  BY <1>1, <1>4, EmptySeq DEF n
<1>6. Len(q) = n /\ \A m \in 1..(n - 1) : m \in 1..n /\ m # n
  BY <1>1 DEF n
<1> DEFINE r == [q EXCEPT ![n] = e]
<1> HIDE DEF r
<1>7. r \in PieceLists /\ Len(r) = n /\ r[n] = e /\ \A m \in 1..(n - 1) : r[m] = q[m]
  BY <1>1, <1>4, <1>5, <1>6 DEF PieceLists, r
<1>8. PutIn(q, c) = r
  BY <1>3 DEF r
<1>9. QED
  BY <1>6, <1>7, <1>8 DEF n, e

LEMMA NextTyped ==
  ASSUME NEW s, s \in Text, NEW i \in 1..Len(s), NEW q \in PieceLists
  PROVE  NextPieces(s, i, q) \in PieceLists
<1>1. s[i] \in Char
  BY SeqParts DEF Text
<1>2. PutIn(q, s[i]) \in PieceLists
  BY <1>1, PutInParts
<1>3. Append(q, <<>>) \in PieceLists
  BY AppendProperties DEF PieceLists, Text
<1>4. QED
  BY <1>2, <1>3 DEF NextPieces

(* The rounds of Split.                                                     *)
LEMMA SplitLoop ==
  ASSUME NEW s, s \in Text
  PROVE  \E p : SplitRounds(p, s) /\ Split(s) = p[Len(s)]
<1> DEFINE n == Len(s)
           V == PieceLists
           b == << <<>> >>
           cuts == Separators(s)
           G == [i \in 1..n |-> [q \in V |-> NextPieces(s, i, q)]]
           Round(i, f) == IF i = 0 THEN << <<>> >> ELSE NextPieces(s, i, f[i - 1])
           Loop(f) == f = [i \in 0..n |->
                        IF i = 0 THEN << <<>> >>
                        ELSE LET before == f[i - 1] IN
                             IF i \in cuts THEN Append(before, <<>>)
                             ELSE IF i - 1 \in cuts THEN before
                             ELSE [before EXCEPT ![Len(before)] = Append(@, s[i])]]
<1>1. n \in Nat /\ b \in V
  <2>1. b \in Seq(Text) /\ b # <<>>
    BY DEF Text
  <2>2. QED
    BY <2>1, SeqParts DEF PieceLists, Text
<1>2. G \in [1..n -> [V -> V]]
  BY NextTyped
<1>3. PICK f \in [0..n -> V] : f[0] = b /\ \A i \in 1..n : f[i] = G[i][f[i - 1]]
  <2> HIDE DEF G, V, n, b
  <2>1. \E f : Rounds(f, n, V, b, G)
    BY <1>1, <1>2, LoopExists
  <2>2. QED
    BY <2>1 DEF Rounds
<1>4. \A i \in 0..n : f[i] = Round(i, f)
  <2> SUFFICES ASSUME NEW i \in 0..n PROVE f[i] = Round(i, f)
    OBVIOUS
  <2>1. CASE i = 0
    BY <1>3, <2>1
  <2>2. CASE i # 0
    <3>1. i \in 1..n /\ i - 1 \in 0..n
      BY <1>1, <2>2
    <3> HIDE DEF n, V
    <3>2. f[i - 1] \in V /\ f[i] = G[i][f[i - 1]]
      BY <1>3, <3>1
    <3>3. QED
      BY <2>2, <3>1, <3>2
  <2>3. QED
    BY <2>1, <2>2
<1>5. \A g : Loop(g) <=> g = [i \in 0..n |-> Round(i, g)]
  BY DEF NextPieces, PutIn
<1>6. Loop(f)
  <2>1. f = [i \in 0..n |-> Round(i, f)]
    <3> HIDE DEF Round, n
    <3>1. QED
      BY <1>3, <1>4
  <2> HIDE DEF Loop, Round
  <2>2. QED
    BY <1>5, <2>1
<1> DEFINE p == CHOOSE g : Loop(g)
<1>7. Split(s) = p[n]
  BY DEF Split
<1>8. p = [i \in 0..n |-> Round(i, p)]
  <2> HIDE DEF Loop, Round
  <2>1. Loop(p)
    BY <1>6
  <2>2. QED
    BY <1>5, <2>1
<1> HIDE DEF p
<1>9. Rounds(p, n, V, b, G)
  <2>1. p = [i \in 0..n |-> p[i]] /\ \A i \in 0..n : p[i] = Round(i, p)
    <3> HIDE DEF Round, n
    <3>1. QED
      BY <1>8
  <2>2. p[0] = b
    BY <1>1, <2>1
  <2>3. ASSUME NEW i \in 1..n, p[i - 1] \in V PROVE p[i] = G[i][p[i - 1]]
    <3>1. i \in 0..n /\ i # 0
      BY <1>1
    <3> HIDE DEF n, V
    <3>2. p[i] = NextPieces(s, i, p[i - 1])
      BY <2>1, <3>1
    <3>3. QED
      BY <2>3, <3>2
  <2> HIDE DEF G, V, n, b
  <2>4. QED
    BY <1>1, <1>2, <2>1, <2>2, <2>3, LoopUnique
<1>10. SplitRounds(p, s)
  <2>1. p \in [0..n -> V] /\ p[0] = b /\ \A i \in 1..n : p[i] = G[i][p[i - 1]]
    BY <1>9 DEF Rounds
  <2>2. ASSUME NEW i \in 1..n PROVE p[i] = NextPieces(s, i, p[i - 1])
    <3>1. i - 1 \in 0..n
      BY <1>1
    <3> HIDE DEF n, V
    <3>2. p[i - 1] \in V
      BY <2>1, <3>1
    <3>3. QED
      BY <2>1, <3>2
  <2>3. QED
    BY <2>1, <2>2 DEF SplitRounds
<1>11. QED
  BY <1>7, <1>10

EndOf(t) == t[Len(t)]

\* What the last piece is after i characters: it ends as they do.
LastFits(s, i, l) ==
  IF i = 0 \/ i \in Separators(s) \/ i - 1 \in Separators(s) THEN l = <<>>
  ELSE l # <<>> /\ EndOf(l) = s[i]

\* No piece holds a separator or ends in half of one.
Apart(q) ==
  /\ \A m \in 1..Len(q) : ~HoldsSeparator(q[m])
  /\ \A m \in 1..(Len(q) - 1) : q[m] # <<>> => EndOf(q[m]) # "_"

\* Every character but those of separators is in a piece.
Covered(s, i, q) ==
  \A k \in 1..i : s[k] = "_" \/ \E m \in 1..Len(q) : s[k] \in Range(q[m])

LEMMA AppendedText ==
  ASSUME NEW t, t \in Text, NEW c \in Char
  PROVE  /\ Append(t, c) \in Text /\ Append(t, c) # <<>> /\ EndOf(Append(t, c)) = c
         /\ Range(Append(t, c)) = Range(t) \cup {c}
         /\ ~HoldsSeparator(t) /\ ~(t # <<>> /\ EndOf(t) = "_" /\ c = "_")
              => ~HoldsSeparator(Append(t, c))
<1> DEFINE n == Len(t)
           u == Append(t, c)
<1>1. t \in Seq(Char)
  BY DEF Text
<1>2. n \in Nat /\ DOMAIN t = 1..n /\ (t = <<>> <=> n = 0)
  BY <1>1, SeqParts, EmptySeq
<1>3. /\ u \in Text /\ u # <<>> /\ Len(u) = n + 1 /\ u[n + 1] = c
      /\ \A i \in 1..n : u[i] = t[i]
  <2>1. /\ Append(t, c) \in Seq(Char) /\ Append(t, c) # <<>> /\ Len(Append(t, c)) = Len(t) + 1
        /\ Append(t, c)[Len(t) + 1] = c /\ \A i \in 1..Len(t) : Append(t, c)[i] = t[i]
    <3> HIDE DEF n, u
    <3>1. QED
      BY <1>1, AppendParts
  <2>2. QED
    BY <2>1 DEF Text
<1>4. DOMAIN u = 1..(n + 1)
  BY <1>3, SeqParts DEF Text
<1> HIDE DEF n, u
<1>5. Range(u) = Range(t) \cup {c}
  <2>1. \A i \in 1..(n + 1) : i = n + 1 \/ i \in 1..n
    BY <1>2
  <2>2. \A i \in 1..n : i \in 1..(n + 1)
    BY <1>2
  <2>3. n + 1 \in 1..(n + 1)
    BY <1>2
  <2>4. QED
    BY <1>2, <1>3, <1>4, <2>1, <2>2, <2>3 DEF Range
<1>6. ASSUME ~HoldsSeparator(t), ~(t # <<>> /\ t[n] = "_" /\ c = "_"),
             NEW i \in 1..n, u[i] = "_", u[i + 1] = "_"
      PROVE  FALSE
  <2>1. CASE i = n
    <3>1. t # <<>> /\ u[n] = t[n] /\ u[n + 1] = c
      BY <1>2, <1>3, <2>1
    <3>2. QED
      BY <1>6, <2>1, <3>1
  <2>2. CASE i # n
    <3>1. i \in 1..(n - 1) /\ i + 1 \in 1..n
      BY <1>2, <2>2
    <3>2. t[i] = "_" /\ t[i + 1] = "_"
      BY <1>3, <1>6, <3>1
    <3>3. QED
      BY <1>6, <3>1, <3>2 DEF HoldsSeparator, n
  <2>3. QED
    BY <2>1, <2>2
<1>7. (n + 1) - 1 = n
  BY <1>2
<1>8. ~HoldsSeparator(t) /\ ~(t # <<>> /\ EndOf(t) = "_" /\ c = "_") => ~HoldsSeparator(u)
  BY <1>3, <1>6, <1>7 DEF HoldsSeparator, EndOf, n
<1>9. EndOf(u) = c
  BY <1>3 DEF EndOf
<1>10. QED
  BY <1>3, <1>5, <1>8, <1>9 DEF u

LEMMA SplitStep ==
  ASSUME NEW s, s \in Text, NEW i \in 1..Len(s), NEW q \in PieceLists,
         LastFits(s, i - 1, EndOf(q)), Apart(q), Covered(s, i - 1, q)
  PROVE  LET r == NextPieces(s, i, q)
         IN  LastFits(s, i, EndOf(r)) /\ Apart(r) /\ Covered(s, i, r)
<1> DEFINE n == Len(q)
           r == NextPieces(s, i, q)
<1>1. /\ q \in Seq(Text) /\ n \in Nat /\ n >= 1 /\ \A m \in 1..n : q[m] \in Text
  BY PieceParts
<1>2. s[i] \in Char /\ Len(s) \in Nat
  BY SeqParts DEF Text
<1>3. i \in Separators(s) <=> CutsAt(s, i, i - 1 \in Separators(s))
  BY CutsFound
<1>4. i - 1 \in Separators(s) => i - 1 \in 1..Len(s) /\ s[i] = "_"
  <2>1. i - 1 \in Separators(s) =>
          i - 1 \in 1..Len(s) /\ CutsAt(s, i - 1, (i - 1) - 1 \in Separators(s))
    BY CutsFound
  <2>2. (i - 1) + 1 = i
    BY <1>2
  <2>3. QED
    BY <2>1, <2>2 DEF CutsAt
\* A piece that ends in an underscore is not followed by another.
<1>5. EndOf(q) # <<>> /\ EndOf(EndOf(q)) = "_" => s[i] # "_" \/ i - 1 \in Separators(s)
  <2> SUFFICES ASSUME EndOf(q) # <<>>, EndOf(EndOf(q)) = "_", s[i] = "_"
               PROVE  i - 1 \in Separators(s)
    OBVIOUS
  <2>1. i - 1 # 0 /\ (i - 1) - 1 \notin Separators(s) /\ s[i - 1] = "_"
    BY DEF LastFits
  <2>2. i - 1 \in 1..Len(s) /\ i - 1 < Len(s) /\ (i - 1) + 1 = i
    <3>1. Len(s) \in Nat
      BY SeqParts DEF Text
    <3>2. QED
      BY <2>1, <3>1, RoundBefore
  <2>3. QED
    BY <2>1, <2>2, CutsFound DEF CutsAt
<1>6. \A k \in 1..i : k = i \/ k \in 1..(i - 1)
  BY <1>2
<1>7. CASE i \in Separators(s)
  <2>1. r = Append(q, <<>>) /\ s[i] = "_" /\ i - 1 \notin Separators(s)
    BY <1>3, <1>7 DEF NextPieces, CutsAt
  <2>2. <<>> \in Text /\ ~HoldsSeparator(<<>>)
    BY EmptySeq DEF Text, HoldsSeparator
  <2>3. /\ Len(r) = n + 1 /\ r[n + 1] = <<>> /\ \A m \in 1..n : r[m] = q[m]
    <3>1. /\ Len(Append(q, <<>>)) = Len(q) + 1 /\ Append(q, <<>>)[Len(q) + 1] = <<>>
          /\ \A m \in 1..Len(q) : Append(q, <<>>)[m] = q[m]
      BY <1>1, <2>2, AppendProperties
    <3> HIDE DEF r
    <3>2. QED
      BY <2>1, <3>1
  <2> HIDE DEF r
  <2>4. LastFits(s, i, EndOf(r))
    BY <1>7, <2>3 DEF LastFits, EndOf
  <2>5. Apart(r)
    <3>1. ASSUME NEW m \in 1..(n + 1) PROVE ~HoldsSeparator(r[m])
      <4>1. m = n + 1 \/ m \in 1..n
        BY <1>1
      <4>2. QED
        BY <2>2, <2>3, <4>1 DEF Apart
    <3>2. ASSUME NEW m \in 1..n, r[m] # <<>> PROVE EndOf(r[m]) # "_"
      <4>1. m = n \/ m \in 1..(n - 1)
        BY <1>1
      <4>2. q[n] # <<>> => EndOf(q[n]) # "_"
        BY <1>5, <2>1 DEF EndOf
      <4>3. QED
        BY <2>3, <3>2, <4>1, <4>2 DEF Apart
    <3>3. Len(r) - 1 = n
      BY <1>1, <2>3
    <3>4. QED
      BY <2>3, <3>1, <3>2, <3>3 DEF Apart
  <2>6. Covered(s, i, r)
    <3>1. \A m \in 1..n : m \in 1..(n + 1)
      BY <1>1
    <3>2. QED
      BY <1>6, <2>1, <2>3, <3>1 DEF Covered
  <2>7. QED
    BY <2>4, <2>5, <2>6 DEF r
<1>8. CASE i \notin Separators(s) /\ i - 1 \in Separators(s)
  <2>1. r = q
    BY <1>8 DEF NextPieces
  <2>2. LastFits(s, i, EndOf(q))
    BY <1>8 DEF LastFits
  <2>3. Covered(s, i, q)
    BY <1>4, <1>6, <1>8 DEF Covered
  <2>4. QED
    BY <2>1, <2>2, <2>3
<1>9. CASE i \notin Separators(s) /\ i - 1 \notin Separators(s)
  <2>1. r = PutIn(q, s[i])
    BY <1>9 DEF NextPieces
  <2>2. /\ Len(r) = n /\ r[n] = Append(q[n], s[i]) /\ \A m \in 1..(n - 1) : r[m] = q[m]
    <3> HIDE DEF r
    <3> DEFINE c == s[i]
    <3>1. c \in Char
      BY <1>2
    <3> HIDE DEF c
    <3>2. /\ Len(PutIn(q, c)) = Len(q) /\ PutIn(q, c)[Len(q)] = Append(q[Len(q)], c)
          /\ \A m \in 1..(Len(q) - 1) : PutIn(q, c)[m] = q[m]
      BY <3>1, PutInParts
    <3>3. QED
      BY <2>1, <3>2 DEF c
  <2>3. n \in 1..n /\ q[n] \in Text
    BY <1>1
  <2>4. /\ r[n] # <<>> /\ EndOf(r[n]) = s[i] /\ Range(r[n]) = Range(q[n]) \cup {s[i]}
        /\ ~HoldsSeparator(r[n])
    <3>1. ~(q[n] # <<>> /\ EndOf(q[n]) = "_" /\ s[i] = "_") /\ ~HoldsSeparator(q[n])
      BY <1>5, <1>9, <2>3 DEF Apart, EndOf
    <3>2. QED
      BY <1>2, <2>2, <2>3, <3>1, AppendedText
  <2> HIDE DEF r
  <2>5. \A m \in 1..n : m = n \/ m \in 1..(n - 1)
    BY <1>1
  <2>6. LastFits(s, i, EndOf(r))
    <3>1. i # 0
      BY <1>2
    <3>2. QED
      BY <1>9, <2>2, <2>4, <3>1 DEF LastFits, EndOf
  <2>7. Apart(r)
    BY <2>2, <2>4, <2>5 DEF Apart
  <2>8. Covered(s, i, r)
    BY <1>6, <2>2, <2>3, <2>4, <2>5 DEF Covered
  <2>9. QED
    BY <2>6, <2>7, <2>8 DEF r
<1>10. QED
  BY <1>7, <1>8, <1>9

(* What Split makes of a text.                                              *)
LEMMA SplitFacts ==
  ASSUME NEW s, s \in Text
  PROVE  Split(s) \in PieceLists /\ Apart(Split(s)) /\ Covered(s, Len(s), Split(s))
<1> DEFINE n == Len(s)
<1>1. n \in Nat
  BY SeqParts DEF Text
<1>2. PICK p : SplitRounds(p, s) /\ Split(s) = p[n]
  BY SplitLoop
<1>3. p \in [0..n -> PieceLists] /\ p[0] = << <<>> >> /\ \A i \in 1..n : p[i] = NextPieces(s, i, p[i - 1])
  BY <1>2 DEF SplitRounds
<1> DEFINE Good(i) == LastFits(s, i, EndOf(p[i])) /\ Apart(p[i]) /\ Covered(s, i, p[i])
           P == {i \in 0..n : Good(i)}
<1>4. 0 \in P
  <2>1. Len(p[0]) = 1 /\ p[0][1] = <<>> /\ EndOf(p[0]) = <<>>
    BY <1>3 DEF EndOf
  <2>2. Apart(p[0])
    <3>1. ~HoldsSeparator(<<>>)
      BY DEF HoldsSeparator
    <3>2. \A m \in 1..1 : m = 1
      OBVIOUS
    <3>3. \A m \in 1..(1 - 1) : FALSE
      OBVIOUS
    <3>4. QED
      BY <2>1, <3>1, <3>2, <3>3 DEF Apart
  <2>3. LastFits(s, 0, EndOf(p[0]))
    BY <2>1 DEF LastFits
  <2>4. Covered(s, 0, p[0])
    <3>1. \A k \in 1..0 : FALSE
      OBVIOUS
    <3>2. QED
      BY <3>1 DEF Covered
  <2>5. QED
    BY <1>1, <2>2, <2>3, <2>4
<1>5. ASSUME NEW i \in 1..n, i - 1 \in P PROVE i \in P
  <2>1. i - 1 \in 0..n /\ i \in 0..n
    BY <1>1
  <2> DEFINE q == p[i - 1]
             r == p[i]
  <2>2. q \in PieceLists /\ r = NextPieces(s, i, q)
    BY <1>3, <2>1
  <2>3. LastFits(s, i - 1, EndOf(q)) /\ Apart(q) /\ Covered(s, i - 1, q)
    BY <1>5
  <2> HIDE DEF q, r
  <2>4. LastFits(s, i, EndOf(r)) /\ Apart(r) /\ Covered(s, i, r)
    BY <2>2, <2>3, SplitStep
  <2>5. QED
    BY <2>1, <2>4 DEF r
<1>6. n \in P
  <2>1. P \in SUBSET (0..n)
    OBVIOUS
  <2> HIDE DEF P, n
  <2>2. QED
    BY <1>1, <1>4, <1>5, <2>1, Climb
<1>7. p[n] \in PieceLists
  BY <1>1, <1>3
<1>8. QED
  BY <1>2, <1>6, <1>7

-----------------------------------------------------------------------------
(* Parsing an id.                                                           *)

\* The first equals sign of a piece.
EqualsAt(piece, pos) ==
  pos \in 1..Len(piece) /\ piece[pos] = "=" /\ \A k \in 1..(pos - 1) : piece[k] # "="

NameOf(piece, pos) == SubSeq(piece, 1, pos - 1)
IndexOf(piece, pos) == SubSeq(piece, pos + 1, Len(piece))

(* ParseAxis takes a piece apart at its first equals sign.                  *)
LEMMA AxisParts ==
  ASSUME NEW piece, piece \in Text, NEW pos, EqualsAt(piece, pos)
  PROVE  ParseAxis(piece) =
           IF ValidateStepId(NameOf(piece, pos)) /\ ParseIndex(IndexOf(piece, pos)) # None
           THEN <<NameOf(piece, pos), ParseIndex(IndexOf(piece, pos))>> ELSE None
<1> DEFINE eq == {i \in DOMAIN piece : piece[i] = "="}
           at == CHOOSE i \in eq : \A k \in eq : i <= k
<1>1. Len(piece) \in Nat /\ DOMAIN piece = 1..Len(piece)
  BY SeqParts DEF Text
<1>2. pos \in eq /\ \A k \in eq : pos <= k
  <2>1. pos \in eq
    BY <1>1 DEF EqualsAt
  <2>2. ASSUME NEW k \in eq PROVE pos <= k
    <3>1. k \in 1..(pos - 1) \/ pos <= k
      BY <1>1 DEF EqualsAt
    <3>2. QED
      BY <3>1 DEF EqualsAt
  <2>3. QED
    BY <2>1, <2>2
<1>3. at = pos
  <2>1. at \in eq /\ \A k \in eq : at <= k
    BY <1>2
  <2>2. at <= pos /\ pos <= at /\ at \in Nat /\ pos \in Nat
    BY <1>1, <1>2, <2>1
  <2> HIDE DEF at
  <2>3. QED
    BY <2>2
<1>4. eq # {}
  BY <1>2
<1>5. QED
  <2> HIDE DEF eq
  <2>1. ParseAxis(piece) =
          IF eq # {} /\ ValidateStepId(SubSeq(piece, 1, at - 1))
               /\ ParseIndex(SubSeq(piece, at + 1, Len(piece))) # None
          THEN <<SubSeq(piece, 1, at - 1), ParseIndex(SubSeq(piece, at + 1, Len(piece)))>>
          ELSE None
    BY DEF ParseAxis, eq
  <2> HIDE DEF at
  <2>2. QED
    BY <1>3, <1>4, <2>1 DEF NameOf, IndexOf

(* A piece that is an axis has an equals sign, and a first one.             *)
LEMMA AxisEquals ==
  ASSUME NEW piece, piece \in Text, ParseAxis(piece) # None
  PROVE  \E pos : EqualsAt(piece, pos)
<1> DEFINE eq == {i \in DOMAIN piece : piece[i] = "="}
<1>1. Len(piece) \in Nat /\ DOMAIN piece = 1..Len(piece)
  BY SeqParts DEF Text
<1>2. eq # {}
  BY DEF ParseAxis
<1>3. PICK pos \in eq : \A k \in eq : pos <= k
  <2>1. eq \in SUBSET Nat
    BY <1>1
  <2> HIDE DEF eq
  <2>2. QED
    BY <1>2, <2>1, LeastNumber
<1>4. ASSUME NEW k \in 1..(pos - 1) PROVE piece[k] # "="
  <2>1. k \in 1..Len(piece) /\ ~(pos <= k)
    BY <1>1, <1>3
  <2>2. QED
    BY <1>1, <1>3, <2>1
<1>5. QED
  BY <1>1, <1>3, <1>4 DEF EqualsAt

(* The two parts of a piece, and the equals sign between them.              *)
LEMMA PieceCut ==
  ASSUME NEW piece, piece \in Text, NEW pos, EqualsAt(piece, pos)
  PROVE  /\ NameOf(piece, pos) \in Text /\ IndexOf(piece, pos) \in Text
         /\ Len(NameOf(piece, pos)) = pos - 1
         /\ Len(IndexOf(piece, pos)) = Len(piece) - pos
         /\ \A i \in 1..(pos - 1) : NameOf(piece, pos)[i] = piece[i]
         /\ \A i \in 1..(Len(piece) - pos) : IndexOf(piece, pos)[i] = piece[pos + i]
<1> DEFINE n == Len(piece)
<1>1. n \in Nat /\ pos \in 1..n /\ \A i \in 1..n : piece[i] \in Char
  BY SeqParts DEF Text, EqualsAt
<1> HIDE DEF n
<1>2. /\ \A i \in 1..(pos - 1) : piece[i] \in Char
      /\ \A i \in (pos + 1)..n : piece[i] \in Char
      /\ pos - 1 \in Int /\ pos + 1 \in Int /\ n \in Int /\ 1 \in Int
  BY <1>1
<1>3. /\ SubSeq(piece, 1, pos - 1) \in Seq(Char)
      /\ Len(SubSeq(piece, 1, pos - 1)) = IF 1 <= pos - 1 THEN (pos - 1) - 1 + 1 ELSE 0
      /\ \A i \in 1..((pos - 1) - 1 + 1) : SubSeq(piece, 1, pos - 1)[i] = piece[1 + i - 1]
  BY <1>2, SubSeqProperties
<1>4. /\ SubSeq(piece, pos + 1, n) \in Seq(Char)
      /\ Len(SubSeq(piece, pos + 1, n)) = IF pos + 1 <= n THEN n - (pos + 1) + 1 ELSE 0
      /\ \A i \in 1..(n - (pos + 1) + 1) : SubSeq(piece, pos + 1, n)[i] = piece[(pos + 1) + i - 1]
  BY <1>2, SubSeqProperties
<1>5. /\ (pos - 1) - 1 + 1 = pos - 1 /\ n - (pos + 1) + 1 = n - pos
      /\ (IF 1 <= pos - 1 THEN pos - 1 ELSE 0) = pos - 1
      /\ (IF pos + 1 <= n THEN n - pos ELSE 0) = n - pos
      /\ \A i \in 1..(pos - 1) : 1 + i - 1 = i
      /\ \A i \in 1..(n - pos) : (pos + 1) + i - 1 = pos + i
  BY <1>1
<1>6. QED
  BY <1>3, <1>4, <1>5 DEF NameOf, IndexOf, Text, n

DigitChars == Range(Digit)

(* The ten digits are characters, and no two are the same.                  *)
LEMMA DigitFacts ==
  /\ DOMAIN Digit = 1..10 /\ Len(Digit) = 10
  /\ \A i \in 1..10 : Digit[i] \in Char /\ Digit[i] \in DigitChars
  /\ \A i, j \in 1..10 : Digit[i] = Digit[j] => i = j
  /\ DigitChars = {"0", "1", "2", "3", "4", "5", "6", "7", "8", "9"}
  /\ DigitChars \subseteq ValidStepIdChar
<1>1. DOMAIN Digit = 1..10 /\ Len(Digit) = 10
  BY DEF Digit
<1>2. \A i \in 1..10 : i = 1 \/ i = 2 \/ i = 3 \/ i = 4 \/ i = 5
                       \/ i = 6 \/ i = 7 \/ i = 8 \/ i = 9 \/ i = 10
  OBVIOUS
<1>3. /\ Digit[1] = "0" /\ Digit[2] = "1" /\ Digit[3] = "2" /\ Digit[4] = "3" /\ Digit[5] = "4"
      /\ Digit[6] = "5" /\ Digit[7] = "6" /\ Digit[8] = "7" /\ Digit[9] = "8" /\ Digit[10] = "9"
  BY DEF Digit
<1>4. \A i \in 1..10 : Digit[i] \in Char /\ Digit[i] \in DigitChars
  <2>1. \A i \in 1..10 : Digit[i] \in Range(Digit)
    BY <1>1 DEF Range
  <2>2. QED
    BY <2>1, JobIdAssumption DEF DigitChars, Alphanumeric
<1>5. \A i, j \in 1..10 : Digit[i] = Digit[j] => i = j
  BY <1>2, <1>3
<1>6. DigitChars = {"0", "1", "2", "3", "4", "5", "6", "7", "8", "9"}
  <2>1. \A c \in DigitChars : \E i \in 1..10 : c = Digit[i]
    BY <1>1 DEF DigitChars, Range
  <2>2. \A c \in DigitChars : c \in {"0", "1", "2", "3", "4", "5", "6", "7", "8", "9"}
    BY <1>2, <1>3, <2>1
  <2>3. {"0", "1", "2", "3", "4", "5", "6", "7", "8", "9"} \subseteq DigitChars
    BY <1>3, <1>4
  <2>4. QED
    BY <2>2, <2>3
<1>7. DigitChars \subseteq ValidStepIdChar
  BY DEF DigitChars, ValidStepIdChar, Alphanumeric
<1>8. QED
  BY <1>1, <1>4, <1>5, <1>6, <1>7

(* A text that is an index has only digits, behind a plus or not.           *)
LEMMA IndexChars ==
  ASSUME NEW t, t \in Text, ParseIndex(t) # None
  PROVE  /\ Digits(t) # <<>> /\ Range(Digits(t)) \subseteq DigitChars
         /\ \A i \in 1..Len(t) : t[i] \in DigitChars \/ (i = 1 /\ t[1] = "+")
<1>1. Digits(t) # <<>> /\ Range(Digits(t)) \subseteq DigitChars
  BY DEF ParseIndex, DigitChars
<1>2. Len(t) \in Nat /\ DOMAIN t = 1..Len(t)
  BY SeqParts DEF Text
<1>3. CASE t # <<>> /\ Head(t) = "+"
  <2>1. Digits(t) = Tail(t)
    BY <1>3 DEF Digits
  <2>2. /\ Tail(t) \in Seq(Char) /\ Len(Tail(t)) = Len(t) - 1
        /\ \A i \in 1..Len(Tail(t)) : Tail(t)[i] = t[i + 1]
    BY <1>3, HeadTailProperties DEF Text
  <2>3. DOMAIN Tail(t) = 1..(Len(t) - 1)
    BY <2>2, SeqParts
  <2>4. ASSUME NEW i \in 1..Len(t), i # 1 PROVE t[i] \in DigitChars
    <3>1. i - 1 \in 1..(Len(t) - 1) /\ (i - 1) + 1 = i
      BY <1>2, <2>4
    <3>2. Tail(t)[i - 1] = t[i] /\ Tail(t)[i - 1] \in Range(Tail(t))
      BY <2>2, <2>3, <3>1 DEF Range
    <3>3. QED
      BY <1>1, <2>1, <3>2
  <2>5. t[1] = "+"
    BY <1>3
  <2>6. QED
    BY <1>1, <2>4, <2>5
<1>4. CASE ~(t # <<>> /\ Head(t) = "+")
  <2>1. Digits(t) = t
    BY <1>4 DEF Digits
  <2>2. QED
    BY <1>1, <1>2, <2>1 DEF Range
<1>5. QED
  BY <1>3, <1>4

(* An axis has the characters of a name, an equals sign and an index.       *)
LEMMA AxisChars ==
  ASSUME NEW piece, piece \in Text, ParseAxis(piece) # None
  PROVE  Range(piece) \subseteq ValidJobIdChar \cup {"+"}
<1>1. PICK pos : EqualsAt(piece, pos)
  BY AxisEquals
<1> DEFINE name == NameOf(piece, pos)
           index == IndexOf(piece, pos)
           n == Len(piece)
<1>2. ValidateStepId(name) /\ ParseIndex(index) # None
  BY <1>1, AxisParts
<1>3. /\ name \in Text /\ index \in Text
      /\ Len(name) = pos - 1 /\ Len(index) = n - pos
      /\ \A i \in 1..(pos - 1) : name[i] = piece[i]
      /\ \A i \in 1..(n - pos) : index[i] = piece[pos + i]
  BY <1>1, PieceCut
<1>4. n \in Nat /\ pos \in 1..n /\ DOMAIN piece = 1..n /\ piece[pos] = "="
  BY <1>1, SeqParts DEF Text, EqualsAt
<1> HIDE DEF name, index, n
<1>5. \A i \in 1..(pos - 1) : name[i] \in ValidJobIdChar
  <2>1. DOMAIN name = 1..(pos - 1)
    BY <1>3, SeqParts DEF Text
  <2>2. QED
    BY <1>2, <2>1 DEF ValidateStepId, ValidJobIdChar, Range
<1>6. \A i \in 1..(n - pos) : index[i] \in ValidJobIdChar \cup {"+"}
  <2>1. \A i \in 1..Len(index) : index[i] \in DigitChars \/ index[i] = "+"
    BY <1>2, <1>3, IndexChars
  <2>2. QED
    BY <1>3, <2>1, DigitFacts DEF ValidJobIdChar
<1>7. ASSUME NEW i \in 1..n PROVE piece[i] \in ValidJobIdChar \cup {"+"}
  <2>1. i \in 1..(pos - 1) \/ i = pos \/ (i - pos \in 1..(n - pos) /\ pos + (i - pos) = i)
    BY <1>4
  <2>2. piece[pos] \in ValidJobIdChar
    BY <1>4 DEF ValidJobIdChar
  <2>3. i - pos \in 1..(n - pos) => index[i - pos] = piece[pos + (i - pos)]
    BY <1>3
  <2>4. QED
    BY <1>3, <1>5, <1>6, <2>1, <2>2, <2>3
<1>8. QED
  BY <1>4, <1>7 DEF Range

\* The pieces behind the first are axes.
AxisPieces(q) == \A k \in 1..(Len(q) - 1) : ParseAxis(q[k + 1]) # None

(* What parse_job_id makes of the pieces.                                   *)
LEMMA ParseParts ==
  ASSUME NEW s, s \in Text
  PROVE  LET q == Split(s)
             combo == [k \in 1..(Len(q) - 1) |-> ParseAxis(q[k + 1])]
         IN  ParseJobId(s) = IF ValidateStepId(q[1]) /\ AxisPieces(q)
                             THEN [step |-> q[1], combo |-> combo] ELSE None
<1> DEFINE q == Split(s)
<1>1. q \in PieceLists
  BY SplitFacts
<1>2. q \in Seq(Text) /\ q # <<>>
  BY <1>1 DEF PieceLists
<1>3. Tail(q) \in Seq(Text) /\ Len(Tail(q)) = Len(q) - 1
  BY <1>2, HeadTailProperties
<1>4. DOMAIN Tail(q) = 1..(Len(q) - 1)
  BY <1>3, SeqParts
<1>5. Head(q) = q[1]
  OBVIOUS
<1> HIDE DEF q
<1> DEFINE combo == [k \in 1..(Len(q) - 1) |-> ParseAxis(q[k + 1])]
<1>6. [k \in DOMAIN Tail(q) |-> ParseAxis(q[k + 1])] = combo
  BY <1>4
<1>7. ParseJobId(s) =
        IF ValidateStepId(Head(q))
             /\ \A k \in DOMAIN [j \in DOMAIN Tail(q) |-> ParseAxis(q[j + 1])] :
                  [j \in DOMAIN Tail(q) |-> ParseAxis(q[j + 1])][k] # None
        THEN [step |-> Head(q), combo |-> [k \in DOMAIN Tail(q) |-> ParseAxis(q[k + 1])]]
        ELSE None
  BY DEF ParseJobId, q
<1>8. (\A k \in DOMAIN combo : combo[k] # None) <=> AxisPieces(q)
  BY DEF AxisPieces
<1>9. ParseJobId(s) = IF ValidateStepId(q[1]) /\ AxisPieces(q)
                      THEN [step |-> q[1], combo |-> combo] ELSE None
  <2> HIDE DEF combo
  <2>1. QED
    BY <1>5, <1>6, <1>7, <1>8
<1>10. QED
  BY <1>9 DEF q

\* What is made of the pieces.
PartsOf(q, n) ==
  IF ValidateStepId(q[1]) /\ AxisPieces(q)
  THEN [step |-> q[1], combo |-> [k \in 1..n |-> ParseAxis(q[k + 1])]] ELSE None

(* Reading an id is splitting it and reading the pieces.                    *)
LEMMA ParsePieces ==
  ASSUME NEW s, s \in Text
  PROVE  ParseJobId(s) = PartsOf(Split(s), Len(Split(s)) - 1)
BY ParseParts DEF PartsOf

(* An id that parses has only characters of ids and pluses.                 *)
LEMMA ParseChars ==
  ASSUME NEW s, s \in Text, ParseJobId(s) # None
  PROVE  s # <<>> /\ Range(s) \subseteq ValidJobIdChar \cup {"+"}
<1> DEFINE q == Split(s)
           n == Len(q)
           Ok == ValidJobIdChar \cup {"+"}
<1>1. ValidateStepId(q[1]) /\ AxisPieces(q)
  BY ParseParts
<1>2. q \in PieceLists /\ Covered(s, Len(s), q)
  BY SplitFacts
<1> HIDE DEF q
<1>3. n \in Nat /\ n >= 1 /\ \A m \in 1..n : q[m] \in Text
  BY <1>2, PieceParts
<1>4. ASSUME NEW m \in 1..n PROVE Range(q[m]) \subseteq Ok
  <2>1. CASE m = 1
    BY <1>1, <2>1 DEF ValidateStepId, ValidJobIdChar
  <2>2. CASE m # 1
    <3>1. m - 1 \in 1..(n - 1) /\ (m - 1) + 1 = m
      BY <1>3, <2>2
    <3>2. ParseAxis(q[m]) # None
      BY <1>1, <3>1 DEF AxisPieces
    <3>3. PICK piece : piece = q[m]
      OBVIOUS
    <3>4. QED
      BY <1>3, <3>2, <3>3, AxisChars
  <2>3. QED
    BY <2>1, <2>2
<1>5. Len(s) \in Nat /\ DOMAIN s = 1..Len(s)
  BY SeqParts DEF Text
<1>6. ASSUME NEW k \in 1..Len(s) PROVE s[k] \in Ok
  <2>1. s[k] = "_" \/ \E m \in 1..n : s[k] \in Range(q[m])
    BY <1>2 DEF Covered
  <2>2. "_" \in Ok
    BY DEF ValidJobIdChar, ValidStepIdChar
  <2>3. QED
    BY <1>4, <2>1, <2>2
<1>7. Range(s) \subseteq Ok
  BY <1>5, <1>6 DEF Range
<1>8. s # <<>>
  <2> SUFFICES ASSUME s = <<>> PROVE FALSE
    OBVIOUS
  <2>1. Len(s) = 0
    OBVIOUS
  <2>2. PICK p : SplitRounds(p, s) /\ Split(s) = p[Len(s)]
    BY SplitLoop
  <2>3. Split(s) = << <<>> >>
    BY <2>1, <2>2 DEF SplitRounds
  <2>4. q[1] = <<>>
    BY <2>3 DEF q
  <2>5. QED
    BY <1>1, <2>4 DEF ValidateStepId
<1>9. QED
  BY <1>7, <1>8

-----------------------------------------------------------------------------
(* The decimal digits of a number.                                          *)

\* What ToDecimal computes of k from what it has computed of fewer.
DecimalRound(k, f) == IF k < 10 THEN <<Digit[k + 1]>> ELSE Append(f[k \div 10], Digit[(k % 10) + 1])

Decimals(f, n) == f = [k \in 0..n |-> DecimalRound(k, f)]

LEMMA DivFacts ==
  ASSUME NEW k \in Nat
  PROVE  /\ k % 10 \in 0..9 /\ k \div 10 \in Nat /\ k = 10 * (k \div 10) + (k % 10)
         /\ k >= 10 => k \div 10 < k /\ k \div 10 >= 1
OBVIOUS

(* Two tables of decimals agree as far as both go.                          *)
LEMMA DecimalsAgree ==
  ASSUME NEW n \in Nat, NEW m \in 0..n, NEW f, NEW g, Decimals(f, n), Decimals(g, m)
  PROVE  f[m] = g[m]
<1> DEFINE Bad == {k \in 0..m : f[k] # g[k]}
<1>1. ASSUME NEW k \in 0..m PROVE f[k] = DecimalRound(k, f) /\ g[k] = DecimalRound(k, g)
  <2>1. k \in 0..n
    BY <1>1
  <2> HIDE DEF DecimalRound
  <2>2. QED
    BY <1>1, <2>1 DEF Decimals
<1>2. ASSUME Bad # {} PROVE FALSE
  <2>1. Bad \in SUBSET Nat
    OBVIOUS
  <2>2. PICK k \in Bad : \A j \in Bad : k <= j
    <3> HIDE DEF Bad
    <3>1. QED
      BY <1>2, <2>1, LeastNumber
  <2>3. k \in 0..m /\ f[k] # g[k]
    OBVIOUS
  <2>4. f[k] = DecimalRound(k, f) /\ g[k] = DecimalRound(k, g)
    BY <1>1, <2>3
  <2>5. CASE k < 10
    <3>1. DecimalRound(k, f) = <<Digit[k + 1]>> /\ DecimalRound(k, g) = <<Digit[k + 1]>>
      BY <2>5 DEF DecimalRound
    <3>2. QED
      BY <2>4, <2>3, <3>1
  <2>6. CASE ~(k < 10)
    <3>1. k \div 10 \in 0..m /\ k \div 10 < k
      BY <2>3, <2>6, DivFacts
    <3>2. k \div 10 \notin Bad
      BY <2>2, <2>3, <3>1
    <3>3. f[k \div 10] = g[k \div 10]
      BY <3>1, <3>2
    <3>4. QED
      BY <1>1, <2>3, <2>6, <3>3 DEF DecimalRound
  <2>7. QED
    BY <2>5, <2>6
<1>3. m \in 0..m
  OBVIOUS
<1>4. QED
  BY <1>2, <1>3

Figures == Seq(DigitChars)

(* There is such a table, and its entries are digits.                       *)
LEMMA DecimalsExist ==
  ASSUME NEW n \in Nat
  PROVE  \E f : Decimals(f, n) /\ f \in [0..n -> Figures \ {<<>>}]
<1> DEFINE V == Figures \ {<<>>}
           Has(f, m) == f \in [0..m -> V] /\ \A k \in 0..m : f[k] = DecimalRound(k, f)
           P == {m \in 0..n : \E f : Has(f, m)}
<1>1. 0 \in P
  <2> DEFINE f == [k \in 0..0 |-> <<Digit[1]>>]
  <2>1. <<Digit[1]>> \in V
    BY DigitFacts DEF Figures
  <2>2. \A k \in 0..0 : f[k] = DecimalRound(k, f)
    BY DEF DecimalRound
  <2>3. f \in [0..0 -> V]
    BY <2>1
  <2>4. Has(f, 0)
    BY <2>2, <2>3
  <2> HIDE DEF Has, f
  <2>5. QED
    BY <2>4
<1>2. ASSUME NEW m \in 1..n, m - 1 \in P PROVE m \in P
  <2>1. PICK g : Has(g, m - 1)
    BY <1>2
  <2>2. m \in Nat /\ \A k \in 0..m : k \in Nat /\ (k # m => k \in 0..(m - 1))
    OBVIOUS
  <2> DEFINE e == DecimalRound(m, g)
             f == [k \in 0..m |-> IF k = m THEN e ELSE g[k]]
  <2>3. \A k \in 0..(m - 1) : g[k] \in Seq(DigitChars)
    BY <2>1 DEF Figures
  <2>4. e \in V
    <3>1. CASE m < 10
      <4>1. m + 1 \in 1..10
        BY <2>2, <3>1
      <4>2. Digit[m + 1] \in DigitChars
        BY <4>1, DigitFacts
      <4>3. QED
        BY <3>1, <4>2 DEF DecimalRound, Figures
    <3>2. CASE ~(m < 10)
      <4>1. m \div 10 \in 0..(m - 1) /\ (m % 10) + 1 \in 1..10
        BY <2>2, <3>2, DivFacts
      <4>2. Digit[(m % 10) + 1] \in DigitChars /\ g[m \div 10] \in Seq(DigitChars)
        BY <2>3, <4>1, DigitFacts
      <4>3. PICK c, t : c = Digit[(m % 10) + 1] /\ t = g[m \div 10]
        OBVIOUS
      <4>4. Append(t, c) \in Seq(DigitChars) /\ Append(t, c) # <<>>
        BY <4>2, <4>3, AppendParts
      <4>5. QED
        BY <3>2, <4>3, <4>4 DEF DecimalRound, Figures
    <3>3. QED
      BY <3>1, <3>2
  <2>5. f \in [0..m -> V]
    <3> HIDE DEF e, V
    <3>1. QED
      BY <2>1, <2>2, <2>4
  <2>6. ASSUME NEW k \in 0..m PROVE f[k] = DecimalRound(k, f)
    <3>1. f[k] = DecimalRound(k, g)
      <4>1. CASE k = m
        BY <4>1
      <4>2. CASE k # m
        <5>1. f[k] = g[k] /\ k \in 0..(m - 1)
          BY <2>2, <4>2
        <5>2. QED
          BY <2>1, <5>1
      <4>3. QED
        BY <4>1, <4>2
    <3>2. k >= 10 => k \div 10 \in 0..m /\ k \div 10 # m
      BY <2>2, DivFacts
    <3>3. k >= 10 => f[k \div 10] = g[k \div 10]
      BY <3>2
    <3> HIDE DEF f
    <3>4. QED
      BY <2>2, <3>1, <3>3 DEF DecimalRound
  <2>7. Has(f, m)
    BY <2>5, <2>6
  <2> HIDE DEF f, Has
  <2>8. QED
    BY <2>7
<1>3. n \in P
  <2>1. P \in SUBSET (0..n)
    OBVIOUS
  <2> HIDE DEF P
  <2>2. QED
    BY <1>1, <1>2, <2>1, Climb
<1>4. PICK f : Has(f, n)
  BY <1>3
<1>5. Decimals(f, n)
  <2> HIDE DEF DecimalRound
  <2>1. QED
    BY <1>4 DEF Decimals
<1>6. QED
  BY <1>4, <1>5

(* ToDecimal writes the digit of the remainder behind those of the rest.    *)
LEMMA DecimalStep ==
  ASSUME NEW n \in Nat
  PROVE  /\ ToDecimal(n) \in Figures /\ ToDecimal(n) # <<>>
         /\ n < 10 => ToDecimal(n) = <<Digit[n + 1]>>
         /\ n >= 10 => ToDecimal(n) = Append(ToDecimal(n \div 10), Digit[(n % 10) + 1])
<1> DEFINE F(m) == CHOOSE f : Decimals(f, m)
<1>1. ASSUME NEW m \in Nat PROVE Decimals(F(m), m)
  <2>1. \E f : Decimals(f, m)
    BY DecimalsExist
  <2>2. QED
    BY <2>1
<1>2. \A m \in Nat : ToDecimal(m) = F(m)[m]
  BY DEF ToDecimal, Decimals, DecimalRound
<1> HIDE DEF F
<1>3. n \in 0..n
  OBVIOUS
<1>4. F(n)[n] = DecimalRound(n, F(n))
  <2>1. Decimals(F(n), n)
    BY <1>1
  <2> HIDE DEF DecimalRound
  <2>2. QED
    BY <1>3, <2>1 DEF Decimals
<1>5. ToDecimal(n) \in Figures /\ ToDecimal(n) # <<>>
  <2>1. PICK f : Decimals(f, n) /\ f \in [0..n -> Figures \ {<<>>}]
    BY DecimalsExist
  <2>2. f[n] = F(n)[n]
    BY <1>1, <1>3, <2>1, DecimalsAgree
  <2>3. QED
    BY <1>2, <1>3, <2>1, <2>2
<1>6. n >= 10 => F(n)[n \div 10] = ToDecimal(n \div 10)
  <2> SUFFICES ASSUME n >= 10 PROVE F(n)[n \div 10] = ToDecimal(n \div 10)
    OBVIOUS
  <2>1. n \div 10 \in 0..n /\ n \div 10 \in Nat
    BY DivFacts
  <2>2. PICK m : m = n \div 10
    OBVIOUS
  <2>3. F(n)[m] = F(m)[m]
    BY <1>1, <2>1, <2>2, DecimalsAgree
  <2>4. QED
    BY <1>2, <2>1, <2>2, <2>3
<1>7. n >= 10 <=> ~(n < 10)
  OBVIOUS
<1>8. QED
  BY <1>2, <1>4, <1>5, <1>6, <1>7 DEF DecimalRound

\* The value of a digit, and of the first digits of a text.
DigitValue(c) == (CHOOSE i \in DOMAIN Digit : Digit[i] = c) - 1

ValueOf(d) ==
  LET value[k \in 0..Len(d)] ==
        IF k = 0 THEN 0
        ELSE 10 * value[k - 1] + (CHOOSE i \in DOMAIN Digit : Digit[i] = d[k]) - 1
  IN  value[Len(d)]

Values(v, d) ==
  /\ v \in [0..Len(d) -> Nat] /\ v[0] = 0
  /\ \A k \in 1..Len(d) : v[k] = 10 * v[k - 1] + DigitValue(d[k])

LEMMA DigitValueFacts ==
  /\ \A c \in DigitChars : DigitValue(c) \in 0..9 /\ Digit[DigitValue(c) + 1] = c
  /\ \A n \in 0..9 : DigitValue(Digit[n + 1]) = n
<1>1. ASSUME NEW n \in 0..9 PROVE DigitValue(Digit[n + 1]) = n
  <2> DEFINE at == CHOOSE i \in DOMAIN Digit : Digit[i] = Digit[n + 1]
  <2>1. n + 1 \in 1..10
    OBVIOUS
  <2>2. at \in 1..10 /\ Digit[at] = Digit[n + 1]
    BY <2>1, DigitFacts
  <2>3. DigitValue(Digit[n + 1]) = at - 1
    BY DEF DigitValue
  <2> HIDE DEF at
  <2>4. at = n + 1
    BY <2>1, <2>2, DigitFacts
  <2>5. QED
    BY <2>3, <2>4
<1>2. ASSUME NEW c \in DigitChars PROVE DigitValue(c) \in 0..9 /\ Digit[DigitValue(c) + 1] = c
  <2>1. PICK i \in 1..10 : Digit[i] = c
    BY DigitFacts DEF DigitChars, Range
  <2>2. i - 1 \in 0..9 /\ (i - 1) + 1 = i
    OBVIOUS
  <2>3. DigitValue(Digit[(i - 1) + 1]) = i - 1
    BY <1>1, <2>2
  <2>4. DigitValue(c) = i - 1
    BY <2>1, <2>2, <2>3
  <2>5. QED
    BY <2>1, <2>2, <2>4
<1>3. QED
  BY <1>1, <1>2

(* The rounds in which ParseIndex adds up the digits.                       *)
LEMMA ValueLoop ==
  ASSUME NEW d, d \in Text, Range(d) \subseteq DigitChars
  PROVE  \E v : Values(v, d) /\ ValueOf(d) = v[Len(d)]
<1> DEFINE n == Len(d)
           G == [k \in 1..n |-> [v \in Nat |-> 10 * v + DigitValue(d[k])]]
           Round(k, f) == IF k = 0 THEN 0 ELSE 10 * f[k - 1] + (CHOOSE i \in DOMAIN Digit : Digit[i] = d[k]) - 1
           Loop(f) == f = [k \in 0..n |-> Round(k, f)]
<1>1. n \in Nat /\ \A k \in 1..n : d[k] \in DigitChars
  BY SeqParts DEF Text, Range
<1>2. \A k \in 1..n : DigitValue(d[k]) \in 0..9
  BY <1>1, DigitValueFacts
<1>3. G \in [1..n -> [Nat -> Nat]]
  BY <1>2
<1>4. \E f : Rounds(f, n, Nat, 0, G)
  <2> HIDE DEF G, n
  <2>1. QED
    BY <1>1, <1>3, LoopExists
<1>5. \A k \in 1..n : \A f : f[k - 1] \in Nat =>
        10 * f[k - 1] + DigitValue(d[k]) = 10 * f[k - 1] + (CHOOSE i \in DOMAIN Digit : Digit[i] = d[k]) - 1
  <2> SUFFICES ASSUME NEW k \in 1..n, NEW f, f[k - 1] \in Nat
               PROVE 10 * f[k - 1] + DigitValue(d[k])
                       = 10 * f[k - 1] + (CHOOSE i \in DOMAIN Digit : Digit[i] = d[k]) - 1
    OBVIOUS
  <2> DEFINE at == CHOOSE i \in DOMAIN Digit : Digit[i] = d[k]
  <2>1. at \in 1..10
    BY <1>1, DigitFacts DEF DigitChars, Range
  <2>2. DigitValue(d[k]) = at - 1
    BY DEF DigitValue
  <2> HIDE DEF at
  <2>3. 10 * f[k - 1] + DigitValue(d[k]) = 10 * f[k - 1] + at - 1
    BY <2>1, <2>2
  <2>4. QED
    BY <2>3 DEF at
<1>6. \E f : Loop(f)
  <2>1. PICK f : Rounds(f, n, Nat, 0, G)
    BY <1>4
  <2>2. f \in [0..n -> Nat] /\ f[0] = 0 /\ \A k \in 1..n : f[k] = G[k][f[k - 1]]
    BY <2>1 DEF Rounds
  <2>3. ASSUME NEW k \in 0..n PROVE f[k] = Round(k, f)
    <3>1. CASE k = 0
      BY <2>2, <3>1
    <3>2. CASE k # 0
      <4>1. k \in 1..n /\ k - 1 \in 0..n
        BY <1>1, <3>2
      <4>2. f[k - 1] \in Nat
        BY <2>2, <4>1
      <4>3. f[k] = 10 * f[k - 1] + DigitValue(d[k])
        BY <2>2, <4>1, <4>2
      <4>4. QED
        BY <1>5, <3>2, <4>1, <4>2, <4>3
    <3>3. QED
      BY <3>1, <3>2
  <2>4. Loop(f)
    <3> HIDE DEF Round, n
    <3>1. QED
      BY <2>2, <2>3
  <2> HIDE DEF Loop
  <2>5. QED
    BY <2>4
<1> DEFINE v == CHOOSE f : Loop(f)
<1>7. ValueOf(d) = v[n]
  BY DEF ValueOf
<1>8. Loop(v)
  <2> HIDE DEF Loop
  <2>1. QED
    BY <1>6
<1> HIDE DEF v
<1>9. Rounds(v, n, Nat, 0, G)
  <2>1. v = [k \in 0..n |-> v[k]] /\ \A k \in 0..n : v[k] = Round(k, v)
    <3> HIDE DEF Round, n
    <3>1. QED
      BY <1>8
  <2>2. v[0] = 0
    <3>1. 0 \in 0..n /\ Round(0, v) = 0
      BY <1>1
    <3> HIDE DEF Round, n
    <3>2. QED
      BY <2>1, <3>1
  <2>3. ASSUME NEW k \in 1..n, v[k - 1] \in Nat PROVE v[k] = G[k][v[k - 1]]
    <3>1. k \in 0..n /\ k # 0
      BY <1>1
    <3>2. v[k] = Round(k, v)
      <4> HIDE DEF Round
      <4>1. QED
        BY <2>1, <3>1
    <3>3. v[k] = 10 * v[k - 1] + DigitValue(d[k])
      BY <1>5, <2>3, <3>1, <3>2
    <3>4. QED
      BY <2>3, <3>3
  <2> HIDE DEF G, n
  <2>4. QED
    BY <1>1, <1>3, <2>1, <2>2, <2>3, LoopUnique
<1>10. Values(v, d)
  <2>1. v \in [0..n -> Nat] /\ v[0] = 0 /\ \A k \in 1..n : v[k] = G[k][v[k - 1]]
    BY <1>9 DEF Rounds
  <2>2. ASSUME NEW k \in 1..n PROVE v[k] = 10 * v[k - 1] + DigitValue(d[k])
    <3>1. k - 1 \in 0..n
      BY <1>1
    <3>2. v[k - 1] \in Nat
      BY <2>1, <3>1
    <3>3. QED
      BY <2>1, <3>2
  <2>3. QED
    BY <2>1, <2>2 DEF Values
<1>11. QED
  BY <1>7, <1>10

(* What ParseIndex returns of a text.                                       *)
LEMMA IndexValue ==
  ASSUME NEW t, t \in Text
  PROVE  /\ Digits(t) \in Text
         /\ ParseIndex(t) =
              IF /\ Digits(t) # <<>> /\ Range(Digits(t)) \subseteq DigitChars
                 /\ ValueOf(Digits(t)) <= MaxIndex
              THEN ValueOf(Digits(t)) ELSE None
         /\ ParseIndex(t) # None => ParseIndex(t) \in 0..MaxIndex
<1>1. Digits(t) \in Text
  BY HeadTailProperties DEF Digits, Text
<1> DEFINE Fine == /\ Digits(t) # <<>> /\ Range(Digits(t)) \subseteq DigitChars
                   /\ ValueOf(Digits(t)) <= MaxIndex
<1>2. ParseIndex(t) = IF Fine THEN ValueOf(Digits(t)) ELSE None
  BY DEF ParseIndex, DigitChars, ValueOf
<1>3. Fine => ValueOf(Digits(t)) \in 0..MaxIndex
  <2> SUFFICES ASSUME Fine PROVE ValueOf(Digits(t)) \in 0..MaxIndex
    OBVIOUS
  <2>1. PICK d : d = Digits(t)
    OBVIOUS
  <2>2. PICK v : Values(v, d) /\ ValueOf(d) = v[Len(d)]
    BY <1>1, <2>1, ValueLoop
  <2>3. Len(d) \in Nat
    BY <1>1, <2>1, SeqParts DEF Text
  <2>4. v[Len(d)] \in Nat
    BY <2>2, <2>3 DEF Values
  <2>5. MaxIndex \in Nat
    BY JobIdAssumption
  <2>6. QED
    BY <2>1, <2>2, <2>4, <2>5
<1>4. QED
  BY <1>1, <1>2, <1>3

-----------------------------------------------------------------------------
(* Quoting.                                                                 *)

Modes == {"bare", "quoted", "escaped", "cut"}
Readings == [mode : Modes, value : Text]
Begun == [mode |-> "bare", value |-> <<>>]

\* What bash has read after each character of a word.
Read(f, word) ==
  /\ f \in [0..Len(word) -> Readings] /\ f[0] = Begun
  /\ \A k \in 1..Len(word) : f[k] = Eat(f[k - 1], word[k])

LEMMA EatParts ==
  ASSUME NEW m, NEW v \in Text, NEW c \in Char
  PROVE  LET st == [mode |-> m, value |-> v]
         IN  /\ m = "quoted" /\ c = "'" => Eat(st, c) = [mode |-> "bare", value |-> v]
             /\ m = "quoted" /\ c # "'" => Eat(st, c) = [mode |-> "quoted", value |-> Append(v, c)]
             /\ m = "escaped" => Eat(st, c) = [mode |-> "bare", value |-> Append(v, c)]
             /\ m = "bare" /\ c = "'" => Eat(st, c) = [mode |-> "quoted", value |-> v]
             /\ m = "bare" /\ c = "\\" => Eat(st, c) = [mode |-> "escaped", value |-> v]
             /\ m \in Modes => Eat(st, c) \in Readings
<1>1. Append(v, c) \in Text
  BY AppendProperties DEF Text
<1> DEFINE st == [mode |-> m, value |-> v]
<1>2. st.mode = m /\ st.value = v
  OBVIOUS
<1>3. \A x : [st EXCEPT !.mode = x] = [mode |-> x, value |-> v]
  OBVIOUS
<1>4. [st EXCEPT !.value = Append(@, c)] = [mode |-> m, value |-> Append(v, c)]
  OBVIOUS
<1>5. m = "quoted" /\ c = "'" => Eat(st, c) = [mode |-> "bare", value |-> v]
  BY <1>2, <1>3 DEF Eat
<1>6. m = "quoted" /\ c # "'" => Eat(st, c) = [mode |-> "quoted", value |-> Append(v, c)]
  BY <1>2, <1>4 DEF Eat
<1>7. m = "escaped" => Eat(st, c) = [mode |-> "bare", value |-> Append(v, c)]
  BY <1>2 DEF Eat
<1>8. m = "bare" /\ c = "'" => Eat(st, c) = [mode |-> "quoted", value |-> v]
  BY <1>2, <1>3 DEF Eat
<1>9. m = "bare" /\ c = "\\" => Eat(st, c) = [mode |-> "escaped", value |-> v]
  BY <1>2, <1>3 DEF Eat
<1>10. m \in Modes => Eat(st, c) \in Readings
  <2>1. \A x \in Modes : /\ [mode |-> x, value |-> v] \in Readings
                         /\ [mode |-> x, value |-> Append(v, c)] \in Readings
    BY <1>1 DEF Readings
  <2>2. "bare" \in Modes /\ "quoted" \in Modes /\ "escaped" \in Modes /\ "cut" \in Modes
    BY DEF Modes
  <2>3. CASE m = "bare" /\ c \notin {"'", "\\"}
    <3>1. CASE c \in {" ", "$"}
      <4>1. Eat(st, c) = [mode |-> "cut", value |-> v]
        BY <1>2, <1>3, <2>3, <3>1 DEF Eat
      <4>2. QED
        BY <2>1, <2>2, <4>1
    <3>2. CASE c \notin {" ", "$"}
      <4>1. Eat(st, c) = [mode |-> "bare", value |-> Append(v, c)]
        BY <1>2, <1>4, <2>3, <3>2 DEF Eat
      <4>2. QED
        BY <2>1, <2>2, <4>1
    <3>3. QED
      BY <3>1, <3>2
  <2>4. CASE m = "cut"
    <3>1. Eat(st, c) = st
      BY <1>2, <2>4 DEF Eat
    <3>2. QED
      BY <2>4, <2>1, <2>2, <3>1
  <2>5. CASE m = "quoted" \/ m = "escaped" \/ (m = "bare" /\ c \in {"'", "\\"})
    <3> HIDE DEF st
    <3>1. QED
      BY <1>5, <1>6, <1>7, <1>8, <1>9, <2>5, <2>1, <2>2
  <2>6. QED
    BY <2>3, <2>4, <2>5 DEF Modes
<1>11. QED
  BY <1>5, <1>6, <1>7, <1>8, <1>9, <1>10

LEMMA EatTyped == ASSUME NEW st \in Readings, NEW c \in Char PROVE Eat(st, c) \in Readings
<1>1. PICK m \in Modes, v \in Text : st = [mode |-> m, value |-> v]
  BY DEF Readings
<1>2. QED
  BY <1>1, EatParts

(* bash reads a word character by character.                                *)
LEMMA ReadLoop ==
  ASSUME NEW word, word \in Text
  PROVE  \E f : Read(f, word) /\ BashWord(word) = f[Len(word)]
<1> DEFINE n == Len(word)
           V == Readings
           G == [k \in 1..n |-> [st \in V |-> Eat(st, word[k])]]
           Round(k, f) == IF k = 0 THEN [mode |-> "bare", value |-> <<>>] ELSE Eat(f[k - 1], word[k])
           Loop(f) == f = [k \in 0..n |-> Round(k, f)]
<1>1. n \in Nat /\ \A k \in 1..n : word[k] \in Char
  BY SeqParts DEF Text
<1>2. G \in [1..n -> [V -> V]]
  BY <1>1, EatTyped
<1>3. Begun \in V
  BY EmptySeq DEF Begun, Readings, Modes, Text
<1>4. \E f : Rounds(f, n, V, Begun, G)
  <2> HIDE DEF G, n, V
  <2>1. QED
    BY <1>1, <1>2, <1>3, LoopExists
<1>5. \E f : Loop(f)
  <2>1. PICK f : Rounds(f, n, V, Begun, G)
    BY <1>4
  <2>2. f \in [0..n -> V] /\ f[0] = Begun /\ \A k \in 1..n : f[k] = G[k][f[k - 1]]
    BY <2>1 DEF Rounds
  <2>3. ASSUME NEW k \in 0..n PROVE f[k] = Round(k, f)
    <3>1. CASE k = 0
      BY <2>2, <3>1 DEF Begun
    <3>2. CASE k # 0
      <4>1. k \in 1..n /\ k - 1 \in 0..n
        BY <1>1, <3>2
      <4> HIDE DEF n, V
      <4>2. f[k - 1] \in V
        BY <2>2, <4>1
      <4>3. f[k] = Eat(f[k - 1], word[k])
        BY <2>2, <4>1, <4>2
      <4>4. QED
        BY <3>2, <4>3
    <3>3. QED
      BY <3>1, <3>2
  <2>4. Loop(f)
    <3> HIDE DEF Round, n, V
    <3>1. QED
      BY <2>2, <2>3
  <2> HIDE DEF Loop
  <2>5. QED
    BY <2>4
<1> DEFINE r == CHOOSE f : Loop(f)
<1>6. BashWord(word) = r[n]
  BY DEF BashWord
<1>7. Loop(r)
  <2> HIDE DEF Loop
  <2>1. QED
    BY <1>5
<1> HIDE DEF r
<1>8. Rounds(r, n, V, Begun, G)
  <2>1. r = [k \in 0..n |-> r[k]] /\ \A k \in 0..n : r[k] = Round(k, r)
    <3> HIDE DEF Round, n
    <3>1. QED
      BY <1>7
  <2>2. r[0] = Begun
    <3>1. 0 \in 0..n /\ Round(0, r) = Begun
      BY <1>1 DEF Begun
    <3> HIDE DEF Round, n
    <3>2. QED
      BY <2>1, <3>1
  <2>3. ASSUME NEW k \in 1..n, r[k - 1] \in V PROVE r[k] = G[k][r[k - 1]]
    <3>1. k \in 0..n /\ k # 0
      BY <1>1
    <3>2. r[k] = Round(k, r)
      <4> HIDE DEF Round
      <4>1. QED
        BY <2>1, <3>1
    <3> HIDE DEF n, V
    <3>3. QED
      BY <2>3, <3>1, <3>2
  <2> HIDE DEF G, n, V
  <2>4. QED
    BY <1>1, <1>2, <1>3, <2>1, <2>2, <2>3, LoopUnique
<1>9. Read(r, word)
  <2>1. r \in [0..n -> V] /\ r[0] = Begun /\ \A k \in 1..n : r[k] = G[k][r[k - 1]]
    BY <1>8 DEF Rounds
  <2>2. ASSUME NEW k \in 1..n PROVE r[k] = Eat(r[k - 1], word[k])
    <3>1. k - 1 \in 0..n
      BY <1>1
    <3> HIDE DEF n, V
    <3>2. r[k - 1] \in V
      BY <2>1, <3>1
    <3>3. QED
      BY <2>1, <3>2
  <2>3. QED
    BY <2>1, <2>2 DEF Read
<1>10. QED
  BY <1>6, <1>9

(* One more character.                                                      *)
LEMMA BashAppend ==
  ASSUME NEW word, word \in Text, NEW c, c \in Char
  PROVE  BashWord(Append(word, c)) = Eat(BashWord(word), c) /\ BashWord(word) \in Readings
<1> DEFINE n == Len(word)
           w == Append(word, c)
<1>1. n \in Nat
  BY SeqParts DEF Text
<1>2. w \in Text /\ Len(w) = n + 1 /\ w[n + 1] = c /\ \A i \in 1..n : w[i] = word[i]
  BY AppendParts DEF Text
<1>3. PICK f : Read(f, word) /\ BashWord(word) = f[n]
  BY ReadLoop
<1>4. PICK g : Read(g, w) /\ BashWord(w) = g[n + 1]
  BY <1>2, ReadLoop
<1> HIDE DEF w, n
<1>5. f \in [0..n -> Readings] /\ f[0] = Begun /\ \A k \in 1..n : f[k] = Eat(f[k - 1], word[k])
  BY <1>3 DEF Read, n
<1>6. g[0] = Begun /\ \A k \in 1..(n + 1) : g[k] = Eat(g[k - 1], w[k])
  BY <1>2, <1>4 DEF Read
<1> DEFINE P == {k \in 0..n : g[k] = f[k]}
<1>7. 0 \in P
  BY <1>1, <1>5, <1>6
<1>8. ASSUME NEW k \in 1..n, k - 1 \in P PROVE k \in P
  <2>1. k \in 1..(n + 1) /\ k \in 0..n
    BY <1>1
  <2>2. g[k] = Eat(g[k - 1], w[k]) /\ f[k] = Eat(f[k - 1], word[k]) /\ w[k] = word[k]
    BY <1>2, <1>5, <1>6, <2>1
  <2>3. g[k - 1] = f[k - 1]
    BY <1>8
  <2>4. QED
    BY <2>1, <2>2, <2>3
<1>9. n \in P
  <2>1. P \in SUBSET (0..n)
    OBVIOUS
  <2> HIDE DEF P
  <2>2. QED
    BY <1>1, <1>7, <1>8, <2>1, Climb
<1>10. n + 1 \in 1..(n + 1) /\ (n + 1) - 1 = n /\ n \in 0..n
  BY <1>1
<1>11. g[n + 1] = Eat(f[n], c)
  BY <1>2, <1>6, <1>9, <1>10
<1>12. QED
  BY <1>3, <1>4, <1>5, <1>10, <1>11 DEF w, n

\* The quoted form of a character.
Quoted(c) == IF c = "'" THEN <<"'", "\\", "'", "'">> ELSE <<c>>
QuotedTexts(value) == [i \in DOMAIN value |-> Quoted(value[i])]
InQuotes(v) == [mode |-> "quoted", value |-> v]

(* bash, inside of quotes, takes the quoted form of a character for it.     *)
LEMMA QuotedReads ==
  ASSUME NEW w, w \in Text, NEW v, v \in Text, NEW c, c \in Char, BashWord(w) = InQuotes(v)
  PROVE  /\ Quoted(c) \in Text /\ Behind(w, Quoted(c)) \in Text
         /\ BashWord(Behind(w, Quoted(c))) = InQuotes(Append(v, c))
<1> DEFINE q == "'"
           b == "\\"
<1>1. q \in Char /\ b \in Char
  BY AuthoringAssumption
<1>2. CASE c # "'"
  <2>1. Quoted(c) = <<c>>
    BY <1>2 DEF Quoted
  <2>2. <<c>> \in Text /\ Behind(w, <<c>>) = Append(w, c) /\ Append(w, c) \in Text
    <3>1. w \in Seq(Char)
      BY DEF Text
    <3>2. <<c>> \in Seq(Char)
      BY ShortLists
    <3>3. Behind(w, <<c>>) = Append(w, c)
      BY <3>1, AppendOne
    <3>4. Append(w, c) \in Seq(Char)
      BY <3>1, AppendParts
    <3>5. QED
      BY <3>2, <3>3, <3>4 DEF Text
  <2>3. BashWord(Append(w, c)) = Eat(InQuotes(v), c)
    BY BashAppend
  <2>4. Eat(InQuotes(v), c) = InQuotes(Append(v, c))
    BY <1>2, EatParts DEF InQuotes
  <2>5. QED
    BY <2>1, <2>2, <2>3, <2>4
<1>3. CASE c = "'"
  <2> DEFINE four == <<q, b, q, q>>
             w1 == Append(w, q)
             w2 == Append(w1, b)
             w3 == Append(w2, q)
             w4 == Append(w3, q)
  <2>1. Quoted(c) = four
    BY <1>3 DEF Quoted
  <2>2. b # q /\ c = q
    BY <1>3
  <2>3. Eat(InQuotes(v), q) = [mode |-> "bare", value |-> v]
    BY <1>1, EatParts DEF InQuotes
  <2>4. Eat([mode |-> "bare", value |-> v], b) = [mode |-> "escaped", value |-> v]
    <3>1. ASSUME NEW m, NEW d \in Char, m = "bare", d = "\\"
          PROVE  Eat([mode |-> m, value |-> v], d) = [mode |-> "escaped", value |-> v]
      <4>1. v \in Text /\ m = "bare" /\ d \in Char /\ d = "\\"
        BY <3>1
      <4>2. QED
        BY ONLY <4>1, EatParts
    <3>2. QED
      BY <1>1, <3>1
  <2>5. Eat([mode |-> "escaped", value |-> v], q) = [mode |-> "bare", value |-> Append(v, q)]
    <3>1. ASSUME NEW m, NEW d \in Char, m = "escaped"
          PROVE  Eat([mode |-> m, value |-> v], d) = [mode |-> "bare", value |-> Append(v, d)]
      <4>1. v \in Text /\ m = "escaped" /\ d \in Char
        BY <3>1
      <4>2. QED
        BY ONLY <4>1, EatParts
    <3>2. QED
      BY <1>1, <3>1
  <2>6. Append(v, q) \in Text
    BY <1>1, AppendParts DEF Text
  <2>7. Eat([mode |-> "bare", value |-> Append(v, q)], q) = InQuotes(Append(v, q))
    BY <1>1, <2>6, EatParts DEF InQuotes
  <2> HIDE DEF q, b
  <2>8. four \in Text /\ Behind(w, four) = w4
    <3>1. w \in Seq(Char)
      BY DEF Text
    <3>2. /\ <<q, b, q, q>> \in Seq(Char)
          /\ Behind(w, <<q, b, q, q>>) = Append(Append(Append(Append(w, q), b), q), q)
      <4> HIDE DEF four, w1, w2, w3, w4
      <4>1. ASSUME NEW c1 \in Char, NEW c2 \in Char, NEW c3 \in Char, NEW c4 \in Char
            PROVE  /\ <<c1, c2, c3, c4>> \in Seq(Char)
                   /\ Behind(w, <<c1, c2, c3, c4>>) = Append(Append(Append(Append(w, c1), c2), c3), c4)
        BY ONLY <3>1, <4>1, AppendFour
      <4>2. QED
        BY <1>1, <4>1
    <3>3. QED
      BY <3>2 DEF Text
  <2>9. w1 \in Text /\ BashWord(w1) = Eat(BashWord(w), q)
    BY <1>1, BashAppend, AppendParts DEF Text
  <2> HIDE DEF four
  <2> HIDE DEF w1
  <2>10. w2 \in Text /\ BashWord(w2) = Eat(BashWord(w1), b)
    BY <1>1, <2>9, BashAppend, AppendParts DEF Text
  <2> HIDE DEF w2
  <2>11. w3 \in Text /\ BashWord(w3) = Eat(BashWord(w2), q)
    BY <1>1, <2>10, BashAppend, AppendParts DEF Text
  <2> HIDE DEF w3
  <2>12. w4 \in Text /\ BashWord(w4) = Eat(BashWord(w3), q)
    BY <1>1, <2>11, BashAppend, AppendParts DEF Text
  <2> HIDE DEF w4
  <2>13. BashWord(w4) = InQuotes(Append(v, q))
    BY <2>3, <2>4, <2>5, <2>7, <2>9, <2>10, <2>11, <2>12
  <2>14. QED
    BY <2>1, <2>2, <2>8, <2>12, <2>13
<1>4. QED
  BY <1>2, <1>3

(* bash reads the quoted form of any text as that text.                     *)
LEMMA QuoteReads ==
  ASSUME NEW value, value \in Text
  PROVE  BashWord(QuoteForBash(value)) = Whole(value)
<1> DEFINE n == Len(value)
           f == QuotedTexts(value)
           q == "'"
<1>1. n \in Nat /\ DOMAIN value = 1..n /\ \A i \in 1..n : value[i] \in Char
  BY SeqParts DEF Text
<1>2. q \in Char
  BY AuthoringAssumption
<1>3. <<q>> \in Text /\ BashWord(<<q>>) = InQuotes(<<>>)
  <2>1. <<>> \in Text /\ <<>> \in Seq(Char)
    BY EmptySeq DEF Text
  <2>2. PICK r : Read(r, <<>>) /\ BashWord(<<>>) = r[Len(<<>>)]
    BY <2>1, ReadLoop
  <2>3. BashWord(<<>>) = Begun
    BY <2>2, EmptySeq DEF Read
  <2>4. Append(<<>>, q) = <<q>>
    OBVIOUS
  <2>5. BashWord(Append(<<>>, q)) = Eat(BashWord(<<>>), q)
    BY <1>2, <2>1, BashAppend
  <2>6. Eat(Begun, q) = InQuotes(<<>>)
    BY <1>2, <2>1, EatParts DEF Begun, InQuotes
  <2>7. Append(<<>>, q) \in Text
    BY <1>2, <2>1, AppendParts DEF Text
  <2>8. QED
    BY <2>3, <2>4, <2>5, <2>6, <2>7
<1>4. QuoteForBash(value) = (<<q>> \o FlattenSeq(f)) \o <<q>>
  BY DEF QuoteForBash, QuotedTexts, Quoted
<1>5. \A i \in 1..n : f[i] = Quoted(value[i]) /\ f[i] \in Text
  <2>1. ASSUME NEW c \in Char PROVE Quoted(c) \in Text
    BY <1>3, <2>1, QuotedReads, EmptySeq DEF Text
  <2>2. QED
    BY <1>1, <2>1 DEF QuotedTexts
<1>6. f \in Seq(Text) /\ Len(f) = n
  <2>1. f \in [1..n -> Text]
    BY <1>1, <1>5 DEF QuotedTexts
  <2> HIDE DEF f
  <2>2. QED
    BY <1>1, <2>1, FcnList
<1> HIDE DEF f, n, q
<1>7. PICK a : Flat(a, Char, f)
  BY <1>6, FlattenRounds DEF Text
<1>8. /\ FlattenSeq(f) = a[n] /\ a[0] = <<>>
      /\ \A i \in 0..n : a[i] \in Text
      /\ \A i \in 1..n : a[i] = Behind(a[i - 1], f[i])
  BY <1>6, <1>7 DEF Flat, Text
<1> DEFINE w(i) == Behind(<<q>>, a[i])
           Good(i) == w(i) \in Text /\ BashWord(w(i)) = InQuotes(Prefix(value, i))
           P == {i \in 0..n : Good(i)}
<1>9. /\ Prefix(value, 0) = <<>> /\ Prefix(value, n) = value
      /\ \A i \in 0..n : Prefix(value, i) \in Text
      /\ \A i \in 1..n : Prefix(value, i) = Append(Prefix(value, i - 1), value[i])
  BY PrefixParts DEF Text, n
<1>10. 0 \in P
  <2>1. Behind(<<q>>, <<>>) = <<q>>
    BY <1>3, ConcatEmptySeq DEF Behind, Text
  <2>2. QED
    BY <1>1, <1>3, <1>8, <1>9, <2>1
<1>11. ASSUME NEW i \in 1..n, i - 1 \in P PROVE i \in P
  <2>1. i - 1 \in 0..n /\ i \in 0..n
    BY <1>1
  <2> DEFINE x == w(i - 1)
             v == Prefix(value, i - 1)
             c == value[i]
             y == a[i - 1]
  <2>2. x \in Text /\ BashWord(x) = InQuotes(v) /\ v \in Text /\ c \in Char /\ y \in Text
    BY <1>1, <1>8, <1>9, <1>11, <2>1
  <2>3. f[i] = Quoted(c) /\ a[i] = Behind(y, Quoted(c)) /\ Prefix(value, i) = Append(v, c)
    BY <1>5, <1>8, <1>9
  <2>4. x = Behind(<<q>>, y)
    OBVIOUS
  <2> HIDE DEF x, v, c, y
  <2>5. Behind(x, Quoted(c)) \in Text /\ BashWord(Behind(x, Quoted(c))) = InQuotes(Append(v, c))
        /\ Quoted(c) \in Text
    BY <2>2, QuotedReads
  <2>6. w(i) = Behind(x, Quoted(c))
    <3>1. PICK t, u : t = Quoted(c) /\ u = <<q>>
      OBVIOUS
    <3>2. u \in Seq(Char) /\ y \in Seq(Char) /\ t \in Seq(Char)
      BY <1>3, <2>2, <2>5, <3>1 DEF Text
    <3>3. (u \o y) \o t = u \o (y \o t)
      BY <3>2, ConcatAssociative
    <3>4. QED
      BY <2>3, <2>4, <3>1, <3>3 DEF Behind
  <2>7. QED
    BY <2>1, <2>3, <2>5, <2>6
<1>12. n \in P
  <2>1. P \in SUBSET (0..n)
    OBVIOUS
  <2> HIDE DEF P
  <2>2. QED
    BY <1>1, <1>10, <1>11, <2>1, Climb
<1>13. w(n) \in Text /\ BashWord(w(n)) = InQuotes(value)
  BY <1>9, <1>12
<1>14. QuoteForBash(value) = w(n) \o <<q>>
  BY <1>4, <1>8 DEF Behind
<1> DEFINE x == w(n)
<1> HIDE DEF w
<1>15. x \o <<q>> = Append(x, q)
  BY <1>2, <1>13, AppendIsConcat DEF Text
<1>16. BashWord(Append(x, q)) = Eat(InQuotes(value), q)
  BY <1>2, <1>13, BashAppend
<1>17. Eat(InQuotes(value), q) = Whole(value)
  <2>1. q = "'"
    BY DEF q
  <2>2. QED
    BY <1>2, <2>1, EatParts DEF InQuotes, Whole
<1>18. QED
  BY <1>14, <1>15, <1>16, <1>17

-----------------------------------------------------------------------------
(* Building an id.                                                          *)

\* What BuildJobId puts behind the step id for an axis.
AxisText(axis) == <<"_", "_">> \o axis[1] \o <<"=">> \o ToDecimal(axis[2])
AxisTexts(combo) == [k \in DOMAIN combo |-> AxisText(combo[k])]

LEMMA FiguresIn ==
  ASSUME NEW T, DigitChars \subseteq T, NEW n \in Nat
  PROVE  ToDecimal(n) \in Seq(T)
BY DecimalStep, SeqMonotonic DEF Figures

LEMMA AxisTextIn ==
  ASSUME NEW T, DigitChars \cup {"_", "="} \subseteq T, NEW axis, axis \in Seq(T) \X Nat
  PROVE  AxisText(axis) \in Seq(T)
<1>1. PICK u, d, e, n : /\ u = <<"_", "_">> /\ d = axis[1] /\ e = <<"=">> /\ n = ToDecimal(axis[2])
                        /\ axis[1] \in Seq(T) /\ axis[2] \in Nat
  OBVIOUS
<1>2. u \in Seq(T) /\ d \in Seq(T) /\ e \in Seq(T) /\ n \in Seq(T)
  <2>1. u \in Seq(T)
    <3>1. "_" \in T
      OBVIOUS
    <3>2. QED
      BY <1>1, <3>1, ShortLists
  <2>2. e \in Seq(T)
    <3>1. "=" \in T
      OBVIOUS
    <3>2. QED
      BY <1>1, <3>1, ShortLists
  <2>3. n \in Seq(T)
    BY <1>1, FiguresIn
  <2>4. QED
    BY <1>1, <2>1, <2>2, <2>3
<1>3. u \o d \in Seq(T)
  BY <1>2, ConcatProperties
<1>4. (u \o d) \o e \in Seq(T)
  BY <1>2, <1>3, ConcatProperties
<1>5. ((u \o d) \o e) \o n \in Seq(T)
  BY <1>2, <1>4, ConcatProperties
<1>6. QED
  BY <1>1, <1>5 DEF AxisText

LEMMA AxisTextsIn ==
  ASSUME NEW T, DigitChars \cup {"_", "="} \subseteq T, NEW combo, combo \in Seq(Seq(T) \X Nat)
  PROVE  /\ AxisTexts(combo) \in Seq(Seq(T)) /\ Len(AxisTexts(combo)) = Len(combo)
         /\ \A k \in 1..Len(combo) : AxisTexts(combo)[k] = AxisText(combo[k])
<1>1. Len(combo) \in Nat /\ DOMAIN combo = 1..Len(combo)
      /\ \A k \in 1..Len(combo) : combo[k] \in Seq(T) \X Nat
  BY SeqParts
<1>2. \A k \in 1..Len(combo) : AxisText(combo[k]) \in Seq(T)
  BY <1>1, AxisTextIn
<1>3. AxisTexts(combo) \in [1..Len(combo) -> Seq(T)]
  BY <1>1, <1>2 DEF AxisTexts
<1>4. \A k \in 1..Len(combo) : AxisTexts(combo)[k] = AxisText(combo[k])
  BY <1>1 DEF AxisTexts
<1>5. PICK f : f = AxisTexts(combo)
  OBVIOUS
<1>6. f \in Seq(Seq(T)) /\ Len(f) = Len(combo)
  BY <1>1, <1>3, <1>5, FcnList
<1>7. QED
  BY <1>4, <1>5, <1>6

(* An id that is built has no characters but those of its names, digits,    *)
(* and the underscore and the equals sign.                                  *)
LEMMA BuildIn ==
  ASSUME NEW T, DigitChars \cup {"_", "="} \subseteq T, NEW step, step \in Seq(T),
         NEW combo, combo \in Seq(Seq(T) \X Nat)
  PROVE  BuildJobId(step, combo) \in Seq(T)
<1>1. BuildJobId(step, combo) = step \o FlattenSeq(AxisTexts(combo))
  BY DEF BuildJobId, AxisTexts, AxisText
<1>2. PICK f : f = AxisTexts(combo)
  OBVIOUS
<1>3. f \in Seq(Seq(T))
  BY <1>2, AxisTextsIn
<1>4. FlattenSeq(f) \in Seq(T)
  BY <1>3, FlattenRange
<1>5. PICK x : x = FlattenSeq(f)
  OBVIOUS
<1>6. step \o x \in Seq(T)
  BY <1>4, <1>5, ConcatProperties
<1>7. QED
  BY <1>1, <1>2, <1>5, <1>6

-----------------------------------------------------------------------------
(* The author.                                                              *)

\* What Python checked before it built an id.
BuiltFrom(b) ==
  /\ b = [step |-> b.step, combo |-> b.combo]
  /\ b.step \in Text /\ ValidateStepId(b.step)
  /\ b.combo \in Seq(Text \X (0..MaxIndex))
  /\ \A k \in DOMAIN b.combo : ValidateStepId(b.combo[k][1])

(* The inductive invariant: what is known of the job at each point.         *)
AuthorInv ==
  /\ TypeOK
  /\ jid \in Text
  /\ pc = "start" => built = None
  /\ pc = "planned" => plan # None
  /\ pc \in {"written", "rendered"} => planToml # None
  /\ plan # None => pc \in {"planned", "written", "rendered"} /\ ValidateJobId(jid)
  /\ built # None => BuiltFrom(built) /\ jid = BuildJobId(built.step, built.combo)
  /\ pc = "rendered" => /\ ParseJobId(jid) # None
                        /\ script = RenderBatchBash(jid, ParseJobId(jid).combo, planToml)

LEMMA ValidBuild ==
  ASSUME NEW b, BuiltFrom(b)
  PROVE  /\ BuildJobId(b.step, b.combo) \in Text
         /\ Range(BuildJobId(b.step, b.combo)) \subseteq ValidJobIdChar
<1> DEFINE step == b.step
           combo == b.combo
           T == ValidJobIdChar
<1>1. /\ step \in Seq(Char) /\ ValidateStepId(step)
      /\ combo \in Seq(Seq(Char) \X (0..MaxIndex))
      /\ \A k \in DOMAIN combo : ValidateStepId(combo[k][1])
  BY DEF BuiltFrom, Text
<1> HIDE DEF step, combo
<1>2. Len(combo) \in Nat /\ DOMAIN combo = 1..Len(combo)
      /\ \A k \in 1..Len(combo) : combo[k] \in Seq(Char) \X (0..MaxIndex)
  BY <1>1, SeqParts
<1>3. 0..MaxIndex \subseteq Nat
  OBVIOUS
<1>4. ASSUME NEW t, t \in Seq(Char), ValidateStepId(t) PROVE t \in Seq(T)
  <2>1. t \in Seq(Range(t))
    BY <1>4, SeqOfRange
  <2>2. Range(t) \subseteq T
    BY <1>4 DEF ValidateStepId, ValidJobIdChar
  <2>3. QED
    BY <2>1, <2>2, SeqMonotonic
<1>5. /\ DigitChars \cup {"_", "="} \subseteq T /\ DigitChars \cup {"_", "="} \subseteq Char
  <2>1. DigitChars \subseteq T
    BY DigitFacts DEF ValidJobIdChar
  <2>2. "_" \in T /\ "=" \in T
    BY DEF ValidJobIdChar, ValidStepIdChar
  <2>3. DigitChars \cup {"_", "="} \subseteq Char
    BY JobIdAssumption DEF DigitChars, Alphanumeric
  <2>4. QED
    BY <2>1, <2>2, <2>3
<1> HIDE DEF T
<1>6. BuildJobId(step, combo) \in Seq(Char)
  <2>1. combo \in [1..Len(combo) -> Seq(Char) \X Nat]
    BY <1>1, <1>2, <1>3, LenProperties
  <2>2. combo \in Seq(Seq(Char) \X Nat)
    BY <1>2, <2>1, FcnList
  <2>3. QED
    BY <1>1, <1>5, <2>2, BuildIn
<1>7. BuildJobId(step, combo) \in Seq(T)
  <2>1. \A k \in 1..Len(combo) : combo[k] \in Seq(T) \X Nat
    <3> SUFFICES ASSUME NEW k \in 1..Len(combo) PROVE combo[k] \in Seq(T) \X Nat
      OBVIOUS
    <3>1. PICK t, x : combo[k] = <<t, x>> /\ t \in Seq(Char) /\ x \in 0..MaxIndex
      BY <1>2
    <3>2. combo[k][1] = t
      BY <3>1
    <3>3. t \in Seq(T) /\ x \in Nat
      BY <1>1, <1>2, <1>3, <1>4, <3>1, <3>2
    <3>4. QED
      BY <3>1, <3>3
  <2>2. combo \in [1..Len(combo) -> Seq(T) \X Nat]
    BY <1>1, <1>2, <2>1, LenProperties
  <2>3. combo \in Seq(Seq(T) \X Nat) /\ step \in Seq(T)
    BY <1>1, <1>2, <1>4, <2>2, FcnList
  <2>4. QED
    BY <1>5, <2>3, BuildIn
<1>8. QED
  BY <1>6, <1>7, RangeOfSeq DEF step, combo, T, Text

\* The exports of an axis and of a param.
AxisExport(axis) == <<<<"AXIS">> \o SanitizeVarName(axis[1]), QuoteForBash(ToDecimal(axis[2]))>>
ParamExport(param) ==
  <<<<"PARAM">> \o SanitizeVarName(param[1]), QuoteForBash(TomlValueToString(param[2]))>>

\* e exports the flow and the id, then the axes, then the params.
FixedExports(e, id) ==
  /\ e[1] = <<<<"FLOW_UUID">>, QuoteForBash(<<"uuid">>)>>
  /\ e[2] = <<<<"JOB_ID">>, QuoteForBash(id)>>

Exports(e, id, n, m, combo, params) ==
  /\ DOMAIN e = 1..(2 + n + m) /\ e # <<>>
  /\ FixedExports(e, id)
  /\ \A k \in 1..n : e[2 + k] = AxisExport(combo[k])
  /\ \A k \in 1..m : e[2 + n + k] = ParamExport(params[k])

(* The exports of a script: two, then the axes, then the params.            *)
LEMMA ScriptParts ==
  ASSUME NEW id, NEW n \in Nat, NEW m \in Nat, NEW combo, NEW params,
         DOMAIN combo = 1..n, DOMAIN params = 1..m
  PROVE  Exports(RenderBatchBash(id, combo, params), id, n, m, combo, params)
<1> DEFINE x == <<<<"FLOW_UUID">>, QuoteForBash(<<"uuid">>)>>
           y == <<<<"JOB_ID">>, QuoteForBash(id)>>
           a == <<x, y>>
           b == [k \in 1..n |-> AxisExport(combo[k])]
           c == [k \in 1..m |-> ParamExport(params[k])]
           T == {x, y} \cup {b[k] : k \in 1..n} \cup {c[k] : k \in 1..m}
           e == RenderBatchBash(id, combo, params)
<1>1. e = (a \o b) \o c
  BY DEF RenderBatchBash, AxisExport, ParamExport
<1>2. (\A k \in 1..n : b[k] = AxisExport(combo[k])) /\ \A k \in 1..m : c[k] = ParamExport(params[k])
  BY DEF AxisExport, ParamExport
<1>3. b = [k \in 1..n |-> b[k]] /\ c = [k \in 1..m |-> c[k]]
  BY DEF AxisExport, ParamExport
<1> HIDE DEF x, y, b, c, e
<1>4. a \in Seq(T) /\ Len(a) = 2 /\ a[1] = x /\ a[2] = y
  <2>1. x \in T /\ y \in T
    OBVIOUS
  <2> HIDE DEF T
  <2>2. QED
    BY <2>1
<1>5. b \in Seq(T) /\ Len(b) = n
  <2>1. b \in [1..n -> T]
    BY <1>3
  <2> HIDE DEF T
  <2>2. QED
    BY <2>1, FcnList
<1>6. c \in Seq(T) /\ Len(c) = m
  <2>1. c \in [1..m -> T]
    BY <1>3
  <2> HIDE DEF T
  <2>2. QED
    BY <2>1, FcnList
<1> HIDE DEF a, T
<1>7. /\ a \o b \in Seq(T) /\ Len(a \o b) = 2 + n
      /\ \A i \in 1..(2 + n) : (a \o b)[i] = IF i <= 2 THEN a[i] ELSE b[i - 2]
  <2>1. a \in Seq(T) /\ b \in Seq(T)
    BY <1>4, <1>5
  <2>2. /\ a \o b \in Seq(T) /\ Len(a \o b) = Len(a) + Len(b)
        /\ \A i \in 1..(Len(a) + Len(b)) : (a \o b)[i] = IF i <= Len(a) THEN a[i] ELSE b[i - Len(a)]
    BY <2>1, ConcatProperties
  <2>3. Len(a) = 2 /\ Len(b) = n
    BY <1>4, <1>5
  <2>4. QED
    BY <2>2, <2>3
<1> DEFINE f == a \o b
<1> HIDE DEF f
<1>8. /\ f \o c \in Seq(T) /\ Len(f \o c) = 2 + n + m
      /\ \A i \in 1..(2 + n + m) : (f \o c)[i] = IF i <= 2 + n THEN f[i] ELSE c[i - (2 + n)]
  <2>1. f \in Seq(T) /\ Len(f) = 2 + n
    BY <1>7 DEF f
  <2>2. QED
    BY <1>6, <2>1, ConcatParts
<1>9. e = f \o c
  BY <1>1 DEF f
<1>10. DOMAIN e = 1..(2 + n + m) /\ e # <<>>
  <2>1. DOMAIN e = 1..Len(e) /\ Len(e) = 2 + n + m
    BY <1>8, <1>9, SeqParts
  <2>2. Len(e) # 0
    BY <2>1
  <2>3. QED
    BY <2>1, <2>2, EmptySeq
<1>11. e[1] = x /\ e[2] = y
  <2>1. 1 \in 1..(2 + n + m) /\ 2 \in 1..(2 + n + m) /\ 1 \in 1..(2 + n) /\ 2 \in 1..(2 + n)
    OBVIOUS
  <2>2. f[1] = x /\ f[2] = y
    BY <1>4, <1>7, <2>1 DEF f
  <2>3. QED
    BY <1>8, <1>9, <2>1, <2>2
<1>12. ASSUME NEW k \in 1..n PROVE e[2 + k] = b[k]
  <2>1. /\ 2 + k \in 1..(2 + n + m) /\ 2 + k \in 1..(2 + n) /\ ~(2 + k <= 2) /\ (2 + k) - 2 = k
        /\ 2 + k <= 2 + n
    OBVIOUS
  <2>2. f[2 + k] = b[k]
    BY <1>7, <2>1 DEF f
  <2>3. QED
    BY <1>8, <1>9, <2>1, <2>2
<1>13. ASSUME NEW k \in 1..m PROVE e[2 + n + k] = c[k]
  <2>1. /\ 2 + n + k \in 1..(2 + n + m) /\ ~(2 + n + k <= 2 + n) /\ (2 + n + k) - (2 + n) = k
    OBVIOUS
  <2>2. QED
    BY <1>8, <1>9, <2>1
<1>14. QED
  <2>1. FixedExports(e, id)
    BY <1>11 DEF x, y, FixedExports
  <2>2. Exports(e, id, n, m, combo, params)
    BY <1>2, <1>10, <1>12, <1>13, <2>1 DEF Exports
  <2>3. QED
    BY <2>2 DEF e

LEMMA ScriptFull ==
  ASSUME NEW id, NEW n \in Nat, NEW m \in Nat, NEW combo, NEW params,
         DOMAIN combo = 1..n, DOMAIN params = 1..m
  PROVE  RenderBatchBash(id, combo, params) # <<>>
<1>1. PICK e : e = RenderBatchBash(id, combo, params)
  OBVIOUS
<1>2. Exports(e, id, n, m, combo, params)
  BY <1>1, ScriptParts
<1>3. QED
  BY <1>1, <1>2 DEF Exports

LEMMA ParamParts ==
  ASSUME NEW p \in Params
  PROVE  /\ IsParams(p) /\ p # None
         /\ Len(p) \in Nat /\ DOMAIN p = 1..Len(p)
<1>1. IsParams(p)
  BY AuthoringAssumption
<1>2. QED
  BY <1>1, SeqParts DEF IsParams

LEMMA ComboParts ==
  ASSUME NEW s, s \in Text, ParseJobId(s) # None
  PROVE  LET q == Split(s)
         IN  /\ q \in PieceLists /\ ValidateStepId(q[1]) /\ AxisPieces(q)
             /\ ParseJobId(s).step = q[1]
             /\ ParseJobId(s).combo = [k \in 1..(Len(q) - 1) |-> ParseAxis(q[k + 1])]
             /\ DOMAIN ParseJobId(s).combo = 1..(Len(q) - 1) /\ Len(q) - 1 \in Nat
<1>1. PICK q : q = Split(s)
  OBVIOUS
<1>2. ParseJobId(s) = IF ValidateStepId(q[1]) /\ AxisPieces(q)
                      THEN [step |-> q[1], combo |-> [k \in 1..(Len(q) - 1) |-> ParseAxis(q[k + 1])]]
                      ELSE None
  BY <1>1, ParseParts
<1>3. q \in PieceLists
  BY <1>1, SplitFacts
<1>4. Len(q) \in Nat /\ Len(q) >= 1
  BY <1>3, PieceParts
<1>5. Len(q) - 1 \in Nat
  BY <1>4
<1>6. ValidateStepId(q[1]) /\ AxisPieces(q)
  BY <1>2
<1>7. ParseJobId(s) = [step |-> q[1], combo |-> [k \in 1..(Len(q) - 1) |-> ParseAxis(q[k + 1])]]
  BY <1>2, <1>6
<1>8. /\ ParseJobId(s).step = q[1]
      /\ ParseJobId(s).combo = [k \in 1..(Len(q) - 1) |-> ParseAxis(q[k + 1])]
  BY <1>7
<1>9. QED
  BY <1>1, <1>3, <1>5, <1>6, <1>8

LEMMA InitInv == Init => AuthorInv
<1> SUFFICES ASSUME Init PROVE AuthorInv
  OBVIOUS
<1>1. /\ pc = "start" /\ jid = <<>> /\ built = None /\ plan = None /\ planToml = None /\ script = <<>>
  BY DEF Init
<1>2. <<>> \in Text
  BY EmptySeq DEF Text
<1>3. TypeOK
  BY <1>1 DEF TypeOK
<1>4. QED
  BY <1>1, <1>2, <1>3 DEF AuthorInv

LEMMA RefuseInv ==
  ASSUME AuthorInv, Refuse, pc \in {"start", "named", "written"}, plan = None
  PROVE  AuthorInv'
<1>1. /\ pc' = "refused" /\ jid' = jid /\ built' = built /\ plan' = plan
      /\ planToml' = planToml /\ script' = script
  BY DEF Refuse
<1>2. TypeOK'
  <2>1. script = <<>>
    BY DEF AuthorInv, TypeOK
  <2>2. QED
    BY <1>1, <2>1 DEF AuthorInv, TypeOK
<1>3. QED
  BY <1>1, <1>2 DEF AuthorInv

LEMMA BuildIdInv ==
  ASSUME AuthorInv, NEW step \in Step, NEW combo \in Combo, BuildId(step, combo)
  PROVE  AuthorInv'
<1>1. pc = "start" /\ plan = None /\ script = <<>>
  BY DEF AuthorInv, BuildId, TypeOK
<1> DEFINE Valid == ValidateStepId(step) /\ \A k \in DOMAIN combo : ValidateStepId(combo[k][1])
<1>2. CASE Valid
  <2>1. /\ pc' = "named" /\ jid' = BuildJobId(step, combo)
        /\ built' = [step |-> step, combo |-> combo]
        /\ plan' = plan /\ planToml' = planToml /\ script' = script
    BY <1>2 DEF BuildId
  <2> DEFINE b == [step |-> step, combo |-> combo]
  <2>2. b.step = step /\ b.combo = combo /\ b = [step |-> b.step, combo |-> b.combo]
    OBVIOUS
  <2>3. step \in Text /\ combo \in Seq(Text \X (0..MaxIndex))
    BY AuthoringAssumption DEF Text
  <2> HIDE DEF b
  <2>4. BuiltFrom(b)
    BY <1>2, <2>2, <2>3 DEF BuiltFrom
  <2>5. jid' \in Text /\ Range(jid') \subseteq ValidJobIdChar
    BY <2>1, <2>2, <2>4, ValidBuild
  <2>6. built' = b
    BY <2>1 DEF b
  <2>7. TypeOK'
    BY <1>1, <2>1, <2>5 DEF AuthorInv, TypeOK
  <2>8. jid' = BuildJobId(built'.step, built'.combo) /\ BuiltFrom(built')
    BY <2>1, <2>2, <2>4, <2>6
  <2>9. BuiltFrom(built)'
    BY <2>8 DEF BuiltFrom
  <2>10. QED
    BY <1>1, <2>1, <2>5, <2>7, <2>8, <2>9 DEF AuthorInv
<1>3. CASE ~Valid
  <2>1. Refuse
    BY <1>3 DEF BuildId
  <2>2. QED
    BY <1>1, <2>1, RefuseInv
<1>4. QED
  BY <1>2, <1>3

LEMMA TypeIdInv == ASSUME AuthorInv, NEW id \in Typed, TypeId(id) PROVE AuthorInv'
<1>1. /\ pc = "start" /\ pc' = "named" /\ jid' = id /\ built' = built /\ plan' = plan
      /\ planToml' = planToml /\ script' = script
  BY DEF TypeId
<1>2. id \in Text
  BY AuthoringAssumption DEF Text
<1>3. built = None /\ plan = None /\ script = <<>>
  BY <1>1 DEF AuthorInv, TypeOK
<1>4. TypeOK'
  BY <1>1, <1>3 DEF AuthorInv, TypeOK
<1>5. QED
  BY <1>1, <1>2, <1>3, <1>4 DEF AuthorInv

LEMMA NewPlanInv == ASSUME AuthorInv, NEW params \in Params, NewPlan(params) PROVE AuthorInv'
<1>1. pc = "named" /\ plan = None /\ script = <<>>
  BY DEF AuthorInv, NewPlan, TypeOK
<1>2. CASE ValidateJobId(jid)
  <2>1. /\ pc' = "planned" /\ plan' = params /\ jid' = jid /\ built' = built
        /\ planToml' = planToml /\ script' = script
    BY <1>2 DEF NewPlan
  <2>2. params # None
    BY ParamParts
  <2>3. TypeOK'
    BY <1>1, <2>1 DEF AuthorInv, TypeOK
  <2>4. QED
    BY <1>2, <2>1, <2>2, <2>3 DEF AuthorInv
<1>3. CASE ~ValidateJobId(jid)
  <2>1. Refuse
    BY <1>3 DEF NewPlan
  <2>2. QED
    BY <1>1, <2>1, RefuseInv
<1>4. QED
  BY <1>2, <1>3

LEMMA WritePlanInv == ASSUME AuthorInv, WritePlan PROVE AuthorInv'
<1>1. /\ pc = "planned" /\ pc' = "written" /\ planToml' = plan /\ jid' = jid /\ built' = built
      /\ plan' = plan /\ script' = script
  BY DEF WritePlan
<1>2. TypeOK'
  BY <1>1 DEF AuthorInv, TypeOK
<1>3. QED
  BY <1>1, <1>2 DEF AuthorInv

LEMMA TypePlanInv == ASSUME AuthorInv, NEW params \in Params, TypePlan(params) PROVE AuthorInv'
<1>1. /\ pc = "named" /\ pc' = "written" /\ planToml' = params /\ jid' = jid /\ built' = built
      /\ plan' = plan /\ script' = script
  BY DEF TypePlan
<1>2. params # None /\ plan = None
  BY <1>1, ParamParts DEF AuthorInv
<1>3. TypeOK'
  BY <1>1 DEF AuthorInv, TypeOK
<1>4. QED
  BY <1>1, <1>2, <1>3 DEF AuthorInv

(* A script is rendered of an id that parses and of a plan entry.           *)
LEMMA RenderedInv ==
  ASSUME AuthorInv, NEW params \in Params, ParseJobId(jid) # None,
         plan # None => pc = "written",
         pc' = "rendered", jid' = jid, built' = built, plan' = plan, planToml' = params,
         script' = RenderBatchBash(jid, ParseJobId(jid).combo, params)
  PROVE  AuthorInv'
<1>1. params # None /\ Len(params) \in Nat /\ DOMAIN params = 1..Len(params)
  BY ParamParts
<1>2. PICK n \in Nat : DOMAIN ParseJobId(jid).combo = 1..n
  BY ComboParts DEF AuthorInv
<1>3. script' # <<>>
  <2>1. PICK combo, m : combo = ParseJobId(jid).combo /\ m = Len(params)
    OBVIOUS
  <2>2. m \in Nat /\ DOMAIN combo = 1..n /\ DOMAIN params = 1..m
    BY <1>1, <1>2, <2>1
  <2>3. RenderBatchBash(jid, combo, params) # <<>>
    BY <2>2, ScriptFull
  <2>4. QED
    BY <2>1, <2>3
<1>4. TypeOK'
  BY <1>3 DEF AuthorInv, TypeOK
<1>5. script' = RenderBatchBash(jid', ParseJobId(jid').combo, planToml')
  OBVIOUS
<1>6. QED
  BY <1>1, <1>4, <1>5 DEF AuthorInv

LEMMA RenderInv == ASSUME AuthorInv, Render PROVE AuthorInv'
<1>1. pc = "written" /\ planToml \in Params
  BY DEF AuthorInv, TypeOK, Render
<1>2. CASE ParseJobId(jid) # None
  <2>1. /\ pc' = "rendered" /\ script' = RenderBatchBash(jid, ParseJobId(jid).combo, planToml)
        /\ jid' = jid /\ built' = built /\ plan' = plan /\ planToml' = planToml
    BY <1>2 DEF Render
  <2>2. QED
    BY <1>1, <1>2, <2>1, RenderedInv
<1>3. CASE ParseJobId(jid) = None
  <2>1. Refuse
    BY <1>3 DEF Render
  <2>2. plan = None
    BY <1>3 DEF AuthorInv, ValidateJobId
  <2>3. QED
    BY <1>1, <2>1, <2>2, RefuseInv
<1>4. QED
  BY <1>2, <1>3

LEMMA RenderDirectlyInv ==
  ASSUME AuthorInv, NEW params \in Params, RenderDirectly(params) PROVE AuthorInv'
<1>1. pc = "named" /\ plan = None
  BY DEF AuthorInv, RenderDirectly
<1>2. CASE ParseJobId(jid) # None
  <2>1. /\ pc' = "rendered" /\ script' = RenderBatchBash(jid, ParseJobId(jid).combo, params)
        /\ jid' = jid /\ built' = built /\ plan' = plan /\ planToml' = params
    BY <1>2 DEF RenderDirectly
  <2>2. QED
    BY <1>1, <1>2, <2>1, RenderedInv
<1>3. CASE ParseJobId(jid) = None
  <2>1. Refuse
    BY <1>3 DEF RenderDirectly
  <2>2. QED
    BY <1>1, <2>1, RefuseInv
<1>4. QED
  BY <1>2, <1>3

LEMMA NextJobInv == ASSUME AuthorInv, NextJob PROVE AuthorInv'
<1>1. /\ pc' = "start" /\ jid' = <<>> /\ built' = None /\ plan' = None /\ planToml' = None
      /\ script' = <<>>
  BY DEF NextJob
<1>2. <<>> \in Text
  BY EmptySeq DEF Text
<1>3. TypeOK'
  BY <1>1 DEF TypeOK
<1>4. QED
  BY <1>1, <1>2, <1>3 DEF AuthorInv

LEMMA StutterInv == ASSUME AuthorInv, UNCHANGED vars PROVE AuthorInv'
<1>1. /\ pc' = pc /\ jid' = jid /\ built' = built /\ plan' = plan /\ planToml' = planToml
      /\ script' = script
  BY DEF vars
<1>2. TypeOK'
  BY <1>1 DEF AuthorInv, TypeOK
<1>3. BuiltFrom(built) => BuiltFrom(built)'
  BY <1>1 DEF BuiltFrom
<1>4. QED
  BY <1>1, <1>2, <1>3 DEF AuthorInv

LEMMA NextInv == AuthorInv /\ [Next]_vars => AuthorInv'
<1> SUFFICES ASSUME AuthorInv, [Next]_vars PROVE AuthorInv'
  OBVIOUS
<1>1. CASE \E step \in Step, combo \in Combo : BuildId(step, combo)
  BY <1>1, BuildIdInv
<1>2. CASE \E id \in Typed : TypeId(id)
  BY <1>2, TypeIdInv
<1>3. CASE \E params \in Params : NewPlan(params)
  BY <1>3, NewPlanInv
<1>4. CASE \E params \in Params : TypePlan(params)
  BY <1>4, TypePlanInv
<1>5. CASE \E params \in Params : RenderDirectly(params)
  BY <1>5, RenderDirectlyInv
<1>6. CASE WritePlan
  BY <1>6, WritePlanInv
<1>7. CASE Render
  BY <1>7, RenderInv
<1>8. CASE NextJob
  BY <1>8, NextJobInv
<1>9. CASE UNCHANGED vars
  BY <1>9, StutterInv
<1>10. QED
  BY <1>1, <1>2, <1>3, <1>4, <1>5, <1>6, <1>7, <1>8, <1>9 DEF Next

LEMMA AuthorInvariant == Spec => []AuthorInv
<1>1. QED
  BY InitInv, NextInv, PTL DEF Spec

(* Only a rendered job has a script, and what Python builds has only the    *)
(* characters of an id: for any names and values.                           *)
THEOREM TypeCorrect == Spec => []TypeOK
<1>1. AuthorInv => TypeOK
  BY DEF AuthorInv
<1>2. QED
  BY <1>1, AuthorInvariant, PTL

(* A job that went through ExperimentPlan is never refused when its script  *)
(* is rendered, and the two checks of an id differ only in the plus         *)
(* (py_export/plan.rs:31-34, runner/flow.rs:231-235).                       *)
THEOREM PlannedRender == Spec => []PlannedJobsRender
<1>1. ASSUME AuthorInv PROVE PlannedJobsRender
  <2>1. pc = "refused" => plan = None
    BY <1>1 DEF AuthorInv
  <2>2. ASSUME "+" \notin Range(jid), jid # <<>>, ParseJobId(jid) # None PROVE ValidateJobId(jid)
    <3>1. Range(jid) \subseteq ValidJobIdChar \cup {"+"}
      BY <1>1, <2>2, ParseChars DEF AuthorInv
    <3>2. Range(jid) \subseteq ValidJobIdChar
      BY <2>2, <3>1
    <3>3. QED
      BY <2>2, <3>2 DEF ValidateJobId
  <2>3. ValidateJobId(jid) => jid # <<>> /\ ParseJobId(jid) # None
    BY DEF ValidateJobId
  <2>4. QED
    BY <2>1, <2>2, <2>3 DEF PlannedJobsRender
<1>2. QED
  BY <1>1, AuthorInvariant, PTL

LEMMA NameText ==
  ASSUME NEW name, name \in Text
  PROVE  SanitizeVarName(name) \in Text
<1> DEFINE f == SanitizeVarName(name)
<1>1. Len(name) \in Nat /\ DOMAIN name = 1..Len(name)
  BY SeqParts DEF Text
<1>2. \A c \in DOMAIN Upper : Upper[c] \in Char
  <2>1. \A c \in DOMAIN Upper : Upper[c] \in {"A", "B"}
    BY DEF Upper
  <2>2. {"A", "B"} \subseteq Char
    BY JobIdAssumption DEF Alphanumeric
  <2>3. QED
    BY <2>1, <2>2
<1>3. Alphanumeric \subseteq Char /\ "_" \in Char
  BY JobIdAssumption
<1>4. f \in [1..Len(name) -> Char]
  <2>1. f = [i \in 1..Len(name) |-> IF name[i] \in DOMAIN Upper THEN Upper[name[i]]
                                    ELSE IF name[i] \in Alphanumeric THEN name[i] ELSE "_"]
    BY <1>1 DEF SanitizeVarName
  <2>2. \A i \in 1..Len(name) :
          (IF name[i] \in DOMAIN Upper THEN Upper[name[i]]
           ELSE IF name[i] \in Alphanumeric THEN name[i] ELSE "_") \in Char
    BY <1>2, <1>3
  <2> HIDE DEF f
  <2>3. QED
    BY <2>1, <2>2
<1> HIDE DEF f
<1>5. f \in Seq(Char)
  BY <1>1, <1>4, FcnList
<1>6. QED
  BY <1>5 DEF f, Text

LEMMA ScalarText == ASSUME NEW v, IsScalar(v) PROVE ScalarToString(v) \in Text
<1>1. CASE v.type = "string"
  BY <1>1 DEF IsScalar, ScalarToString, Text
<1>2. CASE v.type # "string"
  <2>1. v.value \in Nat
    BY <1>2 DEF IsScalar
  <2>2. DigitChars \subseteq Char
    BY JobIdAssumption DEF DigitChars, Alphanumeric
  <2>3. ToDecimal(v.value) \in Text
    BY <2>1, <2>2, FiguresIn DEF Text
  <2>4. QED
    BY <1>2, <2>3 DEF ScalarToString
<1>3. QED
  BY <1>1, <1>2

(* A value is written as a text.                                            *)
LEMMA ValueText == ASSUME NEW v, IsValue(v) PROVE TomlValueToString(v) \in Text
<1>1. CASE v.type # "array"
  BY <1>1, ScalarText DEF IsValue, TomlValueToString
<1>2. CASE v.type = "array"
  <2> DEFINE s == v.value
             f == [i \in DOMAIN s |-> (IF i = 1 THEN <<>> ELSE <<" ">>) \o ScalarToString(s[i])]
  <2>1. s \in Seq(Range(s)) /\ \A x \in Range(s) : IsScalar(x)
    BY <1>2 DEF IsValue
  <2>2. TomlValueToString(v) = FlattenSeq(f)
    BY <1>2 DEF TomlValueToString
  <2>3. Len(s) \in Nat /\ DOMAIN s = 1..Len(s) /\ \A i \in 1..Len(s) : s[i] \in Range(s)
    BY <2>1, SeqParts
  <2>4. " " \in Char
    BY AuthoringAssumption
  <2>5. ASSUME NEW i \in 1..Len(s)
        PROVE  ((IF i = 1 THEN <<>> ELSE <<" ">>) \o ScalarToString(s[i])) \in Text
    <3>1. PICK x, y : x = (IF i = 1 THEN <<>> ELSE <<" ">>) /\ y = ScalarToString(s[i])
      OBVIOUS
    <3>2. y \in Seq(Char)
      BY <2>1, <2>3, <3>1, ScalarText DEF Text
    <3>3. x \in Seq(Char)
      BY <2>4, <3>1, ShortLists, EmptySeq
    <3>4. x \o y \in Seq(Char)
      BY <3>2, <3>3, ConcatProperties
    <3>5. QED
      BY <3>1, <3>4 DEF Text
  <2>6. f \in [1..Len(s) -> Text]
    BY <2>3, <2>5
  <2> HIDE DEF f
  <2>7. f \in Seq(Seq(Char))
    BY <2>3, <2>6, FcnList DEF Text
  <2>8. FlattenSeq(f) \in Seq(Char)
    BY <2>7, FlattenRange
  <2>9. QED
    BY <2>2, <2>8 DEF Text
<1>3. QED
  BY <1>1, <1>2

-----------------------------------------------------------------------------
(* The variables of a script.                                               *)

FlowVar == <<"FLOW_UUID">>
JobVar == <<"JOB_ID">>
AxisVar(a) == <<"AXIS">> \o a
ParamVar(a) == <<"PARAM">> \o a

LEMMA VarHeads ==
  ASSUME NEW a, a \in Text
  PROVE  /\ AxisVar(a)[1] = "AXIS" /\ Len(AxisVar(a)) = 1 + Len(a)
         /\ ParamVar(a)[1] = "PARAM" /\ Len(ParamVar(a)) = 1 + Len(a)
         /\ \A i \in 1..Len(a) : AxisVar(a)[i + 1] = a[i] /\ ParamVar(a)[i + 1] = a[i]
<1>1. ASSUME NEW h
      PROVE  /\ (<<h>> \o a)[1] = h /\ Len(<<h>> \o a) = 1 + Len(a)
             /\ \A i \in 1..Len(a) : (<<h>> \o a)[i + 1] = a[i]
  <2> DEFINE T == Char \cup {h}
             x == <<h>>
  <2>1. a \in Seq(T)
    BY SeqMonotonic DEF Text
  <2>2. x \in Seq(T) /\ Len(x) = 1 /\ x[1] = h
    BY ShortLists
  <2>3. Len(a) \in Nat
    BY <2>1, SeqParts
  <2> HIDE DEF x, T
  <2>4. /\ Len(x \o a) = Len(x) + Len(a)
        /\ \A i \in 1..(Len(x) + Len(a)) : (x \o a)[i] = IF i <= Len(x) THEN x[i] ELSE a[i - Len(x)]
    BY <2>1, <2>2, ConcatProperties
  <2>5. 1 \in 1..(1 + Len(a))
    BY <2>3
  <2>6. (x \o a)[1] = h
    BY <2>2, <2>4, <2>5
  <2>7. \A i \in 1..Len(a) : i + 1 \in 1..(1 + Len(a)) /\ ~(i + 1 <= 1) /\ (i + 1) - 1 = i
    BY <2>3
  <2>8. \A i \in 1..Len(a) : (x \o a)[i + 1] = a[i]
    BY <2>2, <2>4, <2>7
  <2>9. QED
    BY <2>2, <2>4, <2>6, <2>8 DEF x
<1>2. QED
  BY <1>1 DEF AxisVar, ParamVar

(* No two of the variables are the same, but those of names that are.       *)
LEMMA VarsApart ==
  /\ FlowVar # JobVar
  /\ \A a \in Text : AxisVar(a) \notin {FlowVar, JobVar} /\ ParamVar(a) \notin {FlowVar, JobVar}
  /\ \A a, b \in Text : /\ AxisVar(a) # ParamVar(b)
                        /\ AxisVar(a) = AxisVar(b) => a = b
                        /\ ParamVar(a) = ParamVar(b) => a = b
<1>1. FlowVar[1] = "FLOW_UUID" /\ JobVar[1] = "JOB_ID"
  BY DEF FlowVar, JobVar
<1>2. ASSUME NEW a \in Text
      PROVE  AxisVar(a) \notin {FlowVar, JobVar} /\ ParamVar(a) \notin {FlowVar, JobVar}
  BY <1>1, VarHeads
<1>3. ASSUME NEW a \in Text, NEW b \in Text,
             Len(a) = Len(b), \A i \in 1..Len(a) : a[i] = b[i]
      PROVE  a = b
  BY <1>3, SameList DEF Text
<1>4. ASSUME NEW a \in Text, NEW b \in Text
      PROVE  /\ AxisVar(a) # ParamVar(b)
             /\ AxisVar(a) = AxisVar(b) => a = b
             /\ ParamVar(a) = ParamVar(b) => a = b
  <2>1. Len(a) \in Nat /\ Len(b) \in Nat
    BY SeqParts DEF Text
  <2>2. AxisVar(a) # ParamVar(b)
    BY VarHeads
  <2>3. AxisVar(a) = AxisVar(b) => a = b
    <3> SUFFICES ASSUME AxisVar(a) = AxisVar(b) PROVE a = b
      OBVIOUS
    <3>1. 1 + Len(a) = 1 + Len(b)
      BY VarHeads
    <3>2. Len(a) = Len(b)
      BY <2>1, <3>1
    <3>3. \A i \in 1..Len(a) : a[i] = b[i]
      BY <3>2, VarHeads
    <3>4. QED
      BY <1>3, <3>2, <3>3
  <2>4. ParamVar(a) = ParamVar(b) => a = b
    <3> SUFFICES ASSUME ParamVar(a) = ParamVar(b) PROVE a = b
      OBVIOUS
    <3>1. 1 + Len(a) = 1 + Len(b)
      BY VarHeads
    <3>2. Len(a) = Len(b)
      BY <2>1, <3>1
    <3>3. \A i \in 1..Len(a) : a[i] = b[i]
      BY <3>2, VarHeads
    <3>4. QED
      BY <1>3, <3>2, <3>3
  <2>5. QED
    BY <2>2, <2>3, <2>4
<1>5. FlowVar # JobVar
  BY <1>1
<1>6. QED
  BY <1>2, <1>4, <1>5

\* The variables of the exports e, of n axes with the names A and m params with B.
Names(e, n, m, A, B) ==
  /\ n \in Nat /\ m \in Nat /\ A \in [1..n -> Text] /\ B \in [1..m -> Text]
  /\ DOMAIN e = 1..(2 + n + m) /\ e[1][1] = FlowVar /\ e[2][1] = JobVar
  /\ \A k \in 1..n : e[2 + k][1] = AxisVar(A[k])
  /\ \A k \in 1..m : e[2 + n + k][1] = ParamVar(B[k])

\* The exports of a variable.
Of(e, v) == {k \in DOMAIN e : e[k][1] = v}

LEMMA Places ==
  ASSUME NEW n \in Nat, NEW m \in Nat, NEW i \in 1..(2 + n + m)
  PROVE  \/ i = 1 \/ i = 2
         \/ \E k \in 1..n : i = 2 + k
         \/ \E k \in 1..m : i = 2 + n + k
<1>1. CASE i <= 2
  BY <1>1
<1>2. CASE i > 2 /\ i <= 2 + n
  <2>1. i - 2 \in 1..n /\ i = 2 + (i - 2)
    BY <1>2
  <2>2. QED
    BY <2>1
<1>3. CASE i > 2 + n
  <2>1. i - (2 + n) \in 1..m /\ i = 2 + n + (i - (2 + n))
    BY <1>3
  <2>2. QED
    BY <2>1
<1>4. QED
  BY <1>1, <1>2, <1>3

(* Where a variable is exported.                                            *)
LEMMA ExportPlaces ==
  ASSUME NEW e, NEW n, NEW m, NEW A, NEW B, Names(e, n, m, A, B)
  PROVE  /\ Of(e, FlowVar) = {1} /\ Of(e, JobVar) = {2}
         /\ \A a \in Text : /\ Of(e, AxisVar(a)) = {2 + k : k \in {j \in 1..n : A[j] = a}}
                            /\ Of(e, ParamVar(a)) = {(2 + n) + k : k \in {j \in 1..m : B[j] = a}}
<1>1. /\ n \in Nat /\ m \in Nat /\ (\A k \in 1..n : A[k] \in Text) /\ \A k \in 1..m : B[k] \in Text
      /\ DOMAIN e = 1..(2 + n + m) /\ e[1][1] = FlowVar /\ e[2][1] = JobVar
      /\ \A k \in 1..n : e[2 + k][1] = AxisVar(A[k])
      /\ \A k \in 1..m : e[2 + n + k][1] = ParamVar(B[k])
  BY DEF Names
<1>2. /\ 1 \in DOMAIN e /\ 2 \in DOMAIN e
      /\ \A k \in 1..n : 2 + k \in DOMAIN e
      /\ \A k \in 1..m : 2 + n + k \in DOMAIN e
  BY <1>1
<1>3. ASSUME NEW i \in DOMAIN e
      PROVE  \/ i = 1 \/ i = 2
             \/ \E k \in 1..n : i = 2 + k
             \/ \E k \in 1..m : i = 2 + n + k
  <2>1. i \in 1..(2 + n + m) /\ n \in Nat /\ m \in Nat
    BY <1>1
  <2>2. QED
    BY ONLY <2>1, Places
<1>4. ASSUME NEW i \in DOMAIN e
      PROVE  \/ i = 1 /\ e[i][1] = FlowVar
             \/ i = 2 /\ e[i][1] = JobVar
             \/ \E a \in Text : e[i][1] = AxisVar(a)
             \/ \E a \in Text : e[i][1] = ParamVar(a)
  BY <1>1, <1>3
<1>5. Of(e, FlowVar) = {1}
  <2>1. ASSUME NEW i \in DOMAIN e, e[i][1] = FlowVar PROVE i = 1
    BY <1>4, <2>1, VarsApart
  <2>2. QED
    BY <1>1, <1>2, <2>1 DEF Of
<1>6. Of(e, JobVar) = {2}
  <2>1. ASSUME NEW i \in DOMAIN e, e[i][1] = JobVar PROVE i = 2
    BY <1>4, <2>1, VarsApart
  <2>2. QED
    BY <1>1, <1>2, <2>1 DEF Of
<1>7. ASSUME NEW a \in Text PROVE Of(e, AxisVar(a)) = {2 + k : k \in {j \in 1..n : A[j] = a}}
  <2>1. ASSUME NEW i \in DOMAIN e, e[i][1] = AxisVar(a)
        PROVE  \E k \in 1..n : i = 2 + k /\ A[k] = a
    <3>1. i # 1 /\ i # 2
      BY <1>1, <2>1, VarsApart
    <3>2. ASSUME NEW k \in 1..m, i = 2 + n + k PROVE FALSE
      <4>1. B[k] \in Text /\ e[i][1] = ParamVar(B[k])
        BY <1>1, <3>2
      <4>2. QED
        BY <2>1, <4>1, VarsApart
    <3>3. PICK k \in 1..n : i = 2 + k
      BY <1>3, <3>1, <3>2
    <3>4. A[k] = a
      BY <1>1, <2>1, <3>3, VarsApart
    <3>5. QED
      BY <3>3, <3>4
  <2>2. \A k \in 1..n : A[k] = a => 2 + k \in Of(e, AxisVar(a))
    BY <1>1, <1>2 DEF Of
  <2>3. QED
    BY <2>1, <2>2 DEF Of
<1>8. ASSUME NEW a \in Text PROVE Of(e, ParamVar(a)) = {(2 + n) + k : k \in {j \in 1..m : B[j] = a}}
  <2>1. ASSUME NEW i \in DOMAIN e, e[i][1] = ParamVar(a)
        PROVE  \E k \in 1..m : i = 2 + n + k /\ B[k] = a
    <3>1. i # 1 /\ i # 2
      BY <1>1, <2>1, VarsApart
    <3>2. ASSUME NEW k \in 1..n, i = 2 + k PROVE FALSE
      <4>1. A[k] \in Text /\ e[i][1] = AxisVar(A[k])
        BY <1>1, <3>2
      <4>2. QED
        BY <2>1, <4>1, VarsApart
    <3>3. PICK k \in 1..m : i = 2 + n + k
      BY <1>3, <3>1, <3>2
    <3>4. B[k] = a
      BY <1>1, <2>1, <3>3, VarsApart
    <3>5. QED
      BY <3>3, <3>4
  <2>2. \A k \in 1..m : B[k] = a => (2 + n) + k \in Of(e, ParamVar(a))
    BY <1>1, <1>2 DEF Of
  <2>3. QED
    BY <2>1, <2>2 DEF Of
<1>9. QED
  BY <1>5, <1>6, <1>7, <1>8

(* The last export of each variable.                                        *)
LEMMA LastExports ==
  ASSUME NEW e, NEW n, NEW m, NEW A, NEW B, Names(e, n, m, A, B)
  PROVE  /\ Latest(Of(e, FlowVar)) = 1 /\ Latest(Of(e, JobVar)) = 2
         /\ \A k \in 1..n : LET K == {j \in 1..n : A[j] = A[k]}
                            IN  Latest(K) \in K /\ Latest(Of(e, AxisVar(A[k]))) = 2 + Latest(K)
         /\ \A k \in 1..m : LET K == {j \in 1..m : B[j] = B[k]}
                            IN  Latest(K) \in K /\ Latest(Of(e, ParamVar(B[k]))) = (2 + n) + Latest(K)
<1>1. n \in Nat /\ m \in Nat /\ (\A k \in 1..n : A[k] \in Text) /\ \A k \in 1..m : B[k] \in Text
  BY DEF Names
<1>2. Latest(Of(e, FlowVar)) = 1 /\ Latest(Of(e, JobVar)) = 2
  <2>1. Of(e, FlowVar) = {1} /\ Of(e, JobVar) = {2}
    BY ExportPlaces
  <2>2. (CHOOSE k \in {1} : \A j \in {1} : j <= k) = 1 /\ (CHOOSE k \in {2} : \A j \in {2} : j <= k) = 2
    OBVIOUS
  <2>3. QED
    BY <2>1, <2>2 DEF Latest
<1>3. ASSUME NEW k \in 1..n
      PROVE  LET K == {j \in 1..n : A[j] = A[k]}
             IN  Latest(K) \in K /\ Latest(Of(e, AxisVar(A[k]))) = 2 + Latest(K)
  <2> DEFINE K == {j \in 1..n : A[j] = A[k]}
             J == Of(e, AxisVar(A[k]))
  <2>1. K \subseteq 1..n /\ K # {}
    OBVIOUS
  <2>2. J = {2 + j : j \in K}
    BY <1>1, ExportPlaces
  <2> HIDE DEF K, J
  <2>3. Latest(K) \in K /\ Latest(J) = 2 + Latest(K)
    BY <1>1, <2>1, <2>2, LatestMoves
  <2>4. QED
    BY <2>3 DEF K, J
<1>4. ASSUME NEW k \in 1..m
      PROVE  LET K == {j \in 1..m : B[j] = B[k]}
             IN  Latest(K) \in K /\ Latest(Of(e, ParamVar(B[k]))) = (2 + n) + Latest(K)
  <2> DEFINE K == {j \in 1..m : B[j] = B[k]}
             J == Of(e, ParamVar(B[k]))
             d == 2 + n
  <2>1. K \subseteq 1..m /\ K # {} /\ d \in Nat
    BY <1>1
  <2>2. J = {d + j : j \in K}
    BY <1>1, ExportPlaces
  <2> HIDE DEF K, J, d
  <2>3. Latest(K) \in K /\ Latest(J) = d + Latest(K)
    BY <1>1, <2>1, <2>2, LatestMoves
  <2>4. QED
    BY <2>3 DEF K, J, d
<1>5. QED
  BY <1>2, <1>3, <1>4

(* There are two variables and one for each name.                           *)
LEMMA VariableCount ==
  ASSUME NEW e, NEW n, NEW m, NEW A, NEW B, Names(e, n, m, A, B)
  PROVE  Cardinality({e[k][1] : k \in DOMAIN e}) =
           2 + Cardinality({A[k] : k \in 1..n}) + Cardinality({B[k] : k \in 1..m})
<1> DEFINE axes == {A[k] : k \in 1..n}
           keys == {B[k] : k \in 1..m}
           As == {AxisVar(a) : a \in axes}
           Bs == {ParamVar(b) : b \in keys}
<1>1. /\ n \in Nat /\ m \in Nat /\ (\A k \in 1..n : A[k] \in Text) /\ (\A k \in 1..m : B[k] \in Text)
      /\ DOMAIN e = 1..(2 + n + m) /\ e[1][1] = FlowVar /\ e[2][1] = JobVar
      /\ \A k \in 1..n : e[2 + k][1] = AxisVar(A[k])
      /\ \A k \in 1..m : e[2 + n + k][1] = ParamVar(B[k])
  BY DEF Names
<1>2. axes \subseteq Text /\ keys \subseteq Text
  BY <1>1
<1>3. {e[k][1] : k \in DOMAIN e} = ((As \cup Bs) \cup {JobVar}) \cup {FlowVar}
  <2>1. ASSUME NEW i \in DOMAIN e PROVE e[i][1] \in ((As \cup Bs) \cup {JobVar}) \cup {FlowVar}
    <3>1. \/ i = 1 \/ i = 2
          \/ \E k \in 1..n : i = 2 + k
          \/ \E k \in 1..m : i = 2 + n + k
      <4>1. i \in 1..(2 + n + m) /\ n \in Nat /\ m \in Nat
        BY <1>1
      <4>2. QED
        BY ONLY <4>1, Places
    <3>2. QED
      BY <1>1, <3>1
  <2>2. /\ 1 \in DOMAIN e /\ 2 \in DOMAIN e
        /\ \A k \in 1..n : 2 + k \in DOMAIN e
        /\ \A k \in 1..m : 2 + n + k \in DOMAIN e
    BY <1>1
  <2>3. \A k \in 1..n : AxisVar(A[k]) \in {e[j][1] : j \in DOMAIN e}
    BY <1>1, <2>2
  <2>4. \A k \in 1..m : ParamVar(B[k]) \in {e[j][1] : j \in DOMAIN e}
    BY <1>1, <2>2
  <2>5. FlowVar \in {e[j][1] : j \in DOMAIN e} /\ JobVar \in {e[j][1] : j \in DOMAIN e}
    BY <1>1, <2>2
  <2>6. QED
    BY <2>1, <2>3, <2>4, <2>5
<1>4. IsFiniteSet(axes) /\ IsFiniteSet(keys)
  <2>1. IsFiniteSet(1..n) /\ IsFiniteSet(1..m)
    BY <1>1, FS_Interval
  <2> DEFINE f == [k \in 1..n |-> A[k]]
             g == [k \in 1..m |-> B[k]]
  <2>2. f \in Surjection(1..n, axes) /\ g \in Surjection(1..m, keys)
    BY DEF Surjection
  <2>3. QED
    BY <2>1, <2>2, FS_Surjection
<1>5. IsFiniteSet(As) /\ Cardinality(As) = Cardinality(axes)
  <2> DEFINE f == [a \in axes |-> AxisVar(a)]
  <2>1. f \in Bijection(axes, As)
    BY <1>2, VarsApart DEF Bijection, Injection, IsInjective, Surjection
  <2> HIDE DEF f, axes, As
  <2>2. QED
    BY <1>4, <2>1, FS_Bijection DEF ExistsBijection
<1>6. IsFiniteSet(Bs) /\ Cardinality(Bs) = Cardinality(keys)
  <2> DEFINE f == [b \in keys |-> ParamVar(b)]
  <2>1. f \in Bijection(keys, Bs)
    BY <1>2, VarsApart DEF Bijection, Injection, IsInjective, Surjection
  <2> HIDE DEF f, keys, Bs
  <2>2. QED
    BY <1>4, <2>1, FS_Bijection DEF ExistsBijection
<1>7. As \cap Bs = {}
  BY <1>2, VarsApart
<1>8. /\ JobVar \notin As \cup Bs
      /\ FlowVar \notin (As \cup Bs) \cup {JobVar}
  BY <1>2, VarsApart
<1> HIDE DEF As, Bs, axes, keys
<1>9. IsFiniteSet(As \cup Bs) /\ Cardinality(As \cup Bs) = Cardinality(axes) + Cardinality(keys)
  <2>1. /\ IsFiniteSet(As \cup Bs)
        /\ Cardinality(As \cup Bs) = Cardinality(As) + Cardinality(Bs) - Cardinality(As \cap Bs)
    BY <1>5, <1>6, FS_Union
  <2>2. Cardinality(As \cap Bs) = 0
    BY <1>7, FS_EmptySet
  <2>3. Cardinality(axes) \in Nat /\ Cardinality(keys) \in Nat
    BY <1>4, FS_CardinalityType
  <2>4. QED
    BY <1>5, <1>6, <2>1, <2>2, <2>3
<1>10. /\ IsFiniteSet((As \cup Bs) \cup {JobVar})
       /\ Cardinality((As \cup Bs) \cup {JobVar}) = Cardinality(axes) + Cardinality(keys) + 1
  BY <1>8, <1>9, FS_AddElement
<1>11. Cardinality(((As \cup Bs) \cup {JobVar}) \cup {FlowVar}) = Cardinality(axes) + Cardinality(keys) + 1 + 1
  BY <1>8, <1>10, FS_AddElement
<1>12. Cardinality(axes) \in Nat /\ Cardinality(keys) \in Nat
  BY <1>4, FS_CardinalityType
<1>13. Cardinality({e[k][1] : k \in DOMAIN e}) = 2 + Cardinality(axes) + Cardinality(keys)
  <2>1. Cardinality(axes) + Cardinality(keys) + 1 + 1 = 2 + Cardinality(axes) + Cardinality(keys)
    BY <1>12
  <2>2. QED
    BY <1>3, <1>11, <2>1
<1>14. QED
  BY <1>13 DEF axes, keys

(* An axis of an id that parses is a name and a number.                     *)
LEMMA AxisTyped ==
  ASSUME NEW piece, piece \in Text, ParseAxis(piece) # None
  PROVE  /\ ParseAxis(piece) \in Text \X (0..MaxIndex)
         /\ ValidateStepId(ParseAxis(piece)[1])
<1>1. PICK pos : EqualsAt(piece, pos)
  BY AxisEquals
<1> DEFINE name == NameOf(piece, pos)
           index == IndexOf(piece, pos)
<1>2. /\ ParseAxis(piece) = <<name, ParseIndex(index)>>
      /\ ValidateStepId(name) /\ ParseIndex(index) # None
  BY <1>1, AxisParts
<1>3. name \in Text /\ index \in Text
  BY <1>1, PieceCut
<1> HIDE DEF name, index
<1>4. ParseIndex(index) \in 0..MaxIndex
  BY <1>2, <1>3, IndexValue
<1>5. QED
  BY <1>2, <1>3, <1>4

\* The names of the variables of some axes or params.
NamesOf(s, n) == [k \in 1..n |-> SanitizeVarName(s[k][1])]

(* The environment that bash makes of the exports of a script.              *)
LEMMA ScriptNames ==
  ASSUME NEW e, NEW id, NEW n \in Nat, NEW m \in Nat, NEW combo, NEW params,
         Exports(e, id, n, m, combo, params),
         \A k \in 1..n : combo[k][1] \in Text,
         \A k \in 1..m : params[k][1] \in Text
  PROVE  Names(e, n, m, NamesOf(combo, n), NamesOf(params, m))
<1> DEFINE A == NamesOf(combo, n)
           B == NamesOf(params, m)
<1>1. A \in [1..n -> Text] /\ B \in [1..m -> Text]
  BY NameText DEF NamesOf
<1>2. /\ DOMAIN e = 1..(2 + n + m) /\ FixedExports(e, id)
      /\ \A k \in 1..n : e[2 + k] = AxisExport(combo[k])
      /\ \A k \in 1..m : e[2 + n + k] = ParamExport(params[k])
  BY DEF Exports
<1>3. e[1][1] = FlowVar /\ e[2][1] = JobVar
  BY <1>2 DEF FixedExports, FlowVar, JobVar
<1>4. ASSUME NEW k \in 1..n PROVE e[2 + k][1] = AxisVar(A[k])
  <2>1. e[2 + k] = AxisExport(combo[k]) /\ A[k] = SanitizeVarName(combo[k][1])
    BY <1>2 DEF NamesOf
  <2>2. QED
    BY <2>1 DEF AxisExport, AxisVar
<1>5. ASSUME NEW k \in 1..m PROVE e[2 + n + k][1] = ParamVar(B[k])
  <2>1. e[2 + n + k] = ParamExport(params[k]) /\ B[k] = SanitizeVarName(params[k][1])
    BY <1>2 DEF NamesOf
  <2>2. QED
    BY <2>1 DEF ParamExport, ParamVar
<1>6. QED
  BY <1>1, <1>2, <1>3, <1>4, <1>5 DEF Names

(* bash, given the script, finds in every variable the value of the last    *)
(* axis or param that has that variable, whatever characters it has         *)
(* (render/mod.rs:23-27, 38-78).                                            *)
THEOREM ExportsAuthored == Spec => []ScriptExportsAuthored
<1>1. ASSUME AuthorInv, pc = "rendered" PROVE ScriptExportsAuthored
  <2> DEFINE combo == ParseJobId(jid).combo
             params == planToml
             q == Split(jid)
             n == Len(q) - 1
             m == Len(params)
             e == script
             A == NamesOf(combo, n)
             B == NamesOf(params, m)
  <2>1. jid \in Text /\ ParseJobId(jid) # None /\ params \in Params
        /\ e = RenderBatchBash(jid, combo, params)
    BY <1>1 DEF AuthorInv, TypeOK
  <2>2. /\ n \in Nat /\ DOMAIN combo = 1..n
        /\ \A k \in 1..n : combo[k] \in Text \X (0..MaxIndex)
    <3>1. /\ q \in PieceLists /\ AxisPieces(q) /\ n \in Nat /\ DOMAIN combo = 1..n
          /\ combo = [k \in 1..n |-> ParseAxis(q[k + 1])]
      BY <2>1, ComboParts
    <3> HIDE DEF combo
    <3>2. Len(q) \in Nat /\ \A k \in 1..Len(q) : q[k] \in Text
      BY <3>1, PieceParts
    <3>3. ASSUME NEW k \in 1..n PROVE combo[k] \in Text \X (0..MaxIndex)
      <4>1. k + 1 \in 1..Len(q)
        BY <3>2
      <4>2. PICK piece : piece = q[k + 1]
        OBVIOUS
      <4>3. piece \in Text /\ ParseAxis(piece) # None /\ combo[k] = ParseAxis(piece)
        BY <3>1, <3>2, <4>1, <4>2 DEF AxisPieces
      <4>4. QED
        BY <4>3, AxisTyped
    <3>4. QED
      BY <3>1, <3>3
  <2>3. IsParams(params) /\ m \in Nat /\ DOMAIN params = 1..m
    BY <2>1, ParamParts
  <2>4. \A k \in 1..m : params[k][1] \in Text /\ IsValue(params[k][2])
    BY <2>3 DEF IsParams, Text
  <2> HIDE DEF combo, q, n, m, e, params
  <2>5. Exports(e, jid, n, m, combo, params)
    BY <2>1, <2>2, <2>3, ScriptParts
  <2>6. \A k \in 1..n : combo[k][1] \in Text /\ combo[k][2] \in Nat
    BY <2>2
  <2>7. Names(e, n, m, A, B)
    BY <2>2, <2>3, <2>4, <2>5, <2>6, ScriptNames
  <2>8. /\ DOMAIN e = 1..(2 + n + m) /\ FixedExports(e, jid)
        /\ \A k \in 1..n : e[2 + k] = AxisExport(combo[k])
        /\ \A k \in 1..m : e[2 + n + k] = ParamExport(params[k])
    BY <2>5 DEF Exports
  <2>9. \A v : LastExport(v) = Latest(Of(e, v))
    BY DEF LastExport, Latest, Of, e
  <2>10. \A k \in DOMAIN e : Environment[e[k][1]] = BashWord(e[LastExport(e[k][1])][2])
    BY DEF Environment, Variables, e
  <2>11. 1 \in DOMAIN e /\ 2 \in DOMAIN e /\ (\A k \in 1..n : 2 + k \in DOMAIN e)
         /\ \A k \in 1..m : 2 + n + k \in DOMAIN e
    BY <2>2, <2>3, <2>8
  <2>12. e[1][1] = FlowVar /\ e[2][1] = JobVar
    BY <2>7 DEF Names
  <2>13. Environment[<<"FLOW_UUID">>] = Whole(<<"uuid">>)
    <3>1. e[1][2] = QuoteForBash(<<"uuid">>)
      BY <2>8 DEF FixedExports
    <3>2. <<"uuid">> \in Text
      BY AuthoringAssumption, ShortLists DEF Text
    <3>3. LastExport(FlowVar) = 1
      BY <2>7, <2>9, LastExports
    <3>4. Environment[FlowVar] = BashWord(e[1][2])
      BY <2>10, <2>11, <2>12, <3>3
    <3>5. QED
      BY <3>1, <3>2, <3>4, QuoteReads DEF FlowVar
  <2>14. Environment[<<"JOB_ID">>] = Whole(jid)
    <3>1. e[2][2] = QuoteForBash(jid)
      BY <2>8 DEF FixedExports
    <3>2. LastExport(JobVar) = 2
      BY <2>7, <2>9, LastExports
    <3>3. Environment[JobVar] = BashWord(e[2][2])
      BY <2>10, <2>11, <2>12, <3>2
    <3>4. QED
      BY <2>1, <3>1, <3>3, QuoteReads DEF JobVar
  <2>15. ASSUME NEW k \in 1..n
         PROVE  Environment[<<"AXIS">> \o A[k]] = Whole(ToDecimal(combo[LastOf(combo, A[k])][2]))
    <3> DEFINE K == {j \in 1..n : A[j] = A[k]}
               last == Latest(K)
    <3>1. last \in K /\ Latest(Of(e, AxisVar(A[k]))) = 2 + last
      BY <2>7, LastExports
    <3>2. LastOf(combo, A[k]) = last
      <4>1. K = {j \in DOMAIN combo : SanitizeVarName(combo[j][1]) = A[k]}
        BY <2>2 DEF NamesOf
      <4> HIDE DEF K, A
      <4>2. QED
        BY <4>1 DEF LastOf, Latest
    <3>3. last \in 1..n
      BY <3>1
    <3> HIDE DEF K, last, A
    <3>4. e[2 + k][1] = AxisVar(A[k]) /\ 2 + k \in DOMAIN e
      BY <2>7, <2>11 DEF Names
    <3>5. Environment[AxisVar(A[k])] = BashWord(e[2 + last][2])
      BY <2>9, <2>10, <3>1, <3>4
    <3>6. e[2 + last][2] = QuoteForBash(ToDecimal(combo[last][2]))
      BY <2>8, <3>3 DEF AxisExport
    <3>7. ToDecimal(combo[last][2]) \in Text
      <4>1. DigitChars \subseteq Char
        BY JobIdAssumption DEF DigitChars, Alphanumeric
      <4>2. QED
        BY <2>6, <3>3, <4>1, FiguresIn DEF Text
    <3>8. QED
      BY <3>2, <3>5, <3>6, <3>7, QuoteReads DEF AxisVar
  <2>16. ASSUME NEW k \in 1..m
         PROVE  Environment[<<"PARAM">> \o B[k]]
                  = Whole(TomlValueToString(params[LastOf(params, B[k])][2]))
    <3> DEFINE K == {j \in 1..m : B[j] = B[k]}
               last == Latest(K)
    <3>1. last \in K /\ Latest(Of(e, ParamVar(B[k]))) = (2 + n) + last
      BY <2>7, LastExports
    <3>2. LastOf(params, B[k]) = last
      <4>1. K = {j \in DOMAIN params : SanitizeVarName(params[j][1]) = B[k]}
        BY <2>3 DEF NamesOf
      <4> HIDE DEF K, B
      <4>2. QED
        BY <4>1 DEF LastOf, Latest
    <3>3. last \in 1..m
      BY <3>1
    <3> HIDE DEF K, last, B
    <3>4. e[2 + n + k][1] = ParamVar(B[k]) /\ 2 + n + k \in DOMAIN e
      BY <2>7, <2>11 DEF Names
    <3>5. Environment[ParamVar(B[k])] = BashWord(e[2 + n + last][2])
      BY <2>9, <2>10, <3>1, <3>4
    <3>6. e[2 + n + last][2] = QuoteForBash(TomlValueToString(params[last][2]))
      BY <2>8, <3>3 DEF ParamExport
    <3>7. TomlValueToString(params[last][2]) \in Text
      BY <2>4, <3>3, ValueText
    <3>8. QED
      BY <3>2, <3>5, <3>6, <3>7, QuoteReads DEF ParamVar
  <2>17. /\ {SanitizeVarName(combo[k][1]) : k \in DOMAIN combo} = {A[k] : k \in 1..n}
         /\ {SanitizeVarName(params[k][1]) : k \in DOMAIN params} = {B[k] : k \in 1..m}
    BY <2>2, <2>3 DEF NamesOf
  <2>18. Cardinality(Variables) =
           2 + Cardinality({A[k] : k \in 1..n}) + Cardinality({B[k] : k \in 1..m})
    BY <2>7, VariableCount DEF Variables, e
  <2> DEFINE axes == {SanitizeVarName(combo[k][1]) : k \in DOMAIN combo}
             keys == {SanitizeVarName(params[k][1]) : k \in DOMAIN params}
  <2>19. \A a \in axes : Environment[<<"AXIS">> \o a] = Whole(ToDecimal(combo[LastOf(combo, a)][2]))
    <3> HIDE DEF A
    <3>1. QED
      BY <2>15, <2>17
  <2>20. \A x \in keys : Environment[<<"PARAM">> \o x]
                           = Whole(TomlValueToString(params[LastOf(params, x)][2]))
    <3> HIDE DEF B
    <3>1. QED
      BY <2>16, <2>17
  <2>21. Cardinality(Variables) = 2 + Cardinality(axes) + Cardinality(keys)
    BY <2>17, <2>18
  <2> HIDE DEF A, B
  <2>22. QED
    BY <2>13, <2>14, <2>19, <2>20, <2>21 DEF ScriptExportsAuthored, combo, params
<1>2. AuthorInv => ScriptExportsAuthored
  BY <1>1 DEF ScriptExportsAuthored
<1>3. QED
  BY <1>2, AuthorInvariant, PTL

-----------------------------------------------------------------------------
(* An index written again.                                                  *)

(* Writing one digit more.                                                  *)
LEMMA DigitAdded ==
  ASSUME NEW m \in Nat, NEW c \in DigitChars, NEW n, n = 10 * m + DigitValue(c)
  PROVE  /\ n \in Nat /\ (n = 0 => m = 0)
         /\ m = 0 => ToDecimal(n) = <<c>>
         /\ m # 0 => ToDecimal(n) = Append(ToDecimal(m), c)
<1>1. PICK e \in 0..9 : e = DigitValue(c) /\ Digit[e + 1] = c
  BY DigitValueFacts
<1>2. n \in Nat /\ n = 10 * m + e
  BY <1>1
<1>3. m = 0 => n < 10 /\ n = e
  BY <1>2
<1>4. m # 0 => n >= 10 /\ n \div 10 = m /\ n % 10 = e
  BY ONLY <1>2, m \in Nat, e \in 0..9, DivFacts
<1>5. n < 10 => ToDecimal(n) = <<Digit[n + 1]>>
  BY <1>2, DecimalStep
<1>6. n >= 10 => ToDecimal(n) = Append(ToDecimal(n \div 10), Digit[(n % 10) + 1])
  BY <1>2, DecimalStep
<1>7. n = 0 => m = 0
  BY <1>2
<1>8. QED
  BY <1>1, <1>2, <1>3, <1>4, <1>5, <1>6, <1>7

(* What is read of digits, written again: as long or shorter, and the same  *)
(* if there was no zero in front.                                           *)
WrittenAgain(d, k, v) ==
  LET text == ToDecimal(v) IN
  /\ Len(text) <= k
  /\ k = 1 => text = Prefix(d, k)
  /\ k # 1 /\ d[1] = "0" => Len(text) < k
  /\ d[1] # "0" => v # 0 /\ text = Prefix(d, k)

(* A text of digits is its value written again, but for zeros in front.     *)
LEMMA DigitsWrittenAgain ==
  ASSUME NEW d, d \in Figures, d # <<>>
  PROVE  /\ ValueOf(d) \in Nat
         /\ \/ ToDecimal(ValueOf(d)) = d
            \/ Len(ToDecimal(ValueOf(d))) < Len(d) /\ d[1] = "0"
<1> DEFINE n == Len(d)
<1>1. n \in Nat /\ n # 0 /\ \A k \in 1..n : d[k] \in DigitChars
  BY SeqParts, EmptySeq DEF Figures
<1>2. d \in Text /\ Range(d) \subseteq DigitChars
  <2>1. DigitChars \subseteq Char
    BY DigitFacts DEF DigitChars, Range
  <2>2. d \in Seq(Char)
    BY <1>1, <2>1, SeqParts DEF Figures
  <2>3. QED
    BY <2>2, SeqParts DEF Text, Range, Figures
<1>3. PICK v : Values(v, d) /\ ValueOf(d) = v[n]
  BY <1>2, ValueLoop
<1>4. v \in [0..n -> Nat] /\ v[0] = 0 /\ \A k \in 1..n : v[k] = 10 * v[k - 1] + DigitValue(d[k])
  BY <1>3 DEF Values
<1>5. /\ Prefix(d, 0) = <<>> /\ Prefix(d, n) = d
      /\ \A k \in 0..n : Prefix(d, k) \in Figures
      /\ \A k \in 1..n : Prefix(d, k) = Append(Prefix(d, k - 1), d[k])
  BY PrefixParts DEF Figures
<1> DEFINE P == {k \in 0..n : k # 0 => WrittenAgain(d, k, v[k])}
<1> HIDE DEF n
<1>6. ASSUME NEW k \in 1..n, k - 1 \in P PROVE k \in P
  <2>1. k - 1 \in 0..n /\ k \in 0..n /\ v[k - 1] \in Nat /\ d[k] \in DigitChars
    BY <1>1, <1>4
  <2>2. PICK a \in Nat : a = v[k - 1]
    BY <2>1
  <2>3. PICK c \in DigitChars : c = d[k]
    BY <2>1
  <2>4. PICK b : b = v[k]
    OBVIOUS
  <2>5. b = 10 * a + DigitValue(c)
    BY <1>4, <2>2, <2>3, <2>4
  <2>6. /\ b \in Nat /\ (b = 0 => a = 0)
        /\ a = 0 => ToDecimal(b) = <<c>>
        /\ a # 0 => ToDecimal(b) = Append(ToDecimal(a), c)
    BY <2>5, DigitAdded
  <2>7. Len(<<c>>) = 1 /\ <<c>> = Append(<<>>, c)
    OBVIOUS
  <2>8. ToDecimal(a) \in Figures /\ Len(ToDecimal(a)) \in Nat /\ Len(Append(ToDecimal(a), c)) = Len(ToDecimal(a)) + 1
    <3>1. ToDecimal(a) \in Figures
      BY DecimalStep
    <3>2. ASSUME NEW t \in Figures
          PROVE  t \in Figures /\ Len(t) \in Nat /\ Len(Append(t, c)) = Len(t) + 1
      <4>1. t \in Seq(DigitChars)
        BY DEF Figures
      <4>2. Len(t) \in Nat
        BY <4>1, SeqParts
      <4>3. Len(Append(t, c)) = Len(t) + 1
        BY <4>1, AppendParts
      <4>4. QED
        BY <4>2, <4>3
    <3>3. PICK t \in Figures : t = ToDecimal(a)
      BY ONLY <3>1
    <3>4. t \in Figures /\ Len(t) \in Nat /\ Len(Append(t, c)) = Len(t) + 1
      BY ONLY <3>2, t \in Figures
    <3>5. QED
      BY ONLY <3>3, <3>4, Zenon
  <2>9. CASE k = 1
    <3>1. a = 0 /\ Prefix(d, k - 1) = <<>>
      BY <1>4, <1>5, <2>2, <2>9
    <3>2. ToDecimal(b) = Prefix(d, k) /\ Len(ToDecimal(b)) <= k
      <4>1. ToDecimal(b) = <<c>>
        BY ONLY <2>6, <3>1
      <4>2. Prefix(d, k) = Append(Prefix(d, k - 1), c)
        BY ONLY <1>5, <2>3, k \in 1..n
      <4>3. Prefix(d, k) = <<c>>
        BY ONLY <2>7, <3>1, <4>2
      <4>4. QED
        BY ONLY <2>7, <2>9, <4>1, <4>3
    <3>3. d[1] # "0" => b # 0
      <4>1. c # "0" => DigitValue(c) # 0
        BY DigitValueFacts DEF Digit
      <4>2. DigitValue(c) \in 0..9
        BY DigitValueFacts
      <4>3. QED
        BY <2>3, <2>5, <2>9, <3>1, <4>1, <4>2
    <3>4. WrittenAgain(d, k, b)
      BY <2>9, <3>2, <3>3 DEF WrittenAgain
    <3>5. QED
      BY <2>1, <2>4, <3>4
  <2>10. CASE k # 1
    <3>1. k - 1 # 0 /\ k > 1 /\ k \in Nat
      BY <2>10
    <3>2. WrittenAgain(d, k - 1, a)
      BY <2>2, <3>1, <1>6
    <3>3. /\ Len(ToDecimal(a)) <= k - 1
          /\ k - 1 = 1 => ToDecimal(a) = Prefix(d, k - 1)
          /\ k - 1 # 1 /\ d[1] = "0" => Len(ToDecimal(a)) < k - 1
          /\ d[1] # "0" => a # 0 /\ ToDecimal(a) = Prefix(d, k - 1)
      BY <3>2 DEF WrittenAgain
    <3>4. Prefix(d, k) = Append(Prefix(d, k - 1), c)
      BY <1>5, <2>3
    <3>5. d[1] # "0" => b # 0 /\ ToDecimal(b) = Prefix(d, k)
      BY <2>6, <3>3, <3>4
    <3> DEFINE l == Len(ToDecimal(a))
               h == Len(ToDecimal(b))
    <3>6. l \in Nat /\ l <= k - 1 /\ (a = 0 => h = 1) /\ (a # 0 => h = l + 1)
      BY <2>6, <2>7, <2>8, <3>3
    <3>7. k - 1 # 1 /\ d[1] = "0" => l < k - 1
      BY <3>3
    <3> HIDE DEF l, h
    <3>8. h <= k
      BY <3>1, <3>6
    <3>9. ASSUME d[1] = "0" PROVE h < k
      <4>1. CASE k - 1 = 1
        <5>1. k = 2 /\ 1 \in 1..n
          BY <1>1, <4>1
        <5>2. DigitValue("0") = 0
          <6>1. Digit[0 + 1] = "0" /\ 0 \in 0..9
            BY DEF Digit
          <6>2. QED
            BY <6>1, DigitValueFacts
        <5>3. v[1] = 10 * v[0] + DigitValue(d[1])
          <6>1. 1 - 1 = 0
            OBVIOUS
          <6>2. QED
            BY <1>4, <5>1, <6>1
        <5>4. a = 0
          BY <1>4, <2>2, <3>9, <4>1, <5>2, <5>3
        <5>5. QED
          BY <3>6, <5>1, <5>4
      <4>2. CASE k - 1 # 1
        BY <3>1, <3>9, <3>6, <3>7, <4>2
      <4>3. QED
        BY <4>1, <4>2
    <3>10. WrittenAgain(d, k, b)
      BY <2>10, <3>5, <3>8, <3>9 DEF WrittenAgain, h
    <3>11. QED
      BY <2>1, <2>4, <3>10
  <2>11. QED
    BY <2>9, <2>10
<1>7. n \in P
  <2>1. P \in SUBSET (0..n) /\ 0 \in P
    BY <1>1
  <2> HIDE DEF P
  <2>2. QED
    BY <1>1, <1>6, <2>1, Climb
<1>8. WrittenAgain(d, n, v[n]) /\ v[n] \in Nat
  BY <1>1, <1>4, <1>7
<1>9. QED
  BY <1>3, <1>5, <1>8 DEF WrittenAgain, n

(* An index that is read and written again is the text it was read from, or *)
(* shorter, as the text began with a zero or a plus.                        *)
LEMMA IndexWrittenAgain ==
  ASSUME NEW t, t \in Text, ParseIndex(t) # None
  PROVE  \/ ToDecimal(ParseIndex(t)) = t
         \/ Len(ToDecimal(ParseIndex(t))) < Len(t) /\ t # <<>> /\ t[1] \in {"0", "+"}
<1>1. PICK d : d = Digits(t)
  OBVIOUS
<1>2. d \in Text /\ d # <<>> /\ Range(d) \subseteq DigitChars /\ ParseIndex(t) = ValueOf(d)
  BY <1>1, IndexValue
<1>3. d \in Figures
  BY <1>2, SeqParts, SameList DEF Text, Figures, Range
<1>4. \/ ToDecimal(ValueOf(d)) = d
      \/ Len(ToDecimal(ValueOf(d))) < Len(d) /\ d[1] = "0"
  BY <1>2, <1>3, DigitsWrittenAgain
<1>5. CASE t # <<>> /\ Head(t) = "+"
  <2>1. d = Tail(t) /\ t[1] = "+" /\ Len(d) = Len(t) - 1
    BY <1>1, <1>5, HeadTailProperties DEF Digits, Text
  <2>2. Len(ToDecimal(ValueOf(d))) <= Len(d) /\ Len(d) \in Nat /\ Len(t) \in Nat
    <3>1. Len(d) \in Nat /\ Len(t) \in Nat
      BY <1>2, SeqParts DEF Text
    <3>2. QED
      BY <1>4, <3>1
  <2>3. Len(ToDecimal(ValueOf(d))) \in Nat
    <3>1. ValueOf(d) \in Nat
      BY <1>2, <1>3, DigitsWrittenAgain
    <3>2. QED
      BY <3>1, DecimalStep, SeqParts DEF Figures
  <2>4. QED
    BY <1>2, <1>5, <2>1, <2>2, <2>3
<1>6. CASE ~(t # <<>> /\ Head(t) = "+")
  <2>1. d = t
    BY <1>1, <1>6 DEF Digits
  <2>2. QED
    BY <1>2, <1>4, <2>1
<1>7. QED
  BY <1>5, <1>6

-----------------------------------------------------------------------------
(* An id built again.                                                       *)

\* z is x with y behind it.
Follows(z, x, y) ==
  /\ Len(z) = Len(x) + Len(y)
  /\ \A i \in 1..Len(x) : z[i] = x[i]
  /\ \A i \in 1..Len(y) : z[Len(x) + i] = y[i]

(* Putting texts one behind the other: what is where, and in which order    *)
(* it is done.                                                              *)
LEMMA TextsBehind ==
  ASSUME NEW s, s \in Text, NEW t, t \in Text
  PROVE  /\ Behind(s, t) \in Text /\ Follows(Behind(s, t), s, t)
         /\ Len(Behind(s, t)) = Len(s) + Len(t) /\ Len(s) \in Nat /\ Len(t) \in Nat
<1>1. PICK m : m = Len(s) /\ m \in Nat
  BY SeqParts DEF Text
<1>2. PICK n : n = Len(t) /\ n \in Nat
  BY SeqParts DEF Text
<1>3. /\ s \o t \in Text /\ Len(s \o t) = m + n
      /\ \A i \in 1..(m + n) : (s \o t)[i] = IF i <= m THEN s[i] ELSE t[i - m]
  BY <1>1, <1>2, ConcatParts DEF Text
<1>4. \A i \in 1..m : i \in 1..(m + n) /\ i <= m
  BY <1>1, <1>2
<1>5. \A i \in 1..n : m + i \in 1..(m + n) /\ ~(m + i <= m) /\ (m + i) - m = i
  BY <1>1, <1>2
<1>6. QED
  BY <1>1, <1>2, <1>3, <1>4, <1>5 DEF Behind, Follows

LEMMA TextsPush ==
  ASSUME NEW s, s \in Text, NEW t, t \in Text, NEW c, c \in Char
  PROVE  /\ Append(Behind(s, t), c) = Behind(s, Append(t, c)) /\ Append(t, c) \in Text
         /\ Behind(s, <<c>>) = Append(s, c) /\ <<c>> \in Text
<1>1. s \in Seq(Char) /\ t \in Seq(Char) /\ c \in Char
  BY DEF Text
<1>2. Append(Behind(s, t), c) = Behind(s, Append(t, c))
  BY ONLY <1>1, PushBehind
<1>3. Append(t, c) \in Seq(Char)
  BY ONLY <1>1, AppendParts
<1>4. Behind(s, <<c>>) = Append(s, c)
  BY ONLY <1>1, AppendOne
<1>5. <<c>> \in Seq(Char)
  BY ONLY <1>1, ShortLists
<1>6. QED
  BY <1>2, <1>3, <1>4, <1>5 DEF Text

LEMMA TextsBehindTwo ==
  ASSUME NEW x, x \in Text, NEW y, y \in Text, NEW z, z \in Text
  PROVE  Behind(x, Behind(y, z)) = Behind(Behind(x, y), z)
<1>1. x \in Seq(Char) /\ y \in Seq(Char) /\ z \in Seq(Char)
  BY DEF Text
<1>2. QED
  BY ONLY <1>1, BehindTwo

\* A zero or a plus in front of an index.
Padded(t) == \E i \in 2..Len(t) : t[i - 1] \in {"=", "+"} /\ t[i] \in {"0", "+"}

\* A text y written for x.
Rebuilt(x, y) == y = x \/ (Len(y) < Len(x) /\ Padded(x))

(* What holds of a part holds of the whole text.                            *)
LEMMA PaddedBehind ==
  ASSUME NEW x, NEW y, x \in Text, y \in Text, Padded(x) \/ Padded(y)
  PROVE  Padded(Behind(x, y))
<1> DEFINE m == Len(x)
           n == Len(y)
           z == Behind(x, y)
<1>1. m \in Nat /\ n \in Nat
  BY SeqParts DEF Text
<1>2. /\ Len(z) = m + n
      /\ \A i \in 1..(m + n) : z[i] = IF i <= m THEN x[i] ELSE y[i - m]
  BY ConcatParts DEF Text, Behind
<1> HIDE DEF z
<1>3. CASE Padded(x)
  <2>1. PICK i \in 2..m : x[i - 1] \in {"=", "+"} /\ x[i] \in {"0", "+"}
    BY <1>3 DEF Padded
  <2>2. i \in 2..(m + n) /\ i \in 1..(m + n) /\ i - 1 \in 1..(m + n) /\ i <= m /\ i - 1 <= m
    BY <1>1
  <2>3. z[i - 1] = x[i - 1] /\ z[i] = x[i]
    BY <1>2, <2>2
  <2>4. QED
    <3>1. z[i - 1] \in {"=", "+"} /\ z[i] \in {"0", "+"} /\ i \in 2..Len(z)
      BY <1>2, <2>1, <2>2, <2>3
    <3>2. QED
      BY <3>1 DEF Padded, z
<1>4. CASE Padded(y)
  <2>1. PICK i \in 2..n : y[i - 1] \in {"=", "+"} /\ y[i] \in {"0", "+"}
    BY <1>4 DEF Padded
  <2>2. PICK k : k = m + i
    OBVIOUS
  <2>3. /\ k \in 2..(m + n) /\ k \in 1..(m + n) /\ k - 1 \in 1..(m + n)
        /\ ~(k <= m) /\ ~(k - 1 <= m) /\ k - m = i /\ (k - 1) - m = i - 1
    BY <1>1, <2>2
  <2>4. z[k - 1] = y[i - 1] /\ z[k] = y[i]
    BY <1>2, <2>3
  <2>5. QED
    <3>1. z[k - 1] \in {"=", "+"} /\ z[k] \in {"0", "+"} /\ k \in 2..Len(z)
      BY <1>2, <2>1, <2>3, <2>4
    <3>2. QED
      BY <3>1 DEF Padded, z
<1>5. QED
  BY <1>3, <1>4 DEF z

LEMMA RebuiltBehind ==
  ASSUME NEW x, NEW y, NEW u, NEW v, x \in Text, y \in Text, u \in Text, v \in Text,
         Rebuilt(x, y), Rebuilt(u, v)
  PROVE  Rebuilt(Behind(x, u), Behind(y, v))
<1>1. /\ Len(Behind(x, u)) = Len(x) + Len(u) /\ Len(Behind(y, v)) = Len(y) + Len(v)
      /\ Len(x) \in Nat /\ Len(u) \in Nat /\ Len(y) \in Nat /\ Len(v) \in Nat
  <2>1. Len(x \o u) = Len(x) + Len(u) /\ Len(y \o v) = Len(y) + Len(v)
    BY ConcatParts DEF Text
  <2>2. QED
    BY <2>1, SeqParts DEF Text, Behind
<1>2. CASE y = x /\ v = u
  BY <1>2 DEF Rebuilt
<1>3. CASE y # x \/ v # u
  <2>1. Padded(x) \/ Padded(u)
    BY <1>3 DEF Rebuilt
  <2>2. Padded(Behind(x, u))
    BY <2>1, PaddedBehind
  <2>3. Len(y) + Len(v) < Len(x) + Len(u)
    <3>1. (y = x \/ Len(y) < Len(x)) /\ (v = u \/ Len(v) < Len(u))
      BY DEF Rebuilt
    <3>2. Len(y) <= Len(x) /\ Len(v) <= Len(u) /\ (Len(y) < Len(x) \/ Len(v) < Len(u))
      BY <1>1, <1>3, <3>1
    <3>3. QED
      BY <1>1, <3>2
  <2>4. QED
    BY <1>1, <2>2, <2>3 DEF Rebuilt
<1>4. QED
  BY <1>2, <1>3

(* What is flattened is rebuilt when its parts are.                         *)
LEMMA RebuiltFlat ==
  ASSUME NEW s, s \in Seq(Text), NEW t, t \in Seq(Text), NEW n, n = Len(s), n = Len(t),
         \A i \in 1..n : Rebuilt(s[i], t[i])
  PROVE  Rebuilt(FlattenSeq(s), FlattenSeq(t))
<1>1. n \in Nat /\ \A i \in 1..n : s[i] \in Text /\ t[i] \in Text
  BY SeqParts
<1>2. PICK a : Flat(a, Char, s)
  BY FlattenRounds DEF Text
<1>3. PICK b : Flat(b, Char, t)
  BY FlattenRounds DEF Text
<1>4. /\ FlattenSeq(s) = a[n] /\ a[0] = <<>> /\ FlattenSeq(t) = b[n] /\ b[0] = <<>>
      /\ \A i \in 0..n : a[i] \in Text /\ b[i] \in Text
      /\ \A i \in 1..n : a[i] = Behind(a[i - 1], s[i]) /\ b[i] = Behind(b[i - 1], t[i])
  BY <1>2, <1>3 DEF Flat, Text
<1> DEFINE P == {i \in 0..n : Rebuilt(a[i], b[i])}
<1>5. 0 \in P
  BY <1>1, <1>4 DEF Rebuilt
<1>6. ASSUME NEW i \in 1..n, i - 1 \in P PROVE i \in P
  <2>1. i \in 0..n /\ i - 1 \in 0..n
    BY <1>1
  <2>2. Rebuilt(a[i - 1], b[i - 1])
    BY <1>6
  <2>3. PICK x, y, u, v : x = a[i - 1] /\ y = b[i - 1] /\ u = s[i] /\ v = t[i]
    OBVIOUS
  <2>4. Rebuilt(Behind(x, u), Behind(y, v))
    BY <1>1, <1>4, <2>1, <2>2, <2>3, RebuiltBehind
  <2>5. QED
    BY <1>4, <2>1, <2>3, <2>4
<1>7. n \in P
  <2>1. P \in SUBSET (0..n)
    OBVIOUS
  <2> HIDE DEF P
  <2>2. QED
    BY <1>1, <1>5, <1>6, <2>1, Climb
<1>8. QED
  BY <1>4, <1>7

\* A piece with the separator in front of it.
Parted(e) == <<"_", "_">> \o e

(* A parted piece is a text.                                                *)
LEMMA PartedIn == ASSUME NEW e, e \in Text PROVE Parted(e) \in Text /\ Parted(<<>>) = <<"_", "_">>
<1>1. "_" \in Char
  BY JobIdAssumption
<1>2. <<"_", "_">> \in Seq(Char)
  BY <1>1, ShortLists
<1>3. <<"_", "_">> \o e \in Seq(Char)
  BY <1>2, ConcatProperties DEF Text
<1>4. <<"_", "_">> \o <<>> = <<"_", "_">>
  BY <1>2, ConcatEmptySeq
<1>5. QED
  BY <1>3, <1>4 DEF Parted, Text

(* A piece is its name, the first equals sign and the rest.                 *)
LEMMA PieceWhole ==
  ASSUME NEW piece, piece \in Text, NEW pos, EqualsAt(piece, pos)
  PROVE  piece = Behind(Behind(NameOf(piece, pos), <<"=">>), IndexOf(piece, pos))
<1>1. PICK name : name = NameOf(piece, pos)
  OBVIOUS
<1>2. PICK t : t = IndexOf(piece, pos)
  OBVIOUS
<1>3. PICK n : n = Len(piece)
  OBVIOUS
<1>4. /\ name \in Text /\ t \in Text /\ Len(name) = pos - 1 /\ Len(t) = n - pos
      /\ \A i \in 1..(pos - 1) : name[i] = piece[i]
      /\ \A i \in 1..(n - pos) : t[i] = piece[pos + i]
      /\ pos \in 1..n /\ piece[pos] = "=" /\ n \in Nat
  <2>1. /\ NameOf(piece, pos) \in Text /\ IndexOf(piece, pos) \in Text
        /\ Len(NameOf(piece, pos)) = pos - 1
        /\ Len(IndexOf(piece, pos)) = Len(piece) - pos
        /\ \A i \in 1..(pos - 1) : NameOf(piece, pos)[i] = piece[i]
        /\ \A i \in 1..(Len(piece) - pos) : IndexOf(piece, pos)[i] = piece[pos + i]
    BY PieceCut
  <2>2. pos \in 1..Len(piece) /\ piece[pos] = "=" /\ Len(piece) \in Nat
    BY SeqParts DEF EqualsAt, Text
  <2>3. QED
    BY <1>1, <1>2, <1>3, <2>1, <2>2
<1> DEFINE front == Append(name, "=")
           whole == Behind(front, t)
<1>5. "=" \in Char
  BY JobIdAssumption
<1>6. /\ front \in Text /\ Len(front) = pos /\ front[pos] = "="
      /\ \A i \in 1..(pos - 1) : front[i] = name[i]
  <2>1. (pos - 1) + 1 = pos
    BY <1>4
  <2>2. QED
    BY <1>4, <1>5, <2>1, AppendParts DEF Text
<1>7. Behind(name, <<"=">>) = front
  BY <1>4, <1>5, AppendOne DEF Text
<1> HIDE DEF front
<1>8. /\ whole \in Text /\ Len(whole) = pos + (n - pos)
      /\ \A i \in 1..pos : whole[i] = front[i]
      /\ \A i \in 1..(n - pos) : whole[pos + i] = t[i]
  <2>1. whole \in Text /\ Follows(whole, front, t)
    BY <1>4, <1>6, TextsBehind
  <2> HIDE DEF whole
  <2>2. QED
    BY <1>4, <1>6, <2>1 DEF Follows
<1>9. pos + (n - pos) = n
  BY <1>4
<1> HIDE DEF whole
<1>10. ASSUME NEW i \in 1..n PROVE whole[i] = piece[i]
  <2>1. i \in 1..(pos - 1) \/ i = pos \/ (i - pos \in 1..(n - pos) /\ pos + (i - pos) = i)
    BY <1>4
  <2>2. CASE i \in 1..(pos - 1)
    <3>1. i \in 1..pos
      BY <1>4, <2>2
    <3>2. QED
      BY <1>4, <1>6, <1>8, <2>2, <3>1
  <2>3. CASE i = pos
    <3>1. i \in 1..pos
      BY <1>4, <2>3
    <3>2. QED
      BY <1>4, <1>6, <1>8, <2>3, <3>1
  <2>4. CASE i - pos \in 1..(n - pos) /\ pos + (i - pos) = i
    <3>1. PICK k \in 1..(n - pos) : pos + k = i
      BY <2>4
    <3>2. whole[pos + k] = t[k] /\ t[k] = piece[pos + k]
      BY <1>4, <1>8
    <3>3. QED
      BY <3>1, <3>2
  <2>5. QED
    BY <2>1, <2>2, <2>3, <2>4
<1>11. whole = piece
  BY <1>3, <1>8, <1>9, <1>10, SameList DEF Text
<1>12. QED
  BY <1>1, <1>2, <1>7, <1>11 DEF whole

(* The axis of a piece written as a piece again.                            *)
LEMMA AxisRebuilt ==
  ASSUME NEW piece, piece \in Text, ParseAxis(piece) # None
  PROVE  Rebuilt(Parted(piece), AxisText(ParseAxis(piece)))
<1>1. PICK pos : EqualsAt(piece, pos)
  BY AxisEquals
<1>2. PICK name : name = NameOf(piece, pos)
  OBVIOUS
<1>3. PICK t : t = IndexOf(piece, pos)
  OBVIOUS
<1>4. ParseAxis(piece) = <<name, ParseIndex(t)>> /\ ParseIndex(t) # None
  BY <1>1, <1>2, <1>3, AxisParts
<1>5. /\ name \in Text /\ t \in Text /\ Len(name) = pos - 1 /\ Len(t) = Len(piece) - pos
      /\ \A i \in 1..(pos - 1) : name[i] = piece[i]
      /\ \A i \in 1..(Len(piece) - pos) : t[i] = piece[pos + i]
      /\ pos \in 1..Len(piece) /\ piece[pos] = "="
  BY <1>1, <1>2, <1>3, PieceCut DEF EqualsAt
<1>6. PICK w : w = ToDecimal(ParseIndex(t))
  OBVIOUS
<1>7. w \in Text
  <2>1. ParseIndex(t) \in Nat
    <3>1. ParseIndex(t) \in 0..MaxIndex
      BY <1>4, <1>5, IndexValue
    <3>2. MaxIndex \in Nat
      BY JobIdAssumption
    <3>3. QED
      BY <3>1, <3>2
  <2>2. DigitChars \subseteq Char
    BY DigitFacts DEF DigitChars, Range
  <2>3. QED
    BY <1>6, <2>1, <2>2, FiguresIn DEF Text
<1>8. w = t \/ (Len(w) < Len(t) /\ t # <<>> /\ t[1] \in {"0", "+"})
  BY <1>4, <1>5, <1>6, IndexWrittenAgain
<1>9. <<"=">> \in Text
  BY JobIdAssumption, ShortLists DEF Text
<1> DEFINE front == Behind(Parted(name), <<"=">>)
<1>10. Parted(name) \in Text /\ front \in Text
  <2>1. Parted(name) \in Text
    BY <1>5, PartedIn
  <2>2. QED
    BY <1>9, <2>1, RangeBehind DEF Text
<1>11. AxisText(ParseAxis(piece)) = Behind(front, w)
  <2>1. PICK axis : axis = ParseAxis(piece)
    OBVIOUS
  <2>2. axis[1] = name /\ axis[2] = ParseIndex(t)
    BY <1>4, <2>1
  <2>3. QED
    BY <1>6, <2>1, <2>2 DEF AxisText, Behind, Parted
<1>12. Parted(piece) = Behind(front, t)
  <2>1. piece = Behind(Behind(name, <<"=">>), t)
    BY <1>1, <1>2, <1>3, PieceWhole
  <2>2. PICK u : u = <<"_", "_">> /\ u \in Text
    BY JobIdAssumption, ShortLists DEF Text
  <2>3. PICK e : e = <<"=">> /\ e \in Text
    BY <1>9
  <2>4. Behind(name, e) \in Text
    BY <1>5, <2>3, RangeBehind DEF Text
  <2>5. u \in Text /\ name \in Text /\ e \in Text /\ t \in Text /\ Behind(name, e) \in Text
    BY <1>5, <2>2, <2>3, <2>4
  <2>6. Behind(u, Behind(Behind(name, e), t)) = Behind(Behind(u, Behind(name, e)), t)
    BY ONLY <2>5, TextsBehindTwo
  <2>7. Behind(u, Behind(name, e)) = Behind(Behind(u, name), e)
    BY ONLY <2>5, TextsBehindTwo
  <2>8. Parted(piece) = Behind(u, piece) /\ Parted(name) = Behind(u, name)
    BY <2>2 DEF Parted, Behind
  <2>9. QED
    BY <2>1, <2>3, <2>6, <2>7, <2>8
<1> HIDE DEF front
<1>13. CASE w = t
  BY <1>11, <1>12, <1>13 DEF Rebuilt
<1>14. CASE Len(w) < Len(t) /\ t # <<>> /\ t[1] \in {"0", "+"}
  <2> DEFINE m == Len(front)
             x == Behind(front, t)
  <2>1. m \in Nat /\ Len(t) \in Nat /\ Len(w) \in Nat /\ Len(t) # 0
    BY <1>5, <1>7, <1>10, <1>14, SeqParts, EmptySeq DEF Text
  <2>2. Len(x) = m + Len(t) /\ Len(Behind(front, w)) = m + Len(w)
    BY <1>5, <1>7, <1>10, TextsBehind
  <2>3. m # 0 /\ front[m] = "="
    <3>1. "=" \in Char /\ Parted(name) \in Text
      BY <1>10, JobIdAssumption
    <3>2. front = Append(Parted(name), "=")
      BY <3>1, AppendOne DEF Text, front
    <3>3. Len(front) = Len(Parted(name)) + 1 /\ front[Len(Parted(name)) + 1] = "=" /\ Len(Parted(name)) \in Nat
      BY <3>1, <3>2, AppendParts, SeqParts DEF Text
    <3>4. QED
      BY <3>3
  <2>4. /\ \A i \in 1..m : x[i] = front[i]
        /\ \A i \in 1..Len(t) : x[m + i] = t[i]
    <3>1. Follows(x, front, t)
      BY <1>5, <1>10, TextsBehind
    <3> HIDE DEF x
    <3>2. QED
      BY <3>1 DEF Follows
  <2> HIDE DEF x, m
  <2>5. PICK k : k = m + 1
    OBVIOUS
  <2>6. k \in 2..(m + Len(t)) /\ k - 1 = m /\ m \in 1..m /\ 1 \in 1..Len(t)
    BY <2>1, <2>3, <2>5
  <2>7. x[k - 1] = "=" /\ x[k] = t[1]
    BY <2>3, <2>4, <2>5, <2>6
  <2>8. Padded(x)
    BY <1>14, <2>2, <2>6, <2>7 DEF Padded
  <2>9. Len(Behind(front, w)) < Len(x)
    BY <1>14, <2>1, <2>2
  <2>10. QED
    BY <1>11, <1>12, <2>8, <2>9 DEF Rebuilt, x
<1>15. QED
  BY <1>8, <1>13, <1>14

\* The pieces with a separator between them.
PartedTexts(q) == [k \in DOMAIN q |-> IF k = 1 THEN q[k] ELSE Parted(q[k])]
JoinOf(q) == FlattenSeq(PartedTexts(q))

(* What is joined: the first piece, and the others parted.                  *)
LEMMA PartedTextsIn ==
  ASSUME NEW q, q \in Seq(Text), NEW n, n = Len(q)
  PROVE  /\ PartedTexts(q) \in Seq(Text) /\ Len(PartedTexts(q)) = n /\ n \in Nat
         /\ \A k \in 1..n : PartedTexts(q)[k] = IF k = 1 THEN q[k] ELSE Parted(q[k])
<1>1. n \in Nat /\ DOMAIN q = 1..n /\ \A k \in 1..n : q[k] \in Text
  BY SeqParts
<1> DEFINE t == [k \in 1..n |-> IF k = 1 THEN q[k] ELSE Parted(q[k])]
<1>2. t \in [1..n -> Text]
  BY <1>1, PartedIn
<1>3. PartedTexts(q) = t
  BY <1>1 DEF PartedTexts
<1>4. \A k \in 1..n : t[k] = IF k = 1 THEN q[k] ELSE Parted(q[k])
  OBVIOUS
<1> HIDE DEF t
<1>5. t \in Seq(Text) /\ Len(t) = n
  BY <1>1, <1>2, FcnList
<1>6. QED
  BY <1>1, <1>3, <1>4, <1>5

(* Joining a single piece.                                                  *)
LEMMA JoinOne ==
  ASSUME NEW e, e \in Text
  PROVE  JoinOf(<<e>>) = e
<1>1. PICK q : q = <<e>>
  OBVIOUS
<1>2. q \in Seq(Text) /\ Len(q) = 1 /\ q[1] = e
  BY <1>1, ShortLists
<1>3. /\ PartedTexts(q) \in Seq(Text) /\ Len(PartedTexts(q)) = 1
      /\ \A k \in 1..1 : PartedTexts(q)[k] = IF k = 1 THEN q[k] ELSE Parted(q[k])
  BY <1>2, PartedTextsIn
<1>4. PICK t : t = PartedTexts(q)
  OBVIOUS
<1>5. 1 \in 1..Len(t) /\ t[1] = e /\ \A i \in 1..Len(t) : i # 1 => t[i] = <<>>
  BY <1>2, <1>3, <1>4
<1>6. FlattenSeq(t) = t[1]
  BY <1>3, <1>4, <1>5, FlattenOne DEF Text
<1>7. QED
  BY <1>1, <1>4, <1>5, <1>6 DEF JoinOf

(* One piece more.                                                          *)
LEMMA JoinAppend ==
  ASSUME NEW q, q \in PieceLists, NEW e, e \in Text
  PROVE  JoinOf(q) \in Text /\ JoinOf(Append(q, e)) = Behind(JoinOf(q), Parted(e))
<1>1. PICK n : n = Len(q)
  OBVIOUS
<1>2. PICK r : r = Append(q, e)
  OBVIOUS
<1>3. q \in Seq(Text) /\ n \in Nat /\ n >= 1
  BY <1>1, PieceParts
<1>4. r \in Seq(Text) /\ Len(r) = n + 1 /\ r[n + 1] = e /\ \A i \in 1..n : r[i] = q[i]
  BY <1>1, <1>2, <1>3, AppendParts
<1>5. PICK t : t = PartedTexts(q)
  OBVIOUS
<1>6. PICK u : u = PartedTexts(r)
  OBVIOUS
<1>7. /\ t \in Seq(Text) /\ Len(t) = n
      /\ \A k \in 1..n : t[k] = IF k = 1 THEN q[k] ELSE Parted(q[k])
  BY <1>1, <1>3, <1>5, PartedTextsIn
<1>8. /\ u \in Seq(Text) /\ Len(u) = n + 1
      /\ \A k \in 1..(n + 1) : u[k] = IF k = 1 THEN r[k] ELSE Parted(r[k])
  BY <1>4, <1>6, PartedTextsIn
<1>9. PICK f : f = Parted(e) /\ f \in Text
  BY PartedIn
<1>10. PICK w : w = Append(t, f)
  OBVIOUS
<1>11. w \in Seq(Text) /\ Len(w) = n + 1 /\ w[n + 1] = f /\ \A i \in 1..n : w[i] = t[i]
  BY <1>7, <1>9, <1>10, AppendParts
<1>12. ASSUME NEW k \in 1..(n + 1) PROVE u[k] = w[k]
  <2>1. CASE k = n + 1
    BY <1>3, <1>4, <1>8, <1>9, <1>11, <2>1
  <2>2. CASE k # n + 1
    <3>1. k \in 1..n
      BY <1>3, <2>2
    <3>2. QED
      BY <1>4, <1>7, <1>8, <1>11, <3>1
  <2>3. QED
    BY <2>1, <2>2
<1>13. u = w
  BY <1>8, <1>11, <1>12, SameList
<1>14. FlattenSeq(Append(t, f)) = Behind(FlattenSeq(t), f) /\ FlattenSeq(t) \in Seq(Char)
  BY <1>7, <1>9, FlattenAppend DEF Text
<1>15. QED
  BY <1>2, <1>5, <1>6, <1>9, <1>10, <1>13, <1>14 DEF JoinOf, Text

(* A character put into the last piece.                                     *)
LEMMA PutInLast ==
  ASSUME NEW r, r \in Seq(Text), NEW l, l \in Text, NEW c, c \in Char
  PROVE  PutIn(Append(r, l), c) = Append(r, Append(l, c))
<1>1. PICK q : q = Append(r, l) /\ q \in PieceLists
  <2>1. Append(r, l) \in Seq(Text) /\ Append(r, l) # <<>>
    BY AppendParts
  <2>2. QED
    BY <2>1 DEF PieceLists
<1>2. PICK m : m = Append(l, c) /\ m \in Text
  BY AppendProperties DEF Text
<1>3. PICK n : n = Len(r) /\ n \in Nat
  BY SeqParts
<1>4. Len(q) = n + 1 /\ q[n + 1] = l /\ \A i \in 1..n : q[i] = r[i]
  BY <1>1, <1>3, AppendParts
<1>5. /\ PutIn(q, c) \in PieceLists /\ Len(PutIn(q, c)) = Len(q)
      /\ PutIn(q, c)[Len(q)] = Append(q[Len(q)], c)
      /\ \A i \in 1..(Len(q) - 1) : PutIn(q, c)[i] = q[i]
  BY <1>1, PutInParts
<1>6. PICK x : x = PutIn(q, c)
  OBVIOUS
<1>7. (n + 1) - 1 = n
  BY <1>3
<1>8. x \in Seq(Text) /\ Len(x) = n + 1 /\ x[n + 1] = m /\ \A i \in 1..n : x[i] = r[i]
  BY <1>2, <1>4, <1>5, <1>6, <1>7 DEF PieceLists
<1>9. PICK y : y = Append(r, m)
  OBVIOUS
<1>10. y \in Seq(Text) /\ Len(y) = n + 1 /\ y[n + 1] = m /\ \A i \in 1..n : y[i] = r[i]
  BY <1>1, <1>2, <1>3, <1>9, AppendParts
<1>11. \A i \in 1..(n + 1) : x[i] = y[i]
  <2>1. \A i \in 1..(n + 1) : i = n + 1 \/ i \in 1..n
    BY <1>3
  <2>2. QED
    BY <1>8, <1>10, <2>1
<1>12. x = y
  BY <1>8, <1>10, <1>11, SameList
<1>13. QED
  BY <1>1, <1>2, <1>6, <1>9, <1>12

(* The last piece with one character more, and the pieces with a cut.       *)
LEMMA JoinPut ==
  ASSUME NEW q, q \in PieceLists, NEW c, c \in Char
  PROVE  JoinOf(q) \in Text /\ JoinOf(PutIn(q, c)) = Append(JoinOf(q), c)
<1>1. q \in Seq(Text) /\ q # <<>>
  BY DEF PieceLists
<1>2. PICK r \in Seq(Text), l \in Text : q = Append(r, l)
  BY <1>1, SequenceEmptyOrAppend
<1>3. PICK m : m = Append(l, c) /\ m \in Text
  BY AppendProperties DEF Text
<1>4. PutIn(q, c) = Append(r, m)
  BY <1>2, <1>3, PutInLast
<1>5. CASE r = <<>>
  <2>1. q = <<l>> /\ Append(r, m) = <<m>>
    BY <1>2, <1>5
  <2>2. JoinOf(<<l>>) = l /\ JoinOf(<<m>>) = m
    BY <1>2, <1>3, JoinOne
  <2>3. QED
    BY <1>2, <1>3, <1>4, <2>1, <2>2
<1>6. CASE r # <<>>
  <2>1. r \in PieceLists
    BY <1>2, <1>6 DEF PieceLists
  <2>2. PICK j : j = JoinOf(r)
    OBVIOUS
  <2>3. j \in Text /\ JoinOf(q) = Behind(j, Parted(l)) /\ JoinOf(PutIn(q, c)) = Behind(j, Parted(m))
    BY <1>2, <1>3, <1>4, <2>1, <2>2, JoinAppend
  <2>4. PICK p : p = Parted(l) /\ p \in Text
    BY <1>2, PartedIn
  <2>5. Parted(m) = Append(p, c)
    <3>1. PICK u : u = <<"_", "_">> /\ u \in Text
      BY JobIdAssumption, ShortLists DEF Text
    <3>2. Append(Behind(u, l), c) = Behind(u, Append(l, c)) /\ Behind(u, <<c>>) = Append(u, c)
      <4>1. u \in Text /\ l \in Text /\ c \in Char
        BY <3>1
      <4>2. QED
        BY ONLY <4>1, TextsPush
    <3>3. QED
      BY <1>3, <2>4, <3>1, <3>2 DEF Parted, Behind
  <2>6. Append(Behind(j, p), c) = Behind(j, Append(p, c))
    <3>1. j \in Seq(Char) /\ p \in Seq(Char) /\ c \in Char
      BY <2>3, <2>4 DEF Text
    <3>2. QED
      BY ONLY <3>1, PushBehind
  <2>7. JoinOf(q) \in Text
    BY <2>3, <2>4, TextsBehind
  <2>8. QED
    BY <2>3, <2>4, <2>5, <2>6, <2>7
<1>7. QED
  BY <1>5, <1>6

LEMMA JoinCut ==
  ASSUME NEW q, q \in PieceLists
  PROVE  JoinOf(Append(q, <<>>)) = Append(Append(JoinOf(q), "_"), "_")
<1>1. <<>> \in Text /\ "_" \in Char
  BY JobIdAssumption, EmptySeq DEF Text
<1>2. PICK j : j = JoinOf(q) /\ j \in Text
  BY <1>1, JoinAppend
<1>3. JoinOf(Append(q, <<>>)) = Behind(j, Parted(<<>>))
  BY <1>1, <1>2, JoinAppend
<1>4. PICK o : o = <<"_">> /\ o \in Text
  BY <1>1, ShortLists DEF Text
<1>5. Append(o, "_") = <<"_", "_">>
  <2>1. ASSUME NEW a PROVE <<a, a>> = Append(<<a>>, a)
    OBVIOUS
  <2>2. QED
    BY <1>4, <2>1
<1>6. Append(Behind(j, o), "_") = Behind(j, Append(o, "_")) /\ Behind(j, <<"_">>) = Append(j, "_")
  <2>1. PICK c : c = "_" /\ c \in Char
    BY <1>1
  <2>2. j \in Text /\ o \in Text /\ c \in Char
    BY <1>2, <1>4, <2>1
  <2>3. Append(Behind(j, o), c) = Behind(j, Append(o, c)) /\ Behind(j, <<c>>) = Append(j, c)
    BY ONLY <2>2, TextsPush
  <2>4. QED
    BY <2>1, <2>3
<1>7. Parted(<<>>) = <<"_", "_">>
  BY <1>1, PartedIn
<1>8. QED
  BY <1>2, <1>3, <1>4, <1>5, <1>6, <1>7

(* An id is its pieces with a separator between them.                       *)
LEMMA SplitJoin ==
  ASSUME NEW s, s \in Text
  PROVE  JoinOf(Split(s)) = s
<1>1. PICK n : n = Len(s) /\ n \in Nat
  BY SeqParts DEF Text
<1>2. PICK p : SplitRounds(p, s) /\ Split(s) = p[n]
  BY <1>1, SplitLoop
<1>3. p \in [0..n -> PieceLists] /\ p[0] = << <<>> >> /\ \A i \in 1..n : p[i] = NextPieces(s, i, p[i - 1])
  BY <1>1, <1>2 DEF SplitRounds
<1>4. PICK C : C = Separators(s)
  OBVIOUS
<1>5. /\ C \subseteq 1..n
      /\ \A i \in 1..n : i \in C <=> i < n /\ s[i] = "_" /\ s[i + 1] = "_" /\ i - 1 \notin C
  BY <1>1, <1>4, CutsFound DEF CutsAt
<1>6. /\ Prefix(s, 0) = <<>> /\ Prefix(s, n) = s
      /\ \A i \in 0..n : Prefix(s, i) \in Text
      /\ \A i \in 1..n : Prefix(s, i) = Append(Prefix(s, i - 1), s[i])
  BY <1>1, PrefixParts DEF Text
<1> DEFINE P == {i \in 0..n : JoinOf(p[i]) = IF i \in C THEN Append(Prefix(s, i), "_") ELSE Prefix(s, i)}
<1>7. 0 \in P
  <2>1. JoinOf(p[0]) = <<>>
    BY <1>3, JoinOne, EmptySeq DEF Text
  <2>2. 0 \notin C
    <3>1. 0 \notin 1..n
      BY <1>1
    <3>2. C \subseteq 1..n
      BY <1>5
    <3>3. QED
      BY <3>1, <3>2
  <2>3. QED
    BY <1>1, <1>6, <2>1, <2>2
<1>8. ASSUME NEW i \in 1..n, i - 1 \in P PROVE i \in P
  <2>1. PICK h : h = i - 1 /\ h \in 0..n
    BY <1>1
  <2>2. PICK q : q = p[h] /\ q \in PieceLists
    BY <1>3, <2>1
  <2>3. p[i] = IF i \in C THEN Append(q, <<>>) ELSE IF h \in C THEN q ELSE PutIn(q, s[i])
    BY <1>3, <1>4, <2>1, <2>2 DEF NextPieces
  <2>4. JoinOf(q) = IF h \in C THEN Append(Prefix(s, h), "_") ELSE Prefix(s, h)
    BY <1>8, <2>1, <2>2
  <2>5. Prefix(s, i) = Append(Prefix(s, h), s[i]) /\ s[i] \in Char
    BY <1>1, <1>6, <2>1, SeqParts DEF Text
  <2>6. i \in 0..n
    BY <1>1
  <2>7. CASE i \in C
    <3>1. h \notin C /\ s[i] = "_"
      BY <1>5, <2>1, <2>7
    <3>2. JoinOf(p[i]) = Append(Append(Prefix(s, h), "_"), "_")
      BY <2>2, <2>3, <2>4, <2>7, <3>1, JoinCut
    <3>3. JoinOf(p[i]) = Append(Prefix(s, i), "_")
      BY <2>5, <3>1, <3>2
    <3>4. QED
      BY <2>7, <2>6, <3>3
  <2>8. CASE i \notin C /\ h \in C
    <3>1. h \in 1..n /\ h + 1 = i
      <4>1. C \subseteq 1..n /\ h \in C
        BY <1>5, <2>8
      <4>2. h + 1 = i
        BY <1>1, <2>1
      <4>3. QED
        BY <4>1, <4>2
    <3>2. s[i] = "_"
      BY <1>5, <2>8, <3>1
    <3>3. QED
      BY <2>3, <2>4, <2>5, <2>8, <2>6, <3>2
  <2>9. CASE i \notin C /\ h \notin C
    <3>1. JoinOf(p[i]) = Append(Prefix(s, h), s[i])
      BY <2>2, <2>3, <2>4, <2>5, <2>9, JoinPut
    <3>2. QED
      BY <2>5, <2>9, <2>6, <3>1
  <2>10. QED
    BY <2>7, <2>8, <2>9
<1>9. n \in P
  <2>1. P \in SUBSET (0..n)
    OBVIOUS
  <2> HIDE DEF P
  <2>2. QED
    BY <1>1, <1>7, <1>8, <2>1, Climb
<1>10. n \notin C
  <2>1. ~(n < n)
    BY <1>1
  <2>2. QED
    BY <1>5, <2>1
<1>11. QED
  BY <1>2, <1>6, <1>9, <1>10

\* The texts an id is built from.
BuildTexts(t, step, combo, n) ==
  /\ t \in Seq(Text) /\ Len(t) = n + 1 /\ n \in Nat
  /\ t[1] = step /\ \A k \in 1..n : t[k + 1] = AxisText(combo[k])

(* BuildJobId flattens the step id and what it writes for the axes.         *)
LEMMA BuildFlat ==
  ASSUME NEW step, step \in Text, NEW combo, combo \in Seq(Text \X Nat), NEW n, n = Len(combo)
  PROVE  \E t : BuildTexts(t, step, combo, n) /\ BuildJobId(step, combo) = FlattenSeq(t)
<1>1. BuildJobId(step, combo) = step \o FlattenSeq(AxisTexts(combo))
  BY DEF BuildJobId, AxisTexts, AxisText
<1>2. PICK f : f = AxisTexts(combo)
  OBVIOUS
<1>3. DigitChars \cup {"_", "="} \subseteq Char
  <2>1. DigitChars \subseteq Char
    BY DigitFacts DEF DigitChars, Range
  <2>2. {"_", "="} \subseteq Char
    BY JobIdAssumption
  <2>3. QED
    BY <2>1, <2>2
<1>4. f \in Seq(Text) /\ Len(f) = n /\ n \in Nat /\ \A k \in 1..n : f[k] = AxisText(combo[k])
  <2>1. combo \in Seq(Seq(Char) \X Nat)
    BY DEF Text
  <2>2. /\ AxisTexts(combo) \in Seq(Seq(Char)) /\ Len(AxisTexts(combo)) = Len(combo)
        /\ \A k \in 1..Len(combo) : AxisTexts(combo)[k] = AxisText(combo[k])
    BY ONLY <1>3, <2>1, AxisTextsIn
  <2>3. n \in Nat
    BY SeqParts
  <2>4. QED
    BY <1>2, <2>2, <2>3 DEF Text
<1>5. PICK t : t = Behind(<<step>>, f)
  OBVIOUS
<1>6. /\ t \in Seq(Text) /\ Len(t) = n + 1 /\ t[1] = step
      /\ \A k \in 1..n : t[k + 1] = f[k]
      /\ FlattenSeq(t) = Behind(step, FlattenSeq(f))
  <2>1. step \in Seq(Char) /\ f \in Seq(Seq(Char))
    BY <1>4 DEF Text
  <2>2. /\ Behind(<<step>>, f) \in Seq(Seq(Char)) /\ Len(Behind(<<step>>, f)) = Len(f) + 1
        /\ Behind(<<step>>, f)[1] = step
        /\ \A i \in 1..Len(f) : Behind(<<step>>, f)[i + 1] = f[i]
        /\ FlattenSeq(Behind(<<step>>, f)) = Behind(step, FlattenSeq(f))
    BY ONLY <2>1, FlattenFront
  <2>3. QED
    BY <1>4, <1>5, <2>2 DEF Text
<1>7. BuildTexts(t, step, combo, n)
  BY <1>4, <1>6 DEF BuildTexts
<1>8. BuildJobId(step, combo) = FlattenSeq(t)
  BY <1>1, <1>2, <1>6 DEF Behind
<1>9. QED
  BY <1>7, <1>8

(* The axes of an id that parses.                                           *)
LEMMA ParsedCombo ==
  ASSUME NEW s, s \in Text, ParseJobId(s) # None,
         NEW q, q = Split(s), NEW combo, combo = ParseJobId(s).combo, NEW n, n = Len(q) - 1
  PROVE  /\ n \in Nat /\ Len(q) = n + 1 /\ q \in PieceLists
         /\ q[1] = ParseJobId(s).step /\ ValidateStepId(q[1])
         /\ combo \in Seq(Text \X Nat) /\ Len(combo) = n
         /\ \A k \in 1..n : /\ q[k + 1] \in Text /\ ParseAxis(q[k + 1]) # None
                            /\ combo[k] = ParseAxis(q[k + 1])
<1>1. /\ q \in PieceLists /\ ValidateStepId(q[1]) /\ AxisPieces(q) /\ ParseJobId(s).step = q[1]
      /\ combo = [k \in 1..n |-> ParseAxis(q[k + 1])] /\ n \in Nat
  BY ComboParts
<1>2. Len(q) = n + 1 /\ \A k \in 1..(n + 1) : q[k] \in Text
  <2>1. Len(q) \in Nat /\ \A k \in 1..Len(q) : q[k] \in Text
    BY <1>1, PieceParts
  <2>2. Len(q) = n + 1
    BY <2>1
  <2>3. QED
    BY <2>1, <2>2
<1>3. ASSUME NEW k \in 1..n
      PROVE q[k + 1] \in Text /\ ParseAxis(q[k + 1]) # None /\ ParseAxis(q[k + 1]) \in Text \X Nat
  <2>1. k + 1 \in 1..(n + 1)
    BY <1>1
  <2>2. q[k + 1] \in Text
    BY <1>2, <2>1
  <2>3. ParseAxis(q[k + 1]) # None
    BY <1>1 DEF AxisPieces
  <2>4. ParseAxis(q[k + 1]) \in Text \X (0..MaxIndex)
    BY <2>2, <2>3, AxisTyped
  <2>5. MaxIndex \in Nat
    BY JobIdAssumption
  <2>6. QED
    BY <2>2, <2>3, <2>4, <2>5
<1>4. combo \in [1..n -> Text \X Nat]
  BY <1>1, <1>3
<1>5. combo \in Seq(Text \X Nat) /\ Len(combo) = n
  BY <1>1, <1>4, FcnList
<1>6. \A k \in 1..n : combo[k] = ParseAxis(q[k + 1])
  BY <1>1
<1>7. QED
  BY <1>1, <1>2, <1>3, <1>5, <1>6

(* An id that parses, built again.                                          *)
LEMMA IdRebuilt ==
  ASSUME NEW s, s \in Text, ParseJobId(s) # None
  PROVE  Rebuilt(s, BuildJobId(ParseJobId(s).step, ParseJobId(s).combo))
<1>1. PICK q : q = Split(s)
  OBVIOUS
<1>2. PICK combo : combo = ParseJobId(s).combo
  OBVIOUS
<1>3. PICK n : n = Len(q) - 1
  OBVIOUS
<1>4. /\ n \in Nat /\ Len(q) = n + 1 /\ q \in PieceLists
      /\ q[1] = ParseJobId(s).step
      /\ combo \in Seq(Text \X Nat) /\ Len(combo) = n
      /\ \A k \in 1..n : /\ q[k + 1] \in Text /\ ParseAxis(q[k + 1]) # None
                         /\ combo[k] = ParseAxis(q[k + 1])
  BY <1>1, <1>2, <1>3, ParsedCombo
<1>5. q \in Seq(Text) /\ q[1] \in Text
  <2>1. 1 \in 1..Len(q)
    BY <1>4
  <2>2. QED
    BY <1>4, <2>1, PieceParts
<1>6. PICK t : BuildTexts(t, q[1], combo, n) /\ BuildJobId(q[1], combo) = FlattenSeq(t)
  BY <1>4, <1>5, BuildFlat
<1>7. PICK u : u = PartedTexts(q)
  OBVIOUS
<1>8. /\ u \in Seq(Text) /\ Len(u) = n + 1
      /\ \A k \in 1..(n + 1) : u[k] = IF k = 1 THEN q[k] ELSE Parted(q[k])
  BY <1>4, <1>5, <1>7, PartedTextsIn
<1>9. FlattenSeq(u) = s
  BY <1>1, <1>7, SplitJoin DEF JoinOf
<1>10. ASSUME NEW i \in 1..(n + 1) PROVE Rebuilt(u[i], t[i])
  <2>1. CASE i = 1
    BY <1>6, <1>8, <2>1 DEF BuildTexts, Rebuilt
  <2>2. CASE i # 1
    <3>1. PICK k \in 1..n : i = k + 1
      <4>1. i - 1 \in 1..n /\ i = (i - 1) + 1
        BY <1>4, <2>2
      <4>2. QED
        BY <4>1
    <3>2. u[i] = Parted(q[k + 1]) /\ t[i] = AxisText(ParseAxis(q[k + 1]))
      BY <1>4, <1>6, <1>8, <2>2, <3>1 DEF BuildTexts
    <3>3. Rebuilt(Parted(q[k + 1]), AxisText(ParseAxis(q[k + 1])))
      BY <1>4, AxisRebuilt
    <3>4. QED
      BY <3>2, <3>3
  <2>3. QED
    BY <2>1, <2>2
<1>11. Rebuilt(FlattenSeq(u), FlattenSeq(t))
  <2>1. t \in Seq(Text) /\ Len(t) = n + 1
    BY <1>6 DEF BuildTexts
  <2>2. QED
    BY <1>8, <1>10, <2>1, RebuiltFlat
<1>12. QED
  BY <1>2, <1>4, <1>6, <1>9, <1>11

(* A reserved word has no equals sign, and a step id is none.               *)
LEMMA IdNotReserved ==
  ASSUME NEW s, s \in Text, ParseJobId(s) # None
  PROVE  s \notin Reserved
<1>1. PICK q : q = Split(s)
  OBVIOUS
<1>2. PICK combo : combo = ParseJobId(s).combo
  OBVIOUS
<1>3. PICK n : n = Len(q) - 1
  OBVIOUS
<1>4. /\ n \in Nat /\ Len(q) = n + 1 /\ q \in PieceLists /\ ValidateStepId(q[1])
      /\ \A k \in 1..n : q[k + 1] \in Text /\ ParseAxis(q[k + 1]) # None
  BY <1>1, <1>2, <1>3, ParsedCombo
<1>5. q \in Seq(Text) /\ q[1] \in Text
  <2>1. 1 \in 1..Len(q)
    BY <1>4
  <2>2. QED
    BY <1>4, <2>1, PieceParts
<1>6. PICK u : u = PartedTexts(q)
  OBVIOUS
<1>7. /\ u \in Seq(Text) /\ Len(u) = n + 1
      /\ \A k \in 1..(n + 1) : u[k] = IF k = 1 THEN q[k] ELSE Parted(q[k])
  BY <1>4, <1>5, <1>6, PartedTextsIn
<1>8. FlattenSeq(u) = s
  BY <1>1, <1>6, SplitJoin DEF JoinOf
<1>9. CASE n = 0
  <2>1. 1 \in 1..Len(u) /\ \A i \in 1..Len(u) : i = 1
    BY <1>7, <1>9
  <2>2. FlattenSeq(u) = u[1]
    BY <1>7, <2>1, FlattenOne DEF Text
  <2>3. s = q[1]
    BY <1>4, <1>7, <1>8, <2>1, <2>2
  <2>4. QED
    BY <1>4, <2>3 DEF ValidateStepId
<1>10. CASE n # 0
  <2>1. PICK e : e = q[2] /\ e \in Text /\ ParseAxis(e) # None
    <3>1. 1 \in 1..n /\ 1 + 1 = 2
      BY <1>4, <1>10
    <3>2. QED
      BY <1>4, <3>1
  <2>2. PICK pos : EqualsAt(e, pos)
    BY <2>1, AxisEquals
  <2>3. "=" \in Range(u[2])
    <3>1. u[2] = Parted(e)
      BY <1>4, <1>7, <1>10, <2>1
    <3>2. PICK x : x = <<"_", "_">> /\ x \in Text
      BY JobIdAssumption, ShortLists DEF Text
    <3>3. Range(Behind(x, e)) = Range(x) \cup Range(e)
      <4>1. x \in Seq(Char) /\ e \in Seq(Char)
        BY <2>1, <3>2 DEF Text
      <4>2. QED
        BY ONLY <4>1, RangeBehind
    <3>4. "=" \in Range(e)
      BY <2>1, <2>2, SeqParts DEF EqualsAt, Range, Text
    <3>5. QED
      BY <3>1, <3>2, <3>3, <3>4 DEF Parted, Behind
  <2>4. Range(FlattenSeq(u)) = UNION {Range(u[i]) : i \in 1..(n + 1)}
    BY <1>7, FlattenRange DEF Text
  <2>5. 2 \in 1..(n + 1)
    BY <1>4, <1>10
  <2>6. "=" \in Range(s)
    BY <1>8, <2>3, <2>4, <2>5
  <2>7. QED
    BY <2>6, JobIdAssumption
<1>11. QED
  BY <1>9, <1>10

(* An id that parses is a single name of a directory, and no reserved one;  *)
(* building it again gives the id back but for zeros and pluses in front of *)
(* an index (jobid.rs:66-111, persistence/path.rs:76-79).                   *)
THEOREM ParsedIdHolds == Spec => []ParsedIdIsName
<1>1. ASSUME AuthorInv PROVE ParsedIdIsName
  <2>1. PICK parts : parts = ParseJobId(jid)
    OBVIOUS
  <2>2. SUFFICES ASSUME parts # None
                 PROVE  /\ Range(jid) \cap {"/", "."} = {} /\ jid \notin Reserved
                        /\ parts.step \notin Reserved
                        /\ \/ BuildJobId(parts.step, parts.combo) = jid
                           \/ /\ Len(BuildJobId(parts.step, parts.combo)) < Len(jid)
                              /\ \E i \in 2..Len(jid) : jid[i - 1] \in {"=", "+"} /\ jid[i] \in {"0", "+"}
    BY <2>1 DEF ParsedIdIsName
  <2>3. jid \in Text
    BY <1>1 DEF AuthorInv
  <2>4. Range(jid) \cap {"/", "."} = {}
    <3>1. Range(jid) \subseteq ValidJobIdChar \cup {"+"}
      BY <2>1, <2>2, <2>3, ParseChars
    <3>2. {"/", "."} \cap (ValidJobIdChar \cup {"+"}) = {}
      BY DigitFacts DEF ValidJobIdChar, ValidStepIdChar, Alphanumeric, DigitChars
    <3>3. QED
      BY <3>1, <3>2
  <2>5. jid \notin Reserved
    BY <2>1, <2>2, <2>3, IdNotReserved
  <2>6. parts.step \notin Reserved
    <3>1. ValidateStepId(parts.step)
      BY <2>1, <2>2, <2>3, ComboParts
    <3>2. QED
      BY <3>1 DEF ValidateStepId
  <2>7. Rebuilt(jid, BuildJobId(parts.step, parts.combo))
    BY <2>1, <2>2, <2>3, IdRebuilt
  <2>8. QED
    BY <2>4, <2>5, <2>6, <2>7 DEF Rebuilt, Padded
<1>2. QED
  BY <1>1, AuthorInvariant, PTL

-----------------------------------------------------------------------------
(* An id parsed back.                                                       *)

(* Digits are characters.                                                   *)
LEMMA FiguresAreText ==
  ASSUME NEW d, d \in Figures
  PROVE  d \in Text /\ Range(d) \subseteq DigitChars
<1>1. DigitChars \subseteq Char
  BY DigitFacts DEF DigitChars, Range
<1>2. d \in Seq(Char)
  BY <1>1, SeqMonotonic DEF Figures
<1>3. QED
  BY <1>2, SeqParts DEF Text, Range, Figures

(* One digit more.                                                          *)
LEMMA ValueAppend ==
  ASSUME NEW d, d \in Figures, NEW c, c \in DigitChars
  PROVE  /\ Append(d, c) \in Figures /\ ValueOf(d) \in Nat
         /\ ValueOf(Append(d, c)) = 10 * ValueOf(d) + DigitValue(c)
         /\ ValueOf(<<>>) = 0
<1>1. PICK n : n = Len(d) /\ n \in Nat
  BY SeqParts DEF Figures
<1>2. PICK e : e = Append(d, c)
  OBVIOUS
<1>3. e \in Figures /\ Len(e) = n + 1 /\ e[n + 1] = c /\ \A i \in 1..n : e[i] = d[i]
  BY <1>1, <1>2, AppendParts DEF Figures
<1>4. PICK v : Values(v, d) /\ ValueOf(d) = v[n]
  BY <1>1, FiguresAreText, ValueLoop
<1>5. PICK w : Values(w, e) /\ ValueOf(e) = w[n + 1]
  BY <1>3, FiguresAreText, ValueLoop
<1>6. /\ v \in [0..n -> Nat] /\ v[0] = 0
      /\ \A k \in 1..n : v[k] = 10 * v[k - 1] + DigitValue(d[k])
  BY <1>1, <1>4 DEF Values
<1>7. /\ w[0] = 0
      /\ \A k \in 1..(n + 1) : w[k] = 10 * w[k - 1] + DigitValue(e[k])
  BY <1>3, <1>5 DEF Values
<1> DEFINE P == {k \in 0..n : w[k] = v[k]}
<1>8. 0 \in P
  BY <1>1, <1>6, <1>7
<1>9. ASSUME NEW k \in 1..n, k - 1 \in P PROVE k \in P
  <2>1. k \in 1..(n + 1) /\ k \in 0..n
    BY <1>1
  <2>2. w[k - 1] = v[k - 1]
    BY <1>9
  <2>3. w[k] = 10 * w[k - 1] + DigitValue(d[k])
    BY <1>3, <1>7, <2>1
  <2>4. QED
    BY <1>6, <2>1, <2>2, <2>3
<1>10. n \in P
  <2>1. P \in SUBSET (0..n)
    OBVIOUS
  <2> HIDE DEF P
  <2>2. QED
    BY <1>1, <1>8, <1>9, <2>1, Climb
<1>11. ValueOf(e) = 10 * ValueOf(d) + DigitValue(c) /\ ValueOf(d) \in Nat
  <2>1. n + 1 \in 1..(n + 1) /\ (n + 1) - 1 = n /\ n \in 0..n
    BY <1>1
  <2>2. w[n + 1] = 10 * w[(n + 1) - 1] + DigitValue(e[n + 1])
    BY <1>7, <2>1
  <2>3. w[n] = v[n] /\ v[n] \in Nat
    BY <1>6, <1>10, <2>1
  <2>4. QED
    BY <1>3, <1>4, <1>5, <2>1, <2>2, <2>3
<1>12. ValueOf(<<>>) = 0
  <2>1. PICK z : z = <<>> /\ z \in Figures
    BY EmptySeq DEF Figures
  <2>2. Len(z) = 0
    BY <2>1
  <2>3. PICK x : Values(x, z) /\ ValueOf(z) = x[0]
    BY <2>1, <2>2, FiguresAreText, ValueLoop
  <2>4. QED
    BY <2>1, <2>3 DEF Values
<1>13. QED
  BY <1>2, <1>3, <1>11, <1>12

(* The digits of a number have its value.                                   *)
LEMMA ValueOfDecimal == ASSUME NEW m \in Nat PROVE ValueOf(ToDecimal(m)) = m
<1> DEFINE Bad == {n \in Nat : ValueOf(ToDecimal(n)) # n}
<1>1. SUFFICES ASSUME Bad # {} PROVE FALSE
  OBVIOUS
<1>2. PICK n \in Bad : \A k \in Bad : n <= k
  <2>1. Bad \in SUBSET Nat
    OBVIOUS
  <2> HIDE DEF Bad
  <2>2. QED
    BY <1>1, <2>1, LeastNumber
<1>3. n \in Nat /\ ValueOf(ToDecimal(n)) # n
  BY <1>2
<1>4. /\ n % 10 \in 0..9 /\ n \div 10 \in Nat /\ n = 10 * (n \div 10) + (n % 10)
      /\ n >= 10 => n \div 10 < n
  BY <1>3, DivFacts
<1>5. PICK a : a = n \div 10
  OBVIOUS
<1>6. PICK b \in 0..9 : b = n % 10
  BY <1>4
<1>7. PICK c : c = Digit[b + 1] /\ c \in DigitChars /\ DigitValue(c) = b
  <2>1. b + 1 \in 1..10
    OBVIOUS
  <2>2. QED
    BY <2>1, DigitFacts, DigitValueFacts
<1>8. CASE n < 10
  <2>1. a = 0 /\ b = n
    BY <1>3, <1>4, <1>5, <1>6, <1>8
  <2>2. ToDecimal(n) = <<c>>
    BY <1>3, <1>7, <1>8, <2>1, DecimalStep
  <2>3. PICK z : z = <<>> /\ z \in Figures
    BY EmptySeq DEF Figures
  <2>4. Append(z, c) = <<c>>
    BY <2>3
  <2>5. ValueOf(Append(z, c)) = 10 * ValueOf(z) + DigitValue(c) /\ ValueOf(<<>>) = 0
    BY <1>7, <2>3, ValueAppend
  <2>6. QED
    BY <1>3, <1>7, <2>1, <2>2, <2>3, <2>4, <2>5
<1>9. CASE n >= 10
  <2>1. a \in Nat /\ a < n /\ n = 10 * a + b
    BY <1>4, <1>5, <1>6, <1>9
  <2>2. ValueOf(ToDecimal(a)) = a
    <3>1. ~(n <= a)
      BY <1>3, <2>1
    <3>2. a \notin Bad
      BY <1>2, <3>1
    <3>3. QED
      BY <2>1, <3>2
  <2>3. PICK d : d = ToDecimal(a) /\ d \in Figures
    BY <2>1, DecimalStep
  <2>4. ToDecimal(n) = Append(d, c)
    BY <1>3, <1>5, <1>6, <1>7, <1>9, <2>3, DecimalStep
  <2>5. ValueOf(Append(d, c)) = 10 * ValueOf(d) + DigitValue(c)
    BY <1>7, <2>3, ValueAppend
  <2>6. QED
    BY <1>3, <1>7, <2>1, <2>2, <2>3, <2>4, <2>5
<1>10. QED
  BY <1>3, <1>8, <1>9

(* An index that is written is read back.                                   *)
LEMMA IndexReadBack ==
  ASSUME NEW n, n \in 0..MaxIndex
  PROVE  n \in Nat /\ ToDecimal(n) \in Text /\ ParseIndex(ToDecimal(n)) = n /\ n # None
<1>1. n \in Nat /\ n <= MaxIndex
  <2>1. MaxIndex \in Nat
    BY JobIdAssumption
  <2>2. QED
    BY <2>1
<1>2. PICK d : d = ToDecimal(n) /\ d \in Figures /\ d # <<>>
  BY <1>1, DecimalStep
<1>3. d \in Text /\ Range(d) \subseteq DigitChars
  BY <1>2, FiguresAreText
<1>4. Digits(d) = d
  <2>1. Len(d) \in Nat /\ Len(d) # 0 /\ d[1] \in DigitChars
    <3>1. Len(d) \in Nat /\ \A i \in 1..Len(d) : d[i] \in DigitChars
      BY <1>2, SeqParts DEF Figures
    <3>2. Len(d) # 0
      BY <1>3, <1>2, EmptySeq DEF Text
    <3>3. QED
      BY <3>1, <3>2
  <2>2. Head(d) = d[1]
    BY <1>2, HeadTailProperties DEF Figures
  <2>3. "+" \notin DigitChars
    BY DigitFacts
  <2>4. QED
    BY <2>1, <2>2, <2>3 DEF Digits
<1>5. ValueOf(d) = n
  BY <1>1, <1>2, ValueOfDecimal
<1>6. ParseIndex(d) = n
  BY <1>1, <1>2, <1>3, <1>4, <1>5, IndexValue
<1>7. n # None
  BY <1>1, JobIdAssumption
<1>8. QED
  BY <1>1, <1>2, <1>3, <1>6, <1>7

(* What parses as what it was built from is unambiguous.                    *)
LEMMA ParsedUnambiguous ==
  ASSUME NEW b, BuiltFrom(b), NEW s, s \in Text, ParseJobId(s) = b, b # None
  PROVE  Unambiguous(b)
<1>1. PICK q : q = Split(s)
  OBVIOUS
<1>2. PICK combo : combo = b.combo
  OBVIOUS
<1>3. PICK n : n = Len(q) - 1
  OBVIOUS
<1>4. /\ n \in Nat /\ Len(q) = n + 1 /\ q \in PieceLists
      /\ q[1] = b.step /\ ValidateStepId(q[1])
      /\ combo \in Seq(Text \X Nat) /\ Len(combo) = n
      /\ \A k \in 1..n : /\ q[k + 1] \in Text /\ ParseAxis(q[k + 1]) # None
                         /\ combo[k] = ParseAxis(q[k + 1])
  <2>1. /\ combo = ParseJobId(s).combo /\ ParseJobId(s) # None
        /\ s \in Text /\ q = Split(s) /\ n = Len(q) - 1
    BY <1>1, <1>2, <1>3
  <2>2. /\ n \in Nat /\ Len(q) = n + 1 /\ q \in PieceLists
        /\ q[1] = ParseJobId(s).step /\ ValidateStepId(q[1])
        /\ combo \in Seq(Text \X Nat) /\ Len(combo) = n
        /\ \A k \in 1..n : /\ q[k + 1] \in Text /\ ParseAxis(q[k + 1]) # None
                           /\ combo[k] = ParseAxis(q[k + 1])
    BY ONLY <2>1, ParsedCombo
  <2>3. QED
    BY <2>2
<1>5. /\ \A m \in 1..(n + 1) : ~HoldsSeparator(q[m])
      /\ \A m \in 1..n : q[m] # <<>> => EndOf(q[m]) # "_"
  <2>1. Apart(q)
    BY <1>1, SplitFacts
  <2>2. (n + 1) - 1 = n
    BY <1>4
  <2>3. QED
    BY <1>4, <2>1, <2>2 DEF Apart
<1>6. ~HoldsSeparator(b.step)
  <2>1. 1 \in 1..(n + 1)
    BY <1>4
  <2>2. QED
    BY <1>4, <1>5, <2>1
<1>7. combo # <<>> => Last(b.step) # "_"
  <2> SUFFICES ASSUME combo # <<>> PROVE Last(b.step) # "_"
    OBVIOUS
  <2>1. n # 0
    BY <1>4, EmptySeq
  <2>2. 1 \in 1..n
    BY <1>4, <2>1
  <2>3. q[1] # <<>>
    BY <1>4 DEF ValidateStepId
  <2>4. EndOf(q[1]) # "_"
    BY <1>5, <2>2, <2>3
  <2>5. QED
    BY <1>4, <2>4 DEF EndOf, Last
<1>8. ASSUME NEW k \in DOMAIN combo PROVE ~HoldsSeparator(combo[k][1])
  <2>1. k \in 1..n /\ k + 1 \in 1..(n + 1)
    BY <1>4, SeqParts
  <2>2. PICK e : e = q[k + 1] /\ e \in Text /\ ParseAxis(e) # None /\ combo[k] = ParseAxis(e)
    BY <1>4, <2>1
  <2>3. PICK pos : EqualsAt(e, pos)
    BY <2>2, AxisEquals
  <2>4. PICK name : name = NameOf(e, pos)
    OBVIOUS
  <2>5. combo[k][1] = name
    BY <2>2, <2>3, <2>4, AxisParts
  <2>6. /\ Len(name) = pos - 1 /\ \A i \in 1..(pos - 1) : name[i] = e[i]
        /\ pos \in 1..Len(e) /\ Len(e) \in Nat
    <3>1. Len(NameOf(e, pos)) = pos - 1 /\ \A i \in 1..(pos - 1) : NameOf(e, pos)[i] = e[i]
      BY <2>2, <2>3, PieceCut
    <3>2. QED
      BY <2>2, <2>3, <2>4, <3>1, SeqParts DEF EqualsAt, Text
  <2>7. ~HoldsSeparator(e)
    BY <1>5, <2>1, <2>2
  <2>8. ASSUME NEW i \in 1..(Len(name) - 1), name[i] = "_", name[i + 1] = "_" PROVE FALSE
    <3>1. i \in 1..(pos - 1) /\ i + 1 \in 1..(pos - 1) /\ i \in 1..(Len(e) - 1)
      BY <2>6
    <3>2. e[i] = "_" /\ e[i + 1] = "_"
      BY <2>6, <2>8, <3>1
    <3>3. QED
      BY <2>7, <3>1, <3>2 DEF HoldsSeparator
  <2>9. QED
    BY <2>5, <2>8 DEF HoldsSeparator
<1>9. QED
  BY <1>2, <1>6, <1>7, <1>8 DEF Unambiguous

(* The rounds of Split on the first characters of a text.                   *)
LEMMA SplitStart ==
  ASSUME NEW s, s \in Text, NEW t, t \in Text, NEW m, m = Len(s), m <= Len(t),
         \A i \in 1..m : t[i] = s[i],
         \A i \in 0..m : i \in Separators(t) <=> i \in Separators(s),
         NEW p, SplitRounds(p, t)
  PROVE  p[m] = Split(s)
<1>1. m \in Nat /\ Len(t) \in Nat
  BY SeqParts DEF Text
<1>2. PICK r : SplitRounds(r, s) /\ Split(s) = r[m]
  BY SplitLoop
<1>3. r[0] = << <<>> >> /\ \A i \in 1..m : r[i] = NextPieces(s, i, r[i - 1])
  BY <1>2 DEF SplitRounds
<1>4. p[0] = << <<>> >> /\ \A i \in 1..Len(t) : p[i] = NextPieces(t, i, p[i - 1])
  BY DEF SplitRounds
<1> DEFINE P == {i \in 0..m : p[i] = r[i]}
<1>5. 0 \in P
  BY <1>1, <1>3, <1>4
<1>6. ASSUME NEW i \in 1..m, i - 1 \in P PROVE i \in P
  <2>1. i \in 1..Len(t) /\ i \in 0..m /\ i - 1 \in 0..m
    BY <1>1
  <2>2. PICK q : q = r[i - 1] /\ p[i - 1] = q
    BY <1>6
  <2>3. p[i] = NextPieces(t, i, q) /\ r[i] = NextPieces(s, i, q)
    BY <1>3, <1>4, <2>1, <2>2
  <2>4. NextPieces(t, i, q) = NextPieces(s, i, q)
    BY <2>1 DEF NextPieces
  <2>5. QED
    BY <2>1, <2>3, <2>4
<1>7. m \in P
  <2>1. P \in SUBSET (0..m)
    OBVIOUS
  <2> HIDE DEF P
  <2>2. QED
    BY <1>1, <1>5, <1>6, <2>1, Climb
<1>8. QED
  BY <1>2, <1>7

\* A text t that goes on with a separator and x behind s.
Longer(t, s, x, m, n) ==
  /\ t \in Text /\ s \in Text /\ x \in Text /\ m = Len(s) /\ n = Len(x)
  /\ m \in Nat /\ n \in Nat /\ Len(t) = m + 2 + n
  /\ \A i \in 1..m : t[i] = s[i]
  /\ t[m + 1] = "_" /\ t[m + 2] = "_"
  /\ \A j \in 1..n : t[m + 2 + j] = x[j]

(* A parted piece behind a text is such a text.                             *)
LEMMA LongerText ==
  ASSUME NEW s, s \in Text, NEW x, x \in Text, NEW m, m = Len(s), NEW n, n = Len(x)
  PROVE  Longer(Behind(s, Parted(x)), s, x, m, n)
<1>1. PICK u : u = <<"_", "_">> /\ u \in Text /\ Len(u) = 2 /\ u[1] = "_" /\ u[2] = "_"
  <2>1. "_" \in Char
    BY JobIdAssumption
  <2>2. <<"_", "_">> \in Text
    BY <2>1, ShortLists DEF Text
  <2>3. Len(<<"_", "_">>) = 2 /\ <<"_", "_">>[1] = "_" /\ <<"_", "_">>[2] = "_"
    BY ONLY TRUE
  <2>4. QED
    BY <2>2, <2>3
<1>2. PICK y : y = Behind(u, x) /\ y \in Text /\ Follows(y, u, x)
  BY <1>1, TextsBehind
<1>3. y = Parted(x)
  BY <1>1, <1>2 DEF Parted, Behind
<1>4. PICK t : t = Behind(s, y) /\ t \in Text /\ Follows(t, s, y)
  BY <1>2, TextsBehind
<1>5. m \in Nat /\ n \in Nat
  BY SeqParts DEF Text
<1>6. /\ Len(y) = 2 + n /\ y[1] = "_" /\ y[2] = "_" /\ \A j \in 1..n : y[2 + j] = x[j]
  <2>1. 1 \in 1..2 /\ 2 \in 1..2
    OBVIOUS
  <2>2. Follows(y, u, x)
    BY <1>2
  <2>3. /\ Len(y) = Len(u) + n /\ \A i \in 1..Len(u) : y[i] = u[i]
        /\ \A j \in 1..n : y[Len(u) + j] = x[j]
    BY <2>2 DEF Follows
  <2>4. QED
    BY <1>1, <2>1, <2>3
<1>7. /\ Len(t) = m + (2 + n) /\ \A i \in 1..m : t[i] = s[i]
      /\ \A i \in 1..(2 + n) : t[m + i] = y[i]
  BY <1>4, <1>6 DEF Follows
<1>8. m + (2 + n) = m + 2 + n /\ 1 \in 1..(2 + n) /\ 2 \in 1..(2 + n)
  BY <1>5
<1>9. ASSUME NEW j \in 1..n PROVE t[m + 2 + j] = x[j]
  <2>1. 2 + j \in 1..(2 + n) /\ m + (2 + j) = m + 2 + j
    BY <1>5
  <2>2. t[m + (2 + j)] = y[2 + j]
    BY <1>7, <2>1
  <2>3. QED
    BY <1>6, <2>1, <2>2
<1>10. t[m + 1] = "_" /\ t[m + 2] = "_"
  BY <1>6, <1>7, <1>8
<1>11. Longer(t, s, x, m, n)
  BY <1>4, <1>5, <1>7, <1>8, <1>9, <1>10 DEF Longer
<1>12. QED
  BY <1>3, <1>4, <1>11

(* Its separators: those of s, the one in front of x, and no other.         *)
LEMMA LongerCuts ==
  ASSUME NEW t, NEW s, NEW x, NEW m, NEW n, Longer(t, s, x, m, n),
         s # <<>>, EndOf(s) # "_", ~HoldsSeparator(x)
  PROVE  /\ \A i \in 0..m : i \in Separators(t) <=> i \in Separators(s)
         /\ m + 1 \in Separators(t)
         /\ \A i \in (m + 2)..(m + 2 + n) : i \notin Separators(t)
<1>1. PICK C : C = Separators(s)
  OBVIOUS
<1>2. PICK D : D = Separators(t)
  OBVIOUS
<1>3. PICK l : l = m + 2 + n
  OBVIOUS
<1>4. /\ t \in Text /\ s \in Text /\ x \in Text /\ m = Len(s) /\ n = Len(x)
      /\ m \in Nat /\ n \in Nat /\ Len(t) = l
      /\ \A i \in 1..m : t[i] = s[i]
      /\ t[m + 1] = "_" /\ t[m + 2] = "_"
      /\ \A j \in 1..n : t[m + 2 + j] = x[j]
  BY <1>3 DEF Longer
<1>5. m \in Nat /\ n \in Nat /\ l = m + 2 + n
  BY <1>3, <1>4
<1>6. /\ C \subseteq 1..m
      /\ \A i \in 1..m : i \in C <=> (i < m /\ s[i] = "_" /\ s[i + 1] = "_" /\ i - 1 \notin C)
  BY <1>1, <1>4, CutsFound DEF CutsAt
<1>7. /\ D \subseteq 1..l
      /\ \A i \in 1..l : i \in D <=> (i < l /\ t[i] = "_" /\ t[i + 1] = "_" /\ i - 1 \notin D)
  BY <1>2, <1>4, CutsFound DEF CutsAt
<1>8. m # 0 /\ s[m] # "_"
  BY <1>4, EmptySeq DEF EndOf, Text
<1> DEFINE P == {i \in 0..m : i \in D <=> i \in C}
<1>9. 0 \in P
  <2>1. 0 \notin 1..m /\ 0 \notin 1..l /\ 0 \in 0..m
    BY ONLY <1>5
  <2>2. C \subseteq 1..m /\ D \subseteq 1..l
    BY <1>6, <1>7
  <2>3. QED
    BY <2>1, <2>2
<1>10. ASSUME NEW i \in 1..m, i - 1 \in P PROVE i \in P
  <2>1. i \in 1..l /\ i \in 0..m /\ i < l
    BY ONLY <1>5, i \in 1..m
  <2>2. i - 1 \in D <=> i - 1 \in C
    BY <1>10
  <2>3. t[i] = s[i]
    BY <1>4
  <2>4. CASE i = m
    <3>1. i \notin C /\ i \notin D
      BY <1>4, <1>6, <1>7, <1>8, <2>1, <2>3, <2>4
    <3>2. QED
      BY <2>1, <3>1
  <2>5. CASE i # m
    <3>1. i < m /\ i + 1 \in 1..m
      BY ONLY <1>5, <2>5, i \in 1..m
    <3>2. t[i + 1] = s[i + 1]
      BY <1>4, <3>1
    <3>3. i \in D <=> i \in C
      BY <1>6, <1>7, <2>1, <2>2, <2>3, <3>1, <3>2
    <3>4. QED
      BY <2>1, <3>3
  <2>6. QED
    BY <2>4, <2>5
<1>11. ASSUME NEW k \in 0..m PROVE k \in P
  <2>1. k \in Nat /\ (0..m) \in SUBSET Nat
    BY ONLY <1>5, k \in 0..m
  <2> DEFINE Q == P \cap (0..k)
  <2>2. Q \in SUBSET (0..k) /\ 0 \in Q
    <3>1. 0 \in 0..k
      BY ONLY <2>1
    <3>2. QED
      BY <1>9, <3>1
  <2>3. ASSUME NEW i \in 1..k, i - 1 \in Q PROVE i \in Q
    <3>1. i \in 1..m /\ i \in 0..k
      BY ONLY <1>5, <2>1, i \in 1..k, k \in 0..m
    <3>2. i \in P
      BY <1>10, <2>3, <3>1
    <3>3. QED
      BY <3>1, <3>2
  <2>4. k \in Q
    <3> HIDE DEF Q
    <3>1. QED
      BY <2>1, <2>2, <2>3, Climb
  <2>5. QED
    BY <2>4
<1>12. m \notin D
  <2>1. m \in 0..m /\ ~(m < m)
    BY ONLY <1>5
  <2>2. m \in 1..m
    <3>1. m # 0
      BY <1>8
    <3>2. QED
      BY ONLY <1>5, <3>1
  <2>3. m \in P
    BY <1>11, <2>1
  <2>4. QED
    BY <1>6, <2>1, <2>2, <2>3
<1>13. m + 1 \in D
  <2>1. m + 1 \in 1..l /\ m + 1 < l /\ (m + 1) + 1 = m + 2 /\ (m + 1) - 1 = m
    BY ONLY <1>5
  <2>2. QED
    BY <1>4, <1>7, <1>12, <2>1
<1>14. ASSUME NEW i \in (m + 2)..l, i \in D PROVE FALSE
  <2>1. i \in 1..l /\ i < l /\ t[i] = "_" /\ t[i + 1] = "_" /\ i - 1 \notin D
    <3>1. i \in 1..l
      BY ONLY <1>5, i \in (m + 2)..l
    <3>2. QED
      BY <1>7, <1>14, <3>1
  <2>2. CASE i = m + 2
    <3>1. i - 1 = m + 1
      BY ONLY <1>5, <2>2
    <3>2. QED
      BY <1>13, <2>1, <3>1
  <2>3. CASE i # m + 2
    <3>1. PICK j : j = i - (m + 2)
      OBVIOUS
    <3>2. j \in 1..(n - 1) /\ j \in 1..n /\ j + 1 \in 1..n /\ m + 2 + j = i /\ m + 2 + (j + 1) = i + 1
      <4>1. i < l
        BY <2>1
      <4>2. QED
        BY ONLY <1>5, <2>3, <3>1, <4>1, i \in (m + 2)..l
    <3>3. x[j] = "_" /\ x[j + 1] = "_"
      BY <1>4, <2>1, <3>2
    <3>4. QED
      BY <1>4, <3>2, <3>3 DEF HoldsSeparator
  <2>4. QED
    BY <2>2, <2>3
<1>15. QED
  BY <1>1, <1>2, <1>3, <1>11, <1>13, <1>14

(* A separator and a piece behind a text that has no half of a separator at *)
(* its end: one piece more.                                                 *)
LEMMA SplitExtend ==
  ASSUME NEW t, NEW s, NEW x, NEW m, NEW n, Longer(t, s, x, m, n),
         s # <<>>, EndOf(s) # "_", ~HoldsSeparator(x)
  PROVE  Split(t) = Append(Split(s), x)
<1>1. PICK l : l = m + 2 + n
  OBVIOUS
<1>2. /\ t \in Text /\ s \in Text /\ x \in Text /\ m = Len(s) /\ n = Len(x)
      /\ m \in Nat /\ n \in Nat /\ Len(t) = l
      /\ \A i \in 1..m : t[i] = s[i]
      /\ \A j \in 1..n : t[m + 2 + j] = x[j]
  BY <1>1 DEF Longer
<1>3. m \in Nat /\ n \in Nat /\ l = m + 2 + n
  BY <1>1, <1>2
<1>4. PICK D : D = Separators(t)
  OBVIOUS
<1>5. /\ \A i \in 0..m : i \in D <=> i \in Separators(s)
      /\ m + 1 \in D
      /\ \A i \in (m + 2)..l : i \notin D
  BY <1>1, <1>4, LongerCuts
<1>6. PICK p : SplitRounds(p, t) /\ Split(t) = p[l]
  BY <1>2, SplitLoop
<1>7. /\ p \in [0..l -> PieceLists]
      /\ \A i \in 1..l : p[i] = IF i \in D THEN Append(p[i - 1], <<>>)
                                ELSE IF i - 1 \in D THEN p[i - 1] ELSE PutIn(p[i - 1], t[i])
  BY <1>2, <1>4, <1>6 DEF SplitRounds, NextPieces
<1>8. PICK r : r = Split(s)
  OBVIOUS
<1>9. p[m] = r /\ r \in Seq(Text)
  <2>1. m <= Len(t) /\ m \in 0..l
    <3>1. m <= l /\ m \in 0..l
      BY ONLY <1>3
    <3>2. QED
      BY <1>2, <3>1
  <2>2. p[m] = Split(s)
    <3>1. /\ s \in Text /\ t \in Text /\ m = Len(s) /\ m <= Len(t)
          /\ \A i \in 1..m : t[i] = s[i]
          /\ \A i \in 0..m : i \in Separators(t) <=> i \in Separators(s)
          /\ SplitRounds(p, t)
      BY <1>2, <1>4, <1>5, <1>6, <2>1
    <3>2. QED
      BY ONLY <3>1, SplitStart
  <2>3. p[m] \in PieceLists
    BY <1>7, <2>1
  <2>4. QED
    BY <1>8, <2>2, <2>3 DEF PieceLists
<1>10. p[m + 2] = Append(r, <<>>)
  <2>1. /\ m + 1 \in 1..l /\ (m + 1) - 1 = m /\ m + 2 \in 1..l /\ (m + 2) - 1 = m + 1
        /\ m + 2 \in (m + 2)..l
    BY ONLY <1>3
  <2>2. p[m + 1] = Append(r, <<>>)
    BY <1>5, <1>7, <1>9, <2>1
  <2>3. QED
    BY <1>5, <1>7, <2>1, <2>2
<1>11. /\ Prefix(x, 0) = <<>> /\ Prefix(x, n) = x
       /\ \A j \in 0..n : Prefix(x, j) \in Text
       /\ \A j \in 1..n : Prefix(x, j) = Append(Prefix(x, j - 1), x[j]) /\ x[j] \in Char
  BY <1>2, PrefixParts, SeqParts DEF Text
<1> DEFINE P == {j \in 0..n : p[m + 2 + j] = Append(r, Prefix(x, j))}
<1>12. 0 \in P
  <2>1. m + 2 + 0 = m + 2 /\ 0 \in 0..n
    BY ONLY <1>3
  <2>2. QED
    BY <1>10, <1>11, <2>1
<1>13. ASSUME NEW j \in 1..n, j - 1 \in P PROVE j \in P
  <2>1. PICK i : i = m + 2 + j
    OBVIOUS
  <2>2. PICK h : h = j - 1
    OBVIOUS
  <2>3. /\ i \in 1..l /\ i \in (m + 2)..l /\ i - 1 \in (m + 2)..l /\ i - 1 = m + 2 + h
        /\ h \in 0..n /\ j \in 0..n
    BY ONLY <1>3, <2>1, <2>2, j \in 1..n
  <2>4. p[i - 1] = Append(r, Prefix(x, h))
    BY <1>13, <2>2, <2>3
  <2>5. p[i] = PutIn(p[i - 1], t[i])
    BY <1>5, <1>7, <2>3
  <2>6. t[i] = x[j] /\ x[j] \in Char
    BY <1>2, <1>11, <2>1
  <2>7. PICK y : y = Prefix(x, h) /\ y \in Text
    BY <1>11, <2>3
  <2>8. PutIn(Append(r, y), x[j]) = Append(r, Append(y, x[j]))
    <3>1. PICK c : c = x[j] /\ c \in Char
      BY <2>6
    <3>2. PutIn(Append(r, y), c) = Append(r, Append(y, c))
      <4>1. r \in Seq(Text) /\ y \in Text /\ c \in Char
        BY <1>9, <2>7, <3>1
      <4>2. QED
        BY ONLY <4>1, PutInLast
    <3>3. QED
      BY <3>1, <3>2
  <2>9. Append(y, x[j]) = Prefix(x, j)
    BY <1>11, <2>2, <2>7
  <2>10. p[m + 2 + j] = Append(r, Prefix(x, j))
    BY <2>1, <2>4, <2>5, <2>6, <2>7, <2>8, <2>9
  <2>11. QED
    BY <2>3, <2>10
<1>14. n \in P
  <2>1. P \in SUBSET (0..n)
    OBVIOUS
  <2> HIDE DEF P
  <2>2. QED
    BY <1>2, <1>12, <1>13, <2>1, Climb
<1>15. QED
  BY <1>1, <1>6, <1>8, <1>11, <1>14

(* A text without a separator is its only piece.                            *)
LEMMA SplitWhole ==
  ASSUME NEW s, s \in Text, ~HoldsSeparator(s)
  PROVE  Split(s) = <<s>>
<1>1. PICK n : n = Len(s) /\ n \in Nat
  BY SeqParts DEF Text
<1>2. Separators(s) = {}
  <2>1. PICK D : D = Separators(s)
    OBVIOUS
  <2>2. D \subseteq 1..n /\ \A i \in 1..n : i \in D => i < n /\ s[i] = "_" /\ s[i + 1] = "_"
    BY <1>1, <2>1, CutsFound DEF CutsAt
  <2>3. ASSUME NEW i \in D PROVE FALSE
    <3>1. i \in 1..n /\ i < n /\ s[i] = "_" /\ s[i + 1] = "_"
      BY <2>2
    <3>2. i \in 1..(n - 1)
      <4>1. i \in 1..n /\ i < n
        BY <3>1
      <4>2. QED
        BY ONLY <1>1, <4>1
    <3>3. QED
      BY <1>1, <3>1, <3>2 DEF HoldsSeparator
  <2>4. QED
    BY <2>1, <2>3
<1>3. PICK p : SplitRounds(p, s) /\ Split(s) = p[n]
  BY <1>1, SplitLoop
<1>4. p[0] = << <<>> >> /\ \A i \in 1..n : p[i] = PutIn(p[i - 1], s[i])
  BY <1>1, <1>2, <1>3 DEF SplitRounds, NextPieces
<1>5. /\ Prefix(s, 0) = <<>> /\ Prefix(s, n) = s
      /\ \A i \in 0..n : Prefix(s, i) \in Text
      /\ \A i \in 1..n : Prefix(s, i) = Append(Prefix(s, i - 1), s[i]) /\ s[i] \in Char
  BY <1>1, PrefixParts, SeqParts DEF Text
<1>6. PICK r : r = <<>> /\ r \in Seq(Text) /\ \A y : Append(r, y) = <<y>>
  <2>1. \A y : Append(<<>>, y) = <<y>>
    OBVIOUS
  <2>2. QED
    BY <2>1, EmptySeq
<1> DEFINE P == {i \in 0..n : p[i] = Append(r, Prefix(s, i))}
<1>7. 0 \in P
  BY <1>1, <1>4, <1>5, <1>6
<1>8. ASSUME NEW i \in 1..n, i - 1 \in P PROVE i \in P
  <2>1. PICK h : h = i - 1 /\ h \in 0..n
    BY <1>1
  <2>2. i \in 0..n
    BY <1>1
  <2>3. PICK y : y = Prefix(s, h) /\ y \in Text
    BY <1>5, <2>1
  <2>4. p[h] = Append(r, y)
    BY <1>8, <2>1, <2>3
  <2>5. PutIn(Append(r, y), s[i]) = Append(r, Append(y, s[i]))
    <3>1. PICK c : c = s[i] /\ c \in Char
      BY <1>5
    <3>2. PutIn(Append(r, y), c) = Append(r, Append(y, c))
      <4>1. r \in Seq(Text) /\ y \in Text /\ c \in Char
        BY <1>6, <2>3, <3>1
      <4>2. QED
        BY ONLY <4>1, PutInLast
    <3>3. QED
      BY <3>1, <3>2
  <2>6. Append(y, s[i]) = Prefix(s, i)
    BY <1>5, <2>1, <2>3
  <2>7. p[i] = Append(r, Prefix(s, i))
    BY <1>4, <2>1, <2>4, <2>5, <2>6
  <2>8. QED
    BY <2>2, <2>7
<1>9. n \in P
  <2>1. P \in SUBSET (0..n)
    OBVIOUS
  <2> HIDE DEF P
  <2>2. QED
    BY <1>1, <1>7, <1>8, <2>1, Climb
<1>10. QED
  BY <1>3, <1>5, <1>6, <1>9

\* e is a name, an equals sign and digits.
PieceOf(e, name, d, m, n) ==
  /\ e \in Text /\ name \in Text /\ d \in Text /\ m = Len(name) /\ n = Len(d)
  /\ m \in Nat /\ n \in Nat /\ n # 0 /\ Len(e) = m + 1 + n
  /\ \A i \in 1..m : e[i] = name[i]
  /\ e[m + 1] = "="
  /\ \A i \in 1..n : e[m + 1 + i] = d[i] /\ d[i] \in DigitChars

(* A name, an equals sign and digits, written one behind the other.         *)
LEMMA PieceWritten ==
  ASSUME NEW name, name \in Text, NEW d, d \in Figures, d # <<>>, NEW m, m = Len(name), NEW n, n = Len(d)
  PROVE  PieceOf(Behind(Append(name, "="), d), name, d, m, n)
<1>1. d \in Text /\ n \in Nat /\ m \in Nat /\ n # 0 /\ \A i \in 1..n : d[i] \in DigitChars
  <2>1. d \in Text
    BY FiguresAreText
  <2>2. n \in Nat /\ n # 0 /\ \A i \in 1..n : d[i] \in DigitChars
    BY SeqParts, EmptySeq DEF Figures
  <2>3. QED
    BY <2>1, <2>2, SeqParts DEF Text
<1>2. PICK f : f = Append(name, "=")
  OBVIOUS
<1>3. f \in Text /\ Len(f) = m + 1 /\ f[m + 1] = "=" /\ \A i \in 1..m : f[i] = name[i]
  <2>1. "=" \in Char
    BY JobIdAssumption
  <2>2. QED
    BY <1>1, <1>2, <2>1, AppendParts DEF Text
<1>4. PICK e : e = Behind(f, d)
  OBVIOUS
<1>5. e \in Text /\ Follows(e, f, d)
  BY <1>1, <1>3, <1>4, TextsBehind
<1>6. /\ Len(e) = (m + 1) + n /\ \A i \in 1..(m + 1) : e[i] = f[i]
      /\ \A i \in 1..n : e[(m + 1) + i] = d[i]
  BY <1>3, <1>5 DEF Follows
<1>7. m + 1 \in 1..(m + 1) /\ \A i \in 1..m : i \in 1..(m + 1)
  BY ONLY <1>1
<1>8. PieceOf(e, name, d, m, n)
  BY <1>1, <1>3, <1>5, <1>6, <1>7 DEF PieceOf
<1>9. QED
  BY <1>2, <1>4, <1>8

(* Such a piece is read as its name and its digits, and neither holds a     *)
(* separator nor ends in half of one if its name holds none.                *)
LEMMA PieceRead ==
  ASSUME NEW e, NEW name, NEW d, NEW m, NEW n, PieceOf(e, name, d, m, n),
         ValidateStepId(name), ~HoldsSeparator(name)
  PROVE  /\ EqualsAt(e, m + 1) /\ NameOf(e, m + 1) = name /\ IndexOf(e, m + 1) = d
         /\ e # <<>> /\ EndOf(e) # "_" /\ ~HoldsSeparator(e)
<1>1. PICK l : l = m + 1 + n
  OBVIOUS
<1>2. /\ e \in Text /\ name \in Text /\ d \in Text /\ m = Len(name) /\ n = Len(d) /\ Len(e) = l
      /\ \A i \in 1..m : e[i] = name[i]
      /\ e[m + 1] = "="
      /\ \A i \in 1..n : e[m + 1 + i] = d[i] /\ d[i] \in DigitChars
  BY <1>1 DEF PieceOf
<1>3. m \in Nat /\ n \in Nat /\ n # 0 /\ l = m + 1 + n
  BY <1>1 DEF PieceOf
<1>4. "_" \notin DigitChars /\ "_" # "="
  BY DigitFacts
<1>5. \A i \in 1..m : name[i] # "="
  <2>1. "=" \notin ValidStepIdChar
    BY DigitFacts DEF ValidStepIdChar, Alphanumeric, DigitChars
  <2>2. Range(name) \subseteq ValidStepIdChar
    BY DEF ValidateStepId
  <2>3. DOMAIN name = 1..m
    BY <1>2, SeqParts DEF Text
  <2>4. QED
    BY <2>1, <2>2, <2>3 DEF Range
<1>6. PICK pos : pos = m + 1
  OBVIOUS
<1>7. pos \in 1..l /\ pos - 1 = m /\ l - pos = n
  BY ONLY <1>3, <1>6
<1>8. EqualsAt(e, pos)
  BY <1>2, <1>5, <1>6, <1>7 DEF EqualsAt
<1>9. /\ NameOf(e, pos) \in Text /\ IndexOf(e, pos) \in Text
      /\ Len(NameOf(e, pos)) = m /\ Len(IndexOf(e, pos)) = n
      /\ \A i \in 1..m : NameOf(e, pos)[i] = e[i]
      /\ \A i \in 1..n : IndexOf(e, pos)[i] = e[pos + i]
  <2>1. /\ NameOf(e, pos) \in Text /\ IndexOf(e, pos) \in Text
        /\ Len(NameOf(e, pos)) = pos - 1
        /\ Len(IndexOf(e, pos)) = Len(e) - pos
        /\ \A i \in 1..(pos - 1) : NameOf(e, pos)[i] = e[i]
        /\ \A i \in 1..(Len(e) - pos) : IndexOf(e, pos)[i] = e[pos + i]
    BY <1>2, <1>8, PieceCut
  <2>2. QED
    BY <1>2, <1>7, <2>1
<1>10. NameOf(e, pos) = name
  <2>1. PICK a : a = NameOf(e, pos)
    OBVIOUS
  <2>2. a \in Seq(Char) /\ name \in Seq(Char) /\ Len(a) = Len(name) /\ \A i \in 1..Len(a) : a[i] = name[i]
    BY <1>2, <1>9, <2>1 DEF Text
  <2>3. a = name
    BY ONLY <2>2, SameList
  <2>4. QED
    BY <2>1, <2>3
<1>11. IndexOf(e, pos) = d
  <2>1. PICK a : a = IndexOf(e, pos)
    OBVIOUS
  <2>2. a \in Seq(Char) /\ d \in Seq(Char) /\ Len(a) = Len(d) /\ \A i \in 1..Len(a) : a[i] = d[i]
    BY <1>2, <1>6, <1>9, <2>1 DEF Text
  <2>3. a = d
    BY ONLY <2>2, SameList
  <2>4. QED
    BY <2>1, <2>3
<1>12. e # <<>> /\ EndOf(e) # "_"
  <2>1. n \in 1..n /\ l # 0
    BY ONLY <1>3
  <2>2. e[l] \in DigitChars
    BY <1>1, <1>2, <2>1
  <2>3. QED
    BY <1>2, <1>4, <2>1, <2>2, EmptySeq DEF EndOf
<1>13. ASSUME NEW i \in 1..(l - 1), e[i] = "_", e[i + 1] = "_" PROVE FALSE
  <2>1. ASSUME NEW k \in 1..l, e[k] = "_" PROVE k \in 1..m
    <3>1. CASE k = m + 1
      BY <1>2, <1>4, <2>1, <3>1
    <3>2. CASE k > m + 1
      <4>1. PICK j : j = k - (m + 1)
        OBVIOUS
      <4>2. j \in 1..n /\ m + 1 + j = k
        BY ONLY <1>3, <3>2, <4>1, k \in 1..l
      <4>3. QED
        BY <1>2, <1>4, <2>1, <4>2
    <3>3. k = m + 1 \/ k > m + 1 \/ k \in 1..m
      BY ONLY <1>3, k \in 1..l
    <3>4. QED
      BY <3>1, <3>2, <3>3
  <2>2. i \in 1..l /\ i + 1 \in 1..l
    BY ONLY <1>3, i \in 1..(l - 1)
  <2>3. i \in 1..m /\ i + 1 \in 1..m
    BY <1>13, <2>1, <2>2
  <2>4. i \in 1..(m - 1)
    BY ONLY <1>3, <2>3
  <2>5. name[i] = "_" /\ name[i + 1] = "_"
    BY <1>2, <1>13, <2>3
  <2>6. QED
    BY <1>2, <2>4, <2>5 DEF HoldsSeparator
<1>14. ~HoldsSeparator(e)
  BY <1>2, <1>13 DEF HoldsSeparator
<1>15. QED
  BY <1>6, <1>8, <1>10, <1>11, <1>12, <1>14

\* The piece of an axis.
AxisPiece(axis) == Behind(Append(axis[1], "="), ToDecimal(axis[2]))

(* The piece that is written for an axis is read as that axis.              *)
LEMMA AxisReadBack ==
  ASSUME NEW name, name \in Text, ValidateStepId(name), ~HoldsSeparator(name),
         NEW i, i \in 0..MaxIndex, NEW axis, axis = <<name, i>>
  PROVE  /\ AxisPiece(axis) \in Text /\ ParseAxis(AxisPiece(axis)) = axis /\ axis # None
         /\ AxisPiece(axis) # <<>> /\ EndOf(AxisPiece(axis)) # "_"
         /\ ~HoldsSeparator(AxisPiece(axis))
         /\ AxisText(axis) = Parted(AxisPiece(axis))
<1>1. axis[1] = name /\ axis[2] = i
  OBVIOUS
<1>2. i \in Nat /\ ParseIndex(ToDecimal(i)) = i /\ i # None
  BY IndexReadBack
<1>3. PICK d : d = ToDecimal(i) /\ d \in Figures /\ d # <<>>
  BY <1>2, DecimalStep
<1>4. PICK m, n : m = Len(name) /\ n = Len(d)
  OBVIOUS
<1>5. PICK e : e = Behind(Append(name, "="), d)
  OBVIOUS
<1>6. e = AxisPiece(axis)
  BY <1>1, <1>3, <1>5 DEF AxisPiece
<1>7. PieceOf(e, name, d, m, n)
  BY <1>3, <1>4, <1>5, PieceWritten
<1>8. /\ EqualsAt(e, m + 1) /\ NameOf(e, m + 1) = name /\ IndexOf(e, m + 1) = d
      /\ e # <<>> /\ EndOf(e) # "_" /\ ~HoldsSeparator(e)
  BY <1>7, PieceRead
<1>9. e \in Text
  BY <1>7 DEF PieceOf
<1>10. ParseAxis(e) = <<name, i>>
  <2>1. PICK pos : pos = m + 1
    OBVIOUS
  <2>2. EqualsAt(e, pos) /\ NameOf(e, pos) = name /\ IndexOf(e, pos) = d
    BY <1>8, <2>1
  <2>3. ParseAxis(e) = IF ValidateStepId(NameOf(e, pos)) /\ ParseIndex(IndexOf(e, pos)) # None
                       THEN <<NameOf(e, pos), ParseIndex(IndexOf(e, pos))>> ELSE None
    BY <1>9, <2>2, AxisParts
  <2>4. QED
    BY <1>2, <1>3, <2>2, <2>3
<1>11. axis # None
  <2>1. axis \in Seq(Char) \X Nat
    BY <1>2 DEF Text
  <2>2. QED
    BY <2>1, JobIdAssumption
<1>12. AxisText(axis) = Parted(e)
  <2>1. PICK u : u = <<"_", "_">> /\ u \in Text
    BY JobIdAssumption, ShortLists DEF Text
  <2>2. PICK q : q = <<"=">> /\ q \in Text
    BY JobIdAssumption, ShortLists DEF Text
  <2>3. PICK f : f = Behind(name, q) /\ f \in Text
    BY <2>2, TextsBehind
  <2>4. f = Append(name, "=")
    <3>1. "=" \in Char
      BY JobIdAssumption
    <3>2. QED
      BY <2>2, <2>3, <3>1, AppendOne DEF Text
  <2>5. u \in Text /\ name \in Text /\ q \in Text /\ d \in Text /\ f \in Text
    BY <1>7, <2>1, <2>2, <2>3 DEF PieceOf
  <2>6. Behind(u, Behind(f, d)) = Behind(Behind(u, f), d)
    BY ONLY <2>5, TextsBehindTwo
  <2>7. Behind(u, Behind(name, q)) = Behind(Behind(u, name), q)
    BY ONLY <2>5, TextsBehindTwo
  <2>8. AxisText(axis) = Behind(Behind(Behind(u, name), q), d)
    BY <1>1, <1>3, <2>1, <2>2 DEF AxisText, Behind
  <2>9. Parted(e) = Behind(u, e)
    BY <2>1 DEF Parted, Behind
  <2>10. QED
    BY <1>5, <2>3, <2>4, <2>6, <2>7, <2>8, <2>9
<1>13. QED
  BY <1>6, <1>8, <1>9, <1>10, <1>11, <1>12

(* A separator and a piece behind a text: its pieces and its end.           *)
LEMMA PieceBehind ==
  ASSUME NEW s, s \in Text, s # <<>>, EndOf(s) # "_",
         NEW x, x \in Text, x # <<>>, EndOf(x) # "_", ~HoldsSeparator(x),
         NEW t, t = Behind(s, Parted(x))
  PROVE  t # <<>> /\ EndOf(t) # "_" /\ Split(t) = Append(Split(s), x)
<1>1. PICK m, n : m = Len(s) /\ n = Len(x)
  OBVIOUS
<1>2. Longer(t, s, x, m, n)
  <2>1. s \in Text /\ x \in Text /\ m = Len(s) /\ n = Len(x)
    BY <1>1
  <2>2. Longer(Behind(s, Parted(x)), s, x, m, n)
    BY ONLY <2>1, LongerText
  <2>3. QED
    BY <2>2
<1>3. Split(t) = Append(Split(s), x)
  BY <1>2, SplitExtend
<1>4. /\ m \in Nat /\ n \in Nat /\ Len(t) = m + 2 + n /\ t \in Text
      /\ \A j \in 1..n : t[m + 2 + j] = x[j]
  BY <1>2 DEF Longer
<1>5. n # 0
  BY <1>1, EmptySeq DEF Text
<1>6. n \in 1..n /\ m + 2 + n # 0
  <2>1. m \in Nat /\ n \in Nat
    BY <1>4
  <2>2. QED
    BY ONLY <1>5, <2>1
<1>7. EndOf(t) = x[n]
  BY <1>4, <1>6 DEF EndOf
<1>8. t # <<>>
  BY <1>4, <1>6, EmptySeq DEF Text
<1>9. QED
  BY <1>1, <1>3, <1>7, <1>8 DEF EndOf

\* The pieces that an id is built from.
Pieces(step, combo) ==
  [i \in 1..(Len(combo) + 1) |-> IF i = 1 THEN step ELSE AxisPiece(combo[i - 1])]

\* A list of pieces of which none holds a separator, nor ends in half of one.
Separable(q) ==
  /\ \A i \in 1..Len(q) : q[i] # <<>> /\ ~HoldsSeparator(q[i])
  /\ Len(q) # 1 => \A i \in 1..Len(q) : EndOf(q[i]) # "_"

(* Such pieces, put together with separators, are found again.              *)
LEMMA SplitBuilt ==
  ASSUME NEW q, q \in PieceLists, Separable(q)
  PROVE  Split(JoinOf(q)) = q
<1>1. PICK l : l = Len(q)
  OBVIOUS
<1>2. q \in Seq(Text) /\ l \in Nat /\ l >= 1 /\ \A i \in 1..l : q[i] \in Text
  BY <1>1, PieceParts
<1>3. PICK t : t = PartedTexts(q)
  OBVIOUS
<1>4. /\ t \in Seq(Text) /\ Len(t) = l
      /\ \A k \in 1..l : t[k] = IF k = 1 THEN q[k] ELSE Parted(q[k])
  BY <1>1, <1>2, <1>3, PartedTextsIn
<1>5. PICK a : Flat(a, Char, t)
  BY <1>4, FlattenRounds DEF Text
<1>6. /\ FlattenSeq(t) = a[l] /\ a[0] = <<>>
      /\ \A i \in 0..l : a[i] \in Text
      /\ \A i \in 1..l : a[i] = Behind(a[i - 1], t[i])
  BY <1>4, <1>5 DEF Flat, Text
<1>7. /\ \A i \in 1..l : q[i] # <<>> /\ ~HoldsSeparator(q[i])
      /\ l # 1 => \A i \in 1..l : EndOf(q[i]) # "_"
  BY <1>1 DEF Separable
<1>8. /\ Prefix(q, 0) = <<>> /\ Prefix(q, l) = q
      /\ \A i \in 1..l : Prefix(q, i) = Append(Prefix(q, i - 1), q[i])
  BY <1>1, <1>2, PrefixParts
<1> DEFINE P == {k \in 0..l : k # 0 => /\ a[k] # <<>> /\ Split(a[k]) = Prefix(q, k)
                                       /\ l # 1 => EndOf(a[k]) # "_"}
<1>9. 0 \in P
  BY <1>2
<1>10. ASSUME NEW k \in 1..l, k - 1 \in P PROVE k \in P
  <2>1. PICK h : h = k - 1 /\ h \in 0..l /\ k \in 0..l
    BY <1>2
  <2>2. PICK x : x = q[k] /\ x \in Text /\ x # <<>> /\ ~HoldsSeparator(x)
    BY <1>2, <1>7
  <2>3. PICK y : y = a[h] /\ y \in Text
    BY <1>6, <2>1
  <2>4. Prefix(q, k) = Append(Prefix(q, h), x) /\ a[k] = Behind(y, t[k])
    BY <1>6, <1>8, <2>1, <2>2, <2>3
  <2>5. CASE k = 1
    <3>1. y = <<>> /\ t[k] = x /\ Prefix(q, k) = Append(<<>>, x) /\ q[1] = x
      <4>1. h = 0
        BY <2>1, <2>5
      <4>2. y = <<>> /\ Prefix(q, h) = <<>>
        BY <1>6, <1>8, <2>3, <4>1
      <4>3. t[k] = x
        BY <1>4, <2>2, <2>5
      <4>4. QED
        BY <2>2, <2>4, <2>5, <4>2, <4>3
    <3>2. <<>> \o x = x
      BY <2>2, ConcatEmptySeq DEF Text
    <3>3. a[k] = x
      BY <2>4, <3>1, <3>2 DEF Behind
    <3>4. Split(x) = <<x>>
      BY <2>2, SplitWhole
    <3>5. Append(<<>>, x) = <<x>>
      OBVIOUS
    <3>6. l # 1 => EndOf(x) # "_"
      BY <1>7, <2>2
    <3>7. QED
      BY <2>1, <2>2, <3>1, <3>3, <3>4, <3>5, <3>6
  <2>6. CASE k # 1
    <3>1. h # 0 /\ l # 1
      BY <1>2, <2>1, <2>6
    <3>2. y # <<>> /\ Split(y) = Prefix(q, h) /\ EndOf(y) # "_"
      BY <1>10, <2>1, <2>3, <3>1
    <3>3. EndOf(x) # "_"
      BY <1>7, <2>2, <3>1
    <3>4. PICK z : z = a[k]
      OBVIOUS
    <3>5. z = Behind(y, Parted(x))
      BY <1>4, <2>2, <2>4, <2>6, <3>4
    <3>6. z # <<>> /\ EndOf(z) # "_" /\ Split(z) = Append(Split(y), x)
      <4>1. /\ y \in Text /\ y # <<>> /\ EndOf(y) # "_"
            /\ x \in Text /\ x # <<>> /\ EndOf(x) # "_" /\ ~HoldsSeparator(x)
        BY <2>2, <2>3, <3>2, <3>3
      <4>2. QED
        BY ONLY <3>5, <4>1, PieceBehind
    <3>7. QED
      BY <2>1, <2>4, <3>2, <3>4, <3>6
  <2>7. QED
    BY <2>5, <2>6
<1>11. l \in P
  <2>1. P \in SUBSET (0..l)
    OBVIOUS
  <2> HIDE DEF P
  <2>2. QED
    BY <1>2, <1>9, <1>10, <2>1, Climb
<1>12. QED
  <2>1. l # 0
    BY <1>2
  <2>2. Split(a[l]) = Prefix(q, l)
    BY <1>11, <2>1
  <2>3. QED
    BY <1>3, <1>6, <1>8, <2>2 DEF JoinOf

\* q holds the step id and the pieces of the n axes.
PiecesFit(q, n, step, combo) ==
  /\ n \in Nat /\ q \in PieceLists /\ Len(q) = n + 1 /\ q[1] = step
  /\ step \in Text /\ combo \in Seq(Text \X Nat) /\ n = Len(combo)
  /\ \A k \in 1..n : q[k + 1] = AxisPiece(combo[k])

(* The pieces of what Python builds.                                        *)
LEMMA PiecesIn ==
  ASSUME NEW b, BuiltFrom(b)
  PROVE  PiecesFit(Pieces(b.step, b.combo), Len(b.combo), b.step, b.combo)
<1>1. PICK q, n : q = Pieces(b.step, b.combo) /\ n = Len(b.combo)
  OBVIOUS
<1>2. PICK step, combo : step = b.step /\ combo = b.combo
  OBVIOUS
<1>3. step \in Text /\ combo \in Seq(Text \X (0..MaxIndex)) /\ n = Len(combo)
  BY <1>1, <1>2 DEF BuiltFrom
<1>4. n \in Nat /\ \A k \in 1..n : combo[k] \in Text \X (0..MaxIndex)
  BY <1>3, SeqParts
<1>5. 0..MaxIndex \subseteq Nat
  OBVIOUS
<1>6. combo \in Seq(Text \X Nat)
  <2>1. Text \X (0..MaxIndex) \subseteq Text \X Nat
    BY <1>5
  <2>2. QED
    BY <1>3, <2>1, SeqMonotonic
<1>7. ASSUME NEW k \in 1..n PROVE AxisPiece(combo[k]) \in Text
  <2>1. PICK name, d : name = combo[k][1] /\ d = ToDecimal(combo[k][2])
    OBVIOUS
  <2>2. name \in Text /\ combo[k][2] \in Nat
    BY <1>4, <1>5, <2>1
  <2>3. d \in Text
    BY <2>1, <2>2, DecimalStep, FiguresAreText
  <2>4. Append(name, "=") \in Text
    <3>1. "=" \in Char
      BY JobIdAssumption
    <3>2. QED
      BY <2>2, <3>1, AppendParts DEF Text
  <2>5. QED
    BY <2>1, <2>3, <2>4, TextsBehind DEF AxisPiece
<1>8. q = [i \in 1..(n + 1) |-> IF i = 1 THEN step ELSE AxisPiece(combo[i - 1])]
  BY <1>1, <1>2, <1>3 DEF Pieces
<1>9. q \in [1..(n + 1) -> Text]
  <2>1. \A i \in 1..(n + 1) : i # 1 => i - 1 \in 1..n
    BY <1>4
  <2>2. QED
    BY <1>3, <1>7, <1>8, <2>1
<1>10. q \in Seq(Text) /\ Len(q) = n + 1
  <2>1. PICK l : l = n + 1 /\ l \in Nat
    BY <1>4
  <2>2. q \in [1..l -> Text]
    BY <1>9, <2>1
  <2>3. q \in Seq(Text) /\ Len(q) = l
    BY <2>1, <2>2, FcnList
  <2>4. QED
    BY <2>1, <2>3
<1>11. q \in PieceLists
  <2>1. n + 1 # 0
    BY <1>4
  <2>2. QED
    BY <1>10, <2>1, EmptySeq DEF PieceLists
<1>12. q[1] = step
  <2>1. 1 \in 1..(n + 1)
    BY <1>4
  <2>2. QED
    BY <1>8, <2>1
<1>13. ASSUME NEW k \in 1..n PROVE q[k + 1] = AxisPiece(combo[k])
  <2>1. k + 1 \in 1..(n + 1) /\ k + 1 # 1 /\ (k + 1) - 1 = k
    BY <1>4
  <2>2. QED
    BY <1>8, <2>1
<1>14. PiecesFit(q, n, step, combo)
  BY <1>3, <1>4, <1>6, <1>10, <1>11, <1>12, <1>13 DEF PiecesFit
<1>15. QED
  BY <1>1, <1>2, <1>14

(* What is unambiguous parses as what it was built from.                    *)
LEMMA BuiltParses ==
  ASSUME NEW b, BuiltFrom(b), Unambiguous(b)
  PROVE  ParseJobId(BuildJobId(b.step, b.combo)) = b
<1>1. PICK step, combo, n, q :
        step = b.step /\ combo = b.combo /\ n = Len(b.combo) /\ q = Pieces(b.step, b.combo)
  OBVIOUS
<1>2. /\ n \in Nat /\ q \in PieceLists /\ Len(q) = n + 1 /\ q[1] = step
      /\ step \in Text /\ combo \in Seq(Text \X Nat) /\ n = Len(combo)
      /\ \A k \in 1..n : q[k + 1] = AxisPiece(combo[k])
  BY <1>1, PiecesIn DEF PiecesFit
<1>3. /\ combo \in Seq(Text \X (0..MaxIndex)) /\ ValidateStepId(step)
      /\ \A k \in 1..n : /\ combo[k] \in Text \X (0..MaxIndex)
                         /\ ValidateStepId(combo[k][1]) /\ ~HoldsSeparator(combo[k][1])
      /\ b = [step |-> step, combo |-> combo]
      /\ step # <<>> /\ ~HoldsSeparator(step) /\ (combo # <<>> => EndOf(step) # "_")
  <2>1. combo \in Seq(Text \X (0..MaxIndex)) /\ ValidateStepId(step) /\ b = [step |-> step, combo |-> combo]
    BY <1>1 DEF BuiltFrom
  <2>2. DOMAIN combo = 1..n /\ \A k \in 1..n : combo[k] \in Text \X (0..MaxIndex)
    BY <1>2, <2>1, SeqParts
  <2>3. \A k \in 1..n : ValidateStepId(combo[k][1]) /\ ~HoldsSeparator(combo[k][1])
    BY <1>1, <2>2 DEF BuiltFrom, Unambiguous
  <2>4. ~HoldsSeparator(step) /\ (combo # <<>> => EndOf(step) # "_")
    BY <1>1 DEF Unambiguous, EndOf, Last
  <2>5. step # <<>>
    BY <2>1 DEF ValidateStepId
  <2>6. QED
    BY <2>1, <2>2, <2>3, <2>4, <2>5
<1>4. ASSUME NEW k \in 1..n
      PROVE  /\ AxisPiece(combo[k]) \in Text /\ ParseAxis(AxisPiece(combo[k])) = combo[k]
             /\ combo[k] # None /\ AxisPiece(combo[k]) # <<>> /\ EndOf(AxisPiece(combo[k])) # "_"
             /\ ~HoldsSeparator(AxisPiece(combo[k]))
             /\ AxisText(combo[k]) = Parted(AxisPiece(combo[k]))
  <2>1. PICK axis : axis = combo[k]
    OBVIOUS
  <2>2. PICK name, i : name \in Text /\ i \in 0..MaxIndex /\ axis = <<name, i>>
    <3>1. axis \in Text \X (0..MaxIndex)
      BY <1>3, <2>1
    <3>2. QED
      BY ONLY <3>1
  <2>3. axis[1] = name
    BY <2>2
  <2>4. /\ name \in Text /\ ValidateStepId(name) /\ ~HoldsSeparator(name)
        /\ i \in 0..MaxIndex /\ axis = <<name, i>>
    BY <1>3, <2>1, <2>2, <2>3
  <2>5. /\ AxisPiece(axis) \in Text /\ ParseAxis(AxisPiece(axis)) = axis /\ axis # None
        /\ AxisPiece(axis) # <<>> /\ EndOf(AxisPiece(axis)) # "_"
        /\ ~HoldsSeparator(AxisPiece(axis))
        /\ AxisText(axis) = Parted(AxisPiece(axis))
    BY ONLY <2>4, AxisReadBack
  <2>6. QED
    BY <2>1, <2>5
<1>5. Separable(q)
  <2>1. ASSUME NEW i \in 1..(n + 1)
        PROVE q[i] # <<>> /\ ~HoldsSeparator(q[i]) /\ (n + 1 # 1 => EndOf(q[i]) # "_")
    <3>1. CASE i = 1
      <4>1. n + 1 # 1 => combo # <<>>
        <5>1. n + 1 # 1 => n # 0
          BY <1>2
        <5>2. QED
          BY <1>2, <5>1, EmptySeq
      <4>2. QED
        BY <1>2, <1>3, <3>1, <4>1
    <3>2. CASE i # 1
      <4>1. PICK k \in 1..n : i = k + 1
        <5>1. i - 1 \in 1..n /\ i = (i - 1) + 1
          BY <1>2, <3>2
        <5>2. QED
          BY <5>1
      <4>2. QED
        BY <1>2, <1>4, <4>1
    <3>3. QED
      BY <3>1, <3>2
  <2>2. QED
    BY <1>2, <2>1 DEF Separable
<1>6. PICK s : s = BuildJobId(step, combo)
  OBVIOUS
<1>7. s = JoinOf(q) /\ s \in Text
  <2>1. PICK t : BuildTexts(t, step, combo, n) /\ BuildJobId(step, combo) = FlattenSeq(t)
    BY <1>2, BuildFlat
  <2>2. /\ t \in Seq(Text) /\ Len(t) = n + 1
        /\ t[1] = step /\ \A k \in 1..n : t[k + 1] = AxisText(combo[k])
    BY <2>1 DEF BuildTexts
  <2>3. PICK u : u = PartedTexts(q)
    OBVIOUS
  <2>4. /\ u \in Seq(Text) /\ Len(u) = n + 1
        /\ \A k \in 1..(n + 1) : u[k] = IF k = 1 THEN q[k] ELSE Parted(q[k])
    BY <1>2, <2>3, PieceParts, PartedTextsIn
  <2>5. ASSUME NEW i \in 1..(n + 1) PROVE u[i] = t[i]
    <3>1. CASE i = 1
      BY <1>2, <2>2, <2>4, <3>1
    <3>2. CASE i # 1
      <4>1. PICK k \in 1..n : i = k + 1
        <5>1. i - 1 \in 1..n /\ i = (i - 1) + 1
          BY <1>2, <3>2
        <5>2. QED
          BY <5>1
      <4>2. u[i] = Parted(AxisPiece(combo[k]))
        BY <1>2, <2>4, <3>2, <4>1
      <4>3. QED
        BY <1>4, <2>2, <4>1, <4>2
    <3>3. QED
      BY <3>1, <3>2
  <2>6. u = t
    BY <2>2, <2>4, <2>5, SameList
  <2>7. JoinOf(q) = s
    BY <1>6, <2>1, <2>3, <2>6 DEF JoinOf
  <2>8. s \in Text
    BY <1>1, <1>6, ValidBuild
  <2>9. QED
    BY <2>7, <2>8
<1>8. Split(s) = q
  BY <1>2, <1>5, <1>7, SplitBuilt
<1>9. (n + 1) - 1 = n
  BY <1>2
<1>10. ParseJobId(s) = IF ValidateStepId(q[1]) /\ AxisPieces(q)
                       THEN [step |-> q[1], combo |-> [k \in 1..n |-> ParseAxis(q[k + 1])]] ELSE None
  <2>1. ParseJobId(s) = PartsOf(Split(s), Len(Split(s)) - 1)
    BY <1>7, ParsePieces
  <2>2. Len(Split(s)) - 1 = n
    BY <1>2, <1>8, <1>9
  <2>3. QED
    BY <1>8, <2>1, <2>2 DEF PartsOf
<1>11. AxisPieces(q)
  BY <1>2, <1>4, <1>9 DEF AxisPieces
<1>12. [k \in 1..n |-> ParseAxis(q[k + 1])] = combo
  <2>1. \A k \in 1..n : ParseAxis(q[k + 1]) = combo[k]
    BY <1>2, <1>4
  <2>2. combo = [k \in 1..n |-> combo[k]]
    BY <1>2, SeqParts
  <2>3. QED
    BY <2>1, <2>2
<1>13. QED
  BY <1>1, <1>2, <1>3, <1>6, <1>10, <1>11, <1>12

(* What Python builds means what was asked for exactly when no name holds a *)
(* separator and the step id of a sweep does not end in half of one         *)
(* (jobid.rs:43-57, 66-111, py_export/jobid.rs:20-34).                      *)
THEOREM IdMeaningHolds == Spec => []IdMeansWhatWasBuilt
<1>1. ASSUME AuthorInv PROVE IdMeansWhatWasBuilt
  <2>1. PICK b : b = built
    OBVIOUS
  <2>2. SUFFICES ASSUME b # None PROVE ParseJobId(jid) = b <=> Unambiguous(b)
    BY <2>1 DEF IdMeansWhatWasBuilt
  <2>3. BuiltFrom(b) /\ jid = BuildJobId(b.step, b.combo) /\ jid \in Text
    BY <1>1, <2>1, <2>2 DEF AuthorInv
  <2>4. Unambiguous(b) => ParseJobId(jid) = b
    BY <2>3, BuiltParses
  <2>5. ParseJobId(jid) = b => Unambiguous(b)
    BY <2>2, <2>3, ParsedUnambiguous
  <2>6. QED
    BY <2>4, <2>5
<1>2. QED
  BY <1>1, AuthorInvariant, PTL
=============================================================================
