-------------------------------- MODULE JobId --------------------------------
(***************************************************************************)
(* The ids of jobs (src/src/jobid.rs): a step id, and for each axis of a   *)
(* sweep a name and an index, "opt__basis=0__charge=2".                    *)
(*                                                                         *)
(* A string is a sequence of members of Char: "a" and "b" stand for the    *)
(* lower-case letters, "A" and "B" for the upper-case ones; "+", "/", "."  *)
(* and the rest are refused somewhere.                                     *)
(***************************************************************************)
EXTENDS Integers, Sequences, FiniteSets, SequencesExt

CONSTANTS
  Char,         \* the characters
  Reserved,     \* RESERVED_IDS
  MaxIndex,     \* the greatest usize
  None

Digit == <<"0", "1", "2", "3", "4", "5", "6", "7", "8", "9">>
Alphanumeric == {"a", "b", "A", "B"} \cup Range(Digit)

\* What parse_job_id returns, with the error None.
Parts == [step: Seq(Char), combo: Seq(Seq(Char) \X Nat)]

ASSUME JobIdAssumption ==
  /\ MaxIndex \in Nat
  /\ Alphanumeric \cup {"_", "-", "=", "+"} \subseteq Char
  /\ \A r \in Reserved : r \in Seq(Char) /\ "=" \notin Range(r)
  /\ None \notin Nat \cup Seq(Char) \cup Parts \cup (Seq(Char) \X Nat)

\* usize::to_string, and str::parse::<usize>, which takes a plus and leading
\* zeros; None when there is no digit, another character, or an overflow.
ToDecimal(n) ==
  LET text[k \in 0..n] == IF k < 10 THEN <<Digit[k + 1]>>
                          ELSE Append(text[k \div 10], Digit[(k % 10) + 1])
  IN  text[n]

Digits(s) == IF s # <<>> /\ Head(s) = "+" THEN Tail(s) ELSE s

ParseIndex(s) ==
  LET d == Digits(s)
      value[k \in 0..Len(d)] ==
        IF k = 0 THEN 0
        ELSE 10 * value[k - 1] + (CHOOSE i \in DOMAIN Digit : Digit[i] = d[k]) - 1
  IN  IF d # <<>> /\ Range(d) \subseteq Range(Digit) /\ value[Len(d)] <= MaxIndex
      THEN value[Len(d)] ELSE None

ValidStepIdChar == Alphanumeric \cup {"_", "-"}
ValidJobIdChar == ValidStepIdChar \cup {"="}

\* Mutants: the characters are not looked at, or the reserved words are not.
ValidateStepIdLoosely(s) == s # <<>> /\ s \notin Reserved
ValidateStepIdChars(s) == s # <<>> /\ Range(s) \subseteq ValidStepIdChar

ValidateStepId(s) == s # <<>> /\ Range(s) \subseteq ValidStepIdChar /\ s \notin Reserved

\* str::split("__"): the separators are found from the left and do not overlap.
Separators(s) ==
  LET found[i \in 0..Len(s)] ==
        i \in 1..(Len(s) - 1) /\ s[i] = "_" /\ s[i + 1] = "_" /\ ~found[i - 1]
  IN  {i \in 1..Len(s) : found[i]}

\* Round i puts character i into the last piece; a separator begins a new one.
Split(s) ==
  LET cuts == Separators(s)
      pieces[i \in 0..Len(s)] ==
        IF i = 0 THEN << <<>> >>
        ELSE LET before == pieces[i - 1] IN
             IF i \in cuts THEN Append(before, <<>>)
             ELSE IF i - 1 \in cuts THEN before
             ELSE [before EXCEPT ![Len(before)] = Append(@, s[i])]
  IN  pieces[Len(s)]

\* An axis <<name, index>>, or None, of the piece after a separator.
ParseAxis(piece) ==
  LET eq == {i \in DOMAIN piece : piece[i] = "="}
      pos == CHOOSE i \in eq : \A k \in eq : i <= k
      name == SubSeq(piece, 1, pos - 1)
      index == ParseIndex(SubSeq(piece, pos + 1, Len(piece)))
  IN  IF eq # {} /\ ValidateStepId(name) /\ index # None THEN <<name, index>> ELSE None

\* Mutant: no separator before the first axis.
BuildJobIdJoined(step, combo) ==
  step \o FlattenSeq([k \in DOMAIN combo |->
            (IF k = 1 THEN <<"_">> ELSE <<"_", "_">>)
              \o combo[k][1] \o <<"=">> \o ToDecimal(combo[k][2])])

\* build_job_id of a step id and a sequence of axes.
BuildJobId(step, combo) ==
  step \o FlattenSeq([k \in DOMAIN combo |->
            <<"_", "_">> \o combo[k][1] \o <<"=">> \o ToDecimal(combo[k][2])])

\* parse_job_id: the step id and the axes, or None.
ParseJobId(s) ==
  LET pieces == Split(s)
      combo == [k \in DOMAIN Tail(pieces) |-> ParseAxis(pieces[k + 1])]
  IN  IF ValidateStepId(Head(pieces)) /\ \A k \in DOMAIN combo : combo[k] # None
      THEN [step |-> Head(pieces), combo |-> combo] ELSE None

\* Mutant: only the characters are looked at.
ValidateJobIdChars(s) == s # <<>> /\ Range(s) \subseteq ValidJobIdChar

ValidateJobId(s) == s # <<>> /\ Range(s) \subseteq ValidJobIdChar /\ ParseJobId(s) # None
=============================================================================
