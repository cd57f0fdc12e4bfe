----------------------------- MODULE MCAuthoring -----------------------------
(***************************************************************************)
(* A small instance of Authoring for TLC: every short name over the        *)
(* characters that matter to the ids, and every short value over those     *)
(* that matter to bash.                                                    *)
(***************************************************************************)
EXTENDS Authoring

\* The sequences over S that are not longer than n.
UpTo(S, n) == UNION {[1..k -> S] : k \in 0..n}

MCChar == STRING
MCReserved == {<<"b">>}

MCStep == UpTo({"a", "_"}, 3) \cup {<<"b">>, <<"a", "-">>, <<"/">>}

Axis == {<<name, i>> : name \in UpTo({"a", "_"}, 2) \cup {<<"A">>, <<"b">>}, i \in {0, 10}}
MCCombo == {<<>>} \cup {<<x>> : x \in Axis \cup {<<<<"a", "_", "_">>, 1>>}}
             \cup {<<x, y>> : x, y \in {z \in Axis : z[2] = 0}}

\* What may follow a step id, and ids that have none.
MCTyped ==
  UpTo({"a", "_", "=", "/"}, 3)
    \cup {<<"a", "_", "_", "a">> \o s : s \in UpTo({"=", "_", "0", "1", "+"}, 4)}
    \cup {<<"b", "_", "_", "a", "=", "0">>, <<"a", "_", "_", "b", "=", "0">>}

String(s) == [type |-> "string", value |-> s]
Integer(n) == [type |-> "integer", value |-> n]
Array(s) == [type |-> "array", value |-> s]

MCParams ==
  {<<>>, << <<<<"-">>, Integer(10)>>, <<<<"_">>, Integer(1)>> >>,
   << <<<<"A">>, String(<<"x">>)>>, <<<<"a">>, String(<<"'">>)>> >>,
   << <<<<"a">>, Array(<<Integer(1), String(<<"x", " ", "'">>)>>)>> >>}
  \cup {<< <<<<"a">>, String(s)>> >> : s \in UpTo({"'", "\\", "$", " "}, 2)}
=============================================================================
