----------------------------- MODULE MCListing ------------------------------
(***************************************************************************)
(* A small instance of Listing and ListOutput for TLC: two flows were made *)
(* within a minute, so that their uuids begin alike.                       *)
(***************************************************************************)
EXTENDS ListOutput

CONSTANTS a, b

MCJobsOf == <<<<a, b>>, <<a>>, <<>>>>

Hex(time, rest) == [i \in 1..8 |-> time] \o <<rest>>
MCUuid == [f \in 1..3 |-> IF f = 3 THEN Hex("c", "0") ELSE Hex("b", IF f = 1 THEN "0" ELSE "1")]
MCTagArgs == [f \in 1..3 |->
  IF f = 3 THEN <<>>
  ELSE << <<"set", "=", "b">>, <<"mol", "=", "h2o", "=", " ">>, <<"set", "=", "a">> >>]
MCProgram == [f \in 1..3 |-> [j \in {a, b} |-> "g16"]]
MCSlurmId == [f \in 1..3 |-> [j \in {a, b} |-> IF j = b THEN 8 ELSE IF f = 1 THEN 7 ELSE 9]]

\* What is asked for: everything; by short uuid in upper case; by tag and date;
\* by job; by status.
MCArgs ==
  { NoArgs,
    [NoArgs EXCEPT !.prefix = <<"B", "B">>, !.slurm = 8],
    [NoArgs EXCEPT !.tags = << <<"set", "=", "a">> >>, !.before = 1],
    [NoArgs EXCEPT !.job = b, !.program = "g16", !.after = 1],
    [NoArgs EXCEPT !.status = <<"pd", "queued">>] }

MCFilters == {BuildFilter(args) : args \in MCArgs}
=============================================================================
