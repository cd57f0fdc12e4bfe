------------------------------ MODULE MCDoctor ------------------------------
(***************************************************************************)
(* A small instance of Doctor for TLC.                                     *)
(***************************************************************************)
EXTENDS Doctor

CONSTANTS logs, raw, long, short

Config1(partition, log, dep) == [partition |-> partition, log |-> log, dependency |-> dep]
a == Step1
b == Step2

Plain == Config1(long, None, None)
Bare  == Config1(None, None, None)
Odd   == Config1(Wrong, None, None)

\* Two jobs, with their parents and configs.
Two(pa, pb, ca, cb) ==
  [jobs |-> {a, b},
   parents |-> [j \in {a, b} |-> IF j = a THEN pa ELSE pb],
   config |-> [j \in {a, b} |-> IF j = a THEN ca ELSE cb]]

MCFlowFile ==
  { Absent, Broken, FlowTemplate,
    Two(<<>>, <<a>>, Bare, Config1(long, logs, None)),
    Two(<<b>>, <<a>>, Plain, Plain),
    Two(<<>>, <<Ghost>>, Plain, Plain),
    Two(<<>>, <<>>, Config1(long, None, raw), Odd),
    [jobs |-> {a}, parents |-> [j \in {a} |-> <<>>], config |-> [j \in {a} |-> Config1(long, None, raw)]] }

MCPlanFile == {Absent, Broken, {a}, {a, b}}

MCCommonFile ==
  { Absent, Broken,
    Config1(short, logs, None), Config1(None, None, raw) }
=============================================================================
