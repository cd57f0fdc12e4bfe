\* A flow whose only edge is afterany.
CONSTANTS
  a = a
  b = b
  c = c
  Job = {a, b}
  Proc = {p1}
  SlurmId = {s1, s2}
  None = None
  Flow <- PairAnyFlow
  Cmd = {"submit", "tick"}
  Env = {}
SPECIFICATION Spec
INVARIANTS SkipNeedsAfterok
