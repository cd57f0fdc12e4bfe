\* Two overlapping ticks.
CONSTANTS
  a = a
  b = b
  c = c
  Job = {a, b}
  Proc = {p1, p2}
  SlurmId = {s1, s2}
  None = None
  Flow <- PairFlow
  Cmd = {"submit", "tick"}
  Env = {}
SPECIFICATION Spec
SYMMETRY Symmetric
PROPERTIES TerminalKept
