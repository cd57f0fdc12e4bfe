\* Two jm processes on the same flow, submitting and ticking at once.
CONSTANTS
  a = a
  b = b
  c = c
  Job = {a, b}
  Proc = {p1, p2}
  SlurmId = {s1, s2, s3}
  None = None
  Flow <- PairFlow
  Cmd = {"submit", "tick"}
  Env = {"resubmit", "unread"}
SPECIFICATION Spec
SYMMETRY Symmetric
INVARIANTS DependenciesFaithful StatusTruthful ReturnedMapFresh
