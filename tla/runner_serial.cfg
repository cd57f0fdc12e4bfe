\* One jm process at a time, renders, edits, failures and re-submissions.
CONSTANTS
  a = a
  b = b
  c = c
  Job = {a, b}
  Proc = {p1}
  SlurmId = {s1, s2, s3}
  None = None
  Flow <- EditedFlow
  Cmd = {"submit", "render", "tick"}
  Env = {"resubmit", "abort", "sbatch", "noid", "edit"}
SPECIFICATION Spec
INVARIANTS TypeOK DependenciesFaithful StatusTruthful ReturnedMapFresh EverySubmissionTracked
PROPERTIES ImplementsTracking
SYMMETRY JobSymmetric
