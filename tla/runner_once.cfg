\* One submission of three jobs, then ticks: SLURM at its worst, no crash.
CONSTANTS
  a = a
  b = b
  c = c
  Job = {a, b, c}
  Proc = {p1}
  SlurmId = {s1, s2, s3}
  None = None
  Flow <- TripleFlow
  Cmd = {"submit", "effective", "tick"}
  Env = {"sbatch", "noid", "lossy", "requeue", "cancel"}
SPECIFICATION FairSpec
INVARIANTS TickSettles SkippedNeverRuns
PROPERTIES EverySubmissionSettles ImplementsTracking
