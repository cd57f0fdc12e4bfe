\* Two processes write scripts at once: jm render between jm submit's write and sbatch.
CONSTANTS
  a = a
  b = b
  c = c
  Job = {a, b}
  Proc = {p1, p2}
  SlurmId = {s1, s2}
  None = None
  Flow <- EditedFlow
  Cmd = {"submit", "render"}
  Env = {"edit"}
SPECIFICATION Spec
INVARIANT ScriptMatchesCommand
