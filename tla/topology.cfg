\* Every flow of four jobs with at most two parent edges each.
CONSTANTS
  N = 4
  MaxParents = 2
SPECIFICATION Spec
INVARIANTS OrderSound OkIffOrderable RemainingBlocked
CHECK_DEADLOCK FALSE
