\* Overlapping writers, one of them jm new, a reader, crashes and power losses.
CONSTANTS
  Writer = {w1, w2}
  NewWriter = {w2}
  Reader = {r1}
  Body = {x, y}
  Tmp = {t1, t2, t3}
  None = None
SPECIFICATION Spec
INVARIANT TmpCleaned
PROPERTIES IsRegister
