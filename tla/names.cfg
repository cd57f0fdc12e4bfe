\* Step ids of up to three characters with up to two axes, typed ids of up to
\* eight, and values of up to two of the characters bash treats apart.
CONSTANTS
  None = None
  MaxIndex = 11
  Char <- MCChar
  Reserved <- MCReserved
  Step <- MCStep
  Combo <- MCCombo
  Typed <- MCTyped
  Params <- MCParams
SPECIFICATION Spec
INVARIANTS TypeOK IdMeansWhatWasBuilt ParsedIdIsName PlannedJobsRender ScriptExportsAuthored
