\* The instance of names.cfg.
CONSTANTS
  None = None
  MaxIndex = 11
  Char <- MCChar
  Reserved <- MCReserved
  Step <- MCStep
  Combo <- MCCombo
  Typed <- MCTyped
  Params <- MCParams
SPECIFICATION Spec
INVARIANT AxesKeptApart
