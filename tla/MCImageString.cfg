CONSTANTS
  Inputs <- MCInputs
  One = 180
  MaxLevel <- MCMaxLevel
  NULL = NULL
SPECIFICATION Spec
INVARIANTS ImageAsDescribed NoLeak HaldInterpolates
