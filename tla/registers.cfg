SPECIFICATION Spec
CONSTANTS
  h1 = h1
  h2 = h2
  Names = {a}
  Handles = {h1, h2}
  Values <- MCValues
  HandMade <- MCHandMade
  Low <- MCLow
  High <- MCHigh
  ExactDouble = 8
SYMMETRY Symmetric
INVARIANTS TypeOK FreshHandlesMirror ReadersAgree
PROPERTY ReloadRestores
