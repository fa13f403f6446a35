\* Two executions, one mapping, one editor, a new day or month.
SPECIFICATION Spec
CONSTANTS
  Runs = {r1, r2}
  Keys = {k1}
  Editors = {e1}
  Budgets = {1, 2}
  MaxCost = 2
  MaxDays = 1
  MaxCrashes = 1
  None = None
SYMMETRY MCSymmetry
INVARIANTS OverspendIsBounded
PROPERTIES CancelledStays
