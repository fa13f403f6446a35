SPECIFICATION Spec
CONSTANTS
  main = main
  child = child
  Rows <- MCRows
  Inputs <- MCInputs
  Sessions <- MCSessions
  Budget <- MCBudget
  TopEpisodes = 1
  NoRow = NoRow
CHECK_DEADLOCK FALSE
INVARIANTS HumansDecide SubagentIsPrivate WithinBudget
