CONSTANTS
  good = good
  broken = broken
  stray = stray
  static = static
  test = test
  Trees <- MCTrees
  Checks <- MCChecks
  Reads <- MCReads
  Passes <- MCPasses
  Refuses <- MCRefuses
  Jobs <- MCJobs
  Suite = test
  Commands <- MCCommands
  Budgets <- MCBudgets
SPECIFICATION Spec
INVARIANTS VouchedForWasChecked GreenIsOfHead
