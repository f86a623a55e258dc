CONSTANTS
  Plans = {}
  Runs <- MCRuns
  Short = 2
  Grain = 2
  Draws = 2
  Widest = 64
  DefaultMaxCells = 20
SPECIFICATION HydrateSpec
INVARIANT HydrateTypeOK
INVARIANT WithinBudget
INVARIANT RowsFitTheSchema
INVARIANT DifferencesAreTold
INVARIANT IdentityContinues
