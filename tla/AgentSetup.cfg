CONSTANTS
  Repos <- MCRepos
  Versions = {1, 2}
  Theirs = {"a", "b", "lint", "style"}
  MaxRuns = 2
SPECIFICATION Spec
INVARIANT TypeOK
INVARIANT UserContentSurvives
INVARIANT Settled
