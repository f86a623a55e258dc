CONSTANT Plans <- MCPlans
SPECIFICATION Spec
INVARIANT TypeOK
INVARIANT FailureLeavesTargetClean
INVARIANT DifferencesAreReported
