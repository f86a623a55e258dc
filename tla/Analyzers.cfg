CONSTANTS
  Fixtures <- MCFixtures
  Families <- MCFamilies
  MaxStatements = 4
  MassDML = 3
  Widest = 8
SPECIFICATION Spec
INVARIANT TypeOK
INVARIANT RefusalIsAnError
INVARIANT SameTransactionIsReported
INVARIANT DataRisksAreJudged
INVARIANT MassWritesAreReported
