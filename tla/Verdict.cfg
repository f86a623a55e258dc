CONSTANT unique = unique
CONSTANT orphans = orphans
CONSTANT Facts <- MCFacts
CONSTANT Fixtures <- MCFixtures
CONSTANT Reports <- MCReports
SPECIFICATION Spec
INVARIANT TypeOK
INVARIANT PassIsEarned
INVARIANT FailSaysWhy
INVARIANT CapIsActionable
