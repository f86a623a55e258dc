CONSTANT Scripts <- MCScripts
SPECIFICATION FairSpec
INVARIANT TypeOK
INVARIANT FateKnown
INVARIANT SuccessMeansLanded
INVARIANT ThirdOutcome
PROPERTY CeilingBoundsRun
PROPERTY ImplementsApplication
