CONSTANT Spellings <- MCSpellings
CONSTANT Normalized <- MCNormalized
CONSTANT Loopback <- MCLoopback
CONSTANT LoopbackNames <- MCNames
CONSTANT Calls <- MCCalls
SPECIFICATION Spec
INVARIANT TypeOK
INVARIANT WritesArePermitted
INVARIANT HostGuard
INVARIANT ExitIsHonest
