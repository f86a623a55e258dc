CONSTANT p = p
CONSTANT q = q
CONSTANT Procs <- MCProcs
CONSTANT HostOf <- OneHost
CONSTANT Pids = {1, 2}
CONSTANT MaxRuns = 2
SPECIFICATION FairSpec
INVARIANT TypeOK
INVARIANT HoldsItsDatabase
INVARIANT OrphansAreReported
INVARIANT DropIsNeverRefused
PROPERTY InterruptEnds
