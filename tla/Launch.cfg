\* Every outcome of fork, TRACEME and exec; every command in both debuggers.
SPECIFICATION FairSpec
INVARIANTS TypeOK OneReader NoOrphan WaitsForSomething
PROPERTY LaunchFailureEnds
