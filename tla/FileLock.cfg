\* Three clients, the faults of the environment: safety, the refinement of the
\* abstract lock, and liveness under FairSpec.
CONSTANTS
    c1 = c1  c2 = c2  c3 = c3
    Clients = {c1, c2, c3}
    Absent = Absent
    Free = Free
    Abandoned = Abandoned
    StopFirst = TRUE
    MaxCrashes = 1
    MaxRetirements = 1
    MaxMarkers = 1
SPECIFICATION FairSpec
INVARIANTS MutualExclusion
PROPERTIES OthersRespected ImplementsService WaiterAnswered
CHECK_DEADLOCK TRUE
