\* Three callers, three sessions and a close() at any moment.
CONSTANTS
    c1 = c1  c2 = c2  c3 = c3
    Calls = {c1, c2, c3}
    MaxCalls = 1
    MaxHandshakes = 6
    MaxCloses = 1
SPECIFICATION FairSpec
INVARIANTS RightSession DispatchedOnce NoOrphans
PROPERTIES EveryCallEnds
