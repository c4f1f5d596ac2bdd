\* Four messages of the host; up to two recoveries; one question of the server.
CONSTANTS
    MaxMessages = 4
    MaxSessions = 3
    MaxAsks = 1
    MaxPending = 2
SPECIFICATION FairSpec
INVARIANTS OneReply RunOnce NoWaitCycle
PROPERTIES InitializedFirst KeepsSession EveryTaskSettles
