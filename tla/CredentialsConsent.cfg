CONSTANTS
    p1 = p1  p2 = p2
    t1 = t1  t2 = t2  t3 = t3
    work = work  home = home
    Tasks = {t1, t2, t3}
    Processes = {p1, p2}
    Profiles = {work}
    ProcessOf <- MCProcessOf
    Seed <- MCSeed
    DefaultName = work
    Free = Free
    Abandoned = Abandoned
    Workloads <- ConsentWork
    Faults = {"save"}
    MaxFaults = 1
    MaxGrants = 3
    MaxAgeings = 1
    FirstGrants = 1
    MayKeepRefresh = TRUE
    MayOmitRefresh = FALSE
SPECIFICATION FairSpec
PROPERTIES ConsentNeverOverwrites EveryCallEnds
