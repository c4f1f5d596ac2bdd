\* Two processes, the first with two tasks, two calls each: see MCCredentialsScenarios.
CONSTANTS
    p1 = p1  p2 = p2
    t1 = t1  t2 = t2  t3 = t3
    work = work  home = home
    Tasks = {t1, t2, t3}
    Processes = {p1, p2}
    Profiles = {work, home}
    ProcessOf <- MCProcessOf
    Seed <- MCSeed
    DefaultName = home
    Free = Free
    Abandoned = Abandoned
    Workloads <- MCWorkloads
    Faults = {"save", "lost", "crash", "aside", "damage"}
    MaxFaults = 2
    MaxGrants = 4
    MaxAgeings = 2
    FirstGrants = 1
    MayKeepRefresh = TRUE
    MayOmitRefresh = FALSE
SPECIFICATION Spec
ACTION_CONSTRAINT InScenario
SYMMETRY Alike
INVARIANTS NoReplay FileStaysRefreshable DefaultExists
PROPERTIES NoResurrection OneRotationPerRejection NoLostUpdate
