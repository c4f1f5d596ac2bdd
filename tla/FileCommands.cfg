SPECIFICATION MCSpec
CONSTANTS
    Profiles = {"work", "home"}
    c1 = c1
    c2 = c2
    Commands <- MCCommands
    Kinds <- MCKinds
    Environments <- MCEnvironments
    ConfigFiles <- MCConfigFiles
    MaxOutside = 1
    MaxEvents = 3
    BatchSize = 2
    MaxFaults = 1
INVARIANTS ReportsTruthful RightSource ConfirmedTarget
PROPERTIES EveryCommandEnds
