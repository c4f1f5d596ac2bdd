SPECIFICATION MCSpec
CONSTANTS
    Profiles = {"work", "home"}
    c1 = c1
    c2 = c2
    Commands <- MCCommands
    Kinds <- MCKinds
    Environments <- MCEnvironments
    ConfigFiles <- MCConfigFiles
    MaxOutside = 1
    MaxEvents = 1
    BatchSize = 1
    MaxFaults = 0
INVARIANTS RememberAsUploader
