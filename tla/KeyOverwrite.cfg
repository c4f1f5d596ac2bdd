SPECIFICATION Spec
CONSTANTS
    Keys = {k1, k2}
    Values = {v1}
    Commands = {}
    Enrollers = {e1, e2}
    None = None
    MaxVersions = 0
    MaxRegistered = 0
PROPERTIES KeyKept
