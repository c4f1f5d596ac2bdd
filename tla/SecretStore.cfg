SPECIFICATION Spec
CONSTANTS
    Keys = {k1, k2, k3}
    Values = {v1, v2}
    Commands = {c1, c2}
    Enrollers = {e1}
    None = None
    MaxVersions = 2
    MaxRegistered = 1
INVARIANTS RightReaders
PROPERTIES CarriesReadersOver
SYMMETRY Symmetry
CONSTRAINT EnrolledFirst
