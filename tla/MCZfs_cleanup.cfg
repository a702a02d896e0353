\* A caller's snapshot and a clone of it that fails.
SPECIFICATION Spec
CONSTANTS
    a = a
    b = b
    c = c
    VolNames <- MCVolNames
    FsNames <- MCFsNames
    SnapNames = {s}
    Times = {1}
    NoSnap = NoSnap
    MaxGuid = 3
PROPERTIES FailedCopyKeepsSnapshots
