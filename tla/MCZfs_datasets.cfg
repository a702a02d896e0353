\* Three names of file systems, two of them of volumes too.
SPECIFICATION Spec
CONSTANTS
    a = a
    b = b
    c = c
    VolNames <- MCVolNames
    FsNames <- MCFsNames
    SnapNames = {s}
    Times = {1}
    NoSnap = NoSnap
    MaxGuid = 4
SYMMETRY MCSymmetry
INVARIANTS TypeOK
PROPERTIES
    KindsKept ErrorKeepsDatasets SnapshotsGoAlone CopiesTakeNoSnapshots
    ImplementsFileStore
