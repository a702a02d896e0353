\* Three names, two names of snapshots, five file systems and snapshots.
SPECIFICATION Spec
CONSTANTS
    Names = {a, b, c}
    SnapNames = {s, t}
    NoSnap = NoSnap
    MaxUuid = 5
SYMMETRY MCSymmetry
INVARIANTS TypeOK SnapshotsOfTheirFs
PROPERTIES ImplementsFileStore
