\* Two volumes, two initiators for exports and for one group; no save is lost.
SPECIFICATION Spec
CONSTANTS
    a = a
    b = b
    v = v
    w = w
    Initiators = {a, b}
    ExportInits = {a, b}
    AuthInits = {a, b}
    AgInits = {a, b}
    Groups = {g}
    LegalNames = {g}
    NoTag = NoTag
    Generated = Generated
    Vols = {v, w}
    Stray = Stray
    LunIds = {0, 1}
    NoLunId = NoLunId
    BadLunId = BadLunId
    InitTypes = {"iscsi", "fc"}
    Sizes = {1}
    NoSize = NoSize
    MaxGen = 1
    MaxLost = 0
VIEW MCView
SYMMETRY MCSymmetry
INVARIANTS GroupUniform OneVolumePerLun RebootKeepsRights
PROPERTIES FailedCallRevokesNothing LossIsLocal GainIsLocal ImplementsDurableMasking
CHECK_DEADLOCK FALSE
