\* One initiator, for exports and for a group only access_group_init_add can make;
\* one save of the tree is lost.
SPECIFICATION Spec
CONSTANTS
    a = a
    b = b
    v = v
    w = w
    Initiators = {a}
    ExportInits = {a}
    AuthInits = {}
    AgInits = {a}
    Groups = {h}
    LegalNames = {}
    NoTag = NoTag
    Generated = Generated
    Vols = {v, w}
    Stray = Stray
    LunIds = {0}
    NoLunId = NoLunId
    BadLunId = BadLunId
    InitTypes = {"iscsi"}
    Sizes = {1, 2}
    NoSize = NoSize
    MaxGen = 2
    MaxLost = 1
VIEW MCView
SYMMETRY MCVolSymmetry
INVARIANTS TypeOK NoDanglingExport SoWwnNeverStale
PROPERTIES ImplementsDurableMasking
CHECK_DEADLOCK FALSE
