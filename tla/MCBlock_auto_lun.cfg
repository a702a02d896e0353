\* Mappings without a LUN id.
SPECIFICATION Spec
CONSTANTS
    a = a
    b = b
    v = v
    w = w
    Initiators = {a, b}
    ExportInits = {}
    AuthInits = {}
    AgInits = {a}
    Groups = {g}
    LegalNames = {g}
    NoTag = NoTag
    Generated = Generated
    Vols = {v, w}
    Stray = Stray
    LunIds = {0, 1}
    NoLunId = NoLunId
    BadLunId = BadLunId
    InitTypes = {"iscsi"}
    Sizes = {1}
    NoSize = NoSize
    MaxGen = 1
    MaxLost = 0
PROPERTIES AutoLunFindsFreeId
CHECK_DEADLOCK FALSE
