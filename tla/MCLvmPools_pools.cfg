\* One volume group of targetd's with two thin pools, two names, two LUN ids.
SPECIFICATION Spec
CONSTANTS
    v = v
    w = w
    VGs <- MCVGs
    Configs <- MCConfigs
    ThinPools = {t, u}
    VolNames = {a, b}
    NoPool = NoPool
    LunIds = {i, j}
SYMMETRY MCSymmetry
INVARIANTS TypeOK LunsShowVolumes MappedOnce
PROPERTIES CallsStayInPool ImplementsMasking
