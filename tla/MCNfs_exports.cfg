\* Two exports; the administrator may come in between any two steps.
SPECIFICATION Spec
CONSTANTS
    Keys = {k1, k2}
    Requests <- MCRequests
    Lines <- MCLines
    ByHand <- MCByHand
    None = None
SYMMETRY MCSymmetry
INVARIANTS TypeOK BootKeepsExports NothingUnasked LinesReadAsMeant
