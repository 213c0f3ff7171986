CONSTANTS
    l0 = l0
    l1 = l1
    l2 = l2
    Lifecycles = {l0, l1}
    First = l0
    Nobody = Nobody
    MaxUpdates = 1
    MayHang = FALSE
SPECIFICATION Spec
INVARIANTS NoOrphan
