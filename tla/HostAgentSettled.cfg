\* Two restarts, none of them while a collector is still starting.
CONSTANTS
    l0 = l0
    l1 = l1
    l2 = l2
    Lifecycles = {l0, l1, l2}
    First = l0
    Nobody = Nobody
    MaxUpdates = 2
    MayHang = FALSE
SPECIFICATION SettledSpec
SYMMETRY Symmetry
INVARIANTS NoOrphan RunsCurrentConfig RunsOwnConfig
PROPERTIES SupervisesStrictly
