\* Every interleaving of two collectors, a check that restarts, and Stop.
CONSTANTS
    l0 = l0
    l1 = l1
    l2 = l2
    Lifecycles = {l0, l1}
    First = l0
    Nobody = Nobody
    MaxUpdates = 1
    MayHang = TRUE
SPECIFICATION Spec
INVARIANTS TypeOK WaitGroupExact NoCollectorAfterWait NoAssignmentAfterStop
PROPERTIES StopEnds Supervises
