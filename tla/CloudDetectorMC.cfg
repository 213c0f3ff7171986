\* Two calls of Detect, a Reset, the seven providers and the real deadline.
CONSTANTS
    c1 = c1
    c2 = c2
    Callers = {c1, c2}
    Nobody = Nobody
    None = None
    Budget = 5
    Nets <- SomeNets
    SignalSets <- SomeSignals
    MaxResets = 1
SPECIFICATION Spec
INVARIANTS TypeOK EarliestFound
PROPERTIES CallsReturn DecidesOnce
