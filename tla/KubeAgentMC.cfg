\* Every interleaving of the four threads, with and without a signal.
SPECIFICATION Spec
INVARIANTS TypeOK ExitIsClean ShutdownHasReceiver
PROPERTIES EndsWithCollector
