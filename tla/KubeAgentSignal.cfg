\* Does a signal end the process?
SPECIFICATION Spec
PROPERTIES SignalEnds
