SPECIFICATION Spec
CONSTANTS
    Capacities = {0, 3, 4}
    MaxLen = 3
    MaxWritten = 6
INVARIANTS SharedWithoutALock
PROPERTIES RoomIsKept ImplementsFifo
