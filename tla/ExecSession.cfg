SPECIFICATION Spec
CONSTANTS
    Traffic = 2
    Cap = 1
INVARIANTS TypeOK
PROPERTIES KeepsPromise SessionsEnd
CHECK_DEADLOCK FALSE
