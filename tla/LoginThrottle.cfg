SPECIFICATION Spec
CONSTANTS
    k1 = k1
    Logins = {l1, l2, l3, l4, l5}
    Keys = {k1}
    KeyOf <- OneKey
    Limit = 2
    Window = 2
    Concurrency = 2
    MaxNow = 4
SYMMETRY LoginSymmetry
INVARIANTS GuessesBounded
PROPERTIES ThrottledForCause
CHECK_DEADLOCK FALSE
