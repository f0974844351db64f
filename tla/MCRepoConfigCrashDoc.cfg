SPECIFICATION Spec
CONSTANTS
    Callers = {c1, c2}
INVARIANTS
    NoCrash
CHECK_DEADLOCK FALSE
