SPECIFICATION Spec
CONSTANTS
    Callers = {c1, c2}
INVARIANTS
    NoEmptyAnswer
CHECK_DEADLOCK FALSE
