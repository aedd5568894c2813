\* A read answered with a user error while it tries the half-open circuit.
SPECIFICATION Spec
CONSTANTS
    NoCall = NoCall
    Calls = {r1, r2, w1}
    Writes = {w1}
    Threshold = 2
    Slots = 2
    MaxAttempts = 2
    MaxTokens = 2
INVARIANT UserErrorsDoNotDegrade
CHECK_DEADLOCK FALSE
