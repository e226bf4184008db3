SPECIFICATION Spec
CONSTANTS
    N = 3
    Wcids = {w1}
    PidMax = 1
    MaxResets = 1
    MaxTries = 2
    MaxChannels = 1
INVARIANTS Accounted StationGone
PROPERTIES Answered
CHECK_DEADLOCK FALSE
