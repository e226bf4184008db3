SPECIFICATION SceneSpec
CONSTANTS
    w1 = w1
    Together = 3
    w2 = w2
    Wcids = {w1}
    Senders = {c1}
    Ndesc = 4
    FreeThr = 3
    TokenSize = 3
    TokenThr = 1
    MaxSends = 2
    MaxResets = 1
    MaxTries = 1
    MaxChannels = 1
    Removable = {w1}
    Uses <- AllKinds
INVARIANT StationGone
PROPERTIES Drains
CHECK_DEADLOCK FALSE
