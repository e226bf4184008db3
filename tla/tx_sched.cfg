SPECIFICATION SceneSpec
CONSTANTS
    w1 = w1
    Together = 4
    w2 = w2
    Wcids = {w1, w2}
    Senders = {c1}
    Ndesc = 4
    FreeThr = 3
    TokenSize = 4
    TokenThr = 1
    MaxSends = 3
    MaxResets = 1
    MaxTries = 2
    MaxChannels = 1
    Removable = {}
    Uses <- TwoStations
INVARIANTS NoFrameForgotten BlockedReleased NoOverrun TornQuiet
CHECK_DEADLOCK FALSE
