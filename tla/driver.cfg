SPECIFICATION SceneSpec
CONSTANTS
    Regions = 1
    MaxFaults = 2
    Tries = 2
    MaxFlight = 2
    MaxSuspends = 2
    NoSta = NoSta
    Aps = {ap}
    Stas = {wlan}
    Peers = {p, q}
    Records = 2
    Scenes <- SomeScenes
SYMMETRY Symmetry
INVARIANTS
    SemReturned
    SleepExclusive
    NapiBalanced
    DataPathUp
    OffChannelEnds
    TablesRestored
    NumbersMeet
CHECK_DEADLOCK FALSE
