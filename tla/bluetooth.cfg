SPECIFICATION SceneSpec
CONSTANTS
    Intfs = 2
    Air = "cvsd16"
    Loads <- SomeLoads
    MaxFaults = 1
    Blocks = 2
    Retries = 2
    MaxEvents = 1
INVARIANTS
    RxPosted
    AutoSuspendQuiet
    CountBalanced
    DeferredHasWaker
    IsoFollowsLinks
    SetupSound
    ResetNotRefused
CHECK_DEADLOCK FALSE
