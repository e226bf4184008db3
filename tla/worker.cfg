SPECIFICATION WorkerSpec
CONSTANTS
    Schedulers = {napi, stack, own}
INVARIANTS ScheduleKept DisabledQuiet
PROPERTIES WorkDone
