SPECIFICATION Spec
CONSTANTS
    Callers = {locked, free}
    Locked = {locked}
    Reset = Reset
    NoOne = NoOne
    SeqMod = 3
    RingSize = 2
    RxSize = 2
    MaxCalls = 2
    MaxTries = 2
PROPERTIES AnswersMatched ImplementsCall CallReturns HangNoticed
CHECK_DEADLOCK FALSE
