SPECIFICATION LiveSpec
CONSTANTS
    RxPolls = {}
    TxPolls = {}
    Txs = {tx}
    Users = {mac, ctl}
    Mac = mac
    Acs = {be}
    Nobody = Nobody
    Reset = Reset
    Company = 1
    Doing = {"switch", "none"}
    MaxTries = 1
PROPERTIES StoppedWoken UserProgress
CHECK_DEADLOCK FALSE
