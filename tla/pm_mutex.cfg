SPECIFICATION Spec
CONSTANTS
    RxPolls = {rx}
    TxPolls = {txw}
    Txs = {tx}
    Users = {mac, ctl}
    Mac = mac
    Acs = {be}
    Nobody = Nobody
    Reset = Reset
    MaxTries = 1
PROPERTIES SleepOnlyUnlocked
