SPECIFICATION SceneSpec
CONSTANTS
    RxPolls = {rx}
    TxPolls = {txw}
    Txs = {tx}
    Users = {mac, ctl}
    Mac = mac
    Acs = {be}
    Nobody = Nobody
    Reset = Reset
    Company = 2
    Doing = {"switch", "monitor", "none"}
    MaxTries = 2
INVARIANTS ChipAwake NobodyForgotten
 
