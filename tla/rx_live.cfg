SPECIFICATION LiveSpec
CONSTANTS
    Tids = {t1}
    NoTid = NoTid
    SN = 6
    Size = 2
    Timeo = 1
PROPERTIES HeadKeepsAdvancing
