SPECIFICATION SceneSpec
CONSTANTS
    Tids = {t1, t2}
    NoTid = NoTid
    SN = 9
    Size = 3
    Timeo = 1
SYMMETRY Symmetry
INVARIANTS WindowInv SessionSound
PROPERTIES ReleaseInOrder LossOnlyDuplicates
