SPECIFICATION FairSpec
CONSTANTS
    Threads = {t1, t2, t3}
    maxblk = 2
    NumTables = 2
    IntMod = 64
    MaxEntries = 4
    Writers = {t1}
    MaxBroken = 1
    NoSlot = NoSlot
INVARIANTS TypeOK WakeupGuaranteed NeverExits
PROPERTIES SomeoneLocks IsRangeLock
CHECK_DEADLOCK FALSE
