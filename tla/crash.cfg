SPECIFICATION FairSpec
CONSTANTS
    t1 = t1
    t2 = t2
    t3 = t3
    NoTxn = NoTxn
    Txn = {t1, t2}
    Path <- MCPath
    EditOf <- OwnEdit
    Premises <- NoPremises
    Policies = {"Restore", "Forward"}
    MaxFaults = 1
    MaxCrashes = 2
INVARIANTS ImagesBacked AllOrNothing AckedKept FramesMatchDisk
PROPERTIES WaitEnds RecoveryEnds
CHECK_DEADLOCK FALSE
