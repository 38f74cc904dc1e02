SPECIFICATION Spec
CONSTANTS
    t1 = t1
    t2 = t2
    t3 = t3
    NoTxn = NoTxn
    Txn = {t1, t2}
    Path <- MCPath
    EditOf <- OwnEdit
    Premises <- MCPremises
    Policies = {"Restore", "Forward"}
    MaxFaults = 0
    MaxCrashes = 2
PROPERTIES ImplementsAtomicStore PremisesStand
CHECK_DEADLOCK FALSE
