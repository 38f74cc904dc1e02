SPECIFICATION Spec
CONSTANTS
    c1 = c1 c2 = c2 c3 = c3 a = a b = b m = m n = n
    None = None Editor = Editor Receipt = Receipt
    Call = {c1, c2, c3}
    Page = {a, b, m, n}
    Requests <- MCRequests
    Start <- MCStart
    FaultKinds = {"rename", "sync"}
    MaxFaults = 2
    MaxCrashes = 1
    MaxEdits = 1
SYMMETRY Symmetry
INVARIANTS AckedStays ReceiptMeansLanded SetAllOrNone
PROPERTIES NoStranding MoveWhole
CHECK_DEADLOCK FALSE
