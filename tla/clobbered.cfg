SPECIFICATION Spec
CONSTANTS
    c1 = c1 c2 = c2 c3 = c3 a = a b = b m = m n = n
    None = None Editor = Editor Receipt = Receipt
    Call = {c1, c2}
    Page = {a, b, m, n}
    Requests <- Clobbering
    Start <- MCStart
    FaultKinds = {}
    MaxFaults = 0
    MaxCrashes = 0
    MaxEdits = 0
PROPERTIES MoveOntoNothing
CHECK_DEADLOCK FALSE
