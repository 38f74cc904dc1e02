SPECIFICATION Spec
CONSTANTS
  note = note config = config
  reader = reader door = door detector = detector borrower = borrower
  Member = {note, config}
  Config = config
  Reader = {reader}
  Door = {door}
  Detector = {detector}
  Borrower = {borrower}
  StreamCap = 2
  DirtyCap = 1
  MaxEdits = 1
  MaxAsks = 2
  MaxFaults = 1
INVARIANTS VouchedCurrent VouchedLawful StaleIsOwed
CHECK_DEADLOCK FALSE
