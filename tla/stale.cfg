SPECIFICATION Spec
CONSTANTS
  note = note config = config
  reader = reader door = door detector = detector borrower = borrower
  Member = {note, config}
  Config = config
  Reader = {reader}
  Door = {}
  Detector = {}
  Borrower = {borrower}
  StreamCap = 2
  DirtyCap = 1
  MaxEdits = 1
  MaxAsks = 3
  MaxFaults = 1
INVARIANTS VouchedEveryEdit
CHECK_DEADLOCK FALSE
