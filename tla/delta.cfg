SPECIFICATION FairSpec
CONSTANTS
  f = f
  g = g
  absent = absent
  x = x
  y = y
  c1 = c1
  File = {f, g}
  Val = {absent, x, y}
  Absent = absent
  Sub = {c1}
  RingBound = 2
  Unprimed = Unprimed
  Push = Push
  Starts <- MCStarts
  Kinds <- MCKinds
  MaxWrites = 2
  MaxFaults = 1
  MaxReaps = 1
INVARIANTS SeqsGrow NothingUntold AnchorsHold
PROPERTIES CatchesUp SubAnswered
CHECK_DEADLOCK FALSE
