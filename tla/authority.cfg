SPECIFICATION FairSpec
CONSTANTS
  p1 = p1
  p2 = p2
  Proc = {p1, p2}
  Watched = {p1}
  None = None
  Door = Door
  Misses = 2
  MaxEpochs = 3
  MaxBeats = 2
  MaxHangs = 1
  MaxFaults = 1
CHECK_DEADLOCK FALSE
INVARIANTS RecoveredBeforeOpen EpisodeTold BeatingNotDeclared
PROPERTIES ServesOrLeaves
