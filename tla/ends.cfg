SPECIFICATION TurnFairSpec
CONSTANTS
  t1 = t1 t2 = t2 t3 = t3 fit = fit big = big lean = lean grow = grow
  Key = {fit, big}
  Thread = {t1, t2}
  PermitId = {1, 2, 3, 4}
  AllocNo = {1, 2}
  NoKey = NoKey NoPermit = NoPermit NoRaw = NoRaw NoThread = NoThread
  RawSize <- MCRaw
  TreeSize <- MCTree
  LoadPeak <- MCPeak
  MaxRevision = 1
  Accesses = {"Scan"}
  StageSizes = {}
  Limits = {8}
  Floors = {1}
  MayDrop = {}
  MaxHeld = 2
  RawPins = {}
  MaxTries = 1
  MaxFaults = 0
  PromptPolls = FALSE
INVARIANTS TurnKept
PROPERTIES LeaseEnds SelfBlockedIsBlocked
