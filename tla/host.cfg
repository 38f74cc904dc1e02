SPECIFICATION Spec
CONSTANTS
  t1 = t1 t2 = t2 t3 = t3 fit = fit big = big lean = lean grow = grow
  Key = {big}
  Thread = {t1, t2}
  PermitId = {1, 2, 3, 4}
  AllocNo = {1, 2}
  NoKey = NoKey NoPermit = NoPermit NoRaw = NoRaw NoThread = NoThread
  RawSize <- MCRaw
  TreeSize <- MCTree
  LoadPeak <- MCPeak
  MaxRevision = 1
  Accesses = {"Read"}
  StageSizes = {}
  Limits = {0, 8}
  Floors = {1, 3}
  MayDrop = {big}
  MaxHeld = 1
  RawPins = {big}
  MaxTries = 1
  MaxFaults = 1
  PromptPolls = FALSE
SYMMETRY Symmetry
INVARIANTS TrimmedAtRest BodyStays
