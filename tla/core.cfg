SPECIFICATION Spec
CONSTANTS
  t1 = t1 t2 = t2 t3 = t3 fit = fit big = big lean = lean grow = grow
  Key = {big}
  Thread = {t1, t2, t3}
  PermitId = {1, 2, 3}
  AllocNo = {1, 2}
  NoKey = NoKey NoPermit = NoPermit NoRaw = NoRaw NoThread = NoThread
  RawSize <- MCRaw
  TreeSize <- MCTree
  LoadPeak <- MCPeak
  MaxRevision = 2
  Accesses = {"Read"}
  StageSizes = {}
  Limits = {8}
  Floors = {1}
  MayDrop = {}
  MaxHeld = 1
  RawPins = {big}
  MaxTries = 0
  MaxFaults = 1
  PromptPolls = FALSE
SYMMETRY Symmetry
INVARIANTS TypeOK Accounts LeasesCounted WaveLive SingleFlight OwnersCounted
