SPECIFICATION Spec
CONSTANTS
  t1 = t1 t2 = t2 t3 = t3 fit = fit big = big lean = lean grow = grow
  Key = {lean, grow}
  Thread = {t1, t2}
  PermitId = {1, 2, 3, 4}
  AllocNo = {1, 2}
  NoKey = NoKey NoPermit = NoPermit NoRaw = NoRaw NoThread = NoThread
  RawSize <- MCRaw
  TreeSize <- MCTree
  LoadPeak <- MCPeak
  MaxRevision = 2
  Accesses = {"Read"}
  StageSizes = {2}
  Limits = {8}
  Floors = {1}
  MayDrop = {}
  MaxHeld = 1
  RawPins = {grow}
  MaxTries = 0
  MaxFaults = 0
  PromptPolls = FALSE
SYMMETRY Symmetry
INVARIANTS NoSecondOverrun LimitHeld OneOversized SlotKept
