\* Admission and auto-eviction, no reserve, on a box that behaves.
SPECIFICATION Spec
CONSTANTS
  oA = oA  oB = oB  vA = vA  vB = vB  ollama = ollama  vllm = vllm
  c1 = c1  c2 = c2  Sweeper = sweeper  None = none
  Clients = {c1, c2}
  Models = {oA, vA, vB}
  Engines = {ollama, vllm}
  EngineOf <- EngineMap
  Elastic = {vllm}
  Untagged = {}
  Seed <- Seeds
  Size <- Sizes
  Total = 10  Buffer = 2  Grain = 2
  Reserve = 0  AutoEvict = TRUE  MakeRoom = FALSE
  Ttl = 1  MaxTime = 1
  OobLevels = {2, 3, 4}
  Faults = {}
INVARIANTS
  TypeOK
  NoDoubleLoad
  FreeFigureHolds
  EvictsOnlyTracked
  NeverLosesTrack
  RefusalsAreHonest
PROPERTIES
  LoadsStayUnderTheLine
  NoNeedlessEviction
  KeepsPromise
SYMMETRY ClientSymmetry
