\* A request touches a model between the sweep's snapshot and its turn.
SPECIFICATION Spec
CONSTANTS
  oA = oA  oB = oB  vA = vA  vB = vB  ollama = ollama  vllm = vllm
  c1 = c1  c2 = c2  Sweeper = sweeper  None = none
  Clients = {c1}
  Models = {oA}
  Engines = {ollama, vllm}
  EngineOf <- EngineMap
  Elastic = {vllm}
  Untagged = {}
  Seed <- Seeds
  Size <- Sizes
  Total = 10  Buffer = 2  Grain = 1
  Reserve = 0  AutoEvict = TRUE  MakeRoom = FALSE
  Ttl = 1  MaxTime = 1
  OobLevels = {0}
  Faults = {}
PROPERTIES
  SweepStopsOnlyIdle
SYMMETRY ClientSymmetry
