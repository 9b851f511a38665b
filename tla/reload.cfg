\* A model is evicted between the admission of a request and its arrival.
SPECIFICATION GatewaySpec
CONSTANTS
  oA = oA  vA = vA  vB = vB  ollama = ollama  vllm = vllm
  c1 = c1  c2 = c2  Sweeper = sweeper  None = none
  Clients = {c1, c2}
  Models = {oA, vA, vB}
  Engines = {ollama, vllm}
  EngineOf <- EngineMap
  Elastic = {vllm}
  Untagged = {}
  Seed <- Seeds
  Size <- Sizes
  Total = 10  Buffer = 2  Grain = 1
  Reserve = 0  AutoEvict = TRUE  MakeRoom = FALSE
  Ttl = 0  MaxTime = 0
  OobLevels = {0}
  Faults = {}
  Routes = {"proxy"}
PROPERTIES
  OnlyMediatedLoads
SYMMETRY ClientSymmetry
