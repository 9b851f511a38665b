\* Every route, nothing evicted but on request, streams of any length.
SPECIFICATION GatewaySpec
CONSTANTS
  oA = oA  vA = vA  vB = vB  ollama = ollama  vllm = vllm
  c1 = c1  c2 = c2  Sweeper = sweeper  None = none
  Clients = {c1, c2}
  Models = {oA, vA, vB}
  Engines = {ollama, vllm}
  EngineOf <- EngineMap
  Elastic = {vllm}
  Untagged = {}
  Seed <- Seeds
  Size <- Sizes
  Total = 10  Buffer = 2  Grain = 1
  Reserve = 0  AutoEvict = FALSE  MakeRoom = FALSE
  Ttl = 0  MaxTime = 0
  OobLevels = {0, 3}
  Faults = {}
  Routes = {"proxy", "load", "unload"}
INVARIANTS
  NoSpuriousFailure
  ProxiesUnlocked
PROPERTIES
  NothingAutoKilled
SYMMETRY ClientSymmetry
