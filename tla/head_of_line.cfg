\* Ollama is down while a vLLM model is idle.
SPECIFICATION OrderedFairSpec
CONSTANTS
  oA = oA  vA = vA  ollama = ollama  vllm = vllm
  c1 = c1  Sweeper = sweeper  None = none
  Clients = {c1}
  Models = {oA, vA}
  Engines = {ollama, vllm}
  EngineOf <- EngineMap
  Elastic = {vllm}
  Untagged = {}
  Seed <- Seeds
  Size <- Sizes
  Total = 10  Buffer = 2  Grain = 1
  Reserve = 0  AutoEvict = TRUE  MakeRoom = FALSE
  Ttl = 1  MaxTime = 1
  OobLevels = {0}
  Faults = {"down"}
PROPERTIES
  OthersStillStopped
