\* A reserve and make_room on a crowded card; engines drop models and fail, the
\* probe and the estimates file fail, coload restarts; one of Ollama's models is
\* configured without its tag, and vLLM's process may be coload's own.
SPECIFICATION LifeSpec
CONSTANTS
  oA = oA  oB = oB  vB = vB  ollama = ollama  vllm = vllm
  c1 = c1  Sweeper = sweeper  None = none
  Clients = {c1}
  Models = {oA, oB, vB}
  Engines = {ollama, vllm}
  EngineOf <- EngineMap
  Elastic = {vllm}
  Untagged = {oB}
  Seed <- Seeds
  Size <- Sizes
  Total = 10  Buffer = 2  Grain = 1
  Reserve = 8  AutoEvict = TRUE  MakeRoom = TRUE
  Ttl = 0  MaxTime = 0
  OobLevels = {0, 5}
  Faults = {"drop", "fail", "probe"}
  Lives = 2  FileFails = TRUE  Files <- MCFiles
INVARIANTS
  SliceNotOverdrawn
  FreeFigureHolds
  OrphansReclaimed
PROPERTIES
  PeaksOnDiskGrow
