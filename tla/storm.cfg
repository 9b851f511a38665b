\* Everything that can go wrong does, on a smaller card.
SPECIFICATION FairSpec
CONSTANTS
  oA = oA  oB = oB  vA = vA  vB = vB  ollama = ollama  vllm = vllm
  c1 = c1  c2 = c2  Sweeper = sweeper  None = none
  Clients = {c1}
  Models = {oA, vA}
  Engines = {ollama, vllm}
  EngineOf <- EngineMap
  Elastic = {vllm}
  Untagged = {}
  Seed <- Seeds
  Size <- Sizes
  Total = 6  Buffer = 1  Grain = 1
  Reserve = 5  AutoEvict = TRUE  MakeRoom = TRUE
  Ttl = 1  MaxTime = 1
  OobLevels = {0, 3}
  Faults = {"oob", "direct", "drop", "down", "health", "silent", "fail", "lost", "probe"}
INVARIANTS
  OneLoadAtATime
  EvictsOnlyTracked
PROPERTIES
  EveryCallAnswered
  IdleEventuallyStopped
