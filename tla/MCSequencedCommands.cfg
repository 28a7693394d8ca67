SPECIFICATION Spec
CONSTANTS
  FifoSize = 10
  MaxPackets = 2
  Kinds = {"alloc", "allocRead", "gen", "free", "zero", "sync", "query"}
  CompletionKinds = {"free", "sync"}
  MemoryFails = FALSE
  EmptyReads = FALSE
INVARIANTS NoDanglingBuffer TablesAgree SyncedAfterAll
PROPERTIES CommandsEnd
