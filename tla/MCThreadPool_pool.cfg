\* Three workers: one runs, one owns the idle lock, one is queued; a queue that
\* grows by one slot at a time, the second task waits for the first.
SPECIFICATION Spec
CONSTANTS
  Workers = {w1, w2, w3}
  NumTasks = 2
  Deps <- ChainDeps
  ChunkSize = 1
  MaxSlots = 3
INVARIANTS PoolInv SleepsOnlyWhenIdle SlotExclusive RunsAfterDeps
PROPERTIES TasksRun JoinEnds
CHECK_DEADLOCK FALSE
