SPECIFICATION Spec
CONSTANTS
  NR_TASKS = 4
  DEFAULT_QUANTUM = 1
  NUM_SEM = 1
  MaxPID = 1003
  BUFFER_SIZE = 2
  Char = {0, 97}
  Nul = 0
  Keys = {}
  Timeouts = {}
  MaxPending = 0
  SemValues <- MinusOneAndOne
  MaxCount = 1
INVARIANTS NoTaskLost RunsInOwnSpace MasterAlive WaitersCounted CorruptedByNegativeValue PidFindsTask
PROPERTIES OnlyLoneYieldCrashes ImplementsSemaphore
