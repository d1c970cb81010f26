SPECIFICATION Spec
CONSTANTS
  NR_TASKS = 3
  DEFAULT_QUANTUM = 2
  NUM_SEM = 1
  MaxPID = 1002
  BUFFER_SIZE = 1
  Char = {0, 97}
  Nul = 0
  Keys = {97}
  Timeouts = {1}
  MaxPending = 1
  SemValues = {0, 1}
  MaxCount = 1
INVARIANTS TypeOK OneList StateFitsQueue
PROPERTIES FirstReadyFirstRun
