SPECIFICATION KeySpec
CONSTANTS
  NR_TASKS = 3
  DEFAULT_QUANTUM = 2
  NUM_SEM = 0
  MaxPID = 1001
  BUFFER_SIZE = 2
  Char = {0, 97}
  Nul = 0
  Keys = {97}
  Timeouts = {1}
  MaxPending = 2
  SemValues = {}
  MaxCount = 0
INVARIANTS PendingIffReady
