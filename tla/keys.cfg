SPECIFICATION ReadersSpec
CONSTANTS
  NR_TASKS = 4
  DEFAULT_QUANTUM = 1
  NUM_SEM = 0
  MaxPID = 1002
  BUFFER_SIZE = 2
  Char = {97, 98}
  Nul = 97
  Keys = {97, 98}
  Timeouts = {0, 1}
  MaxPending = 2
  SemValues = {}
  MaxCount = 0
INVARIANTS OneList PendingAccounted CharForReader CursorsAgree
PROPERTIES ImplementsFifo
