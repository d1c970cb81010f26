SPECIFICATION FairSpec
CONSTANTS
  NR_TASKS = 3
  DEFAULT_QUANTUM = 2
  NUM_SEM = 0
  MaxPID = 1001
  BUFFER_SIZE = 1
  Char = {0, 97}
  Nul = 0
  Keys = {97}
  Timeouts <- MinusOneAndTwo
  MaxPending = 1
  SemValues = {}
  MaxCount = 0
PROPERTIES ReadyRuns TimedWaitEnds
