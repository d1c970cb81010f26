SPECIFICATION StatsSpec
CONSTANTS
  NR_TASKS = 3
  DEFAULT_QUANTUM = 1
  NUM_SEM = 1
  MaxPID = 1001
  BUFFER_SIZE = 1
  Char = {97}
  Nul = 97
  Keys = {97}
  Timeouts = {1}
  MaxPending = 1
  SemValues = {0}
  MaxCount = 0
  TickWord = 2
  FirstTick = 1
  LastTick = 2
  Pids = {1001}
INVARIANTS TicksConserved ReadyTimeExact
