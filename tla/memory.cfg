SPECIFICATION Spec
CONSTANTS
  NR_TASKS = 3
  TOTAL_PAGES = 9
  NUM_PAG_KERNEL = 3
  NUM_PAG_CODE = 1
  NUM_PAG_DATA = 1
  GuardPages = {2}
  ADDRESS_PAGES = 16
  FRAME_STEP = 1
  StackSizes <- Stacks
  RegionSizes = {0, 10}
  INT_MAX = 10
  MaxRegions = 2
INVARIANTS FramesExclusive KernelAndCodeMapped AreasKept NoFrameLost StaleStaysHome OwnRegionsListed
PROPERTIES FailedForkKeepsData
