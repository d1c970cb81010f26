SPECIFICATION Spec
CONSTANTS
  NR_TASKS = 4
  TOTAL_PAGES = 12
  NUM_PAG_KERNEL = 2
  NUM_PAG_CODE = 1
  NUM_PAG_DATA = 1
  GuardPages = {1}
  ADDRESS_PAGES = 16
  FRAME_STEP = 2
  StackSizes = {1}
  RegionSizes = {0, 1}
  INT_MAX = 13
  MaxRegions = 3
PROPERTIES ForkKeepsParent
