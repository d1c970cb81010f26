SPECIFICATION Spec
CONSTANTS
  ADDRESSES = 64
  PAGE_SIZE = 4
  USER_FIRST_PAGE = 1
  NUM_PAG_CODE = 1
  NUM_PAG_DATA = 4
  NUM_COLUMNS = 2
  NUM_ROWS = 2
  FIRST_ROW = 1
  TAM_BUFFER = 3
  Newlines = {6, 11}
  Pointers = {0, 3, 5, 8, 21, 60}
  Lengths <- SomeLengths
  ClockCells = {1}
  Messages <- SomeMessages
  STATS_SIZE = 6
  Colors = {1, 31}
  MaxCalls = 2
INVARIANTS TypeOK PrintsTheBuffer ShowsUserBytes StoresInUserPages CursorStays TextInOrder
