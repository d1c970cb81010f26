SPECIFICATION FairSpec
CONSTANTS
  TOTAL_PAGES = 10
  FirstPage = 3
  Sizes <- AskedSizes
INVARIANTS FirstFit
PROPERTY Terminates
