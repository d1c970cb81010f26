SPECIFICATION MCSpec
CONSTANTS
  ListHead = {readyqueue, getKey_blocked}
  Entry = {e1, e2, e3}
  readyqueue = readyqueue
  getKey_blocked = getKey_blocked
  Slot = {s1, s2, s3, s4}
  task1 = s1
  NULL = NULL
  Budget = 4
INVARIANTS WellLinked SweepVisitsAll
PROPERTIES ImplementsLists SweepEnds
