\* The documented three steps with a new version over a cache of the old one.
CONSTANTS
  Raws = {r1, r2}
  Dates = {1, 2, 3}
  DataDates = {1, 2}
  OldVersions = {1, 2}
  Absent = absent
  Nulls = nulls
  None = none
  Programs = {"m", "o1", "o2", "c"}
  Refreshers = {}
  Kind <- KindOf
  Version <- AtTwo
  Batches <- Overlapping
  After <- Prepared
SPECIFICATION Spec
INVARIANTS PreparedVersionsMatch
CHECK_DEADLOCK FALSE
