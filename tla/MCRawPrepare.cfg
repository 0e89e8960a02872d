\* The documented three steps over a partial cache of the same or of an older version, which
\* is refreshed, beside an inline run.
CONSTANTS
  Raws = {r1, r2}
  Dates = {1, 2, 3}
  DataDates = {1, 2}
  OldVersions = {1, 2}
  Absent = absent
  Nulls = nulls
  None = none
  Programs = {"m", "o1", "o2", "c", "i"}
  Refreshers = {"o1", "o2", "i"}
  Kind <- KindOf
  Version <- AtTwo
  Batches <- Overlapping
  After <- Prepared
SPECIFICATION Spec
SYMMETRY Symmetry
INVARIANTS ReadsCurrent OrderSuffices
CHECK_DEADLOCK FALSE
