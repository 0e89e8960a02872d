\* A reader of either implementation while an old mixed file is migrated.
CONSTANTS
  m = m
  a = a
  b = b
  Columns = {m, a}
  Owner <- MCOwner
  Syms = {s1}
  Cells = {null, v}
  Null = null
  Keep = keep
  Absent = absent
  ManualWriters = {}
  MlWriters = {}
  Migrators = {g1}
  Removers = {}
  Free = free
  LegacyColumns = {a}
  Ensured = {a}
  Removable = {m, a}
  Readers = {r1}
SPECIFICATION SpecReads
INVARIANTS ReadsLogicalTable
