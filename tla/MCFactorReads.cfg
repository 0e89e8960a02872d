\* A reader of either implementation beside every writer of an old mixed library.
CONSTANTS
  m = m
  a = a
  b = b
  Columns = {m, a}
  Owner <- MCOwner
  Syms = {s1}
  Cells = {null, v}
  Null = null
  Keep = keep
  Absent = absent
  ManualWriters = {w1}
  MlWriters = {x1}
  Migrators = {}
  Removers = {}
  Free = free
  LegacyColumns = {a}
  Ensured = {a}
  Removable = {m, a}
  Readers = {r1}
SPECIFICATION SpecReads
INVARIANT ReadsLogicalTable
