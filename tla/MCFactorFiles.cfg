\* Two manual and two ML writers, a migration and a removal over an old mixed library;
\* what is removed or padded has no legacy copy.
CONSTANTS
  m = m
  a = a
  b = b
  Columns = {m, a, b}
  Owner <- MCOwner
  Syms = {s1}
  Cells = {null, v}
  Null = null
  Keep = keep
  Absent = absent
  ManualWriters = {w1, w2}
  MlWriters = {x1, x2}
  Migrators = {g1}
  Removers = {d1}
  Free = free
  LegacyColumns = {a}
  Ensured = {b}
  Removable = {m, b}
SPECIFICATION Spec
SYMMETRY Symmetry
INVARIANTS TypeOK FilesInv PaddingHidesNothing
PROPERTIES MigrationInvisible LogicalTableSpec
