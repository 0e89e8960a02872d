\* Every selection of two or three of nine factors, three ranges of dates with batches of one
\* or two dates and factors; one replacement of a statement file.
CONSTANTS
  OpenDates <- Calendar
  Factors <- Registry
  PanelData = {"pv", "size"}
  BarraData = {"size"}
  Statement = "income"
  Runs <- SmallRuns
  FileYears <- Years
  MaxUpdates = 1
  None = none
SPECIFICATION Spec
INVARIANTS ViewsAsDeclared ValuesAsAlone SourcesCurrent
CHECK_DEADLOCK FALSE
