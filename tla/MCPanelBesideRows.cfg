\* A panel-only factor whose dataset another provider batch reads by rows.
CONSTANTS
  OpenDates <- Calendar
  Factors <- Registry
  PanelData = {"pv", "size"}
  BarraData = {"size"}
  Statement = "income"
  Runs <- RowsBesidePanel
  FileYears <- Years
  MaxUpdates = 0
  None = none
SPECIFICATION Spec
INVARIANTS PanelsServed
CHECK_DEADLOCK FALSE
