CONSTANTS
  None = none
  Failed = failed
  Torn = torn
  Absent = absent
  alpha = alpha
  beta = beta
  gamma = gamma
  vol = vol
  ret = ret
  fct = fct
  MonthLen = 3
  Grace = 1
  Configs <- MCConfigs
  DataDates <- MCDataDates
  Sessions <- MCSessions
  Groups <- MCGroups
  MaxResident = 2
  TaskDays = 3
  MlRegistrations <- MCMlRegistrations
  CodeRegistries <- MCCodeRegistries
  PlanConfigs <- MCPlanConfigs
  Libraries <- MCLibraries
SPECIFICATION Spec
INVARIANTS NoLookAhead NewestModel ValuesFaithful RunCompletes StatefulInOrder
PROPERTIES RegistryKept
CHECK_DEADLOCK FALSE
