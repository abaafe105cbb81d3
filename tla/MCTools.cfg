SPECIFICATION ToolsSpec
CONSTANTS
  Sizes <- MCSizes
  Avail <- MCAvail
  Second = 4
  Word = 16
  MaxTime = 2
  STATCOL_MAX = 7
  Stale <- MCStale
  Files <- MCFiles
  Lists <- MCLists
  ListSize = 7
  Freq = 5
  Jitter = 1
  CfgFiles <- MCCfgFiles
  MAX_NUM_THREADS = 3
  UIntSize = 16
  Registered = {"Main_Task"}
  PrintsToReset = 1
  MaxWindows = 2
INVARIANTS
  WholeOrEnd
  SettingsAsAsked
  PeriodsAgree
  FiguresBelong
  SampleIsSnapshot
  SamplesCoverTime
  PlanAsAsked
  SetupUndone
  LoadsAddUp
PROPERTY CollectionEnds
CHECK_DEADLOCK FALSE
