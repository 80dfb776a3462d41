CONSTANTS
  Options <- MCOptions
  Files <- MCFiles
  Adapters <- MCAdapters
  Frames <- MCFrames
  Filters <- MCFilters
  StalePorts <- MCStale
  StackAddress <- MCStack
  MaxFilter = 2
  MaxOpen = 2
  MaxWords = 3
  NULL = NULL
  eth0 = eth0
  conf = conf
  dir = dir
  tcp = tcp
SPECIFICATION Spec
INVARIANT ModesAsDocumented
CHECK_DEADLOCK FALSE
