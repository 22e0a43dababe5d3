SPECIFICATION FairSpec
CONSTANTS
  Reloaders <- AllRoles
  MaxThreads = 3
  MaxBad = 1
  MaxRemovals = 1
INVARIANTS ActiveUsable NoLostReload
PROPERTIES ActiveFollowsFiles
CHECK_DEADLOCK FALSE
