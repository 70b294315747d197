SPECIFICATION Spec
CONSTANTS
  c0 = c0
  c1 = c1
  delay = delay
  sched = sched
  NoLock = NoLock
  Cores <- MCCores
  Locks <- MCLocks
  Rank <- MCRank
  MaxDepth = 3
SYMMETRY CoreSymmetry
INVARIANTS MutualExclusion NoSelfDeadlock NoCircularWait IrqMaskMatchesSections
CHECK_DEADLOCK TRUE
