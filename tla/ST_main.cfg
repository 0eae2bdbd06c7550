SPECIFICATION FairSpec
CONSTANTS
  Writers = {0, 1}
  r1 = r1
  r2 = r2
  Readers <- MCReaders
  Lba <- MCLba
  RuleFiles <- Main
  MaxPass = 2
  MaxErr = 1
INVARIANTS ContextsAllocated   LapCoversZone StaysInside
PROPERTIES ReadersFinish ExitEnds
CHECK_DEADLOCK FALSE
