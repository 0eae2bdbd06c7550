CONSTANTS
  Profiles <- TwoProfiles
  Lengths = {1, 2}
  Errors = {FALSE, TRUE}
  UBSIZE = 2
  Wraps = {"msg", "err"}
  Archives = TRUE
  Failures = {"write", "short", "trunc", "cp", "ckpt"}
  MaxMsgs = 3
  MaxTime = 4
  MaxFailed = 1
SPECIFICATION Spec
CHECK_DEADLOCK FALSE
INVARIANTS   ArchiveComplete
