SPECIFICATION EqFairSpec
CONSTANTS
  Devices = {d1}
  NoDev = NoDev
  Procs = {p1}
  NoProc = NoProc
  Threads = {t1}
  Cmds = {"activate_halt","terminate","shutdown"}
  Calls = {"ERROR"}
  MaxPolls = 1
  CycleDevices = {d1}
  TimedDevices = {}
  Config <- MCConfig
  Offline = TRUE
INVARIANTS HaltIsKnown ShareIsTarget
PROPERTIES EqResumes EqUnloadEnds
CHECK_DEADLOCK FALSE
