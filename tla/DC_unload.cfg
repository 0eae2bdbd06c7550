SPECIFICATION FairSpec
CONSTANTS
  Devices = {d1}
  NoDev = NoDev
  Procs = {p1}
  NoProc = NoProc
  Threads = {t1, t2}
  Cmds = {"suspend", "activate", "terminate", "shutdown"}
  Calls = {"ERROR"}
  MaxPolls = 1
  CycleDevices = {d1}
  TimedDevices = {d1}
INVARIANTS UnloadLeavesNone TerminateIsNoError 
PROPERTIES UnloadEnds
CHECK_DEADLOCK FALSE
