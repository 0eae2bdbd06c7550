SPECIFICATION FairSpec
CONSTANTS
  Devices = {d1, d2}
  NoDev = NoDev
  Procs = {p1, p2}
  NoProc = NoProc
  Threads = {t1}
  Cmds = {"test_activate_halt", "coe", "soe", "coe_soe"}
  Calls = {"ERROR"}
  MaxPolls = 2
  CycleDevices = {d1}
  TimedDevices = {}
 
PROPERTIES HaltAnswers Resumes
CHECK_DEADLOCK FALSE
