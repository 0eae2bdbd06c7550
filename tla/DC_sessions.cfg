SPECIFICATION Spec
CONSTANTS
  Devices = {d1}
  NoDev = NoDev
  Procs = {p1, p2}
  NoProc = NoProc
  Threads = {t1, t2}
  Cmds = {"test_activate_halt", "activate_halt", "restart"}
  Calls = {"RECONFIG"}
  MaxPolls = 1
  CycleDevices = {}
  TimedDevices = {}
SYMMETRY MCSymmetry
INVARIANTS TypeOK EntryNamesItsProcess 
