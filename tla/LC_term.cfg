SPECIFICATION Spec
CONSTANTS
  Sessions = {s1}
  Main = Main
  Mdts = {a}
  None = None
  EqMdts = {a}
  Cmds = {"createmdt", "select", "run", "shutdown"}
  Events = {"ipc", "sigterm", "syscfg", "helper", "hxsmsg"}
  Quiet = FALSE
  MaxStarts = 2
  MaxForks = 6
  KeyLimit = 1
  QueueSize = 1
INVARIANTS HeldPidIsAlive
CHECK_DEADLOCK FALSE
