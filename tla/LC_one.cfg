SPECIFICATION FairSpec
CONSTANTS
  Sessions = {s1}
  Main = Main
  Mdts = {a, b}
  None = None
  EqMdts = {a}
  Cmds = {"createmdt", "select", "run", "shutdown"}
  Events = {"syscfg", "helper", "autostart", "sigterm"}
  Quiet = TRUE
  MaxStarts = 2
  MaxForks = 6
  KeyLimit = 1
  QueueSize = 2
INVARIANTS IdleIsClean  NothingUndefined
PROPERTIES ImplementsMdtLife CommandsEnd 
CHECK_DEADLOCK FALSE
