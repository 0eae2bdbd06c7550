SPECIFICATION FairSpec
CONSTANTS
  Sessions = {s1}
  Main = Main
  Mdts = {a}
  None = None
  EqMdts = {}
  Cmds = {"run", "shutdown"}
  Events = {}
  Quiet = TRUE
  MaxStarts = 2
  MaxForks = 6
  KeyLimit = 4
  QueueSize = 1
PROPERTIES ShutdownEnds
CHECK_DEADLOCK FALSE
