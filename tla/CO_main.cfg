SPECIFICATION FairSpec
CONSTANTS
  A = A
  B = B
  a1 = a1
  a2 = a2
  b1 = b1
  Hosts = {A, B}
  Servers = {a1, a2, b1}
  HostOf <- MCHostOf
  ExerNo <- MCExerNo
  None = None
  MAXREMOTE = 50
  NumberBroadcast = 1
  MaxWaiting = 1
  Tests <- MCTests
INVARIANTS ToldOnce 
PROPERTIES Discovery GoesQuiet
CHECK_DEADLOCK FALSE
