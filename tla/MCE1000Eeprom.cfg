SPECIFICATION FairSpec
CONSTANTS
  Words = 4
  SumReg = 1
  Half = 2
  Page = 2
  Calls = 2
  Cases = {{"narrow"}, {"slow"}, {"microwire", "slow"}, {"firmware"}, {"microwire", "two_ports"}}
INVARIANT Kept
INVARIANT NoBusyAccess
INVARIANT PortsDoNotCollide
INVARIANT Released
PROPERTY CallsEnd
CHECK_DEADLOCK FALSE
