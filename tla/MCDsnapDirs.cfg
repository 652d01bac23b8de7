SPECIFICATION DirsSpec
CONSTANTS
  a1 = a1
  a2 = a2
  a3 = a3
  e1000 = e1000
  other = other
  f1 = f1
  f2 = f2
  f3 = f3
  NoDentry = NoDentry
  ERR = ERR
  Adapter = {a1, a2, a3}
  Driver = {e1000, other}
  DriverOf <- OneDriver
  FileName <- OwnNames
  MaxDentry = 9
  Overlap = {TRUE, FALSE}
  Enabled = {TRUE, FALSE}
 
INVARIANT OwnFile
INVARIANT NothingLeft
CHECK_DEADLOCK FALSE
