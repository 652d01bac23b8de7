SPECIFICATION Spec
CONSTANTS
  driver = driver
  tx = tx
  rx = rx
  hw = hw
  txRing = txRing
  rxRing = rxRing
  v1 = v1
  v2 = v2
  b1 = b1
  b2 = b2
  b3 = b3
  b4 = b4
  NULL = NULL
  Wild = Wild
  Name <- MCName
  DirName = driver
  StrLen <- MCStrLen
  Loc <- MCLoc
  Value <- MCValue
  Call <- MCCall
  Buf <- MCBuf
  AllocMayFail = TRUE
INVARIANT TypeOK
INVARIANT MemorySafe
INVARIANT LayoutOK
INVARIANT NoLeak
INVARIANT SnapshotReadable
PROPERTY ImplementsStore
CHECK_DEADLOCK FALSE
SYMMETRY BufSymmetry
