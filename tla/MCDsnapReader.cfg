SPECIFICATION ReaderSpec
CONSTANTS
  driver = driver
  tx = tx
  rx = rx
  txRing = txRing
  rxRing = rxRing
  v1 = v1
  v2 = v2
  b1 = b1
  b2 = b2
  b3 = b3
  NULL = NULL
  Wild = Wild
  Name <- MCName
  DirName = driver
  StrLen <- MCStrLen
  Loc <- MCLoc
  Value <- MCValue
  Call <- MCCall
  Buf <- MCBuf
  AllocMayFail = FALSE
  Chunk = 20
INVARIANT ReadSafe
INVARIANT ReadIntact
SYMMETRY BufSymmetry
