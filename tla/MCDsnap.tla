------------------------------ MODULE MCDsnap -------------------------------
(* Dsnap on a small instance: two structures, three names, a name that is   *)
(* also passed with another size and another location, an empty record.      *)
EXTENDS DsnapSnapshot, TLC

CONSTANTS driver, tx, rx, hw, txRing, rxRing, v1, v2, b1, b2, b3, b4

MCName   == {tx, rx, hw}
MCStrLen == [n \in MCName \cup {driver} |-> IF n = hw THEN 2 ELSE 1]
MCLoc    == {txRing, rxRing}
MCValue  == {v1, v2}
MCBuf    == {b1, b2, b3, b4}

MCCall ==
  { [name |-> tx, loc |-> txRing,   size |-> 2],
    [name |-> tx, loc |-> rxRing,   size |-> 2],
    [name |-> tx, loc |-> txRing,   size |-> 3],
    [name |-> rx, loc |-> rxRing,   size |-> 0],
    [name |-> hw, loc |-> rxRing,   size |-> 1] }

(* Blocks are handed out in any order, and nothing tells them apart. *)
BufSymmetry == Permutations(Buf)

=============================================================================
