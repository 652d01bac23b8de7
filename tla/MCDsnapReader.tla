--------------------------- MODULE MCDsnapReader ----------------------------
(* DsnapReader on a small instance: two names, added in any order, and reads *)
(* of at most Chunk bytes, fewer than the file has once a record is in it.   *)
EXTENDS DsnapReader, TLC

CONSTANTS driver, tx, rx, txRing, rxRing, v1, v2, b1, b2, b3

MCName   == {tx, rx}
MCStrLen == [n \in MCName \cup {driver} |-> 1]
MCLoc    == {txRing, rxRing}
MCValue  == {v1, v2}
MCBuf    == {b1, b2, b3}
MCCall   == { [name |-> tx, loc |-> txRing, size |-> 2],
              [name |-> rx, loc |-> rxRing, size |-> 1] }

(* Blocks are handed out in any order, and nothing tells them apart. *)
BufSymmetry == Permutations(Buf)

=============================================================================
