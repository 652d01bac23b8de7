--------------------------- MODULE MCE1000TxRing ---------------------------
(* A ring of seven slots and frames of two or three descriptors.            *)
EXTENDS E1000TxRing, TLC

MCShapes == {[context |-> 1, data |-> 1], [context |-> 0, data |-> 3]}
SkbSymmetry == Permutations(Skb)
=============================================================================
