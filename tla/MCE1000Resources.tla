-------------------------- MODULE MCE1000Resources --------------------------
(* Two ring structures of a kind: the old and the new one.                  *)
EXTENDS E1000Resources

=============================================================================
