---------------------------- MODULE MCE1000Phy -----------------------------
(* The watchdog and ethtool, with errors up to a bound.                      *)
EXTENDS E1000Phy

=============================================================================
