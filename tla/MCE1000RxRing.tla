--------------------------- MODULE MCE1000RxRing ---------------------------
(* A ring of four slots, refilled two at a time.                             *)
EXTENDS E1000RxRing

=============================================================================
