-------------------------- MODULE MCE1000Lifecycle --------------------------
(* E1000Lifecycle has one adapter and no data: what may happen to it is the  *)
(* only parameter.                                                           *)
EXTENDS E1000Lifecycle

=============================================================================
