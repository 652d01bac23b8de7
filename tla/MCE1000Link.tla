---------------------------- MODULE MCE1000Link ----------------------------
(* One adapter, a cable that is moved a few times, one or two threads.       *)
EXTENDS E1000Link

=============================================================================
