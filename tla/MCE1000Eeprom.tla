--------------------------- MODULE MCE1000Eeprom ---------------------------
(* Four words in pages of two, the checksum in the second one.               *)
EXTENDS E1000Eeprom

=============================================================================
