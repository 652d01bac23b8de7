---------------------------- MODULE MCDsnapDirs -----------------------------
(* DsnapDirs on small instances: three adapters, all of one driver or one of *)
(* them of another, each with its own bus, slot and function.                *)
EXTENDS DsnapDirs

CONSTANTS a1, a2, a3, e1000, other, f1, f2, f3

OneDriver == [a \in Adapter |-> e1000]
TwoDrivers == [a \in Adapter |-> IF a = a1 THEN other ELSE e1000]

OwnNames == [a \in Adapter |-> IF a = a1 THEN f1 ELSE IF a = a2 THEN f2 ELSE f3]

=============================================================================
