SPECIFICATION Spec
CONSTANTS
  MaxRing = 2
  Cases = {{"ce4100", "errata_23", "set_ringparam"}, {"set_ringparam", "suspend", "bus_error"}, {"self_test", "bus_error"}}
 
INVARIANT NoLeak
INVARIANT SnapshotReadsLive
CHECK_DEADLOCK FALSE
