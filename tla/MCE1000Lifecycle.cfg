SPECIFICATION Spec
CONSTANT Cases = {{"remove", "suspend", "fifo stall", "no memory"}, {"remove", "suspend", "tx hang", "no memory"}}
 
INVARIANT ExclusiveReset
INVARIANT WatchdogAlive
INVARIANT NoWaitCycle
INVARIANT NotResettingOnClose
CHECK_DEADLOCK FALSE
