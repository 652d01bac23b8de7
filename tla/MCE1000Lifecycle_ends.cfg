SPECIFICATION FairSpec
CONSTANT Cases = {{"fifo stall"}}
PROPERTY OperationEnds
CHECK_DEADLOCK FALSE
