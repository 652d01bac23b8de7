SPECIFICATION FairSpec
CONSTANT Cases = {{"tx hang"}}
PROPERTY ResetImminent
CHECK_DEADLOCK FALSE
