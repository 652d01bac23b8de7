SPECIFICATION FairSpec
CONSTANTS
  Count = 4
  Write = 2
  Cases = {{"jumbo", "down"}, {"jumbo", "no_memory"}, {"no_memory", "tbi"}}
INVARIANT FramesDelivered
INVARIANT NoRxLeak
INVARIANT NoLostReceive
INVARIANT MaskedWhenDown
PROPERTY RxRecovers
