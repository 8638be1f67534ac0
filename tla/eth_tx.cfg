\* Packets of different lengths are sent back to back, fail and stall; the
\* microcontroller restarts at any register access.
CONSTANTS
  Packets <- SomePackets
  TX_SIZE = 3
  MEM_SIZE = 4
  MaxGiven = 3
  MaxResets = 1
SPECIFICATION FairSpec
INVARIANTS RegisterReached ReceivesWhenConfigured SentAsGiven LossesExplained
PROPERTY CallsReturn
