\* The last address even, as ETH_REG_RX_STOP is: the read pointer is written twice.
CONSTANTS
  RX_STOP = 8
  Lengths = {1, 2}
  MAX_LENGTH = 2
  Ids = {0, 1, 2, 3, 4}
  MaxCount = 4
SPECIFICATION Spec
INVARIANT UnreadKept
