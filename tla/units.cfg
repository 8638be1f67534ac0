\* Components by themselves: reception on a ring whose last address is odd, and
\* those that Units instantiates.
CONSTANTS
  RX_STOP = 7
  FrameLengths = {1, 2}
  MAX_LENGTH = 2
  Ids = {0, 1, 2, 3}
  MaxCount = 3
  BASE = 4
  TIME_BYTES = 3
  MICRO_BYTES = 2
  MILLIS = 14
  NewTimes = {3, 14, 62}
  MaxElapsed = 30
  Timestamps <- MCTimestamps
  BYTE = 8
  LENGTH_MOD = 64
  Packets <- MCPackets
  Addresses <- MCAddresses
  COUNT_MOD = 8
  KB = 2
  MB = 4
  Lengths <- MCLengths
  MaxSince = 9
  letter = letter
  CR = CR
  LF = LF
  NUL = NUL
  Characters = {letter, LF}
  Chunks <- MCChunks
  Limits = {0, 2}
  RX_DEPTH = 2
  MaxText = 3
  ANSWERS = 5
SPECIFICATION UnitsSpec
INVARIANTS UnitsTypeOK UnreadKept TimeKept TimeReadBounded
INVARIANTS DateTrue SumTrue SerialKept OwnAnswer
PROPERTIES Refinement StoredIsHandedOver
PROPERTIES LengthsReturn RateTrue
