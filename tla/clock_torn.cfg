\* A tick between the byte loads of a read: the value read was never the time.
CONSTANTS
  BASE = 4
  TIME_BYTES = 3
  MICRO_BYTES = 2
  MILLIS = 14
  NewTimes = {3, 14, 62}
  MaxElapsed = 45
SPECIFICATION Spec
INVARIANT ReadIsCurrent
