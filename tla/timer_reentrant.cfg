\* A callback that sets its own timer again.
CONSTANTS
  a1 = a1  a2 = a2  a3 = a3
  c1 = c1  c2 = c2  c3 = c3
  NULL = null
  Addr = {a1, a2, a3}
  Callbacks = {c1, c2}
  Intervals = {1}
  TIME_MOD = 16
  MainOps = {"set"}
  CallbackOps = {"set"}
  CarefulOps = {}
  TornGaps = {}
  MaxNow = 3
  MaxCalls = 1
SPECIFICATION Spec
INVARIANT NoStaleAccess
