\* All timer functions, torn clock reads: the list stays a list.
CONSTANTS
  a1 = a1  a2 = a2  a3 = a3
  c1 = c1  c2 = c2  c3 = c3
  NULL = null
  Addr = {a1, a2, a3}
  Callbacks = {c1, c2, c3}
  Intervals = {1}
  TIME_MOD = 3
  MainOps = {"set", "clear", "reset", "restart"}
  CallbackOps = {"set", "clear", "reset", "restart"}
  CarefulOps = {"set", "clear"}
  TornGaps = {2}
  MaxNow = 2
  MaxCalls = 1
SPECIFICATION Spec
SYMMETRY Symmetry
INVARIANTS ListWellFormed NoStaleAccess
