\* The list and its passes implement the abstract table, and its schedules.
CONSTANTS
  a1 = a1  a2 = a2  a3 = a3
  c1 = c1  c2 = c2  c3 = c3
  NULL = null
  Addr = {a1, a2, a3}
  Callbacks = {c1, c2}
  Intervals = {1, 2}
  TIME_MOD = 16
  MainOps = {"set", "clear", "restart"}
  CallbackOps = {"set", "clear", "restart"}
  CarefulOps = {"set", "clear", "restart"}
  TornGaps = {}
  MaxNow = 3
  MaxCalls = 2
SPECIFICATION Spec
INVARIANT OnSchedule
PROPERTY Refinement
