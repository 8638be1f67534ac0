\* A datagram for a port that is not bound stops at a NULL pointer.
\* A call through a stray pointer has no defined next step, so behaviours may end.
CONSTANTS
  a1 = a1  a2 = a2  a3 = a3  a4 = a4  cb1 = cb1  cb2 = cb2
  NULL = null
  Ports = {1, 2, 3}
  Callbacks = {cb1, cb2}
  Addr = {a1, a2, a3}
  UDP_MAX_BINDINGS = 3
  NullReads = {1}
SPECIFICATION Spec
INVARIANT UnboundPortIgnored
CHECK_DEADLOCK FALSE
