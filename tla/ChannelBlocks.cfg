\* A read is answered.
CONSTANTS
  c1 = c1  c2 = c2  r = r  w = w  b = b
  Clients = {c1}
  Ops = {r}
  Barriers = {}
  Cleanup = Cleanup
  MaxParts <- OnePart
  NoOp = NoOp
SPECIFICATION Spec
CHECK_DEADLOCK FALSE
INVARIANTS BlocksReleased
