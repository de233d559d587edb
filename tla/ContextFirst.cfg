\* One thread, one queue, and the first context of the process.
CONSTANTS
  c1 = c1  c2 = c2  q = q  r = r
  Clients = {c1}
  Queues = {q}
  FirstId = 0
  MaxContexts = 1
  None = None
SPECIFICATION Spec
CHECK_DEADLOCK FALSE
INVARIANTS AllFinalized
