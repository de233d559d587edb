\* Two threads set the context of two queues.
CONSTANTS
  c1 = c1  c2 = c2  q = q  r = r
  Clients = {c1, c2}
  Queues = {q, r}
  FirstId = 0
  MaxContexts = 4
  None = None
SPECIFICATION Spec
CHECK_DEADLOCK FALSE
INVARIANTS FinalizedOnce CurrentRegistered QuietFinalized
