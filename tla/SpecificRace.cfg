\* Two threads set and get the data of two queues, one of which targets the other.
CONSTANTS
  c1 = c1  c2 = c2  q = q  r = r  k = k  l = l  v1 = v1  v2 = v2
  Clients = {c1, c2}
  Queues = {q, r}
  Hierarchy <- Targets
  Keys = {k, l}
  Address <- SameAddress
  Values = {v1, v2}
  MaxSets = 3
  None = None
SPECIFICATION Spec
SYMMETRY Alike
CHECK_DEADLOCK FALSE
INVARIANTS SpecificRefs GetAlive KeysNotConfused
