\* Two threads use a channel with two operations and a barrier.
CONSTANTS
  c1 = c1  c2 = c2  r = r  w = w  b = b
  Clients = {c1, c2}
  Ops = {r, w, b}
  Barriers = {b}
  Cleanup = Cleanup
  MaxParts <- OnePart
  NoOp = NoOp
SPECIFICATION FairSpec
CHECK_DEADLOCK FALSE
INVARIANTS RegistryTrue BlockRefs
PROPERTIES Answered ClosedDrains
