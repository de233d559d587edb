\* Two threads and the handler share a source of any of the five classes.
CONSTANTS
  c1 = c1  c2 = c2  s1 = s1  h1 = h1
  Clients = {c1, c2}
  Sources = {s1}
  Handlers = {h1}
  Handler <- SharedHandler
  MaxEvents = 2
  Free = Free
  NoSource = NoSource
SPECIFICATION FairSpec
CHECK_DEADLOCK FALSE
INVARIANTS HandlerRefs HandlerAlive ResumedOnce
PROPERTIES HandlerGivenBack EventHandled
