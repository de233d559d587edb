\* An inactive queue q that may be dropped, and blocking calls from q to p.
CONSTANTS
  c1 = c1  c2 = c2  t1 = t1  t2 = t2  t3 = t3  f = f  q = q  p = p
  Clients = {c1}
  Tasks = {t1, t2}
  Queues = {q, p}
  Funcs = {f}
  Func <- OneFunc
  Concurrent = {}
  Global = {}
  InitInactive = {q}
  InitTarget <- NoTargets
  Retargets <- NoPairs
  Methods <- SyncAfter
  SyncFrom <- QToP
  Droppable = {q}
  MaxSuspend <- NeverSuspended
  NoQueue = NoQueue
  NoMethod = NoMethod
  Free = Free
SPECIFICATION FairSpec
CHECK_DEADLOCK FALSE
PROPERTIES DroppedDrains CallsReturn
