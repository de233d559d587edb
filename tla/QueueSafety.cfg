\* A concurrent queue q that may be retargeted to the serial queue p and back, p
\* being suspended or dropped at times.
CONSTANTS
  c1 = c1  c2 = c2  t1 = t1  t2 = t2  t3 = t3  f = f  q = q  p = p
  Clients = {c1}
  Tasks = {t1, t2, t3}
  Queues = {q, p}
  Funcs = {f}
  Func <- OneFunc
  Concurrent = {q}
  Global = {}
  InitInactive = {}
  InitTarget <- NoTargets
  Retargets <- ToPAndBack
  Methods <- Barriers
  SyncFrom <- NoPairs
  Droppable = {p}
  MaxSuspend <- SuspendP
  NoQueue = NoQueue
  NoMethod = NoMethod
  Free = Free
SPECIFICATION Spec
SYMMETRY TaskSymmetry
CHECK_DEADLOCK FALSE
INVARIANTS HierarchyInv RefAccounting CallableAlive HierarchyExclusion BarrierExclusive StartsInOrder LockUsable
PROPERTIES ImplementsContract
