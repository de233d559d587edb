\* Two threads use a group with a mark, a notification, and two tasks that compete for
\* a semaphore, one of which then waits for the other.
CONSTANTS
  c1 = c1  c2 = c2  t1 = t1  t2 = t2  m = m  n = n
  Clients = {c1, c2}
  Tasks = {t1, t2}
  Marks = {m}
  Notes = {n}
  Throttled = {t1, t2}
  Awaiting = {t1}
  Providing = {t2}
  Gate = Gate
  Latch = Latch
  Capacity = 1
  Pool = 2
  Nothing = Nothing
SPECIFICATION FairSpec
CHECK_DEADLOCK FALSE
INVARIANTS WaitTrue NotifyAfter GateHolds CountsKept
PROPERTIES WaitsReturn
