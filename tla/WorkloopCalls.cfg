\* Two threads call every method of a workloop, with three callables.
CONSTANTS
  c1 = c1  c2 = c2  t1 = t1  t2 = t2  t3 = t3
  Clients = {c1, c2}
  Tasks = {t1, t2, t3}
  NoTask = NoTask
SPECIFICATION FairSpec
CHECK_DEADLOCK FALSE
INVARIANTS OnlyRacesTerminate CallableRefs SyncOutcome SemDisposable
PROPERTIES SyncReturns
