\* Three threads, two of them calling the token again from inside.
CONSTANTS
  k1 = k1  k2 = k2  k3 = k3  n1 = n1  n2 = n2  f = f  g = g
  Calls = {k1, k2, k3, n1, n2}
  Inside <- NestedCalls
  NoOne = NoOne
  Funcs = {f, g}
  Func <- ByThread
SPECIFICATION FairSpec
CHECK_DEADLOCK FALSE
INVARIANTS RunsOnce OnceRefs
PROPERTIES CallReturns
