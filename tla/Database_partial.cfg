\* One worker, one transaction of two statements; the server is lost once.
SPECIFICATION Spec
CONSTANTS
  t1 = t1
  t2 = t2
  Null = Null
  Async = {a1}
  Sync = {s1}
  Trans = {t1, t2}
  Size <- PairSize
  MaxLost = 1
  Attempts = 2
  LoopBreaker = 2
INVARIANT WholeWhenDone
