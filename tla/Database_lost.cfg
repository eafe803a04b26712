\* Two workers and a synchronous connection; the server is lost at most once, and any
\* COMMIT may be refused.
SPECIFICATION FairSpec
CONSTANTS
  t1 = t1
  t2 = t2
  Null = Null
  Async = {a1, a2}
  Sync = {s1}
  Trans = {t1, t2}
  Size <- PairSize
  MaxLost = 1
  Attempts = 2
  LoopBreaker = 2
INVARIANT NothingLeftOpen
PROPERTIES StoreSpec TransactionsEnd
