\* One or two workers and up to three operations; the server is down, lacks the database or is too old at first.
SPECIFICATION FairSpec
CONSTANTS
  session = session
  Owners = {session}
  MaxThreads = 2
  Attempts = 1
  MaxOps = 3
  MaxChain = 2
  Nobody = Nobody
CHECK_DEADLOCK FALSE
INVARIANTS WorkersConnected OneByOne ClosedDrained NoneForgotten
PROPERTIES Answered OpeningEnds
