SPECIFICATION Spec
CONSTANTS
  session = session
  Owners = {session}
  MaxThreads = 2
  Attempts = 1
  MaxOps = 3
  MaxChain = 2
  Nobody = Nobody
CHECK_DEADLOCK FALSE
INVARIANT OpenedWorks
