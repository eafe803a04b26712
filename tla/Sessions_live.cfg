\* Liveness: an account with a character and one that skips the queue, one place, two sessions.
SPECIFICATION FairSpec
CONSTANTS
  accA = accA
  accB = accB
  accD = accD
  charA1 = charA1
  charA2 = charA2
  Null = Null
  Accounts = {accA, accB}
  Chars = {charA1}
  Owner <- OwnerOne
  Sessions = {s1, s2}
  Limit = 1
  Privileged = {accB}
  NeverIdle = {}
  Tolerance = 0
  LogoutDelay = 1
  Grace = 1
PROPERTIES
  ClosedSessionsLeave
  LoadingEnds
  OfflineSessionsEnd
