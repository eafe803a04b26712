\* Three accounts compete for one place; one of them has two characters.
SPECIFICATION Spec
CONSTANTS
  accA = accA
  accB = accB
  accD = accD
  charA1 = charA1
  charA2 = charA2
  Null = Null
  Accounts = {accA, accB, accD}
  Chars = {charA1, charA2}
  Owner <- OwnerAlts
  Sessions = {s1, s2, s3}
  Limit = 1
  Privileged = {}
  NeverIdle = {}
  Tolerance = 0
  LogoutDelay = 1
  Grace = 1
SYMMETRY Symmetry
INVARIANTS
  OwnedOnce
  NoStuckInQueue
  OneHolder
  OneCharacterPerAccount
  ShutdownSavesAll
PROPERTIES
  AdmissionSpec
  AbandonedStays
