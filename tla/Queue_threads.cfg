\* Two producers and three consumers, two requests.
SPECIFICATION FairSpec
CONSTANTS
  Producers = {p1, p2}
  Consumers = {c1, c2, c3}
  Items = {x1, x2}
  Null = Null
INVARIANTS
  NoSleepOnWork
PROPERTIES
  WorkTaken
  CancelReachesAll
  ShutdownReaches
