\* Two workers; a map without instances and a map with two.
SPECIFICATION FairSpec
CONSTANTS
  plain = plain
  dungeon = dungeon
  inst1 = inst1
  inst2 = inst2
  Null = Null
  World = World
  Workers = {w1, w2}
  Base = {plain, dungeon}
  Instances = {inst1, inst2}
  InstancesOf <- TwoInstances
INVARIANTS
  PendingCounts
  UpdatesLiveMaps
PROPERTIES
  RoundSpec
  WaitEnds
  DeactivateEnds
