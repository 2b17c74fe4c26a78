\* Four keys, three of them in one of the three buckets.
SPECIFICATION MapSpec
CONSTANTS
  Key <- KeyFour
  Hash <- HashFour
  Value = {v1, v2}
  NoValue = NoValue
  AskedCap = 3
  MaxSize = 4
INVARIANTS
  WalkComplete
PROPERTIES
  KeepsStore
