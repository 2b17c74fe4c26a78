\* Three functions, two of them in one bucket; four registrations or removals,
\* one message lost, one message under way at a login.
SPECIFICATION Spec
CONSTANTS
  Key <- NameThree
  Hash <- HashShared
  Value = {o1, o2}
  NoValue = NoValue
  AskedCap = 20
  Version = {1, 2}
  Peer = {"phone"}
  MaxChanges = 4
  MaxLosses = 1
  MaxNet = 1
INVARIANTS
  EntriesLive
  CallsByName
PROPERTIES
  CatchesUp
