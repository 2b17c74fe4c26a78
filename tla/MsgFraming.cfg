\* Three messages of 2 to 5 bytes through a ring of 5.
SPECIFICATION FramingSpec
CONSTANTS
  Cap = 5
  Byte <- StreamBytes
  Zero = 0
  NMsgs = 3
  Sizes = {2, 3, 5}
  HeaderLen = 2
  LenLen = 1
INVARIANTS
  StreamPreserved
  DatagramsStayAligned
  CompleteMessageIsRead
PROPERTIES
  StuckRingRecovers
CHECK_DEADLOCK FALSE
