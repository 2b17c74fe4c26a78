\* Three calls, or two and another message; every call may fail, be forgotten
\* or be answered late, twice or never.  The fairness matters only to
\* EventuallyCalledBack and KeepsPromise; because of them the callers are not
\* declared symmetric.
SPECIFICATION FairSpec
CONSTANTS
  Calls = {c1, c2, c3}
  NoCall = NoCall
  MaxMsgs = 3
  SendCap = 2
  IdMod = 8
INVARIANTS
  CallbackContract
  NoCallerLost
  TransmittedOnce
PROPERTIES
  RunningEntryKept
  EventuallyCalledBack
  KeepsPromise
CHECK_DEADLOCK FALSE
