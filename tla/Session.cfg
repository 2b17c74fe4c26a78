\* Two accounts, three listeners in three slots, up to two unanswered login
\* requests of each account, two calls by the program or the socket.
SPECIFICATION FairSpec
CONSTANTS
  Accounts = {a1, a2}
  NoAccount = NoAccount
  Configured = a1
  Listeners = {sub, ctrl, app}
  SubListener = sub
  CtrlListener = ctrl
  NULL = NULL
  LLSIZE = 3
  Interval = 2
  MaxInFlight = 2
  MaxEvents = 2
INVARIANTS
  KeyOfAccount
  ListenersHeard
PROPERTIES
  LoginSpacing
  LoginRegained
  IdleIsPinged
CHECK_DEADLOCK FALSE
