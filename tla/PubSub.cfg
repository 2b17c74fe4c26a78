\* A topic and TOPIC_P2P, two listeners, three subscribe or unsubscribe
\* messages.
SPECIFICATION SubsSpec
CONSTANTS
  Topics = {t1, p2p}
  P2P = p2p
  Fns = {f, g}
  Types = {0, 1}
  MaxMsgs = 3
  MaxWanted = 2
SYMMETRY ListenerSymmetry
INVARIANTS
  SubIdIsLatest
  AskedSinceLogin
  OnlyWantedServed
CHECK_DEADLOCK FALSE
