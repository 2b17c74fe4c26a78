\* The timer's thread makes two calls and the receiver one, in any order of
\* their accesses; the run ends when they are made.
SPECIFICATION Spec
CONSTANTS
  timer = timer
  Receiver = receiver
  Thread = {receiver, timer}
  MaxCalls <- CallsOfBoth
INVARIANTS
  CalledOnce
  ListEnds
CHECK_DEADLOCK FALSE
