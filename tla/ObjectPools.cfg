\* Five blocks, any kind of data, responses that nobody waits for, and one
\* activity that sends requests while messages are handled.  The program may
\* end when os_free is given what is no block of the heap.
SPECIFICATION PoolsSpec
CONSTANTS
  Block = {b1, b2, b3, b4, b5}
  NoBlock = NoBlock
  Caller = {c1}
  DataKinds = {"none", "bin", "string", "extra"}
  MaxNodes = 2
SYMMETRY Symmetric
INVARIANTS
  SoleOwner
  IdleIsOwn
  BackFindsIt
CHECK_DEADLOCK FALSE
