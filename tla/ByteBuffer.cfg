\* A ring of four bytes, operations of up to three bytes.
SPECIFICATION Spec
CONSTANTS
  Cap = 4
  Byte = {0, 1}
  Zero = 0
  MaxOp = 3
INVARIANTS
  StatusIsExact
PROPERTIES
  IsFifo
