\* Values and strings at the limits of prefixes and buffers; a peer that is
\* reached directly or by UDP.
SPECIFICATION Spec
CONSTANTS
  Null = Null
  Depth = 2
  Params <- AllParams
  Items <- AllItems
  Headers <- AllHeaders
  LoginKeys <- SomeKeys
  Sources <- OneSource
  ParamCap = 128
  ItemCap = 256
  ExtraCap = 512
  SendCap = 1024
INVARIANTS
  MessageArrives
  ParamsArrive
  ItemArrives
  NeverReadsPast
CHECK_DEADLOCK FALSE
