--------------------------- MODULE MCDeviceConfig ---------------------------
(* DeviceConfig for TLC: device ids on both sides of the lengths allowed. *)
EXTENDS DeviceConfig

DeviceFour == {"short", "least", "most", "long"}
LengthFour == [short |-> 6, least |-> 7, most |-> 15, long |-> 16]
AccountTwo == {-1, 1}

=============================================================================
