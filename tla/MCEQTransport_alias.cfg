\* A modulus of two windows, gone round once: every number is used again.
CONSTANTS
  Modulus = 4
  MaxWindowSize = 2
  Exchanged = 0
  MaxPackets = 5
  MaxAhead = 2
  MaxCombine = 1
  NetCapacity = 2
  Lifetime = 2
SPECIFICATION Spec
INVARIANTS AckedWasReceived
PROPERTIES ChannelSpec
CHECK_DEADLOCK FALSE
