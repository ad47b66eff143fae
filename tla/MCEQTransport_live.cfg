\* The real modulus and window, the sequence numbers about to wrap, and a lossy
\* network with room for every datagram, so that only losses delay a packet.
CONSTANTS
  Modulus = 65536
  MaxWindowSize = 2048
  Exchanged = 65534
  MaxPackets = 2
  MaxAhead = 2
  MaxCombine = 2
  NetCapacity = 6
  Lifetime = 2
SPECIFICATION FairSpec
INVARIANTS InOrderOnce
PROPERTIES Arrives Settles
CHECK_DEADLOCK FALSE
