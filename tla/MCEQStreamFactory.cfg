\* One peer, which asks for a session and once more.
CONSTANTS
  a1 = a1
  None = None
  Addr <- Peer1
  MaxStreams = 2
  Grace = 1
  Patience = 2
SPECIFICATION FairSpec
INVARIANTS TypeOK  MapIsSound OneClientPerPeer
PROPERTIES ClosingIsRemoved
