CONSTANTS
  s = s
  p = p
  q = q
  w = w
  Self <- w
  Seed <- s
  Peers <- MCPeers
  MaxFaults = 1
  MaxAnnounce = 1
  MaxWrites = 2
SPECIFICATION Spec
INVARIANT ListedWriteNotDropped
