SPECIFICATION DisplacementSpec
CONSTANTS
  a = a
  b = b
  k1 = k1
  k2 = k2
  Ids = {a, b}
  Creds = {k1, k2}
  Conns = {c1, c2}
  Requests = {}
  NoId = NoId
  NoConn = NoConn
  NoReq = NoReq
  NoTether = NoTether
  Rank <- MCRank
  ExpiryOf <- MCExpiry
  Snapshots <- MCSnapshots
  Durable = TRUE
  Lease = 3
  Second = 2
  MaxTime = 3
  MaxConcurrentStreams = 1
  MaxStreamId = 1
  CommandCapacity = 1
INVARIANTS
  LiveIsAuthorized
  LeaseWithinExpiry
  NoUnroutableSession
  LossIsReported
PROPERTIES
  DisplacedSessionEnds
