SPECIFICATION FairSpec
CONSTANTS
  a = a
  b = b
  k1 = k1
  k2 = k2
  Ids = {a}
  Creds = {k1}
  Conns = {c1}
  Requests = {r1, r2}
  NoId = NoId
  NoConn = NoConn
  NoReq = NoReq
  NoTether = NoTether
  Rank <- MCRank
  ExpiryOf <- MCExpiry
  Snapshots <- NoSnapshots
  Durable = FALSE
  Lease = 1
  Second = 2
  MaxTime = 1
  MaxConcurrentStreams = 2
  MaxStreamId = 1
  CommandCapacity = 2
INVARIANTS
  NoParkedCaller
  NoAliasing
  TetherLearnsTheEnd
PROPERTIES
  AdmittedUnderAuthority
  LeaseEndsSession
  CallerAnswered
