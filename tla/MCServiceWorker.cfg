SPECIFICATION FairSpec
CONSTANTS
  Segment = {"alice", "lan", "http", "https", "ws", "identity"}
  Domain <- MCHosts
  Kind = {"http"}
  Task = {t1, t2}
  TTL = 1
  MaxTime = 2
  Absent = Absent
  InProgress = InProgress
  NoEntry = NoEntry
  Idle = Idle
INVARIANT SingleFlight
INVARIANT NullMeansInProgress
INVARIANT FiledUnderItsKey
INVARIANT BoundedStaleness
PROPERTY SentinelClears
PROPERTY CachedOnceHealthy
PROPERTY ImplementsSrvCache
