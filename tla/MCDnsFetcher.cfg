SPECIFICATION FairSpec
CONSTANTS
  Segment = {"alice", "http", "https", "ws", "identity"}
  Domain <- MCDomain
  Kind = {"http", "ws", "identity"}
  Caller = {c1}
  Host <- MCHost
  TTL = 0
  EndTime = 1
  NoEntry = NoEntry
  NotCalled = NotCalled
INVARIANT TypeOK
INVARIANT ResolvedIsRecent
INVARIANT AllAreOwnAndRecent
PROPERTY AnsweredOnceSound
PROPERTY EveryCallSettles
