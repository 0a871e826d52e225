SPECIFICATION Spec
CONSTANTS
  Segment = {"alice", "http", "https", "ws", "identity"}
  Domain <- MCDomain
  Kind = {"http"}
  Caller = {c1}
  Host <- MCHost
  TTL = 0
  EndTime = 2
  NoEntry = NoEntry
  NotCalled = NotCalled
PROPERTY FreshEntryIsKept
