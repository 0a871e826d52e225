SPECIFICATION Spec
CONSTANTS
  Host = {h1, h2, h3}
  Port = {default, p1, p2}
  DefaultPort = default
  NoPort = NoPort
  NoTarget = NoTarget
  NoRecord = NoRecord
  Zones <- MCZones
  MaxHops = 4
INVARIANT BoundedHops
INVARIANT LandsOnRecord
