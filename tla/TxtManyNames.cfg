SPECIFICATION FairSpec
CONSTANTS
  Names = {n1, n2}
  Values = {v1}
  Handlers = {h1, h2}
  NoName = NoName
  NoValue = NoValue
  Ops <- AllOps
  Faults = {}
  Isolation = "name"
  MaxVersion = 4
INVARIANTS
  StampNotAhead
  IdleNamesMirrored
PROPERTIES
  ExpiredWithdrawn
