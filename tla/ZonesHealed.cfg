SPECIFICATION FairSpec
CONSTANTS
  Zones = {z1}
  Handlers = {h1}
  Main = Main
  NoZone = NoZone
  Ops <- AllOps
  Faults = {"call", "check"}
  Isolation = "none"
  MaxFails = 1
  MaxVersion = 4
  MaxId = 2
PROPERTIES
  DelegatedServed
