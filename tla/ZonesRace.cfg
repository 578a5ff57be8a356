SPECIFICATION Spec
CONSTANTS
  Zones = {z1}
  Handlers = {h1}
  Main = Main
  NoZone = NoZone
  Ops <- AllOps
  Faults = {"undelegated", "call", "late", "check", "cancel", "crash", "wipe"}
  Isolation = "none"
  MaxFails = 1
  MaxVersion = 4
  MaxId = 2
PROPERTIES
  RestartServes
