SPECIFICATION Spec
CONSTANTS
  Zones = {z1, z2}
  Handlers = {h1}
  Main = Main
  NoZone = NoZone
  Ops <- AllOps
  Faults = {"undelegated", "call", "late", "check", "cancel", "crash", "wipe"}
  Isolation = "all"
  MaxFails = 2
  MaxVersion = 4
  MaxId = 2
SYMMETRY Perms
INVARIANTS
  TypeOK
  OnlyActiveServed
PROPERTIES
  DeactivationEarned
