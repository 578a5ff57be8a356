SPECIFICATION Spec
CONSTANTS
  Names = {n1, n2}
  Values = {v1, v2}
  Handlers = {h1}
  NoName = NoName
  NoValue = NoValue
  Ops <- OneName
  Faults = {"crash", "wipe"}
  Isolation = "all"
  MaxVersion = 4
INVARIANTS
  StampTruthful
PROPERTIES
  RestartReconciles
