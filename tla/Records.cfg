SPECIFICATION Spec
CONSTANTS
  z1 = z1
  k1 = k1
  Zones = {z1}
  Actors = {a1, a2}
  NoZone = NoZone
  ApexNs = ns
  RRs = {ns}
  OwnNs = own
  Data = {own}
  NoData = NoData
  KeyNames = {k1}
  NamesOf <- OwnNames
  a1 = a1
  a2 = a2
  OpsOf <- OpsOfActors
  Faults = {"crash", "wipe"}
  MaxVersion = 5
  MaxOverlap = 3
  MaxKey = 2
INVARIANTS
  TypeOK
  StampNotAhead
  IntactMirrored
  KeysAnswer
  SyncUndisturbing
  SignedAllAlong
PROPERTIES
  SignedKeyKept
  SyncRemovesStrays
