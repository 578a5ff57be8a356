SPECIFICATION FairSpec
CONSTANTS
  n1 = n1
  d1 = d1
  s1 = s1
  s2 = s2
  a1 = a1
  a2 = a2
  Actors = {a1, a2}
  Usernames = {n1}
  Anonymous = Anonymous
  Domains = {d1}
  Subs = {s1}
  NoDomain = NoDomain
  NoSub = NoSub
  Salts = {0}
  SubOf <- SubOfNames
  Drawn = {s1}
  Any = Any
  OpsOf <- OpsOfActors
  LoginNames = {n1}
  Watched = {}
  MaxId = 2
  MaxKey = 2
  MaxTokens = 1
  MaxOverlap = 1
INVARIANTS
  TypeOK
  RowsOwned
  IdentityKept
  RaceForgiven
PROPERTIES
  OrphansExpire
  UnusedGo
