SPECIFICATION Spec
CONSTANTS
  n1 = n1
  d1 = d1
  s1 = s1
  s2 = s2
  a1 = a1
  a2 = a2
  Actors = {a1, a2}
  Usernames = {n1}
  Anonymous = Anonymous
  Domains = {d1}
  Subs = {s1, s2}
  NoDomain = NoDomain
  NoSub = NoSub
  Salts = {0}
  SubOf <- SubOfNames
  Drawn = {s1, s2}
  Any = Any
  OpsOf <- OpsOfOne
  LoginNames = {n1}
  Watched = {1}
  MaxId = 1
  MaxKey = 1
  MaxTokens = 1
  MaxOverlap = 1
PROPERTY
  PublishedKept
