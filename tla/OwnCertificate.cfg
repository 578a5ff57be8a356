SPECIFICATION FairSpec
CONSTANTS
  MinRetry = 60
  MaxRetry = 100
  MaxCert = 4
  MaxCrashes = 2
INVARIANTS
  TypeOK
  MismatchDue
  RestartKeeps
PROPERTIES
  OwnTokenStays
  Renewed
