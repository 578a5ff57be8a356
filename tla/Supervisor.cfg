SPECIFICATION FairSpec
CONSTANTS
  CrashLimit = 3
  CrashWindow = 10
  RestartBackoff = 1
  MaxBackoff = 3
  ReadyTimeout = 3
  PingTimeout = 1
  StopTimeout = 2
  ShutdownGrace = 2
  ExitTime = 1
  Preempt = FALSE
INVARIANT TypeOK
PROPERTIES StableNotGivenUp OutageEnds
