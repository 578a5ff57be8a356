SPECIFICATION FairSpec
CONSTANTS
  CrashLimit = 2
  CrashWindow = 12
  RestartBackoff = 1
  MaxBackoff = 3
  ReadyTimeout = 2
  PingTimeout = 1
  StopTimeout = 2
  ShutdownGrace = 2
  ExitTime = 1
  Preempt = TRUE
PROPERTY GaveUpEnds
