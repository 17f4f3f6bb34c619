SPECIFICATION SandboxSpec
CONSTANTS
  Drivers = {"d1"}
  Operators = {"o1"}
  Entitled = {"d1", "o1"}
  MaxOutput = 1
  MaxInput = 1
  MaxServerCrash = 1
  Concurrency = 2
  MaxVersion = 3
  MaxVMs = 2
  MaxDrop = 1
  MaxReap = 1
  MaxRefuse = 1
  MaxCrash = 1
  Callers = {c1, c2, c3}
  MaxRun = 2
  MaxDeath = 1
  MaxBadWrite = 1
  PipeSize = 1
  MaxLines = 2
  Bytes = {"a", "b"}
  Secrets <- MCSecrets
  MaxStream = 6
  Requests = {r1}
  TTL = 4
  MinTTL = 2
  MaxTrouble = 1
  MaxNow = 7
INVARIANTS
  Masked
  SessionFresh
  SavedIsComplete
  ExitAfterOutput
  NoStaleExit
  RunsOnce
  ReportedTruthful
PROPERTIES
  StopEndsPrompt
  SessionCleared
  ExitSuspends
CHECK_DEADLOCK FALSE
