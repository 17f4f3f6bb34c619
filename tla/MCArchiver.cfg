SPECIFICATION ArchiverSpec
CONSTANTS
  Tasks = {t1, t2}
  Sessions = {s1}
  AutoArchives = {1}
  MaxVersion = 2
  MaxAge = 2
  BatchSize = 1
PROPERTY RunNeverResurrected
PROPERTY QueuedWakeProvisions
PROPERTY SweepSparesLaterRuns
PROPERTY DueIsSwept
CHECK_DEADLOCK FALSE
