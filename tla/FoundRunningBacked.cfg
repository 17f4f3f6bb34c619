SPECIFICATION Spec
CONSTANTS
  Tasks = {t1}
  Sessions = {}
  AutoArchives = {}
  MaxVersion = 2
  Concurrency = 1
  Watchers = {1, 2}
  MaxOutbox = 2
  Faults = {"die"}
INVARIANT RunningBacked
