SPECIFICATION Spec
CONSTANTS
  Tasks = {t1, t2}
  Sessions = {}
  AutoArchives = {}
  MaxVersion = 1
  Concurrency = 1
  Watchers = {1, 2}
  MaxOutbox = 2
  Faults = {"crash"}
SYMMETRY TaskSymmetry
INVARIANT WithinLimit
