SPECIFICATION EndingSpec
CONSTANTS
  Tasks = {t1}
  Sessions = {s1}
  AutoArchives = {}
  MaxVersion = 2
  Concurrency = 1
  Watchers = {1, 2}
  MaxOutbox = 2
  Faults = {"lostAck", "noReply", "probeErr", "launchErr", "die", "vanish"}
PROPERTY PendingResolves
INVARIANT SlotsAccounted
INVARIANT RestartServed
