SPECIFICATION FairSpec
CONSTANTS
  Tasks = {t1}
  Sessions = {}
  AutoArchives = {}
  MaxVersion = 2
  Concurrency = 1
  Watchers = {1, 2}
  MaxOutbox = 2
  Faults = {"crash", "lostAck", "noReply", "killErr", "probeErr", "launchErr", "die", "vanish"}
INVARIANT RunningMatchesDriver
PROPERTY RefinesServer
PROPERTY CancelResolves
PROPERTY LateLaunchStopped
