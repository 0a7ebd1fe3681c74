CONSTANTS
  MaxServices = 2
  MaxAsks = 1
  Keys = {k1, k2}
  MaxRequests = 3
  MaxCommits = 2
  JobKeys = {"", "key"}
  MaxJobs = 3
  Total = 3
  QueueSize = 1
  Drafts = {d1}
  MaxEnvelopes = 3
  MaxIds = 2
  MaxForeign = 1
  NPlugins = 2
  NFiles = 3
  NParts = 3
  NSlots = 3
  NUids = 3
  NDrives = 3
  NScreened = 2
  Demands <- SmallDemands
SPECIFICATION SuiteSpec
CHECK_DEADLOCK FALSE
INVARIANTS
  CancelledNotStored
