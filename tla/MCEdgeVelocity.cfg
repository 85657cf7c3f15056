SPECIFICATION FairSpec
CONSTANTS
  h1 = h1
  h2 = h2
  v1 = v1
  v2 = v2
  Handlers = {h1, h2}
  Visitors = {v1, v2}
  Ips = {"ip"}
  Classes = {"class"}
  Window = 2
  MaxTime = 4
  MaxRequests = 2
INVARIANTS
  WindowIsExact
  AlarmCovers
PROPERTIES
  AnswersCountTheWindow
  QuietIsDrained
CHECK_DEADLOCK FALSE
