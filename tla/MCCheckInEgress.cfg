SPECIFICATION Spec
CONSTANTS
  h1 = h1
  h2 = h2
  a1 = a1
  a2 = a2
  v1 = v1
  v2 = v2
  ip = ip
  Handlers = {h1, h2}
  Accounts = {a1, a2}
  Visitors = {v1, v2}
  Ips = {ip}
  Day = 1
  Hour = 1
  NewDeviceSample = 2
  IntervalSample = 3
  FanoutThreshold = 1
  SharingThreshold = 1
  Retention = 1
  MaxTime = 2
  MaxRequests = 3
SYMMETRY Symmetry
INVARIANTS
  BenignEgressNotDenied
