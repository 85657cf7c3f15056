SPECIFICATION ServerSpec
CONSTANTS
  n1 = n1
  n2 = n2
  h1 = h1
  h2 = h2
  device = device
  name = name
  value = value
  key = key
  Nonces = {n1, n2}
  TTLs = {0, 1}
  Handlers = {h1, h2}
  Probes = {device}
  Names = {name}
  Values = {value}
  Stored <- StoredOne
  KeysOf <- KeysOfOne
  Keys = {key}
  MaxRecords = 1
  RecordTTL = 9
  MaxBlock = 1
  Retention = 1
  Second = 1
  Configs <- ConfigsSeven
  Secrets = {"", "secret"}
  MaxTime = 1
  MaxRequests = 2
INVARIANTS
  LiveNonceKept
  OneAttemptPerNonce
  ObservationsArePaidFor
  ReplaysAreBounded
  EmptyKeysOpenNothing
PROPERTIES
  OneTime
  AnswersMoveForward
