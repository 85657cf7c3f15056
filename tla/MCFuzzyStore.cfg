SPECIFICATION FairSpec
CONSTANTS
  steady = steady
  drifted = drifted
  sparse = sparse
  plain = plain
  patched = patched
  arial = arial
  noto = noto
  adreno = adreno
  linux = linux
  utc = utc
  v1 = v1
  v2 = v2
  h1 = h1
  h2 = h2
  ip = ip
  class = class
  Handlers = {h1, h2}
  Probes <- Pair
  Names <- AllNames
  Values <- AllValues
  Stored <- StoredPair
  KeysOf <- KeysOfPair
  Keys <- KeysPair
  MaxRequests = 2
  MaxTime = 2
  MaxErasures = 1
  MaxRecords = 1
  RecordTTL = 0
  MaxBlock = 1
  Retention = 1
  MaxFrequencyValues = 2
  MaxAgreementComponents = 2
  MaxVelocityKeys = 1
  Window = 1
  Second = 1
  Origins <- OneOrigin
CHECK_DEADLOCK FALSE
INVARIANTS
  TypeOK
  FrequencyAddsUp
  LearntFromMatches
  CountsAreOfMints
PROPERTIES
  Implements
  EveryRequestIsAnswered
