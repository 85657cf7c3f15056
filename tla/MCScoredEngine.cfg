SPECIFICATION ScoredSpec
CONSTANTS
  left = left
  drift = drift
  right = right
  both = both
  lite = lite
  h1 = h1
  adreno = adreno
  linux = linux
  utc = utc
  tone = tone
  english = english
  drawn = drawn
  chrome1 = chrome1
  chrome2 = chrome2
  robot = robot
  Handlers = {h1}
  Probes <- All
  Names <- NamesAll
  Values <- ValuesAll
  Stored <- StoredAll
  KeysOf <- KeysOfAll
  Keys <- KeysAll
  Raw <- RawAll
  Perms <- NoPerms
  Markers <- MarkersAll
  DeviceOf <- DeviceOfAll
  Headers <- HeadersTwo
  Bands <- BandsSmall
  Second = 1
  Window = 1
  MaxVelocityKeys = 2
  MaxFrequencyValues = 50
  MaxAgreementComponents = 20
  MaxRequests = 4
  MaxTime = 0
  MaxRecords = 2
  RecordTTL = 9
  MaxBlock = 5
  Retention = 1
INVARIANTS
  VerdictIsAllowed
  TiesAreFlagged
  HostsAgree
  UntrustedHeadersCountForNothing
  EvaluationAddsUp
  RepeatFindsAnswered
