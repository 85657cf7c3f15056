SPECIFICATION TidySpec
CONSTANTS
  steady = steady
  drifted = drifted
  sparse = sparse
  plain = plain
  patched = patched
  arial = arial
  noto = noto
  adreno = adreno
  linux = linux
  utc = utc
  v1 = v1
  v2 = v2
  h1 = h1
  h2 = h2
  Handlers = {h1, h2}
  Probes <- Three
  Names <- AllNames
  Values <- AllValues
  Stored <- StoredThree
  KeysOf <- KeysOfThree
  Keys <- KeysThree
  MaxRequests = 3
  MaxTime = 2
  MaxRecords = 2
  RecordTTL = 9
  MaxBlock = 1
  Retention = 1
INVARIANTS
  LeftoversAreHarmless
