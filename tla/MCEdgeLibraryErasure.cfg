SPECIFICATION Spec
CONSTANTS
  steady = steady
  drifted = drifted
  sparse = sparse
  plain = plain
  patched = patched
  arial = arial
  noto = noto
  adreno = adreno
  linux = linux
  utc = utc
  v1 = v1
  v2 = v2
  h1 = h1
  h2 = h2
  Handlers = {h1, h2}
  Probes <- Pair
  RawOf <- RawPair
  KeysOf <- KeysOfPair
  Keys <- KeysPair
  MaxRecall = 2
  Retention = 0
  MaxTime = 1
  MaxRequests = 2
INVARIANTS
  ErasedStaysErased
