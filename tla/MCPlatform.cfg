CONSTANTS
  Callback = {c1, c2}
  MaxGives = 1
  ProviderSets <- MCProviders
  Source = {a}
  Reader = {r1}
  Session = {s1}
  NoSession = NoSession
  Free = Free
  Requests <- MCRequests
  Costs = {1}
  Limits = {0, 1}
  MaxEntries = 1
  MaxVersion = 0
SPECIFICATION MCSpec
INVARIANTS TouchSafe PlatformInv
PROPERTIES FaultIsContained CallsReturn
