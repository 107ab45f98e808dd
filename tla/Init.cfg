SPECIFICATION FairSpec
CONSTANTS
  toml = toml
  pod = pod
  standard = standard
  mine = mine
  broken = broken
  partial = partial
  directory = directory
  kc = kc
  myKc = myKc
  p1 = p1
  p2 = p2
  None = None
  Path = {toml, pod}
  PathRank <- MCPathRank
  TopologyFile = toml
  Content = {standard, mine, broken}
  Default = standard
  Partial = partial
  Directory = directory
  KeychainOf <- MCKeychainOf
  KeyPath = {kc, myKc}
  Proc = {p1, p2}
  MaxFaults = 1
INVARIANT TypeOK
INVARIANT BareOnlyBehindFault
PROPERTY ScaffoldAtomic
PROPERTY FailureCleansUp
PROPERTY InitDelivers
PROPERTY EveryInitEnds
PROPERTY InitConverges
