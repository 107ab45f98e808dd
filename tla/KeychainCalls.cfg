SPECIFICATION FairSpec
CONSTANTS
  kc = kc
  salt = salt
  v1 = v1
  v2 = v2
  p1 = p1
  p2 = p2
  None = None
  KeyPath = {kc}
  Name = {salt}
  Value = {v1, v2}
  Proc = {p1, p2}
  MaxFaults = 2
INVARIANT TypeOK
PROPERTY DefaultOnlyBehindLoss
PROPERTY KeychainAtomic
PROPERTY EveryCallEnds
