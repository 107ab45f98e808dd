SPECIFICATION HistorySpec
CONSTANTS
  cp = cp
  llm = llm
  gate = gate
  claw = claw
  apiKey = apiKey
  saltKey = saltKey
  agentKey = agentKey
  v1 = v1
  v2 = v2
  k1 = k1
  k2 = k2
  k3 = k3
  k4 = k4
  p1 = p1
  p2 = p2
  None = None
  Workload = {llm}
  Secret = {apiKey, saltKey}
  NameRank <- MCNameRank
  Builtin <- MCBuiltin
  BuiltinSource <- MCBuiltinSource
  BuiltinZones <- MCBuiltinZones
  Value = {v1, v2}
  KeyValue = {}
  Uses <- MCUses
  Mounts <- MCMounts
  MinterPod = llm
  Proc = {p1, p2}
  Topologies <- Small
  Jobs <- RaceLifecycleJobs
  Faults = {}
  MaxFaults = 0
  SecretJobs <- RaceJobs
  Rotatable <- MCRotatable
SYMMETRY Symmetry
INVARIANT CopiesOnceInKeychain
PROPERTY LoneUpReconciles
PROPERTY UserValueKept
PROPERTY ValuesCarried
