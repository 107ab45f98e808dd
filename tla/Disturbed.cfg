SPECIFICATION Spec
CONSTANTS
  cp = cp
  llm = llm
  gate = gate
  claw = claw
  apiKey = apiKey
  saltKey = saltKey
  agentKey = agentKey
  v1 = v1
  v2 = v2
  k1 = k1
  k2 = k2
  k3 = k3
  k4 = k4
  p1 = p1
  p2 = p2
  None = None
  Workload = {cp, llm, gate, claw}
  Secret = {apiKey, saltKey, agentKey}
  NameRank <- MCNameRank
  Builtin <- MCBuiltin
  BuiltinSource <- MCBuiltinSource
  BuiltinZones <- MCBuiltinZones
  Value = {v1, k1, k2, k3}
  KeyValue = {k1, k2, k3}
  Uses <- MCUses
  Mounts <- MCMounts
  MinterPod = llm
  Proc = {p1}
  Topologies <- EditedTopologies
  Jobs <- EveryJob
  Faults <- EveryFault
  MaxFaults = 2
INVARIANT TypeOK
INVARIANT UserSecretsFirst
INVARIANT TeardownAfterLastPod
INVARIANT StopHoldsNoSecret
INVARIANT KeyAcceptedUndisturbed
INVARIANT NothingHeldUndisturbed
INVARIANT DownIsNotBroken
PROPERTY UpDelivers
PROPERTY DownLeavesNoPod
