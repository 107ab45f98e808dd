SPECIFICATION Spec
CONSTANTS
  cp = cp
  llm = llm
  claw = claw
  bare = bare
  Bad = Bad
  infra = infra
  services = services
  agent = agent
  dmz = dmz
  apiKey = apiKey
  saltKey = saltKey
  Odd = Odd
  None = None
  Word = {cp, llm, claw, bare, Bad}
  WellFormed = {cp, llm, claw, bare}
  Complete = {cp, llm, claw}
  ZoneWord = {infra, services, agent, dmz}
  RoleName <- MCRoleName
  WordRank <- MCWordRank
  SecretWord = {apiKey, saltKey, Odd}
  DnsLabel = {apiKey, saltKey}
  NameRank <- MCNameRank
  Builtin = {saltKey}
  BuiltinSource <- MCBuiltinSource
  BuiltinZones <- MCBuiltinZones
  Version <- MCVersion
  FloxMin <- MCFloxMin
  PodmanMin <- MCPodmanMin
  Hosts <- MCHosts
  Files <- MCFiles
  MaxFaults = 2
INVARIANT TypeOK
INVARIANT ValidatedAsMeant
INVARIANT CatalogueAsMeant
PROPERTY DoctorTellsTheTruth
PROPERTY InterruptIsNoFailure
