----------------------------- MODULE MCDoctor -------------------------------
(***************************************************************************)
(* An instance of Doctor for TLC: a scaffold, two other files, and every   *)
(* host and file that is MaxFaults changes away.                           *)
(***************************************************************************)
EXTENDS Doctor

CONSTANTS
  cp, llm, claw, bare, Bad,      \* workloads: the last two lack files, are malformed
  infra, services, agent, dmz,   \* zones: the last is unknown
  apiKey, saltKey, Odd           \* secrets: user, built in, malformed

MCRoleName == [r \in T!Role |-> <<infra, services, agent>>[r + 1]]
MCWordRank == [n \in ZoneWord |->
  CASE n = agent -> 1 [] n = dmz -> 2 [] n = infra -> 3 [] n = services -> 4]
MCNameRank == [s \in SecretWord |-> CASE s = Odd -> 1 [] s = apiKey -> 2 [] s = saltKey -> 3]
MCBuiltinSource == [s \in {saltKey} |-> "generated"]
MCBuiltinZones == [s \in {saltKey} |-> {1}] \* services

Table3(internal, workloads, bridges, secrets) ==
  [internal |-> internal, workloads |-> workloads, bridges |-> bridges, secrets |-> secrets]

Toml(i, s, a) == [decodes |-> TRUE, scalars |-> TRUE, keychain |-> "default",
                  zones |-> infra :> i @@ services :> s @@ agent :> a]

Scaffold ==
  Toml(Table3(FALSE, <<cp>>, cp :> <<services, agent>>, <<>>),
       Table3(FALSE, <<llm>>, <<>>, <<apiKey>>),
       Table3(TRUE, <<claw>>, <<>>, <<>>))

\* Two zones list one secret; a zone that an unknown table stands beside.
Shared ==
  Toml(Table3(FALSE, <<cp>>, <<>>, <<apiKey>>), Table3(FALSE, <<>>, <<>>, <<apiKey>>), Empty)
Crossed ==
  [Scaffold EXCEPT !.zones = (dmz :> Table3(FALSE, <<llm, cp>>, cp :> <<agent>>, <<saltKey>>)) @@ @]

MCFiles == {Scaffold, Shared, Crossed, None}

Ready == [flox |-> <<1, 0, 0>>, podman |-> <<5, 10, 0>>, dir |-> "there", kc |-> TRUE,
          set |-> {apiKey}, machine |-> "running", nets |-> T!Role]
MCHosts == {Ready, [Ready EXCEPT !.dir = "absent", !.kc = FALSE, !.machine = "absent"]}

MCVersion == {<<1, 0, 0>>, <<0, 99, 99>>, <<5, 8, 0>>, <<5, 7, 9>>, <<5, 10, 0>>, <<6, 0, 0>>}
MCFloxMin == <<1, 0, 0>>
MCPodmanMin == <<5, 8, 0>>

=============================================================================
