---------------------------- MODULE MCLifecycle -----------------------------
(***************************************************************************)
(* Instances of Lifecycle for TLC.                                         *)
(***************************************************************************)
EXTENDS LifecycleProperties, TLC

CONSTANTS
  cp, llm, gate, claw,          \* workloads
  apiKey, saltKey, agentKey,    \* secrets: user, generated, minted
  v1, v2, k1, k2, k3, k4,       \* values; the last four are LiteLLM's
  p1, p2                        \* processes

MCNameRank == [s \in Secret |-> IF s = apiKey THEN 1 ELSE IF s = saltKey THEN 2 ELSE 3]
MCBuiltin == {saltKey, agentKey} \cap Secret
MCBuiltinSource == [s \in MCBuiltin |-> IF s = saltKey THEN "generated" ELSE "minted"]
MCBuiltinZones == [s \in MCBuiltin |-> IF s = saltKey THEN {Services} ELSE {Agent}]

\* What the pod files name: the user's key is mounted, the rest are in the
\* environment.
MCUses == [w \in Workload |->
  (CASE w = llm -> {apiKey, saltKey} [] w = claw -> {agentKey} [] OTHER -> {}) \cap Secret]
MCMounts == [w \in Workload |-> IF w = llm THEN {apiKey} \cap Secret ELSE {}]

Bridge(v, targets) == [w \in Workload |-> IF w = v THEN targets ELSE {}]
NoBridges == [w \in Workload |-> {}]
MkZone(internal, workloads, bridges, secrets) ==
  [internal |-> internal, workloads |-> workloads, bridges |-> bridges, secrets |-> secrets]

\* The scaffold's shape: the control plane and the agent gateway reach into
\* the internal agent zone.
Scaffold ==
  [sound |-> TRUE, zone |-> [r \in Role |->
     CASE r = Infra -> MkZone(FALSE, <<cp>>, Bridge(cp, {Services, Agent}), {})
       [] r = Services -> MkZone(FALSE, <<llm, gate>>, Bridge(gate, {Agent}), {apiKey})
       [] r = Agent -> MkZone(TRUE, <<claw>>, NoBridges, {})]]

\* The scaffold after an edit: a workload and a secret are gone, the agent's
\* network is no longer internal.
Edited ==
  [Scaffold EXCEPT !.zone[Services] = MkZone(FALSE, <<llm>>, NoBridges, {}),
                   !.zone[Agent].internal = FALSE]

\* Refused: nothing bridges into the internal zone.
Sealed == [Scaffold EXCEPT !.zone[Infra].bridges = NoBridges,
                           !.zone[Services].bridges = NoBridges]

Full(cmd, destroy) == [cmd |-> cmd, roles |-> Role, destroy |-> destroy]
Only(cmd, r) == [cmd |-> cmd, roles |-> {r}, destroy |-> FALSE]

OneTopology == {Scaffold}
EditedTopologies == {Scaffold, Edited, Sealed}
EveryJob == {Full("up", FALSE), Full("down", FALSE), Full("down", TRUE),
             Only("up", Agent), Only("down", Agent)}
EveryFault == {"error", "interrupt", "crash", "reboot"}

\* For two processes at once: one workload, the services zone.
Small ==
  {[sound |-> TRUE, zone |-> [r \in Role |->
     MkZone(FALSE, IF r = Services THEN <<llm>> ELSE <<>>, NoBridges,
            IF r = Services THEN {apiKey} ELSE {})]]}
FullJobs == {Full("up", FALSE), Full("down", FALSE)}
SmallJobs == {Only("up", Services), Only("down", Services), Full("down", TRUE)}

\* Processes are alike, and so are values.
Symmetry == Permutations(Proc) \union Permutations(Value)

=============================================================================
