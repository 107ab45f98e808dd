------------------------------ MODULE MCLclaw -------------------------------
(***************************************************************************)
(* Instances of Lclaw for TLC.                                             *)
(***************************************************************************)
EXTENDS MCLifecycle, Lclaw

\* LiteLLM bridges into the agent's zone, so that two workloads do.
Pair ==
  [sound |-> TRUE, zone |-> [r \in Role |->
     CASE r = Infra -> MkZone(FALSE, <<>>, NoBridges, {})
       [] r = Services -> MkZone(FALSE, <<llm>>, Bridge(llm, {Agent}), {apiKey})
       [] r = Agent -> MkZone(TRUE, <<claw>>, NoBridges, {})]]

\* up and down refuse this one, the secrets commands do not look at bridges.
PairSealed == [Pair EXCEPT !.zone[Services].bridges = NoBridges]

\* The catalogue refuses a declared built-in.
PairCollides == [Pair EXCEPT !.zone[Services].secrets = {apiKey, agentKey}]

OnePair == {Pair}
Pairs == {Pair, PairSealed, PairCollides}

\* saltKey stands for any generated secret, most of which may be made anew.
MCRotatable == {agentKey, saltKey} \cap Secret

Do(cmd, s) == [cmd |-> cmd, name |-> s]

EverySecretJob == {Do("set", apiKey), Do("update", apiKey), Do("update", agentKey),
                   Do("generate", apiKey), Do("generate", saltKey), Do("generate", agentKey),
                   Do("delete", apiKey), Do("delete", agentKey)}
LifecycleJobs == {Full("up", FALSE), Full("down", FALSE), Full("down", TRUE)}
DeleteJobs == {Do("set", apiKey), Do("delete", apiKey)}

\* The keys LiteLLM issues are alike, and so are the other values.
ValueSymmetry == Permutations(KeyValue) \union Permutations(Value \ KeyValue)

=============================================================================
