------------------------ MODULE LifecycleProperties -------------------------
(***************************************************************************)
(* What `up` and `down` promise, over the variables of Lifecycle.          *)
(***************************************************************************)
EXTENDS Lifecycle

\* Every variable holds what its declaration says.
TypeOK ==
  /\ PodmanTypeOK
  /\ KeychainTypeOK
  /\ proc \in [Proc -> Local]
  /\ budget \in 0 .. MaxFaults

-----------------------------------------------------------------------------
(* Secrets: the keychain is the source of truth                            *)

Durable == Secret \ Minted

\* Nothing up does replaces a value that is in the keychain, and nothing up
\* or down does removes one that was not minted: a generated salt key lost
\* this way makes LiteLLM's database unreadable. (resolve.Run's Put with
\* replace false; destroy.)
NeverOverwritten ==
  [][\A s \in Durable : IsSet(s) => items'[s] = items[s]]_vars

\* A value a copy of s may have: none, or the keychain's.
FromKeychain(s, v) == v = None \/ (IsSet(s) /\ v = items[s].val)

\* A copy of a secret that is not minted, wherever a run left it, is the
\* keychain's value: two runs that both find it missing never leave a store,
\* a volume or a pod with a value of their own. (resolve.Run stores a value
\* before it hands it to inject.Run.)
CopiesMatchKeychain ==
  \A s \in Durable :
    /\ FromKeychain(s, store[s])
    /\ FromKeychain(s, vols[s])
    /\ \A w \in ListPods : FromKeychain(s, pods[w].env[s])
    /\ \A p \in Proc : FromKeychain(s, proc[p].got[s])

\* A key the agent's pod was given is one LiteLLM knows. (destroy forgets the
\* minted item together with the database that knew it.)
AgentKeyAccepted ==
  \A w \in ListPods, s \in Minted :
    pods[w].env[s] # None => pods[w].env[s] \in keys

-----------------------------------------------------------------------------
(* up                                                                      *)

\* Past its check of the user's secrets an up can count on every one of them
\* in every zone it will apply: it never boots a machine to find out that an
\* API key is missing. (Up's first loop.)
UserSecretsFirst ==
  \A p \in Proc :
    LET me == proc[p] IN
    me.pc \in UpLabels \ {"users"} =>
      \A r \in me.roles : \A s \in ForZone(me.top, r) :
        SourceOf(s) = "user" => IsSet(s)

\* The kinds that lclaw.toml, as it is or was before an edit, has for the
\* network of zone r.
DeclaredKinds(r) == {NetworkKind(t.zone[r].internal) : t \in Topologies}

\* Zone r of lclaw.toml is there, each pod with the keychain's values on the
\* networks it is to be on and on no other. Of the network it takes the kind
\* that some lclaw.toml declared: up makes none again that is there, so an
\* edit of `internal` does not reach it. Where no edit touches `internal`
\* that is the kind lclaw.toml declares.
Delivered(t, r) ==
  /\ nets[r] \in DeclaredKinds(r)
  /\ \A w \in WorkloadsOf(t, r) :
       /\ pods[w] # None
       /\ pods[w].up
       /\ pods[w].userns = t.zone[r].internal
       /\ pods[w].nets = {q \in Role : q = r \/ q \in t.zone[r].bridges[w]}
       /\ \A s \in Uses[w] : IsSet(s) /\ pods[w].env[s] = items[s].val

EndsOk(p, cmd) ==
  /\ Busy(p) /\ proc[p].cmd = cmd
  /\ proc'[p].pc = "idle" /\ proc'[p].exit = "ok"

\* An up that exits 0 leaves the workloads of every selected zone as lclaw.toml
\* describes them, on a network of a kind that zone has been declared with,
\* whatever earlier runs were interrupted where. (Up, and the mapping of a
\* FAIL to the exit status. Up's network loop goes by the name alone: after an
\* edit of `internal` the zone keeps the network it had.)
UpDelivers ==
  [][\A p \in Proc : EndsOk(p, "up") =>
       /\ Running
       /\ \A r \in proc[p].roles : Delivered(proc[p].top, r)]_vars

-----------------------------------------------------------------------------
(* down                                                                    *)

\* The store is shared and the machine is one: a down that purges or stops
\* does so when no pod lclaw played is left, of whatever zone and whatever
\* lclaw.toml played it. (Down's snapshot of the pods.)
TeardownAfterLastPod ==
  \A p \in Proc :
    proc[p].pc \in {"purge", "purgevol", "stop"} => ListPods = {}

\* A down that stops the machine without having reported a failure leaves
\* nothing in the store, whatever put it there. (PurgeSecrets by label.)
StopHoldsNoSecret ==
  \A p \in Proc : Stopping(proc[p]) /\ ~proc[p].failed => ListSecrets = {}

\* A stopped machine holds nothing secret, neither in its store nor in a
\* volume. (The purge comes before the stop.)
StoppedHoldsNothing ==
  machine = "stopped" => \A s \in Secret : store[s] = None /\ vols[s] = None

\* As far as nothing was disturbed, both hold: however ups, downs and destroys
\* follow each other and lclaw.toml is edited between them.
KeyAcceptedUndisturbed == budget = MaxFaults => AgentKeyAccepted
NothingHeldUndisturbed == budget = MaxFaults => StoppedHoldsNothing

\* When a full down comes to stop the machine every network is removed.
\* (Down's network step per zone, in reverse order.)
NetworksRemoved ==
  \A p \in Proc :
    Stopping(proc[p]) /\ proc[p].roles = Role => \A r \in Role : ~NetworkExists(r)

\* A full down that nothing disturbed ends with the machine off. (The hint
\* Down gives when pods are left: "run `lclaw down` with no zone to stop the
\* machine".)
FullDownStopsMachine ==
  [][\A p \in Proc :
       ( /\ Busy(p) /\ proc[p].cmd = "down" /\ proc[p].roles = Role
         /\ ~proc[p].cancelled /\ proc'[p].pc = "idle" )
       => ~Running']_vars

\* A down that exits 0 leaves no pod of the selected zones running. (Down
\* goes on past a pod that will not stop, and reports it.)
DownLeavesNoPod ==
  [][\A p \in Proc : EndsOk(p, "down") =>
       \A r \in proc[p].roles : \A w \in WorkloadsOf(proc[p].top, r) :
         Running => pods[w] = None]_vars

-----------------------------------------------------------------------------
(* status, and the rules it goes by (src/internal/domain/status.go), when  *)
(* nothing else runs: each check's status.                                 *)

MachineCheck == IF machine = "absent" THEN "warn" ELSE "pass"

NetworkCheck(r) == IF NetworkExists(r) THEN "pass" ELSE "warn"

WorkloadCheck(w) ==
  CASE pods[w] = None -> "warn"
    [] pods[w] # None /\ pods[w].up -> "pass"
    [] OTHER -> "fail"

\* A machine that does not run is not asked.
StatusChecks(t) ==
  {MachineCheck}
  \union IF Running
           THEN {NetworkCheck(r) : r \in Role}
                \union UNION {{WorkloadCheck(w) : w \in WorkloadsOf(t, r)} : r \in Role}
           ELSE {}

\* "A script can tell down from broken": between commands that nothing
\* disturbed, status has no FAIL, whichever zones were brought up and taken
\* down, and however lclaw.toml was edited. (docs/reference/cli.md on status;
\* no machine is stopped with a pod on it.)
DownIsNotBroken ==
  budget = MaxFaults /\ (\A p \in Proc : ~Busy(p)) =>
    \A t \in Topologies : Valid(t) => "fail" \notin StatusChecks(t)

-----------------------------------------------------------------------------
(* Liveness                                                                *)

\* Every command ends.
EveryCommandEnds == \A p \in Proc : Busy(p) ~> ~Busy(p)

KeepsTrying(cmd) == []<>(\E p \in Proc : Busy(p) /\ proc[p].cmd = cmd)

CanSucceed == kcFile /\ \A s \in Secret : SourceOf(s) = "user" => IsSet(s)

Everything == Running /\ \E t \in Topologies : \A r \in Role : Delivered(t, r)

\* A user who runs up again and again gets everything up, as some lclaw.toml he
\* had describes it, wherever earlier commands were killed, failed or crashed.
\* (Every step of Up is idempotent.)
UpConverges == KeepsTrying("up") => (CanSucceed ~> Everything)

\* One who runs down again and again sees the machine off, whatever is
\* brought up in between. (Down stops the machine past failures before.)
DownConverges == KeepsTrying("down") => []<>(~Running)

=============================================================================
