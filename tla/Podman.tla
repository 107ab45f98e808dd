------------------------------- MODULE Podman -------------------------------
(***************************************************************************)
(* The one Podman machine and LiteLLM inside it, as the adapters in        *)
(* src/internal/adapters/podman and adapters/litellm drive them. Each      *)
(* command is an effect (DoX, which fixes every variable of this module)   *)
(* and the condition under which Podman accepts it (CanX). The commands    *)
(* are the adapters'; what Podman does with them is external, from the     *)
(* facts docs/explanation/lifecycle-commands.md lists.                     *)
(*                                                                         *)
(* Not kept: images (build has no effect a later step can miss), volumes   *)
(* that do not belong to a secret, and anything another tool put on the    *)
(* machine.                                                                *)
(***************************************************************************)
EXTENDS Topology

CONSTANTS
  Value,     \* values a secret may have
  KeyValue,  \* those LiteLLM issues
  None,      \* no value, no pod
  Uses,      \* the secrets a workload's pod.yaml names
  Mounts,    \* those among them it mounts as a volume
  MinterPod  \* the workload whose container is litellm-litellm

ASSUME PodmanAssumption ==
  /\ KeyValue \subseteq Value
  /\ None \notin Value
  /\ Uses \in [Workload -> SUBSET Secret]
  /\ Mounts \in [Workload -> SUBSET Secret]
  /\ \A w \in Workload : Mounts[w] \subseteq Uses[w]
  /\ MinterPod \in Workload

VARIABLES
  machine, \* the machine named lclaw
  nets,    \* the zone networks on it
  pods,    \* the pods carrying lclaw's label
  store,   \* its secret store, entries carrying lclaw's label
  vols,    \* named volumes kube play made for mounted secrets
  keys     \* the virtual keys LiteLLM's database knows

podmanVars == <<machine, nets, pods, store, vols, keys>>

Maybe(S) == S \union {None}

Pod == [up : BOOLEAN,                    \* its containers run
        nets : SUBSET Role,
        userns : BOOLEAN,                \* --userns auto
        env : [Secret -> Maybe(Value)]]  \* what it read from the store

ASSUME PodAssumption == None \notin Pod

PodmanTypeOK ==
  /\ machine \in {"absent", "stopped", "running"}
  /\ nets \in [Role -> {"absent", "open", "internal"}]
  /\ pods \in [Workload -> Maybe(Pod)]
  /\ store \in [Secret -> Maybe(Value)]
  /\ vols \in [Secret -> Maybe(Value)]
  /\ keys \subseteq KeyValue

PodmanInit ==
  /\ machine = "absent"
  /\ nets = [r \in Role |-> "absent"]
  /\ pods = [w \in Workload |-> None]
  /\ store = [s \in Secret |-> None]
  /\ vols = [s \in Secret |-> None]
  /\ keys = {}

-----------------------------------------------------------------------------
(* The machine                                                             *)

Running == machine = "running"

CanInit == machine = "absent"
DoInit == machine' = "stopped" /\ UNCHANGED <<nets, pods, store, vols, keys>>

\* Starting a running machine is an error.
CanStart == machine = "stopped"
DoStart == machine' = "running" /\ UNCHANGED <<nets, pods, store, vols, keys>>

\* Stopping a stopped machine is not. A pod still there stays, exited.
Exited(w) == IF pods[w] = None THEN None ELSE [pods[w] EXCEPT !.up = FALSE]

CanStop == machine # "absent"
DoStop ==
  /\ machine' = "stopped"
  /\ pods' = [w \in Workload |-> Exited(w)]
  /\ UNCHANGED <<nets, store, vols, keys>>

\* rm --force takes the disk: networks, pods, the store, the volumes and
\* with them LiteLLM's database.
CanRemove == machine # "absent"
DoRemove ==
  /\ machine' = "absent"
  /\ nets' = [r \in Role |-> "absent"]
  /\ pods' = [w \in Workload |-> None]
  /\ store' = [s \in Secret |-> None]
  /\ vols' = [s \in Secret |-> None]
  /\ keys' = {}

-----------------------------------------------------------------------------
(* Networks                                                                *)

NetworkExists(r) == nets[r] # "absent"

NetworkKind(internal) == IF internal THEN "internal" ELSE "open"

CanCreateNetwork(r) == Running /\ nets[r] = "absent"
DoCreateNetwork(r, internal) ==
  /\ nets' = [nets EXCEPT ![r] = NetworkKind(internal)]
  /\ UNCHANGED <<machine, pods, store, vols, keys>>

\* network rm refuses while a container uses the network.
Attached(r) == {w \in Workload : pods[w] # None /\ r \in pods[w].nets}

CanRemoveNetwork(r) == Running /\ nets[r] # "absent" /\ Attached(r) = {}
DoRemoveNetwork(r) ==
  /\ nets' = [nets EXCEPT ![r] = "absent"]
  /\ UNCHANGED <<machine, pods, store, vols, keys>>

-----------------------------------------------------------------------------
(* The secret store                                                        *)

ListSecrets == {s \in Secret : store[s] # None}

CanStoreSecret == Running
DoStoreSecret(s, v) ==
  /\ store' = [store EXCEPT ![s] = v]
  /\ UNCHANGED <<machine, nets, pods, vols, keys>>

CanRemoveSecret(s) == Running /\ store[s] # None
DoRemoveSecret(s) ==
  /\ store' = [store EXCEPT ![s] = None]
  /\ UNCHANGED <<machine, nets, pods, vols, keys>>

\* The volume named like the secret, if there is one; Podman refuses while
\* a pod has it mounted.
CanRemoveVolume(s) ==
  /\ Running
  /\ vols[s] # None => \A w \in Workload : pods[w] # None => s \notin Mounts[w]
DoRemoveVolume(s) ==
  /\ vols' = [vols EXCEPT ![s] = None]
  /\ UNCHANGED <<machine, nets, pods, store, keys>>

-----------------------------------------------------------------------------
(* Workloads                                                               *)

ListPods == {w \in Workload : pods[w] # None}

CanBuild == Running

\* kube play --replace needs the networks it is given and the secrets the
\* file names. It copies their values, into the environment and into the
\* volumes of mounted secrets, where they stay until the next play.
CanPlay(w, networks) ==
  /\ Running
  /\ \A r \in networks : NetworkExists(r)
  /\ \A s \in Uses[w] : store[s] # None
DoPlay(w, networks, userns) ==
  /\ pods' = [pods EXCEPT ![w] =
       [up |-> TRUE, nets |-> networks, userns |-> userns,
        env |-> [s \in Secret |-> IF s \in Uses[w] THEN store[s] ELSE None]]]
  /\ vols' = [s \in Secret |-> IF s \in Mounts[w] THEN store[s] ELSE vols[s]]
  /\ UNCHANGED <<machine, nets, store, keys>>

\* kube down leaves volumes. It is also what --replace does first, so a play
\* that fails may leave no pod.
CanDown == Running
DoDown(w) ==
  /\ pods' = [pods EXCEPT ![w] = None]
  /\ UNCHANGED <<machine, nets, store, vols, keys>>

-----------------------------------------------------------------------------
(* LiteLLM                                                                 *)

\* Both scripts run by podman exec inside the LiteLLM container.
CanExec == Running /\ pods[MinterPod] # None /\ pods[MinterPod].up

\* key/generate makes a key and records it.
DoMint(k) ==
  /\ keys' = keys \union {k}
  /\ UNCHANGED <<machine, nets, pods, store, vols>>

=============================================================================
