----------------------------- MODULE Lifecycle ------------------------------
(***************************************************************************)
(* `lclaw up` and `lclaw down [--destroy]`, from                           *)
(* src/internal/app/lifecycle.go and lifecycle_secrets.go: one action per  *)
(* external call and per way a loop ends. Labels and what is pending       *)
(*   up    users    todo : user secrets to look for                        *)
(*         init, start                                                     *)
(*         nets     zones: networks to look for;      mknet                *)
(*         zone     zones: zones to apply, the first is being applied:     *)
(*                  todo is to be resolved, then got to be injected, then  *)
(*                  work to be built; mint, put and play are in between    *)
(*   down  list, pods                                                      *)
(*         down     zones: zones to take down, the last is being taken     *)
(*                  down: work, then its network;     rmnet                *)
(*         purge    todo : names to remove;           purgevol             *)
(*         stop, rm                                                        *)
(*         forget   todo : minted entries to look for; delitem             *)
(***************************************************************************)
EXTENDS Command

\* Zones are applied in order and taken down in reverse.
First(zones) == CHOOSE r \in zones : \A q \in zones : r <= q
Last(zones) == CHOOSE r \in zones : \A q \in zones : q <= r

-----------------------------------------------------------------------------
(* Starting a command: load, and for up the keychain file                  *)

\* Wrong on purpose: looks at the first zone only.
UserSecretsOfFirst(t, roles) == {s \in ForZone(t, First(roles)) : SourceOf(s) = "user"}

UserSecrets(t, roles) ==
  {s \in UNION {ForZone(t, r) : r \in roles} : SourceOf(s) = "user"}

Loaded(job, t) == [Idle("none") EXCEPT !.cmd = job.cmd, !.roles = job.roles,
                                       !.destroy = job.destroy, !.top = t]

\* Findings about lclaw.toml, or no keychain: exit 1 with nothing touched.
Refuse(p) ==
  /\ At(p, "idle")
  /\ \E job \in Jobs, t \in Topologies :
       ~Valid(t) \/ (job.cmd = "up" /\ ~kcFile)
  /\ LocalStep(p, Idle("failed"))

StartUp(p) ==
  /\ At(p, "idle") /\ kcFile
  /\ \E job \in Jobs, t \in Topologies :
       /\ job.cmd = "up" /\ Valid(t)
       /\ LocalStep(p, [Loaded(job, t) EXCEPT !.pc = "users",
                                              !.todo = UserSecrets(t, job.roles)])

StartDown(p) ==
  /\ At(p, "idle")
  /\ \E job \in Jobs, t \in Topologies :
       /\ job.cmd = "down" /\ Valid(t)
       /\ LocalStep(p, [Loaded(job, t) EXCEPT !.pc = "list"])

-----------------------------------------------------------------------------
(* up: user secrets, machine, networks                                     *)

\* Each one missing is a FAIL; any other error ends the command.
DescribeUser(p) ==
  LET me == proc[p] IN
  /\ At(p, "users")
  /\ \E s \in me.todo :
       /\ IsFirst(s, me.todo)
       /\ Query(p, kcFile,
                [me EXCEPT !.todo = @ \ {s}, !.failed = @ \/ ~IsSet(s)],
                ReturnError(me))

UserMissing(p) ==
  /\ At(p, "users") /\ proc[p].todo = {} /\ proc[p].failed
  /\ LocalStep(p, Report(proc[p]))

EnterNets(me) == [me EXCEPT !.pc = "nets", !.zones = me.roles]

\* Wrong on purpose: starts the machine without looking whether it runs.
StartAnyway(me) == [me EXCEPT !.pc = IF machine = "absent" THEN "init" ELSE "start"]

\* ensureMachine on what the list says: init it, start it, or go on.
EnsureMachine(me) ==
  CASE machine = "absent" -> [me EXCEPT !.pc = "init"]
    [] machine = "stopped" -> [me EXCEPT !.pc = "start"]
    [] machine = "running" -> EnterNets(me)

FindMachine(p) ==
  LET me == proc[p] IN
  /\ At(p, "users") /\ me.todo = {} /\ ~me.failed
  /\ Query(p, TRUE, EnsureMachine(me), ReturnError(me))

InitMachine(p) ==
  LET me == proc[p] IN
  /\ At(p, "init")
  /\ PodmanCall(p, CanInit, DoInit, [me EXCEPT !.pc = "start"], ReturnError(me))

StartMachine(p) ==
  LET me == proc[p] IN
  /\ At(p, "start")
  /\ PodmanCall(p, CanStart, DoStart, EnterNets(me), ReturnError(me))

\* A failed network command ends up with a FAIL, whatever the context says.
FindNetwork(p) ==
  LET me == proc[p]
      r  == First(me.zones)
  IN
  /\ At(p, "nets") /\ me.zones # {}
  /\ Query(p, Running,
           IF NetworkExists(r) THEN [me EXCEPT !.zones = @ \ {r}]
                               ELSE [me EXCEPT !.pc = "mknet"],
           Idle("failed"))

CreateNetwork(p) ==
  LET me == proc[p]
      r  == First(me.zones)
  IN
  /\ At(p, "mknet")
  /\ PodmanCall(p, CanCreateNetwork(r),
                DoCreateNetwork(r, me.top.zone[r].internal),
                [me EXCEPT !.pc = "nets", !.zones = @ \ {r}],
                Idle("failed"))

-----------------------------------------------------------------------------
(* up: the zones                                                           *)

EnterZone(me, zones) ==
  LET r == First(zones) IN
  [me EXCEPT !.pc = "zone", !.zones = zones,
             !.todo = ForZone(me.top, r), !.work = me.top.zone[r].workloads]

BeginZones(p) ==
  /\ At(p, "nets") /\ proc[p].zones = {}
  /\ LocalStep(p, EnterZone(proc[p], proc[p].roles))

\* A failed step fails its zone and the zones after it are skipped: only the
\* context, which the loop looks at before each of them, can matter now.
ZoneFails(me) ==
  Idle(IF me.cancelled /\ me.zones # {First(me.zones)} THEN "interrupted"
                                                      ELSE "failed")

\* What a failed inject, build, play or readiness wait does.
StepFails(me) == IF me.cancelled THEN Idle("interrupted") ELSE ZoneFails(me)

\* ResolveSecrets.Run reads the next secret of the zone. One that is absent
\* is a finding, is asked of LiteLLM or is generated, by its source.
Resolve(p) ==
  LET me == proc[p] IN
  /\ At(p, "zone")
  /\ \E s \in me.todo :
       /\ IsFirst(s, me.todo)
       /\ \/ /\ IsSet(s)
             /\ Query(p, kcFile,
                      [me EXCEPT !.todo = @ \ {s}, !.got[s] = items[s].val],
                      ReturnError(me))
          \/ /\ ~IsSet(s) /\ SourceOf(s) = "user"
             /\ Query(p, kcFile, [me EXCEPT !.todo = @ \ {s}, !.failed = TRUE],
                      ReturnError(me))
          \/ /\ ~IsSet(s) /\ SourceOf(s) = "minted"
             /\ Query(p, kcFile, [me EXCEPT !.pc = "mint"], ReturnError(me))
          \/ /\ ~IsSet(s) /\ SourceOf(s) = "generated"
             /\ \E v \in Value \ KeyValue :
                  Query(p, kcFile, [me EXCEPT !.pc = "put", !.fresh = v],
                        ReturnError(me))

\* A key that could not be minted is a finding, cancelled or not.
Mint(p) ==
  LET me == proc[p] IN
  /\ At(p, "mint")
  /\ \E s \in me.todo :
       /\ IsFirst(s, me.todo)
       /\ \E k \in KeyValue \ Held :
            PodmanCall(p, CanExec, DoMint(k),
                       [me EXCEPT !.pc = "put", !.fresh = k],
                       [me EXCEPT !.pc = "zone", !.todo = @ \ {s}, !.failed = TRUE])

\* Wrong on purpose: stores over what is there.
PutOver == TRUE

\* up stores what it made only where nothing is stored.
PutReplaces == FALSE

\* Wrong on purpose: goes on with the value the keychain did not take.
UseOwnValue(me, s) == [me EXCEPT !.pc = "zone", !.todo = @ \ {s},
                                 !.got[s] = me.fresh, !.fresh = None]

PutFails(me, s) == ReturnError(me)

Put(p) ==
  LET me == proc[p] IN
  /\ At(p, "put")
  /\ \E s \in me.todo :
       /\ IsFirst(s, me.todo)
       /\ KeychainCall(p, CanPut(s, PutReplaces), DoPut(s, me.fresh, SourceOf(s)),
                       [me EXCEPT !.pc = "zone", !.todo = @ \ {s},
                                  !.got[s] = me.fresh, !.fresh = None],
                       PutFails(me, s))

FindingsEndZone(p) ==
  LET me == proc[p] IN
  /\ At(p, "zone") /\ me.todo = {} /\ me.failed
  /\ LocalStep(p, ZoneFails(me))

Resolved(me) == me.pc = "zone" /\ me.todo = {} /\ ~me.failed

\* Wrong on purpose: only what the store does not have.
ToInjectMissing(me) == {s \in Secret : me.got[s] # None /\ store[s] = None}

ToInject(me) == {s \in Secret : me.got[s] # None}

\* InjectSecrets.Run.
Inject(p) ==
  LET me == proc[p] IN
  /\ Resolved(me)
  /\ \E s \in ToInject(me) :
       /\ IsFirst(s, ToInject(me))
       /\ PodmanCall(p, CanStoreSecret, DoStoreSecret(s, me.got[s]),
                     [me EXCEPT !.got[s] = None],
                     StepFails(me))

Injected(me) == Resolved(me) /\ ToInject(me) = {}

Build(p) ==
  LET me == proc[p] IN
  /\ Injected(me) /\ me.work # <<>>
  /\ Query(p, CanBuild, [me EXCEPT !.pc = "play"], StepFails(me))

Play(p) ==
  LET me == proc[p]
      r  == First(me.zones)
      w  == Head(me.work)
      networks == Networks(me.top, r, w)
  IN
  /\ At(p, "play")
  /\ \/ PodmanCall(p, CanPlay(w, networks),
                   DoPlay(w, networks, me.top.zone[r].internal),
                   [me EXCEPT !.pc = "zone", !.work = Tail(@)],
                   StepFails(me))
     \/ /\ Running /\ DoDown(w) /\ UNCHANGED keychainVars
        /\ IF CanPlay(w, networks) THEN Disturbed(me) ELSE UNCHANGED budget
        /\ Become(p, StepFails(me))

\* The next zone, or the report.
Applied(me) ==
  LET left == me.zones \ {First(me.zones)} IN
  CASE left = {} -> Report(me)
    [] left # {} /\ me.cancelled -> Idle("interrupted")
    [] OTHER -> EnterZone(me, left)

EndZone(p) ==
  LET me == proc[p] IN
  /\ Injected(me) /\ me.work = <<>> /\ First(me.zones) # Services
  /\ LocalStep(p, Applied(me))

\* Minter.Ready: it answers at last, or the timeout passes.
Ready(p) ==
  LET me == proc[p] IN
  /\ Injected(me) /\ me.work = <<>> /\ First(me.zones) = Services
  /\ Query(p, CanExec, Applied(me), StepFails(me))

-----------------------------------------------------------------------------
(* down: the machine and the pods                                          *)

ListMachine(p) ==
  LET me == proc[p] IN
  /\ At(p, "list")
  /\ Query(p, TRUE,
           CASE Running -> [me EXCEPT !.pc = "pods"]
             [] machine = "stopped" /\ me.destroy -> [me EXCEPT !.pc = "rm"]
             [] OTHER -> Report(me),
           Idle("failed"))

EnterDown(me, zones) ==
  [me EXCEPT !.pc = "down", !.zones = zones, !.kept = FALSE,
             !.work = IF zones = {} THEN <<>> ELSE me.top.zone[Last(zones)].workloads]

\* Wrong on purpose: only the pods lclaw.toml still names.
ListedNow(t) == ListPods \cap UNION {WorkloadsOf(t, r) : r \in Role}

\* Every pod with lclaw's label, whatever lclaw.toml says by now.
Listed(t) == ListPods

SnapshotPods(p) ==
  LET me == proc[p] IN
  /\ At(p, "pods")
  /\ Query(p, Running, EnterDown([me EXCEPT !.present = Listed(me.top)], me.roles),
           Idle("failed"))

LastWork(me) == me.work[Len(me.work)]
WithoutLast(me) == SubSeq(me.work, 1, Len(me.work) - 1)

SkipAbsent(p) ==
  LET me == proc[p] IN
  /\ At(p, "down") /\ me.work # <<>>
  /\ LastWork(me) \notin me.present
  /\ LocalStep(p, [me EXCEPT !.work = WithoutLast(me)])

\* Wrong on purpose: a pod that will not stop is not reported.
DownForgives(me) ==
  IF me.cancelled THEN Idle("interrupted")
  ELSE [me EXCEPT !.work = WithoutLast(me), !.kept = TRUE]

\* A pod that will not stop is a FAIL, and the next one is tried.
DownFails(me) ==
  IF me.cancelled THEN Idle("interrupted")
  ELSE [me EXCEPT !.work = WithoutLast(me), !.failed = TRUE, !.kept = TRUE]

KubeDown(p) ==
  LET me == proc[p]
      w  == LastWork(me)
  IN
  /\ At(p, "down") /\ me.work # <<>> /\ w \in me.present
  /\ PodmanCall(p, CanDown, DoDown(w),
                [me EXCEPT !.work = WithoutLast(me), !.present = @ \ {w}],
                DownFails(me))

-----------------------------------------------------------------------------
(* down: the zone's network                                                *)

NetworkDone(me) == EnterDown(me, me.zones \ {Last(me.zones)})

AtNetwork(me) == me.pc = "down" /\ me.zones # {} /\ me.work = <<>>

KeepNetwork(p) ==
  /\ AtNetwork(proc[p]) /\ proc[p].kept
  /\ LocalStep(p, NetworkDone(proc[p]))

FindOldNetwork(p) ==
  LET me == proc[p] IN
  /\ AtNetwork(me) /\ ~me.kept
  /\ Query(p, Running,
           IF NetworkExists(Last(me.zones)) THEN [me EXCEPT !.pc = "rmnet"]
                                            ELSE NetworkDone(me),
           IF me.cancelled THEN Idle("interrupted")
                           ELSE NetworkDone([me EXCEPT !.failed = TRUE]))

\* Wrong on purpose: tries again until the network goes.
RemoveRetries(me) == [me EXCEPT !.pc = "down"]

RemoveFails(me) == NetworkDone([me EXCEPT !.failed = TRUE])

RemoveNetwork(p) ==
  LET me == proc[p]
      r  == Last(me.zones)
  IN
  /\ At(p, "rmnet")
  /\ PodmanCall(p, CanRemoveNetwork(r), DoRemoveNetwork(r),
                NetworkDone(me), RemoveFails(me))

-----------------------------------------------------------------------------
(* down: purge and stop, when no pod was left                              *)

ZonesDown(me) == me.pc = "down" /\ me.zones = {}

\* Wrong on purpose: keeps the store and the machine when anything failed.
KeptOnFailure(me) == me.present # {} \/ me.failed

\* Wrong on purpose: one zone's pods are all it looks at.
KeptHere(me) == me.kept

\* Pods are left.
Kept(me) == me.present # {}

KeepStore(p) ==
  LET me == proc[p] IN
  /\ ZonesDown(me) /\ Kept(me)
  /\ LocalStep(p, Report(me))

\* A failed purge does not keep the machine from being stopped.
PurgeFails(me) ==
  IF me.cancelled THEN Idle("interrupted")
                  ELSE [me EXCEPT !.pc = "stop", !.failed = TRUE, !.todo = {}]

\* Wrong on purpose: only the secrets the catalogue still has.
PurgeableNow(t) == ListSecrets \cap Entries(t)

\* Wrong on purpose: only what up itself made.
PurgeableMade(t) == {s \in ListSecrets : SourceOf(s) # "user"}

\* Every secret with lclaw's label, dropped from the catalogue or not.
Purgeable(t) == ListSecrets

ListStored(p) ==
  LET me == proc[p] IN
  /\ ZonesDown(me) /\ ~Kept(me)
  /\ Query(p, Running, [me EXCEPT !.pc = "purge", !.todo = Purgeable(me.top)],
           PurgeFails(me))

RemoveSecret(p) ==
  LET me == proc[p] IN
  /\ At(p, "purge")
  /\ \E s \in me.todo :
       /\ IsFirst(s, me.todo)
       /\ PodmanCall(p, CanRemoveSecret(s), DoRemoveSecret(s),
                     [me EXCEPT !.pc = "purgevol"], PurgeFails(me))

RemoveVolume(p) ==
  LET me == proc[p] IN
  /\ At(p, "purgevol")
  /\ \E s \in me.todo :
       /\ IsFirst(s, me.todo)
       /\ PodmanCall(p, CanRemoveVolume(s), DoRemoveVolume(s),
                     [me EXCEPT !.pc = "purge", !.todo = @ \ {s}], PurgeFails(me))

Stopping(me) == me.pc = "stop" \/ (me.pc = "purge" /\ me.todo = {})

StopMachine(p) ==
  LET me == proc[p] IN
  /\ Stopping(me)
  /\ PodmanCall(p, CanStop, DoStop,
                IF me.destroy THEN [me EXCEPT !.pc = "rm"] ELSE Report(me),
                ReturnError(me))

-----------------------------------------------------------------------------
(* down --destroy: the machine, then the minted keys                       *)

\* Wrong on purpose: leaves the minted keys in the keychain.
ForgetNothing(t) == {}

ToForget(t) == {s \in Entries(t) : SourceOf(s) = "minted"}

RemoveMachine(p) ==
  LET me == proc[p] IN
  /\ At(p, "rm")
  /\ PodmanCall(p, CanRemove, DoRemove,
                [me EXCEPT !.pc = "forget", !.todo = ToForget(me.top)],
                ReturnError(me))

\* Errors are FAILs and the loop goes on.
FindMinted(p) ==
  LET me == proc[p] IN
  /\ At(p, "forget")
  /\ \E s \in me.todo :
       /\ IsFirst(s, me.todo)
       /\ Query(p, kcFile,
                IF IsSet(s) THEN [me EXCEPT !.pc = "delitem"]
                            ELSE [me EXCEPT !.todo = @ \ {s}],
                [me EXCEPT !.todo = @ \ {s}, !.failed = TRUE])

DeleteMinted(p) ==
  LET me == proc[p] IN
  /\ At(p, "delitem")
  /\ \E s \in me.todo :
       /\ IsFirst(s, me.todo)
       /\ KeychainCall(p, CanDelete(s), DoDelete(s),
                       [me EXCEPT !.pc = "forget", !.todo = @ \ {s}],
                       [me EXCEPT !.pc = "forget", !.todo = @ \ {s}, !.failed = TRUE])

Forgotten(p) ==
  /\ At(p, "forget") /\ proc[p].todo = {}
  /\ LocalStep(p, Report(proc[p]))

-----------------------------------------------------------------------------
(* Where the code looks at the context between calls                       *)

ChecksContext(me) ==
  \/ me.pc \in {"users", "forget"} /\ me.todo # {}
  \/ me.pc \in {"nets", "rmnet", "purge", "stop"}
  \/ me.pc = "zone" /\ (me.todo # {} \/ (~me.failed /\ (ToInject(me) # {} \/ me.work # <<>>)))
  \/ me.pc = "down" /\ me.work # <<>>

SeesInterrupt(p) ==
  /\ proc[p].cancelled /\ ChecksContext(proc[p])
  /\ LocalStep(p, Idle("interrupted"))

-----------------------------------------------------------------------------

UpStep(p) ==
  \/ DescribeUser(p) \/ UserMissing(p)
  \/ FindMachine(p) \/ InitMachine(p) \/ StartMachine(p)
  \/ FindNetwork(p) \/ CreateNetwork(p) \/ BeginZones(p)
  \/ Resolve(p) \/ Mint(p) \/ Put(p) \/ FindingsEndZone(p)
  \/ Inject(p) \/ Build(p) \/ Play(p) \/ EndZone(p) \/ Ready(p)

DownStep(p) ==
  \/ ListMachine(p) \/ SnapshotPods(p) \/ SkipAbsent(p) \/ KubeDown(p)
  \/ KeepNetwork(p) \/ FindOldNetwork(p) \/ RemoveNetwork(p)
  \/ KeepStore(p) \/ ListStored(p) \/ RemoveSecret(p) \/ RemoveVolume(p)
  \/ StopMachine(p) \/ RemoveMachine(p)
  \/ FindMinted(p) \/ DeleteMinted(p) \/ Forgotten(p)

Start(p) == Refuse(p) \/ StartUp(p) \/ StartDown(p)

\* What a running command does by itself.
Step(p) == UpStep(p) \/ DownStep(p) \/ SeesInterrupt(p)

Next ==
  \/ \E p \in Proc : Start(p) \/ Step(p) \/ Interrupt(p) \/ Crash(p)
  \/ Reboot

Init == CommandInit

Spec == Init /\ [][Next]_vars

\* A command is one goroutine that the operating system keeps running: no
\* call blocks for ever, since the readiness wait has a timeout.
FairSpec == Spec /\ \A p \in Proc : WF_vars(Step(p))

=============================================================================
