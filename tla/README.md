# lclaw in TLA+

`lclaw` manages one Podman machine with three zones of workloads, a macOS
keychain that is the source of truth for their secrets, and LiteLLM, which
mints the key the agent uses; `init` writes the scaffold and makes the keychain,
`doctor` and `status` say how things are. Every command is a sequence of child processes
(`podman`, `security`) against state that outlives it, with no lock and no
transaction. This directory models that: what a command does between two
external calls is one step, and anything may happen between the steps.

## Inventory

| Part (source) | State it keeps | Operations | What makes it correct |
| --- | --- | --- | --- |
| Lifecycle (`internal/app/lifecycle.go`, `lifecycle_secrets.go`) | none between commands; locals of a run: zones, workloads and names still to do, resolved values, pods seen, the report | `up [ZONE...]`, `down [ZONE...] [--destroy]`, `status` | a reported success means what was asked for is so; a failed or killed run can be run again; secrets go to the machine only from the keychain and leave it with the last pod |
| Topology, roles, catalogue (`internal/domain`) | the content of `lclaw.toml`, read once per command, edited between commands | validate, zone order, networks of a workload, catalogue and its entries per zone | only legal topologies are acted on; a name has one source; zone and name order are fixed |
| Podman adapter (`internal/adapters/podman`) | machine, networks, pods, labelled secret store, secret volumes (all inside Podman) | machine list/init/start/stop/rm, network exists/create/rm, build, kube play/down, pod ps, secret create/ls/rm, volume rm | each method is one command, except list secrets and remove volume, which are two |
| LiteLLM adapter (`internal/adapters/litellm`) | the virtual keys in LiteLLM's database, on the machine's disk | Ready (poll with timeout), Mint, Revoke (no caller) | a key is minted once and used while its database lives |
| Keychain adapter (`internal/adapters/keychain`) | keychain file, items with value and source | Exists, Create, Get, Describe, Put (with or without replace), Delete; unlock and retry once | no other keychain is touched while the file is there; an item is replaced only when asked |
| Process execution, exit status (`internal/adapters/exec`, `internal/cli/exit.go`, `cmd/lclaw/main.go`) | context cancelled by SIGINT or SIGTERM | Run, Interactive, classify; ExitCode | 130 exactly for an interrupt; a killed child's effect is unknown |
| Secrets commands (`internal/app/secrets.go`) | none | list, describe, set, update, delete, get | keychain first, then the running machine's store; no rollback, the next up reconciles |
| Init, file writer (`internal/app/init.go`, `internal/adapters/osfs`) | scaffold files, temporary files, keychain file and its lock settings | write defaults, create the keychain in two calls | never overwrites without force; no half-written file; never replaces a keychain; run again, makes what is missing |
| Doctor, status (`internal/app/doctor.go`, `internal/domain/status.go`, `requirement.go`, `secret_check.go`, `version.go`) | none, read only | one report each | doctor exits 0 exactly when the tools are recent enough and the scaffold, if there is one, is one up accepts; status tells down from broken |
| Loader (`internal/adapters/toml`) | none | decode `lclaw.toml`, resolve the keychain path, order the zones | what is validated is what the commands act on |
| Command line, rendering, tty, flox (`internal/cli`, ...) | none | parse flags, print, prompt | no state to model |

How they interact: a command loads `lclaw.toml` (Topology), calls the adapters
one at a time, and collects checks; the exit status is a function of the report
and the error. Two commands share the keychain, the machine and LiteLLM, and
nothing else. The user edits `lclaw.toml` between any two loads.

What is hard here: two commands interleaved; state listed once and used many
calls later; a command killed between two calls, or during one whose effect is
then unknown; the host restarting; an edit of the topology between `up` and
`down`; the order of zones against networks shared through bridges; a step that
fails and the decision whether to go on. `PROJECT.json` lists these hazards at
their lines with the properties that watch them.

## Modules

```
Topology <- Podman <- Keychain <- Command <- Lifecycle <- LifecycleProperties
                                  Command <- SecretsCmd

LifecycleProperties              <- MCLifecycle, LifecycleProofs
LifecycleProofs  <- UpDownProofs <- UpProofs
LifecycleProperties, SecretsCmd  <- Lclaw <- LclawHistory
MCLifecycle, Lclaw               <- MCLclaw
MCLclaw, LclawHistory            <- MCLclawHistory
LclawHistory, UpProofs           <- LclawProofs
Custody        (implemented by Lclaw)

Disturbances <- FileWriter <- InitCmd            <- MCInitCmd, InitProofs
AtomicFiles    (implemented by InitCmd)
Disturbances <- KeychainClient                   <- MCKeychainClient, KeychainClientProofs
KeychainPort   (implemented by KeychainClient)
Configuration, Disturbances <- Doctor            <- MCDoctor, DoctorProofs
```

(`A <- B` reads: `B` extends `A`. `Configuration` takes `Topology` by
`INSTANCE`, as what a file means; `DoctorProofs` takes `FoldProofs` so, once for
each loop it is about.)

* `Topology` is `lclaw.toml` and the domain's rules: zones, bridges, the
  validation that relates parts of the file, the secret catalogue. `sound`
  stands for the rules about spelling and scalars.
* `Podman` holds the machine's state (`machine`, `nets`, `pods`, `store`,
  `vols`, and LiteLLM's `keys`). A command of the adapter is an effect `DoX`
  and the condition `CanX` under which Podman accepts it; the conditions are the
  facts `docs/explanation/lifecycle-commands.md` lists (starting a running
  machine is an error, stopping a stopped one is not, `network rm` refuses
  attached pods, `kube play` copies a secret's value into the pod and, when it is
  mounted, into a volume named like it, and `kube down` leaves that volume).
* `Keychain` is the keychain file and its items.
* `Command` is what all commands share: the process record with the run's
  locals, the three outcomes of an external call (its effect, a refusal, a
  disturbance after which the effect is unknown), signals, crashes, restarts,
  and the exit status. It has no lifecycle in it, so later modules for other
  commands build on it.
* `Lifecycle` is `up`, `down` and `destroy`. `pc` names the place in the code;
  its header lists the labels with what is still to do at each. An action is
  one external call with everything the code does until the next one, or one
  exit from a loop. `ChecksContext` lists the places where the code looks at
  `ctx.Err()` between calls; an interrupt seen there ends the run with 130, an
  interrupt during a call makes the call fail and the code's own error path
  decides.
* `LifecycleProperties` states what is checked and proved, and holds the checks
  of `status` as operators over one state.
* `SecretsCmd` is `secrets set`, `update`, `update --generate` and `delete`,
  with labels of their own in `pc`, the name in `todo` and the new value in
  `fresh`. It knows nothing of `Lifecycle`; the two meet in the keychain and the
  machine.
* `Lclaw` composes them: a process may run any command, and what is promised
  across commands is stated here.
* `LclawHistory` adds two history variables, which no command reads: `ever`,
  the values the keychain has held, and `alone`, the processes beside whose
  command nothing has run. They let "was the keychain's value at some time" and
  "an up that nothing runs beside" be said.
* `Custody` is the abstract specification of how values travel: a vault (the
  keychain), hands (what a command took from it) and copies (the machine). A step
  changes the vault or the copies, never both, and copies come from hands only.
  `Lclaw` instantiates it with a refinement mapping (`Carried`).
* `Disturbances` is the budget of failures, interrupts, crashes and changes that
  the following modules share.
* `FileWriter` is `System.WriteFile`, one file system call a step, with the
  temporary file it makes and may leave. `AtomicFiles` is what the `FileWriter`
  port promises of it: look, then replace all at once, or leave alone.
* `InitCmd` is `init`: the walk over the default files, then the keychain step
  with its three calls. `keychains` tells a file just created from one with its
  lock settings.
* `KeychainClient` is the adapter inside: the file check, the command, the unlock
  when it exits 36 and the second attempt, with keychains that lock themselves at
  any time and whose files come and go. A removal of a file costs from the budget,
  like a failure. `seen` is a history variable, which no step of the client reads:
  the processes whose call had its file there at some time. `KeychainPort` is what
  the port promises: each call is one step, or fails with or without its effect;
  one whose file went on the way (`Lost`) may also be answered as if a keychain
  without the item were there (`Mislead`). `Keychain` is the same promise at the
  grain `up` and `down` need.
* `Configuration` is the way from `lclaw.toml` to a topology: what the loader
  accepts, `Validate` and `NewCatalogue` as they go through the tables, each loop
  of the code a fold over the list it goes through, and `Means`, the topology of
  module `Topology` a file stands for.
* `Doctor` is `doctor`, one call a step, while the host and the file change.
* `MCLifecycle`, `MCLclaw`, `MCLclawHistory`, `MCInitCmd`, `MCKeychainClient` and
  `MCDoctor` give the constants values for TLC.
* `LifecycleProofs`, `UpDownProofs`, `UpProofs`, `LclawProofs`, `InitProofs`,
  `KeychainClientProofs` and `DoctorProofs` hold the theorems, `FoldProofs` the
  induction over a loop that the last needs.

Definitions marked "Wrong on purpose" are plausible bugs; nothing uses them, and
they show that each property can fail (`mutants` in `PROJECT.json`).

| Code | Model |
| --- | --- |
| `Lifecycle.load` | `Refuse`, `StartUp`, `StartDown` with `Valid` |
| `Up`: user secrets | `DescribeUser`, `UserMissing` |
| `ensureMachine` | `FindMachine`, `InitMachine`, `StartMachine` |
| `Up`: networks | `FindNetwork`, `CreateNetwork`, `BeginZones` |
| `ResolveSecrets.Run` | `Resolve`, `Mint`, `Put`, `FindingsEndZone` |
| `InjectSecrets.Run` | `Inject` |
| `Up`: workloads, readiness | `Build`, `Play`, `EndZone`, `Ready` |
| `Down`: machine, pods, zones | `ListMachine`, `SnapshotPods`, `SkipAbsent`, `KubeDown`, `KeepNetwork`, `FindOldNetwork`, `RemoveNetwork` |
| `Down`: purge and stop | `KeepStore`, `ListStored`, `RemoveSecret`, `RemoveVolume`, `StopMachine` |
| `Secrets.prepare`, `lookup`, `requireKeychain` | `RefuseSecrets`, `Prepared`, `Starts` |
| `Secrets.Set`, `Update`, `produce` | `StartSet`, `StartUpdate`, `StartGenerate`, `FindItem`, `MintAgain`, `GenerateAgain`, `Save` |
| `Secrets.push` | `PushInterrupted`, `LookMachine`, `Send` |
| `Secrets.Delete`, `inspect` | `StartDelete`, `Erase`, `InspectMachine`, `FindStored`, `DropStored` |
| `destroy` | `RemoveMachine`, `FindMinted`, `DeleteMinted`, `Forgotten` |
| `Status` and its checks | `StatusChecks`, `MachineCheck`, `NetworkCheck`, `WorkloadCheck` |
| `System.WriteFile`, `fill` | `BeginWrite`, `Look`, `CreateTemp`, `Fill`, `Rename`, `Discard` |
| `Init.Run` | `Start`, `WalkEnds`, `NextFile`, `WriteFile`, `FileDone` |
| `Init.keychainStep`, `Client.Create` | `LoadTopology`, `FindKeychain`, `CreateKeychain`, `SettleKeychain` |
| keychain `Client.require`, `run`, `wrap` | `Require`, `FirstAttempt`, `Unlock`, `SecondAttempt`, `Exit` |
| `Loader.Load`, `toDomain` | `Loads`, `ZoneOrder` |
| `Validate`, `NewCatalogue` | `ScanZones` (`ScanWorkload`, `ScanBridge`, `ScanTarget`), `MissingZones`, `UnreachedZones`, `Merged` (`AddZone`, `AddSecret`) |
| `Doctor.Run` | `FloxVersion`, `PodmanVersion`, `ReadScaffold`, `FindKeychain`, `DescribeSecret`, `SecretsDone`, `ListMachine`, `FindNetwork` |

Abstracted: a workload's image, its pod file beyond the secrets it names, image
contents, volumes that are not a secret's; value bytes (a value is a token, and
a key LiteLLM issues is one that nothing in the state holds, so that finitely
many tokens stand for all keys); the report beyond "has a FAIL"; the keychain's
lock (an operation it prevents is one that failed); the polling inside `Ready`;
the two commands inside `ListSecrets` and inside `RemoveVolume`, which are one step
each; all default files have one text; a scalar of `lclaw.toml` is legal or not,
and a name well formed or not. A user secret of two zones is looked for once. The value given to `set` or
`update` passes `ValidateValue` and is at hand when the command starts; a
signal at the prompt ends a command that has done nothing.

Not modelled although it exists: `podman-restart.service` bringing exited pods
back, a killed `podman` client whose request takes effect later than the kill,
and other tools acting on the machine.

Not modelled: the polling inside `Ready` (a loop over the clock with no state
besides), the text formats of `security` and `podman` and the parsing of a
tool's version (pure functions over strings), `secrets list`, `describe` and `get`
(they change nothing), `status` while another command runs (its verdicts are
checked between commands; beside a `down` it may see a pod half gone and report a
FAIL, which its documentation does not exclude), flags, rendering, the password
prompt, and the scripts that check the documentation. `Revoke` has no caller.
In `InitCmd` nobody edits a file while an `init` runs; what the user made before
is arbitrary.

## Runs

The instance has three zones as in the default scaffold: a control plane in
`infra` bridging to the other two, LiteLLM and a gateway in `services`, the agent
in the internal zone; a user, a generated and a minted secret; and a second
`lclaw.toml` in which a workload and a secret are gone and the internal flag is
flipped, plus one that validation refuses.

| Run | Question | Distinct states |
| --- | --- | --- |
| `Disturbed` | one process, edited topologies, full and single-zone commands, up to two errors, interrupts, crashes or restarts anywhere: type invariant, user secrets before the boot, tear-down only after the last pod, a clean stop holds no secret, a successful up delivers (but for the kind of a network it finds), a successful down leaves no pod; as far as nothing was disturbed, the agent's key is known to LiteLLM, a stopped machine holds nothing, and status has no FAIL | 702,645 |
| `Concurrent` | two processes, one disturbance, symmetric: copies are the keychain's values, no value is overwritten | 177,974 |
| `Retry` | fairness, two disturbances: every command ends; up, run again, succeeds; down, run again, has the machine off | 27,454 |
| `Secrets` | one process, all secrets commands, up, down and destroy, one error, interrupt or crash, three topologies: a successful secrets command leaves the running machine's store with what the keychain has; an up after any of them delivers | 953,549 |
| `SecretsConcurrent` | two processes, set, update, delete, up and down at once, symmetric: every copy was the keychain's value at some time, an up alone reconciles, a value the user supplied is not replaced behind his back, and every step is one of `Custody`'s | 1,271,652 |
| `Init` | two inits, one error, interrupt or crash, any files and keychains before: files change as `AtomicFiles` says, failures clean up, success delivers, a keychain without settings only behind a fault, every init ends, a repeated one makes the files and the keychain that are missing | 284,540 |
| `KeychainCalls` | two processes, one item, two failures or removals, a keychain that comes, goes and locks itself: the client implements `KeychainPort`, the default keychain gets an item only when the file went after the check, every call is answered | 37,279 |
| `Doctor` | two changes, failures or an interrupt from two hosts and four files: exit 0 exactly when flox and podman are recent enough and the scaffold, if there is one, is one up accepts, an interrupt is no failure, `Validate` and `NewCatalogue` find what `Topology` means | 774,733 |

Every zone has a kind of workload that differs in what matters (bridging,
minting, using the minted key, internal), each source of a secret occurs, each
pair of commands occurs in sequence, and two disturbances cover a fault during
the recovery from a fault. Two processes suffice for the races looked at: each
is about one check by one process and one write by another. The bounds are
`MaxFaults` (how many disturbances in all), the constants' sizes, and `KeyValue`
(three keys, four in `Secrets`; a key that nothing in `Held` holds is issued
again as a new one, so mints are not limited).

`KeyAcceptedUndisturbed`, `NothingHeldUndisturbed` and `DownIsNotBroken` speak of the
states of `Disturbed` in which the whole budget is left: histories of any length
of ups, downs, destroys and edits without a fault.

`Init` has two files, of which `lclaw.toml` is one that init writes, the user
wrote, or cannot be read, and two keychains, as the user's file may name another;
a path may be a directory. One fault covers each call of a write and of the
keychain step, and what a second init makes of what was left; two inits cover the
check of one against the rename of another. `KeychainCalls` needs one keychain
and one item, as calls on different ones do not meet; two values tell a retry's
effect from another's. In `Doctor` the budget is how far the file and the host
are from where they start, too: `Validate` and the catalogue are checked on every
file two edits away from the scaffold, from one in which two zones share a
secret, and from one with an unknown zone that comes after the known ones and
repeats their names. The versions are the minima, their neighbours, and the
numbers that compare differently part by part.

The secrets runs use a smaller instance: LiteLLM with the user's mounted key and
a generated one, and the agent with its minted one, which is enough for every
source of a value (`set`, `update`, generated, minted) and for the volume of a
mounted secret. One of its topologies is refused by `up` and `down` only, and
one by the catalogue. Restarts are left to `Disturbed`: a secrets command looks
at the machine anew and meets one after a restart as it does a stopped one. In
`SecretsConcurrent` one workload names a user secret and a generated one: an
update races with an up's inject, a set with an up's `Put`, a delete with both;
`update --generate` writes as `update` does and is left to `Secrets`.

Deadlock is checked in every run: a process can always start another command or
call.

The violation runs, each one disagreement between the code and what its
documentation or comments say (quoted in `PROJECT.json`):

| Run | What happens |
| --- | --- |
| `DestroyAgain` | an interrupt between removing the machine and forgetting the minted key: the next up gives the agent a dead key (and another destroy before it would find no machine and forget nothing) |
| `FullDown` | a full down removes the agent's network while a bridging pod of another zone is still attached: refused, reported as FAIL, network left |
| `EditWorkload` | a pod dropped from `lclaw.toml` makes every full down keep the store and the machine |
| `DeleteThenDown` | a secret deleted while its pod runs: its volume stays, the purge does not list it, the stopped machine keeps the value |

Other disagreements met while modelling, each visible in the model, without a run:

* Two commands at once: an up that plays a pod after `Down` has listed the pods
  (`SnapshotPods`) has its store purged and its machine stopped, where
  `docs/reference/cli.md:127-129` has that happen "only when nothing lclaw played
  is left". `TeardownAfterLastPod` is therefore stated for one command at a time.
* A purge killed between a secret and its volume (`RemoveSecret`, `RemoveVolume`)
  leaves a volume that no later purge lists, where `docs/reference/cli.md:247`
  has the interrupted command, run again, finish the job.
* An init killed between `create-keychain` and `set-keychain-settings` leaves a
  keychain that never locks itself after 900 seconds, and the next init skips it
  and exits 0 (`FindKeychain`), where `docs/reference/secrets.md:106` has these
  settings as a property of the keychain and `docs/reference/cli.md:247` has the
  interrupted command, run again, finish the job. `BareOnlyBehindFault` says that
  an undisturbed init never leaves such a keychain, and `InitConverges` speaks of
  the files and the keychain's file only where an init has broken off so
  (`Abandoned`): with "settled" alone in `Complete`, it is violated.
* A keychain whose file is deleted after the client looked for it (`Require`) is
  not refused, where `internal/app/ports.go:91` has every method do so: a put goes
  to the user's default keychain, a lookup finds nothing. `DefaultOnlyBehindLoss`
  says that nothing else leads there, and `Mislead` of `KeychainPort` how such a
  call may be answered.
* `docs/reference/cli.md:159` says of doctor "Every check runs regardless of earlier
  results"; the code skips the topology without a scaffold, the secrets without a
  keychain and the machine without podman, with warnings (`ReadScaffold`,
  `FindKeychain`, `SecretsDone`). `DoctorTellsTheTruth` shows that no problem is
  hidden by that.
* A purge that fails does not keep `Down` from stopping the machine
  (`PurgeFails` goes on to `stop`), and the next down has "nothing to take down":
  a stopped machine can hold secrets, which
  `docs/explanation/secrets-management.md:64` rules out.
* `up` after an edit of `internal` keeps the network as it was created
  (`FindNetwork` only asks whether it exists), where
  `docs/explanation/lifecycle-commands.md:37` has `up` twice apply an edit.
  `UpDelivers`, `UpConverges` and `LoneUpReconciles` therefore ask of a network
  only that it is of a kind some `lclaw.toml` declared (`DeclaredKinds`), which is
  the declared one where no edit touches `internal`, as in `Retry`, `Secrets` and
  `SecretsConcurrent`; in `Disturbed` an edit flips it, and either kind passes.
* An interrupt that kills `network exists` or `network create` ends `up` with 1
  instead of the 130 of `docs/reference/cli.md:247` (those two error paths do not
  look at the context).
* `destroy` forgets the agent's key by the catalogue's source, also when the user
  replaced it by a value of his own, whose source
  `docs/how-to/manage-secrets.md:114` says stays `user`. `UserValueKept` therefore
  leaves minted names out.

## Fairness

`FairSpec` has weak fairness on the steps of a running command: a command is one
goroutine, every child process ends or is killed (`exec.System`'s context and
`WaitDelay`), and the only loop, `Ready`, has a deadline. Nothing is assumed of
signals, crashes, restarts or the start of a command. The documentation asks the
user to run a command again after a failure, and convergence is a statement
about a user who does: that is the antecedent `KeepsTrying` of `UpConverges` and
`DownConverges`, not an assumption of the specification.

`InitCmd` and `KeychainClient` assume the same: weak fairness on the steps of a
running init or call, whose system calls return and whose child processes end.
Nothing is assumed of how a keychain locks itself, who deletes it or who starts a
command;
`InitConverges` has the user who runs init again as its antecedent. `Doctor` has no
liveness property: it is a straight line of calls.

## Proofs

Every invariant and every safety property of a passing run is a theorem, for
every value of the constants: any topologies and files, any secrets and
workloads, any number and kind of disturbances. What remains to TLC is liveness,
and what the violation runs refute.

| Module | Theorems | Processes |
| --- | --- | --- |
| `LifecycleProofs` | `TypeCorrect`, `KeychainKept`, `CopiesFromKeychain` | any |
| `UpDownProofs` | `UserSecretsAreFirst` | any |
| | `TeardownIsAfterLastPod`, `StopHasNoSecret`, `DownHasLeftNoPod` | one |
| `UpProofs` | `UpHasDelivered`, `KeysAreAcceptedUndisturbed`, `OffHoldsNothingUndisturbed`, `DownIsNoFailureUndisturbed` | one |
| `LclawProofs` | `LclawTypeCorrect`, `CopiesHaveBeenKept`, `UserValueStays`, `ValuesAreCarried`, `LoneUpHasReconciled` | any |
| | `StoreHasFollowed`, `UpHasDeliveredAfterAll` | one |
| `InitProofs` | `InitTypeCorrect`, `BareIsBehindFault`, `ScaffoldIsAtomic`, `InitHasDelivered`, `FailuresCleanUp` | any |
| `KeychainClientProofs` | `ClientTypeCorrect`, `DefaultIsBehindLoss`, `ClientAnswersAsPort` | any |
| `DoctorProofs` | `DoctorTypes`, `ValidateIsRight`, `CatalogueIsRight`, `ReportIsTrue`, `InterruptedExits` | - |

"One" is the hypothesis `Proc = {only}`: one command at a time, with crashes,
interrupts and edits, but nothing at once. It is the hypothesis under which the
runs check these properties, too; `TeardownAfterLastPod` and `StoreFollows`, for two,
are false without it.

### Assumptions

The theorems rest on what the modules state about their constants, which TLC
evaluates in the runs: secrets have distinct ranks in name order and built-ins a
source (`SecretAssumption`), issued keys are values and mounted secrets are used
ones (`PodmanAssumption`), `None` is no pod (`PodAssumption`), no item
(`KeychainAssumption`), no write (`WritingAssumption`) and no request
(`RequestAssumption`), topologies and jobs have their types
(`CommandAssumption`), what may be made anew is built in
(`SecretsCmdAssumption`), the budget is a number (`DisturbancesAssumption`), the
rest of what `init`, the file writer and the keychain client are given
(`FileAssumption`, `InitAssumption`, `ClientAssumption`), roles have distinct
zone names and zone names an order (`ConfigurationAssumption`), and the host, the
file and the versions doctor starts from have their types (`DoctorAssumption`,
`StartAssumption`). Values, files and lists need not be bounded.

Two theorems have one hypothesis more, `ZonesDeclareWhatTheyUse`: each valid
`lclaw.toml` lists under a zone every secret the zone's pod files name, as
`docs/reference/scaffold.md:92` has it ("Keychain items this zone's pods
consume"). It is needed. `up` resolves and injects what the catalogue has for the
zone, so without it TLC finds this: `secrets set` changes a value
while the machine is down or the store refuses it, `lclaw.toml` is edited so that
the zone no longer lists the secret, and an up that exits 0 plays the pod with the
value an earlier up left in the store. The topologies of `Secrets` and
`SecretsConcurrent` satisfy it.

### Up, down and destroy

`TypeOK` is not inductive: `Head(work)`, `First(zones)` and the `Put` of `fresh`
have values of the right type only where something is left to do. `PlaceOK`
says, for each place in the code, what is not empty there, and that `destroy`
is about to forget minted names only; `TypeOK /\ PlaceOK` is inductive
(`Invariance`). `NeverOverwritten` follows because only `Put` and `DeleteMinted`
write items: the first is refused where an item exists, the second has a minted
name by `PlaceOK`. For `CopiesMatchKeychain` every step is shown to make its
copies from another copy (`PodmanCopies`) and what a command holds from an item
that is in the keychain after the step (`GotCopies`); with `DurableKept` that
closes the induction.

`UpDownProofs` proves what depends on the course of a command.
`UserSecretsAreFirst`: `LookedOK` says which user secrets of the selected zones an
up has not looked at, and that all others are set; they stay set because only a
minted item is ever removed (`UserKept`), and a run never changes the job it
checked (`SameJob`). `TeardownIsAfterLastPod` and `StopHasNoSecret`: the invariant
`Covered` says that what `Down` has seen in its snapshot covers every pod that is
there, at each place from the snapshot on, that past the decision there is none,
and that the purge's list covers what the store still holds.

`DownHasLeftNoPod` needs more: `Covered` says that a pod that is there is
one `Down` still counts as present, not that one counted as present is still to
be taken down. `RanOK` adds that: without a failure, a zone no longer to do has
no workload counted as present, and the zone in progress only those it still has
to work on (`ZonesTaken`); that an up stays an up (`cmd` in `SameJob`), so that
only a down's steps end a down; and that `destroy` forgets with the machine gone.
`EndsWhere` finds the four places where a down can exit 0, `PodsGone` shows for
each that the pods are gone or the machine does not run.

`UpHasDelivered`, for every topology that passes validation, says of a zone's pods
all that its `lclaw.toml` says, and of its network that it has a kind some
`lclaw.toml` declared: `NetsDeclared` is an invariant of its own, since only
`CreateNetwork` makes a network and takes the kind from a topology. `Matched` says that
the store, and what a command has resolved, is the keychain's value for every
secret, minted ones included. `CopiesMatchKeychain` leaves those out, since with
several commands a destroy can forget a key that another one holds; with one,
destroy forgets only when the store is gone (`Wiped`) and has nothing in hand
(`Bare`). So a pod played is right at once (`PlayedRight`), whatever secrets its
file names. `Course` says what an up has behind it: the networks it is past exist,
and every workload of its zones is right or still to come (`ToCome`). That a play
spoils no other zone's pod needs `ListedOnce` of `Valid`: a workload belongs to one
zone. `UpEndsWhere` shows that an up exits 0 only at the end of its last zone.

The three undisturbed properties are about histories of any length in which the
budget is whole. `SoundOK` is inductive together with the above: while nothing was
disturbed, every pod that is there runs, with keys LiteLLM knows (`PodsSound`); a
machine that is off has no pod, secret or volume (`OffIsEmpty`); the keychain
file exists if an item does (`ItemsInFile`); LiteLLM knows every minted key in the
keychain, but for those a `destroy` is about to forget (`KeysKnown`); a volume's
secret is one the store lists, or the purge is at it (`VolsListed`); and a purge's
list is the store's, a machine `Down` works on runs, and no down comes to stop the
machine by way of a failure (`Placid`). A failing call spends from the budget
(`CallSpends`), so only a call that Podman or the keychain refuses by itself has to
be ruled out.

### All commands together

With the secrets commands the keychain may change under a running up, and
`CopiesMatchKeychain` is false. `LclawProofs` adds to `PlaceOK` what holds at the
labels of the secrets commands (`SavePlaceOK`) and proves `HistoryOK`, that is
`TypeOK /\ PlaceOK /\ SavePlaceOK /\ KeptOnce`, inductive (`HistoryStart`,
`HistoryStep`). `KeptOnce` is `CopiesOnceInKeychain` with two more conjuncts, which
make it inductive: what an up has resolved, and what a `push` is about to send, has
been the keychain's value. The argument again follows the copies: each step copies
from another copy (`AnyCopies`), an up's resolved values come from the keychain
(`GotCopies`), a value to be pushed from an item just written (`SentCopies`), and
`ever` only grows (`EverGrows`). `up` and `down` never enter a label of the secrets
commands (`NextFree`), so the step theorems of `LifecycleProofs` are used as they
are. `UserValueStays` follows from `DurableKept` for `up` and `down`, and for the
secrets commands from `SavePlaceOK`, which says which command can be at `Save`
and at `Erase` (`SecretsOrdered`).

`ValuesAreCarried` is the refinement of `Custody`, with the same invariant:
`OneSystem` says that no step is on the keychain and on the machine, and the copies
a step makes are then those of `Keep` or of `Bring`.

`StoreHasFollowed` needs to know, where a secrets command exits 0, what it has
done to the keychain many calls before: `SaidOK` says that at `push` and `send` the
item is the command's value, and after `Erase` gone. With two commands at once this
is false, as another may write between the two.

`LoneUpHasReconciled` is about an up that nothing runs beside, after any number
of commands at once. `LoneOK` says of every such up that it is alone, that what it
has in hand is the keychain's (`InHandKept`), that it has done what `Course` says, and
that every secret of the zone in progress is still to be resolved, in hand, or in
the store as the keychain has it (`Fetched`); a pod is played when the first two are
none. So whatever races left in the store does not outlive the up. With one process
every command is alone, which gives `UpHasDeliveredAfterAll` (`AllLone`).

### Init and the keychain client

`InitProofs` and `ScaffoldIsAtomic`, the refinement of `AtomicFiles`: the
invariant `Placed` says that the write in progress is of the walk's next file,
that a rename renames the whole text, and that an init without a failure has
every file behind it there: a path that is a file stays one, whoever else writes
it.

`KeychainClientProofs` and `ClientAnswersAsPort`, the refinement of `KeychainPort`:
the file check is a stutter where the file is there, and from then on the call is
in `seen` (`CallPlaced`); the first attempt is a stutter exactly when it exits 36,
and then has had no effect. A command that runs without the file is the port's
`Mislead`, which `seen` allows (`RunServes`), and the only one that writes to the
default keychain (`LoginStep`, from which `DefaultIsBehindLoss`).

### Doctor, Validate and the catalogue

`Validate` and `NewCatalogue` are loops over lists of any length, so
`ValidateIsRight` and `CatalogueIsRight` need induction over data. `FoldProofs`
has it: `Recursion` shows that the recursion by which the community modules define
`FoldLeft` has a solution, and `FoldInduction` that what holds of the start, and is
kept by each round, holds at the end. Its body and its assertion are CONSTANTS, and
`DoctorProofs` takes the module once for each loop. `WorkloadsScanned`,
`TargetsScanned`, `BridgesScanned`, `ZonesScanned`, `ZoneAdded` and `ZonesMerged` say
what each loop has after its first k rounds in terms of the first k items (no
finding exactly when those are legal and distinct, and which names were seen,
bridged into, merged). `ValidatedMeant` and `CatalogueMeant` put them together for
every file; that the zones come in any strict order is all that is used of
`ZoneOrder`.

`ReportIsTrue` and `InterruptedExits` rest on `RunOK`: the budget never grows, and
while nothing has changed since the start, the worst check so far is a FAIL exactly
when a check that is behind is one that must fail (`SoFar`). `ReadyMeant` and
`ToolMeant` relate the checks to `HostReady`: the two tools, and of a scaffold, if
there is one, what an up asks of it. No scaffold is only a warning, though an up
needs one, and flox counts, though no other command runs it.

### Only model-checked

Liveness, which is outside the prover's reach: `EveryCommandEnds`, `UpConverges`,
`DownConverges`, `EveryInitEnds`, `InitConverges` and `EveryCallEnds`.

## Plan

Done: `up`, `down` and `destroy`; the secrets commands and their composition with
them; `init`, the file writer and the keychain client with what their ports
promise; `doctor`, validation and the catalogue; and a theorem for every safety
property of a passing run.

What could follow, in this order:

1. `status` call by call beside the other commands, with what its
   documentation would have to say about a command in progress.
2. `Readiness`: the polling loop with its deadline, refining `Ready`.
3. `LoneUpReconciles` without `ZonesDeclareWhatTheyUse`, should `up` come to check
   that a pod's secrets are declared.
