----------------------------- MODULE SecretsCmd -----------------------------
(***************************************************************************)
(* `lclaw secrets set`, `update`, `update --generate` and `delete`, from   *)
(* src/internal/app/secrets.go: the keychain first, then, when it runs,    *)
(* the machine's store; nothing is rolled back. list, describe and get     *)
(* only read. Labels, with todo the one name the command is about and      *)
(* fresh its new value                                                     *)
(*   have     update: is it set?            produce  make a new value      *)
(*   save     write it to the keychain                                     *)
(*   push     is the machine running?       send     write it to its store *)
(*   erase    delete it from the keychain                                  *)
(*   inspect  is the machine running?       exists   has its store got it? *)
(*   drop     remove it from the store                                     *)
(***************************************************************************)
EXTENDS Command

CONSTANTS
  SecretJobs, \* the secrets commands the processes may be given
  Rotatable   \* the built-in secrets that may be made anew

SecretJob == [cmd : {"set", "update", "generate", "delete"}, name : Secret]

ASSUME SecretsCmdAssumption ==
  /\ SecretJobs \subseteq SecretJob
  /\ Rotatable \subseteq Builtin

-----------------------------------------------------------------------------
(* Starting a command. prepare does not validate the topology: it refuses  *)
(* what the catalogue finds.                                               *)

NotGeneratable(s) == SourceOf(s) = "user" \/ s \notin Rotatable

\* Findings, a name the catalogue does not have, nothing to generate, or no
\* keychain file.
RefuseSecrets(p) ==
  /\ At(p, "idle")
  /\ \E job \in SecretJobs, t \in Topologies :
       \/ ~t.sound \/ ~NoCollision(t) \/ job.name \notin Entries(t)
       \/ job.cmd = "generate" /\ NotGeneratable(job.name)
       \/ ~kcFile
  /\ LocalStep(p, Idle("failed"))

Prepared(job, t) == [Idle("none") EXCEPT !.cmd = job.cmd, !.top = t, !.todo = {job.name}]

\* The value the user supplies is at hand before the command starts.
Starts(p, cmd, label, values) ==
  /\ At(p, "idle") /\ kcFile
  /\ \E job \in SecretJobs, t \in Topologies, v \in values :
       /\ job.cmd = cmd
       /\ NoCollision(t) /\ job.name \in Entries(t)
       /\ cmd = "generate" => ~NotGeneratable(job.name)
       /\ LocalStep(p, [Prepared(job, t) EXCEPT !.pc = label, !.fresh = v])

StartSet(p) == Starts(p, "set", "save", Value \ KeyValue)
StartUpdate(p) == Starts(p, "update", "have", Value \ KeyValue)
StartGenerate(p) == Starts(p, "generate", "have", {None})
StartDelete(p) == Starts(p, "delete", "erase", {None})

-----------------------------------------------------------------------------
(* update: the value                                                       *)

FindItem(p) ==
  LET me == proc[p] IN
  /\ At(p, "have")
  /\ \E s \in me.todo :
       Query(p, kcFile,
             IF IsSet(s)
               THEN [me EXCEPT !.pc = IF me.cmd = "generate" THEN "produce" ELSE "save"]
               ELSE Idle("failed"),
             ReturnError(me))

MintAgain(p) ==
  LET me == proc[p] IN
  /\ At(p, "produce")
  /\ \E s \in me.todo : SourceOf(s) = "minted"
  /\ \E k \in KeyValue \ Held :
       PodmanCall(p, CanExec, DoMint(k), [me EXCEPT !.pc = "save", !.fresh = k],
                  ReturnError(me))

GenerateAgain(p) ==
  /\ At(p, "produce")
  /\ \E s \in proc[p].todo : SourceOf(s) = "generated"
  /\ \E v \in Value \ KeyValue :
       LocalStep(p, [proc[p] EXCEPT !.pc = "save", !.fresh = v])

-----------------------------------------------------------------------------
(* set and update: the keychain, then push                                 *)

\* --generate restores the default source.
NewSource(me, s) == IF me.cmd = "generate" THEN SourceOf(s) ELSE "user"

\* Wrong on purpose: the store gets what the keychain did not take.
PushAnyway(me) == [me EXCEPT !.pc = "push"]

SaveFails(me) == ReturnError(me)

Save(p) ==
  LET me == proc[p] IN
  /\ At(p, "save")
  /\ \E s \in me.todo :
       KeychainCall(p, CanPut(s, me.cmd # "set"), DoPut(s, me.fresh, NewSource(me, s)),
                    [me EXCEPT !.pc = "push"], SaveFails(me))

\* The only look at the context.
PushInterrupted(p) ==
  /\ At(p, "push") /\ proc[p].cancelled
  /\ LocalStep(p, Idle("interrupted"))

LookMachine(p) ==
  LET me == proc[p] IN
  /\ At(p, "push")
  /\ Query(p, TRUE, IF Running THEN [me EXCEPT !.pc = "send"] ELSE Idle("ok"),
           Idle("failed"))

\* Wrong on purpose: a store that failed does not fail the command.
SendForgiven(me) == Idle("ok")

SendFails(me) == Idle("failed")

Send(p) ==
  LET me == proc[p] IN
  /\ At(p, "send")
  /\ \E s \in me.todo :
       PodmanCall(p, CanStoreSecret, DoStoreSecret(s, me.fresh), Idle("ok"), SendFails(me))

-----------------------------------------------------------------------------
(* delete                                                                  *)

Erase(p) ==
  LET me == proc[p] IN
  /\ At(p, "erase")
  /\ \E s \in me.todo :
       KeychainCall(p, CanDelete(s), DoDelete(s), [me EXCEPT !.pc = "inspect"],
                    ReturnError(me))

InspectMachine(p) ==
  LET me == proc[p] IN
  /\ At(p, "inspect")
  /\ Query(p, TRUE, IF Running THEN [me EXCEPT !.pc = "exists"] ELSE Idle("ok"),
           Idle("failed"))

FindStored(p) ==
  LET me == proc[p] IN
  /\ At(p, "exists")
  /\ \E s \in me.todo :
       Query(p, Running, IF store[s] # None THEN [me EXCEPT !.pc = "drop"] ELSE Idle("ok"),
             Idle("failed"))

DropStored(p) ==
  /\ At(p, "drop")
  /\ \E s \in proc[p].todo :
       PodmanCall(p, CanRemoveSecret(s), DoRemoveSecret(s), Idle("ok"), Idle("failed"))

-----------------------------------------------------------------------------

StartSecrets(p) ==
  RefuseSecrets(p) \/ StartSet(p) \/ StartUpdate(p) \/ StartGenerate(p) \/ StartDelete(p)

SecretsStep(p) ==
  \/ FindItem(p) \/ MintAgain(p) \/ GenerateAgain(p)
  \/ Save(p) \/ PushInterrupted(p) \/ LookMachine(p) \/ Send(p)
  \/ Erase(p) \/ InspectMachine(p) \/ FindStored(p) \/ DropStored(p)

=============================================================================
