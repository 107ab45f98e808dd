---------------------------- MODULE LclawProofs -----------------------------
(***************************************************************************)
(* Proofs about Lclaw with its history, for every topology, any number of  *)
(* processes running any commands, and every disturbance. A step is either *)
(* one of up and down, for which LifecycleProofs says what it does, or one *)
(* of a secrets command. The copies a step makes are those of Custody's    *)
(* Keep or of its Bring, as no step is on the keychain and on the machine. *)
(* A secrets command that exits 0 has left the store as the keychain       *)
(* (Said), and an up that runs alone has settled every secret of a zone    *)
(* before it plays a pod there (Lone), whatever ran before it.             *)
(*   -> LclawTypeCorrect, CopiesHaveBeenKept, UserValueStays,              *)
(*      ValuesAreCarried, StoreHasFollowed, LoneUpHasReconciled,           *)
(*      UpHasDeliveredAfterAll                                             *)
(***************************************************************************)
EXTENDS LclawHistory, UpProofs

-----------------------------------------------------------------------------
(* Types                                                                   *)

\* A secrets command is about one secret, and has a value where it is about to
\* save one and where it has yet to see whether there is one to replace. Each
\* command keeps to its own places.
SavePlaced(me) ==
  /\ me.pc \in SecretsLabels => \A s, u \in me.todo : s = u
  /\ me.pc = "save" => me.fresh # None
  /\ me.pc = "have" /\ me.cmd # "generate" => me.fresh # None
  /\ me.pc = "save" => me.cmd \in Saves
  /\ me.pc = "have" => me.cmd \in {"update", "generate"}
  /\ me.pc = "produce" => me.cmd = "generate"
  /\ me.pc = "erase" => me.cmd = "delete"

SavePlaceOK == \A p \in Proc : SavePlaced(proc[p])

\* Starting a secrets command, or being refused.
LEMMA StartSecretsType ==
  ASSUME TypeOK, NEW p \in Proc, StartSecrets(p)
  PROVE TypeOK'
<1>1. CASE RefuseSecrets(p)
  BY <1>1, IdleType, LocalStepType DEF RefuseSecrets
<1>2. ASSUME NEW job \in SecretJobs, NEW t \in Topologies
      PROVE Prepared(job, t) \in Local
  <2>1. job \in SecretJob
    BY SecretsCmdAssumption
  <2>2. Idle("none") \in Local
    BY IdleType
  <2> QED
    BY <2>1, <2>2 DEF Prepared, Local, SecretJob
<1>3. ASSUME NEW cmd, NEW label \in SecretsLabels, NEW values, values \subseteq Maybe(Value),
             Starts(p, cmd, label, values)
      PROVE TypeOK'
  <2>1. PICK job \in SecretJobs, t \in Topologies, v \in values :
          LocalStep(p, [Prepared(job, t) EXCEPT !.pc = label, !.fresh = v])
    BY <1>3 DEF Starts
  <2> DEFINE base == Prepared(job, t)
  <2>2. base \in Local /\ v \in Maybe(Value)
    BY <1>2, <1>3
  <2>3. LocalStep(p, [base EXCEPT !.pc = label, !.fresh = v])
    BY <2>1
  <2> HIDE DEF base
  <2>4. [base EXCEPT !.pc = label, !.fresh = v] \in Local
    BY <1>3, <2>2 DEF Local
  <2> QED
    BY <2>3, <2>4, LocalStepType
<1>4. (Value \ KeyValue) \subseteq Maybe(Value) /\ {None} \subseteq Maybe(Value)
  BY DEF Maybe
<1> QED
  BY <1>1, <1>3, <1>4
     DEF StartSecrets, StartSet, StartUpdate, StartGenerate, StartDelete, SecretsLabels

\* The value: looked for, minted or generated.
LEMMA ProduceType ==
  ASSUME TypeOK, NEW p \in Proc, FindItem(p) \/ MintAgain(p) \/ GenerateAgain(p)
  PROVE TypeOK'
<1> DEFINE me == proc[p]
<1>1. me \in Local
  BY DEF TypeOK
<1>2. Idle("failed") \in Local /\ ReturnError(me) \in Local
  BY <1>1, IdleType, EndTypes
<1>3. [me EXCEPT !.pc = "produce"] \in Local /\ [me EXCEPT !.pc = "save"] \in Local
  BY <1>1 DEF Local, SecretsLabels
<1>4. CASE FindItem(p)
  <2>1. PICK s \in me.todo :
          Query(p, kcFile,
                IF IsSet(s)
                  THEN [me EXCEPT !.pc = IF me.cmd = "generate" THEN "produce" ELSE "save"]
                  ELSE Idle("failed"),
                ReturnError(me))
    BY <1>4 DEF FindItem
  <2>2. (IF IsSet(s)
           THEN [me EXCEPT !.pc = IF me.cmd = "generate" THEN "produce" ELSE "save"]
           ELSE Idle("failed")) \in Local
    BY <1>2, <1>3
  <2> QED
    BY <1>2, <2>1, <2>2, QueryType
<1>5. ASSUME NEW v \in Value
      PROVE [me EXCEPT !.pc = "save", !.fresh = v] \in Local
  BY <1>1 DEF Local, SecretsLabels, Maybe
<1>6. CASE MintAgain(p)
  <2>1. PICK k \in KeyValue :
          PodmanCall(p, CanExec, DoMint(k), [me EXCEPT !.pc = "save", !.fresh = k],
                     ReturnError(me))
    BY <1>6 DEF MintAgain
  <2>2. DoMint(k) => PodmanTypeOK'
    BY DEF TypeOK, DoMint, PodmanTypeOK
  <2> QED
    BY <1>2, <1>5, <2>1, <2>2, PodmanAssumption, PodmanCallType
<1>7. CASE GenerateAgain(p)
  BY <1>5, <1>7, LocalStepType DEF GenerateAgain
<1> QED
  BY <1>4, <1>6, <1>7

\* Saving: what is saved is a value, because SavePlaceOK says fresh is set.
LEMMA SaveType ==
  ASSUME TypeOK, SavePlaceOK, NEW p \in Proc, Save(p)
  PROVE TypeOK'
<1> DEFINE me == proc[p]
<1>1. me \in Local /\ ReturnError(me) \in Local
  BY EndTypes DEF TypeOK
<1>2. PICK s \in me.todo :
        KeychainCall(p, CanPut(s, me.cmd # "set"), DoPut(s, me.fresh, NewSource(me, s)),
                     [me EXCEPT !.pc = "push"], ReturnError(me))
  BY DEF Save, SaveFails
<1>3. s \in Secret /\ me.fresh \in Value
  BY <1>1 DEF Save, At, SavePlaceOK, SavePlaced, Local, Maybe
<1>4. [me EXCEPT !.pc = "push"] \in Local
  BY <1>1 DEF Local, SecretsLabels
<1>5. NewSource(me, s) \in {"generated", "minted", "user"}
  BY <1>3, SourceType DEF NewSource
<1>6. [val |-> me.fresh, src |-> NewSource(me, s)] \in Item
  BY <1>3, <1>5 DEF Item
<1>7. DoPut(s, me.fresh, NewSource(me, s)) => KeychainTypeOK'
  BY <1>3, <1>6 DEF DoPut, TypeOK, KeychainTypeOK, Maybe
<1> QED
  BY <1>1, <1>2, <1>4, <1>7, KeychainCallType

\* push: the machine, then its store.
LEMMA PushType ==
  ASSUME TypeOK, NEW p \in Proc, PushInterrupted(p) \/ LookMachine(p) \/ Send(p)
  PROVE TypeOK'
<1> DEFINE me == proc[p]
<1>1. me \in Local
  BY DEF TypeOK
<1>2. Idle("interrupted") \in Local /\ Idle("ok") \in Local /\ Idle("failed") \in Local
  BY IdleType
<1>3. CASE PushInterrupted(p)
  BY <1>2, <1>3, LocalStepType DEF PushInterrupted
<1>4. CASE LookMachine(p)
  <2>1. [me EXCEPT !.pc = "send"] \in Local
    BY <1>1 DEF Local, SecretsLabels
  <2> QED
    BY <1>2, <1>4, <2>1, QueryType DEF LookMachine
<1>5. CASE Send(p)
  <2>1. PICK s \in me.todo :
          PodmanCall(p, CanStoreSecret, DoStoreSecret(s, me.fresh), Idle("ok"), Idle("failed"))
    BY <1>5 DEF Send, SendFails
  <2>2. DoStoreSecret(s, me.fresh) => PodmanTypeOK'
    BY <1>1 DEF TypeOK, DoStoreSecret, PodmanTypeOK, Local
  <2> QED
    BY <1>2, <2>1, <2>2, PodmanCallType
<1> QED
  BY <1>3, <1>4, <1>5

\* delete: the keychain, the machine, its store.
LEMMA DeleteType ==
  ASSUME TypeOK, NEW p \in Proc,
         Erase(p) \/ InspectMachine(p) \/ FindStored(p) \/ DropStored(p)
  PROVE TypeOK'
<1> DEFINE me == proc[p]
<1>1. me \in Local
  BY DEF TypeOK
<1>2. Idle("ok") \in Local /\ Idle("failed") \in Local /\ ReturnError(me) \in Local
  BY <1>1, IdleType, EndTypes
<1>3. /\ [me EXCEPT !.pc = "inspect"] \in Local
      /\ [me EXCEPT !.pc = "exists"] \in Local
      /\ [me EXCEPT !.pc = "drop"] \in Local
  BY <1>1 DEF Local, SecretsLabels
<1>4. CASE Erase(p)
  <2>1. PICK s \in me.todo :
          KeychainCall(p, CanDelete(s), DoDelete(s), [me EXCEPT !.pc = "inspect"], ReturnError(me))
    BY <1>4 DEF Erase
  <2>2. DoDelete(s) => KeychainTypeOK'
    BY DEF TypeOK, DoDelete, KeychainTypeOK, Maybe
  <2> QED
    BY <1>2, <1>3, <2>1, <2>2, KeychainCallType
<1>5. CASE InspectMachine(p)
  <2>1. (IF Running THEN [me EXCEPT !.pc = "exists"] ELSE Idle("ok")) \in Local
    BY <1>2, <1>3
  <2> QED
    BY <1>2, <1>5, <2>1, QueryType DEF InspectMachine
<1>6. CASE FindStored(p)
  <2>1. PICK s \in me.todo :
          Query(p, Running, IF store[s] # None THEN [me EXCEPT !.pc = "drop"] ELSE Idle("ok"),
                Idle("failed"))
    BY <1>6 DEF FindStored
  <2>2. (IF store[s] # None THEN [me EXCEPT !.pc = "drop"] ELSE Idle("ok")) \in Local
    BY <1>2, <1>3
  <2> QED
    BY <1>2, <2>1, <2>2, QueryType
<1>7. CASE DropStored(p)
  <2>1. PICK s \in me.todo :
          PodmanCall(p, CanRemoveSecret(s), DoRemoveSecret(s), Idle("ok"), Idle("failed"))
    BY <1>7 DEF DropStored
  <2>2. DoRemoveSecret(s) => PodmanTypeOK'
    BY DEF TypeOK, DoRemoveSecret, PodmanTypeOK, Maybe
  <2> QED
    BY <1>2, <2>1, <2>2, PodmanCallType
<1> QED
  BY <1>4, <1>5, <1>6, <1>7

-----------------------------------------------------------------------------
(* Places: up and down never come to a place of the secrets commands.      *)

Free(me) == me.pc \notin SecretsLabels

\* A step of one process, which ends at another kind of place.
FreeStep(p) == Free(proc[p])' /\ \A q \in Proc \ {p} : proc'[q] = proc[q]

\* What a process becomes is where it is.
LEMMA BecomeFree ==
  ASSUME TypeOK, NEW p \in Proc, NEW ACTION me, Become(p, me), Free(me)
  PROVE FreeStep(p)
BY DEF TypeOK, Become, Free, FreeStep

\* A command that ended is at no such place.
LEMMA EndFree ==
  ASSUME NEW me
  PROVE /\ \A c : Free(Idle(c))
        /\ Free(Report(me)) /\ Free(ReturnError(me))
        /\ Free(ZoneFails(me)) /\ Free(StepFails(me))
BY DEF Free, Idle, Report, ReturnError, ZoneFails, StepFails, SecretsLabels

\* Not in an up ...
LEMMA UpFree ==
  ASSUME TypeOK, NEW p \in Proc, UpStep(p)
  PROVE FreeStep(p)
<1> DEFINE me == proc[p]
<1>1. me \in Local
  BY DEF TypeOK
<1>2. CASE DescribeUser(p)
  BY <1>1, <1>2, CallBecomes, BecomeFree, EndFree
     DEF DescribeUser, Query, At, Free, Local, SecretsLabels
<1>3. CASE UserMissing(p)
  BY <1>1, <1>3, CallBecomes, BecomeFree, EndFree
     DEF UserMissing, LocalStep, At, Free, Local, SecretsLabels
<1>4. CASE FindMachine(p)
  BY <1>1, <1>4, CallBecomes, BecomeFree, EndFree
     DEF FindMachine, EnsureMachine, EnterNets, Query, TypeOK, PodmanTypeOK, At, Free, Local, SecretsLabels
<1>5. CASE InitMachine(p)
  BY <1>1, <1>5, CallBecomes, BecomeFree, EndFree
     DEF InitMachine, PodmanCall, At, Free, Local, SecretsLabels
<1>6. CASE StartMachine(p)
  BY <1>1, <1>6, CallBecomes, BecomeFree, EndFree
     DEF StartMachine, EnterNets, PodmanCall, At, Free, Local, SecretsLabels
<1>7. CASE FindNetwork(p)
  BY <1>1, <1>7, CallBecomes, BecomeFree, EndFree
     DEF FindNetwork, Query, At, Free, Local, SecretsLabels
<1>8. CASE CreateNetwork(p)
  BY <1>1, <1>8, CallBecomes, BecomeFree, EndFree
     DEF CreateNetwork, PodmanCall, At, Free, Local, SecretsLabels
<1>9. CASE BeginZones(p)
  BY <1>1, <1>9, CallBecomes, BecomeFree, EndFree
     DEF BeginZones, EnterZone, LocalStep, At, Free, Local, SecretsLabels
<1>10. CASE Resolve(p)
  BY <1>1, <1>10, CallBecomes, BecomeFree, EndFree
     DEF Resolve, Query, At, Free, Local, SecretsLabels
<1>11. CASE Mint(p)
  BY <1>1, <1>11, CallBecomes, BecomeFree, EndFree
     DEF Mint, PodmanCall, At, Free, Local, SecretsLabels
<1>12. CASE Put(p)
  BY <1>1, <1>12, CallBecomes, BecomeFree, EndFree
     DEF Put, PutFails, KeychainCall, At, Free, Local, SecretsLabels
<1>13. CASE FindingsEndZone(p)
  BY <1>1, <1>13, CallBecomes, BecomeFree, EndFree
     DEF FindingsEndZone, LocalStep, At, Free, Local, SecretsLabels
<1>14. CASE Inject(p)
  BY <1>1, <1>14, CallBecomes, BecomeFree, EndFree
     DEF Inject, Resolved, PodmanCall, At, Free, Local, SecretsLabels
<1>15. CASE Build(p)
  BY <1>1, <1>15, CallBecomes, BecomeFree, EndFree
     DEF Build, Injected, Resolved, Query, At, Free, Local, SecretsLabels
<1>16. CASE Play(p)
  BY <1>1, <1>16, CallBecomes, BecomeFree, EndFree
     DEF Play, PodmanCall, At, Free, Local, SecretsLabels
<1>17. CASE EndZone(p)
  BY <1>1, <1>17, CallBecomes, BecomeFree, EndFree
     DEF EndZone, Applied, EnterZone, LocalStep, At, Free, Local, SecretsLabels
<1>18. CASE Ready(p)
  BY <1>1, <1>18, CallBecomes, BecomeFree, EndFree
     DEF Ready, Applied, EnterZone, Query, At, Free, Local, SecretsLabels
<1> QED
  BY <1>2, <1>3, <1>4, <1>5, <1>6, <1>7, <1>8, <1>9, <1>10, <1>11, <1>12, <1>13, <1>14, <1>15, <1>16, <1>17, <1>18 DEF UpStep

\* ... nor in a down ...
LEMMA DownFree ==
  ASSUME TypeOK, NEW p \in Proc, DownStep(p)
  PROVE FreeStep(p)
<1> DEFINE me == proc[p]
<1>1. me \in Local
  BY DEF TypeOK
<1>2. CASE ListMachine(p)
  BY <1>1, <1>2, CallBecomes, BecomeFree, EndFree
     DEF ListMachine, Query, At, Free, Local, SecretsLabels
<1>3. CASE SnapshotPods(p)
  BY <1>1, <1>3, CallBecomes, BecomeFree, EndFree
     DEF SnapshotPods, EnterDown, Query, At, Free, Local, SecretsLabels
<1>4. CASE SkipAbsent(p)
  BY <1>1, <1>4, CallBecomes, BecomeFree, EndFree
     DEF SkipAbsent, LocalStep, At, Free, Local, SecretsLabels
<1>5. CASE KubeDown(p)
  BY <1>1, <1>5, CallBecomes, BecomeFree, EndFree
     DEF KubeDown, DownFails, PodmanCall, At, Free, Local, SecretsLabels
<1>6. CASE KeepNetwork(p)
  BY <1>1, <1>6, CallBecomes, BecomeFree, EndFree
     DEF KeepNetwork, NetworkDone, EnterDown, LocalStep, At, Free, Local, SecretsLabels
<1>7. CASE FindOldNetwork(p)
  BY <1>1, <1>7, CallBecomes, BecomeFree, EndFree
     DEF FindOldNetwork, AtNetwork, NetworkDone, EnterDown, Query, At, Free, Local, SecretsLabels
<1>8. CASE RemoveNetwork(p)
  BY <1>1, <1>8, CallBecomes, BecomeFree, EndFree
     DEF RemoveNetwork, RemoveFails, NetworkDone, EnterDown, PodmanCall, At, Free, Local, SecretsLabels
<1>9. CASE KeepStore(p)
  BY <1>1, <1>9, CallBecomes, BecomeFree, EndFree
     DEF KeepStore, LocalStep, At, Free, Local, SecretsLabels
<1>10. CASE ListStored(p)
  BY <1>1, <1>10, CallBecomes, BecomeFree, EndFree
     DEF ListStored, PurgeFails, Query, At, Free, Local, SecretsLabels
<1>11. CASE RemoveSecret(p)
  BY <1>1, <1>11, CallBecomes, BecomeFree, EndFree
     DEF RemoveSecret, PurgeFails, PodmanCall, At, Free, Local, SecretsLabels
<1>12. CASE RemoveVolume(p)
  BY <1>1, <1>12, CallBecomes, BecomeFree, EndFree
     DEF RemoveVolume, PurgeFails, PodmanCall, At, Free, Local, SecretsLabels
<1>13. CASE StopMachine(p)
  BY <1>1, <1>13, CallBecomes, BecomeFree, EndFree
     DEF StopMachine, Stopping, PodmanCall, At, Free, Local, SecretsLabels
<1>14. CASE RemoveMachine(p)
  BY <1>1, <1>14, CallBecomes, BecomeFree, EndFree
     DEF RemoveMachine, PodmanCall, At, Free, Local, SecretsLabels
<1>15. CASE FindMinted(p)
  BY <1>1, <1>15, CallBecomes, BecomeFree, EndFree
     DEF FindMinted, Query, At, Free, Local, SecretsLabels
<1>16. CASE DeleteMinted(p)
  BY <1>1, <1>16, CallBecomes, BecomeFree, EndFree
     DEF DeleteMinted, KeychainCall, At, Free, Local, SecretsLabels
<1>17. CASE Forgotten(p)
  BY <1>1, <1>17, CallBecomes, BecomeFree, EndFree
     DEF Forgotten, LocalStep, At, Free, Local, SecretsLabels
<1> QED
  BY <1>2, <1>3, <1>4, <1>5, <1>6, <1>7, <1>8, <1>9, <1>10, <1>11, <1>12, <1>13, <1>14, <1>15, <1>16, <1>17 DEF DownStep

\* ... nor where one starts or is killed.
LEMMA NextFree ==
  ASSUME TypeOK, NEW p \in Proc, Start(p) \/ Step(p) \/ Crash(p)
  PROVE FreeStep(p)
<1>1. CASE Start(p)
  <2>1. CASE Refuse(p)
    BY <2>1, BecomeFree, EndFree DEF Refuse, LocalStep
  <2>2. CASE StartUp(p)
    <3>1. PICK job \in Jobs, t \in Topologies :
            Become(p, [Loaded(job, t) EXCEPT !.pc = "users", !.todo = UserSecrets(t, job.roles)])
      BY <2>2 DEF StartUp, LocalStep
    <3>2. Free([Loaded(job, t) EXCEPT !.pc = "users", !.todo = UserSecrets(t, job.roles)])
      BY DEF Loaded, Idle, Free, SecretsLabels
    <3> QED
      BY <3>1, <3>2, BecomeFree
  <2>3. CASE StartDown(p)
    <3>1. PICK job \in Jobs, t \in Topologies :
            Become(p, [Loaded(job, t) EXCEPT !.pc = "list"])
      BY <2>3 DEF StartDown, LocalStep
    <3>2. Free([Loaded(job, t) EXCEPT !.pc = "list"])
      BY DEF Loaded, Idle, Free, SecretsLabels
    <3> QED
      BY <3>1, <3>2, BecomeFree
  <2> QED
    BY <1>1, <2>1, <2>2, <2>3 DEF Start
<1>2. CASE SeesInterrupt(p) \/ Crash(p)
  BY <1>2, BecomeFree, EndFree DEF SeesInterrupt, Crash, LocalStep
<1> QED
  BY <1>1, <1>2, UpFree, DownFree DEF Step

\* The places of the secrets commands are none of those PlaceOK speaks of.
LEMMA SecretsPlace ==
  ASSUME NEW me, me.pc \in SecretsLabels
  PROVE Placed(me)
BY DEF Placed, SecretsLabels, UpLabels, DownLabels

\* SavePlaceOK survives a step to a place where SavePlaced holds.
LEMMA BecomeSavePlaced ==
  ASSUME TypeOK, SavePlaceOK, NEW p \in Proc, NEW ACTION me, Become(p, me), SavePlaced(me)
  PROVE SavePlaceOK'
BY DEF TypeOK, SavePlaceOK, SavePlaced, Become

\* Ended commands and those of up and down are such places.
LEMMA FreeSavePlaced ==
  ASSUME NEW me, Free(me)
  PROVE SavePlaced(me)
BY DEF Free, SavePlaced, SecretsLabels

\* A step to a place of the secrets commands keeps both.
LEMMA BecomePlaces ==
  ASSUME TypeOK, PlaceOK, SavePlaceOK, NEW p \in Proc, NEW ACTION me, Become(p, me),
         \/ me.pc \in SecretsLabels /\ SavePlaced(me)
         \/ \E c : me = Idle(c)
  PROVE PlaceOK' /\ SavePlaceOK'
BY SecretsPlace, EndPlaced, EndFree, FreeSavePlaced, BecomePlaced, BecomeSavePlaced

\* Starting a secrets command keeps both.
LEMMA StartSecretsPlaced ==
  ASSUME TypeOK, PlaceOK, SavePlaceOK, NEW p \in Proc, StartSecrets(p)
  PROVE PlaceOK' /\ SavePlaceOK'
<1>1. CASE RefuseSecrets(p)
  BY <1>1, BecomePlaces DEF RefuseSecrets, LocalStep
<1>2. ASSUME NEW cmd, NEW label \in SecretsLabels, NEW values,
             cmd # "generate" /\ label \in {"save", "have"} => None \notin values,
             cmd = "generate" => label # "save",
             \/ label = "save" /\ cmd = "set"
             \/ label = "have" /\ cmd \in {"update", "generate"}
             \/ label = "erase" /\ cmd = "delete",
             Starts(p, cmd, label, values)
      PROVE PlaceOK' /\ SavePlaceOK'
  <2>1. PICK job \in SecretJobs, t \in Topologies, v \in values :
          job.cmd = cmd /\ Become(p, [Prepared(job, t) EXCEPT !.pc = label, !.fresh = v])
    BY <1>2 DEF Starts, LocalStep
  <2> DEFINE me == [Prepared(job, t) EXCEPT !.pc = label, !.fresh = v]
  <2>2. me.pc = label /\ me.fresh = v /\ me.todo = {job.name} /\ me.cmd = cmd
    BY <2>1 DEF Prepared, Idle
  <2>3. SavePlaced(me)
    BY <1>2, <2>2 DEF SavePlaced, Saves
  <2> HIDE DEF me
  <2>4. Become(p, me)
    BY <2>1 DEF me
  <2> QED
    BY <1>2, <2>2, <2>3, <2>4, BecomePlaces
<1>3. None \notin Value \ KeyValue
  BY PodmanAssumption
<1> QED
  BY <1>1, <1>2, <1>3
     DEF StartSecrets, StartSet, StartUpdate, StartGenerate, StartDelete, SecretsLabels

\* Every step of one keeps both.
LEMMA SecretsPlaced ==
  ASSUME TypeOK, PlaceOK, SavePlaceOK, NEW p \in Proc, SecretsStep(p)
  PROVE PlaceOK' /\ SavePlaceOK'
<1> DEFINE me == proc[p]
<1>1. me \in Local /\ SavePlaced(me)
  BY DEF TypeOK, SavePlaceOK
<1>2. \E c : ReturnError(me) = Idle(c)
  BY DEF ReturnError
<1>3. CASE FindItem(p)
  BY <1>1, <1>2, <1>3, CallBecomes, BecomePlaces, PodmanAssumption
     DEF FindItem, Query, At, SavePlaced, Saves, Local, SecretsLabels
<1>4. CASE MintAgain(p)
  BY <1>1, <1>2, <1>4, CallBecomes, BecomePlaces, PodmanAssumption
     DEF MintAgain, PodmanCall, At, SavePlaced, Saves, Local, SecretsLabels
<1>5. CASE GenerateAgain(p)
  BY <1>1, <1>2, <1>5, CallBecomes, BecomePlaces, PodmanAssumption
     DEF GenerateAgain, LocalStep, At, SavePlaced, Saves, Local, SecretsLabels
<1>6. CASE Save(p)
  BY <1>1, <1>2, <1>6, CallBecomes, BecomePlaces, PodmanAssumption
     DEF Save, SaveFails, KeychainCall, At, SavePlaced, Local, SecretsLabels
<1>7. CASE PushInterrupted(p)
  BY <1>1, <1>2, <1>7, CallBecomes, BecomePlaces, PodmanAssumption
     DEF PushInterrupted, LocalStep, At, SavePlaced, Local, SecretsLabels
<1>8. CASE LookMachine(p)
  BY <1>1, <1>2, <1>8, CallBecomes, BecomePlaces, PodmanAssumption
     DEF LookMachine, Query, At, SavePlaced, Local, SecretsLabels
<1>9. CASE Send(p)
  BY <1>1, <1>2, <1>9, CallBecomes, BecomePlaces, PodmanAssumption
     DEF Send, SendFails, PodmanCall, At, SavePlaced, Local, SecretsLabels
<1>10. CASE Erase(p)
  BY <1>1, <1>2, <1>10, CallBecomes, BecomePlaces, PodmanAssumption
     DEF Erase, KeychainCall, At, SavePlaced, Local, SecretsLabels
<1>11. CASE InspectMachine(p)
  BY <1>1, <1>2, <1>11, CallBecomes, BecomePlaces, PodmanAssumption
     DEF InspectMachine, Query, At, SavePlaced, Local, SecretsLabels
<1>12. CASE FindStored(p)
  BY <1>1, <1>2, <1>12, CallBecomes, BecomePlaces, PodmanAssumption
     DEF FindStored, Query, At, SavePlaced, Local, SecretsLabels
<1>13. CASE DropStored(p)
  BY <1>1, <1>2, <1>13, CallBecomes, BecomePlaces, PodmanAssumption
     DEF DropStored, PodmanCall, At, SavePlaced, Local, SecretsLabels
<1> QED
  BY <1>3, <1>4, <1>5, <1>6, <1>7, <1>8, <1>9, <1>10, <1>11, <1>12, <1>13 DEF SecretsStep

\* What is not a step of a secrets command keeps SavePlaceOK.
LEMMA NextSavePlaced ==
  ASSUME TypeOK, SavePlaceOK, [Next]_vars
  PROVE SavePlaceOK'
<1>1. CASE UNCHANGED vars
  BY <1>1 DEF vars, SavePlaceOK, SavePlaced
<1>2. ASSUME NEW p \in Proc, Start(p) \/ Step(p) \/ Crash(p)
      PROVE SavePlaceOK'
  BY <1>2, NextFree, FreeSavePlaced DEF FreeStep, SavePlaceOK, Free, SavePlaced, SecretsLabels
<1>3. ASSUME NEW p \in Proc, Interrupt(p)
      PROVE SavePlaceOK'
  <2>1. SavePlaced([proc[p] EXCEPT !.cancelled = TRUE])
    BY DEF TypeOK, SavePlaceOK, SavePlaced, Local
  <2> QED
    BY <1>3, <2>1, BecomeSavePlaced DEF Interrupt
<1>4. CASE Reboot
  BY <1>4, EndFree, FreeSavePlaced DEF Reboot, SavePlaceOK, SavePlaced, Idle, SecretsLabels
<1> QED
  BY <1>1, <1>2, <1>3, <1>4 DEF Next

\* Every step of every command keeps types and places.
LEMMA LclawStep ==
  ASSUME TypeOK, PlaceOK, SavePlaceOK, [LclawNext]_vars
  PROVE TypeOK' /\ PlaceOK' /\ SavePlaceOK'
<1>1. CASE [Next]_vars
  BY <1>1, TypeStep, PlaceStep, NextSavePlaced
<1>2. ASSUME NEW p \in Proc, StartSecrets(p)
      PROVE TypeOK' /\ PlaceOK' /\ SavePlaceOK'
  BY <1>2, StartSecretsType, StartSecretsPlaced
<1>3. ASSUME NEW p \in Proc, SecretsStep(p)
      PROVE TypeOK' /\ PlaceOK' /\ SavePlaceOK'
  BY <1>3, ProduceType, SaveType, PushType, DeleteType, SecretsPlaced DEF SecretsStep
<1> QED
  BY <1>1, <1>2, <1>3 DEF LclawNext

-----------------------------------------------------------------------------
(* Copies: each was made of a value that was in the keychain.              *)

\* Every value of s anywhere, and in the keychain, is one it has held.
KeptOnce ==
  \A s \in Secret :
    /\ IsSet(s) => items[s].val \in ever[s]
    /\ OnceKept(s, store[s])
    /\ OnceKept(s, vols[s])
    /\ \A w \in ListPods : OnceKept(s, pods[w].env[s])
    /\ \A p \in Proc : OnceKept(s, proc[p].got[s])
    /\ \A p \in Proc : Sending(proc[p], s) => proc[p].fresh \in ever[s]

\* Where copies on the machine may come from when secrets commands run too.
AnyCopies ==
  /\ \A s \in Secret :
       \/ store'[s] \in {None, store[s]}
       \/ \E p \in Proc : store'[s] = proc[p].got[s]
       \/ \E p \in Proc : Sending(proc[p], s) /\ store'[s] = proc[p].fresh
  /\ \A s \in Secret : vols'[s] \in {None, vols[s], store[s]}
  /\ \A w \in Workload, s \in Secret :
       pods'[w] # None =>
         \/ pods'[w].env[s] \in {None, store[s]}
         \/ pods[w] # None /\ pods'[w].env[s] = pods[w].env[s]

\* And what a command is about to push.
SentCopies ==
  \A p \in Proc, s \in Secret :
    Sending(proc'[p], s) =>
      \/ Sending(proc[p], s) /\ proc'[p].fresh = proc[p].fresh
      \/ items'[s] # None /\ items'[s].val = proc'[p].fresh

\* up and down copy this way.
LEMMA PodmanAny ==
  ASSUME PodmanCopies
  PROVE AnyCopies
BY DEF PodmanCopies, AnyCopies

\* The history only grows, and takes in what the keychain comes to hold.
LEMMA EverGrows ==
  ASSUME ever' = [s \in Secret |-> ever[s] \union InKeychain(s)'], NEW s \in Secret
  PROVE ever[s] \subseteq ever'[s] /\ (items'[s] # None => items'[s].val \in ever'[s])
BY DEF InKeychain, IsSet

\* If every copy comes from one of these, KeptOnce is kept.
LEMMA KeptFollows ==
  ASSUME TypeOK, TypeOK', KeptOnce, AnyCopies, GotCopies, SentCopies,
         ever' = [s \in Secret |-> ever[s] \union InKeychain(s)']
  PROVE KeptOnce'
<1> SUFFICES ASSUME NEW s \in Secret
             PROVE (/\ IsSet(s) => items[s].val \in ever[s]
                    /\ OnceKept(s, store[s])
                    /\ OnceKept(s, vols[s])
                    /\ \A w \in ListPods : OnceKept(s, pods[w].env[s])
                    /\ \A p \in Proc : OnceKept(s, proc[p].got[s])
                    /\ \A p \in Proc : Sending(proc[p], s) => proc[p].fresh \in ever[s])'
  BY DEF KeptOnce
<1>1. ever[s] \subseteq ever'[s] /\ (items'[s] # None => items'[s].val \in ever'[s])
  BY EverGrows
<1>2. OnceKept(s, store[s])'
  BY <1>1 DEF KeptOnce, AnyCopies, OnceKept
<1>3. OnceKept(s, vols[s])'
  BY <1>1 DEF KeptOnce, AnyCopies, OnceKept
<1>4. ASSUME NEW w \in Workload, pods'[w] # None
      PROVE OnceKept(s, pods[w].env[s])'
  BY <1>1, <1>4 DEF KeptOnce, AnyCopies, OnceKept, ListPods
<1>5. ASSUME NEW p \in Proc
      PROVE OnceKept(s, proc[p].got[s])'
  BY <1>1 DEF KeptOnce, GotCopies, OnceKept
<1>6. ASSUME NEW p \in Proc, Sending(proc'[p], s)
      PROVE proc'[p].fresh \in ever'[s]
  BY <1>1, <1>6 DEF KeptOnce, SentCopies
<1> QED
  BY <1>1, <1>2, <1>3, <1>4, <1>5, <1>6 DEF ListPods, IsSet, Sending

\* up and down push nothing.
LEMMA NextSent ==
  ASSUME TypeOK, [Next]_vars
  PROVE SentCopies
<1>1. CASE UNCHANGED vars
  BY <1>1 DEF vars, SentCopies
<1>2. ASSUME NEW p \in Proc, Start(p) \/ Step(p) \/ Crash(p)
      PROVE SentCopies
  BY <1>2, NextFree DEF FreeStep, Free, SentCopies, Sending, SecretsLabels
<1>3. ASSUME NEW p \in Proc, Interrupt(p)
      PROVE SentCopies
  BY <1>3 DEF Interrupt, Become, TypeOK, Local, SentCopies, Sending
<1>4. CASE Reboot
  BY <1>4 DEF Reboot, SentCopies, Sending, Idle
<1> QED
  BY <1>1, <1>2, <1>3, <1>4 DEF Next

\* Starting a secrets command copies nothing and pushes nothing.
LEMMA StartSecretsCopies ==
  ASSUME TypeOK, NEW p \in Proc, StartSecrets(p)
  PROVE AnyCopies /\ GotCopies /\ SentCopies
<1>1. AnyCopies
  BY CallsCopy, PodmanAny
     DEF StartSecrets, RefuseSecrets, StartSet, StartUpdate, StartGenerate, StartDelete, Starts
<1>2. ASSUME NEW ACTION me, Become(p, me), me.got = NoneGot, me.pc \notin {"push", "send"}
      PROVE GotCopies /\ SentCopies
  <2>1. GotCopies
    BY <1>2, BecomeKeepsGot DEF KeepsGot
  <2>2. SentCopies
    BY <1>2 DEF Become, TypeOK, SentCopies, Sending
  <2> QED
    BY <2>1, <2>2
<1>3. CASE RefuseSecrets(p)
  <2> DEFINE me == Idle("failed")
  <2>1. me.pc = "idle" /\ me.got = NoneGot
    BY DEF Idle
  <2> HIDE DEF me
  <2>2. Become(p, me)
    BY <1>3 DEF RefuseSecrets, LocalStep, me
  <2> QED
    BY <1>1, <1>2, <2>1, <2>2
<1>4. ASSUME NEW cmd, NEW label \in {"save", "have", "erase"}, NEW values,
             Starts(p, cmd, label, values)
      PROVE GotCopies /\ SentCopies
  <2>1. PICK job \in SecretJobs, t \in Topologies, v \in values :
          Become(p, [Prepared(job, t) EXCEPT !.pc = label, !.fresh = v])
    BY <1>4 DEF Starts, LocalStep
  <2> DEFINE me == [Prepared(job, t) EXCEPT !.pc = label, !.fresh = v]
  <2>2. me.pc = label /\ me.got = NoneGot
    BY DEF Prepared, Idle
  <2> HIDE DEF me
  <2>3. Become(p, me)
    BY <2>1 DEF me
  <2> QED
    BY <1>2, <1>4, <2>2, <2>3
<1> QED
  BY <1>1, <1>3, <1>4
     DEF StartSecrets, StartSet, StartUpdate, StartGenerate, StartDelete

\* A secrets command resolves nothing.
LEMMA SecretsGot ==
  ASSUME TypeOK, NEW p \in Proc, SecretsStep(p)
  PROVE GotCopies
<1> DEFINE me == proc[p]
<1>1. me \in Local
  BY DEF TypeOK
<1>2. CASE FindItem(p)
  BY <1>1, <1>2, CallBecomes, BecomeKeepsGot, EndKeepsGot
     DEF FindItem, Query, At, KeepsGot, Local
<1>3. CASE MintAgain(p)
  <2>1. PICK k \in KeyValue \ Held :
          PodmanCall(p, CanExec, DoMint(k), [me EXCEPT !.pc = "save", !.fresh = k],
                     ReturnError(me))
    BY <1>3 DEF MintAgain
  <2> DEFINE minted == [me EXCEPT !.pc = "save", !.fresh = k]
  <2>2. KeepsGot(p, minted)
    BY <1>1 DEF KeepsGot, Local
  <2> HIDE DEF minted
  <2>3. Become(p, minted) \/ Become(p, ReturnError(me))
    BY <2>1, CallBecomes DEF PodmanCall, minted
  <2> QED
    BY <2>2, <2>3, BecomeKeepsGot, EndKeepsGot
<1>4. CASE GenerateAgain(p)
  BY <1>1, <1>4, CallBecomes, BecomeKeepsGot, EndKeepsGot
     DEF GenerateAgain, LocalStep, At, KeepsGot, Local
<1>5. CASE Save(p)
  BY <1>1, <1>5, CallBecomes, BecomeKeepsGot, EndKeepsGot
     DEF Save, SaveFails, KeychainCall, At, KeepsGot, Local
<1>6. CASE PushInterrupted(p)
  BY <1>1, <1>6, CallBecomes, BecomeKeepsGot, EndKeepsGot
     DEF PushInterrupted, LocalStep, At, KeepsGot, Local
<1>7. CASE LookMachine(p)
  BY <1>1, <1>7, CallBecomes, BecomeKeepsGot, EndKeepsGot
     DEF LookMachine, Query, At, KeepsGot, Local
<1>8. CASE Send(p)
  BY <1>1, <1>8, CallBecomes, BecomeKeepsGot, EndKeepsGot
     DEF Send, SendFails, PodmanCall, At, KeepsGot, Local
<1>9. CASE Erase(p)
  BY <1>1, <1>9, CallBecomes, BecomeKeepsGot, EndKeepsGot
     DEF Erase, KeychainCall, At, KeepsGot, Local
<1>10. CASE InspectMachine(p)
  BY <1>1, <1>10, CallBecomes, BecomeKeepsGot, EndKeepsGot
     DEF InspectMachine, Query, At, KeepsGot, Local
<1>11. CASE FindStored(p)
  BY <1>1, <1>11, CallBecomes, BecomeKeepsGot, EndKeepsGot
     DEF FindStored, Query, At, KeepsGot, Local
<1>12. CASE DropStored(p)
  BY <1>1, <1>12, CallBecomes, BecomeKeepsGot, EndKeepsGot
     DEF DropStored, PodmanCall, At, KeepsGot, Local
<1> QED
  BY <1>2, <1>3, <1>4, <1>5, <1>6, <1>7, <1>8, <1>9, <1>10, <1>11, <1>12 DEF SecretsStep

\* Only Send writes to the machine, and only what it was about to push.
LEMMA SecretsAny ==
  ASSUME TypeOK, NEW p \in Proc, SecretsStep(p)
  PROVE AnyCopies
<1> DEFINE me == proc[p]
<1>1. CASE FindItem(p) \/ GenerateAgain(p) \/ Save(p) \/ PushInterrupted(p) \/ LookMachine(p)
  BY <1>1, CallsCopy, PodmanAny
     DEF FindItem, GenerateAgain, Save, PushInterrupted, LookMachine
<1>2. CASE MintAgain(p)
  BY <1>2, CallsCopy, CommandCopies, PodmanAny DEF MintAgain
<1>3. CASE Erase(p) \/ InspectMachine(p) \/ FindStored(p)
  BY <1>3, CallsCopy, PodmanAny DEF Erase, InspectMachine, FindStored
<1>4. CASE DropStored(p)
  BY <1>4, CallsCopy, CommandCopies, PodmanAny DEF DropStored
<1>5. CASE Send(p)
  <2>1. PICK s \in me.todo :
          PodmanCall(p, CanStoreSecret, DoStoreSecret(s, me.fresh), Idle("ok"), Idle("failed"))
    BY <1>5 DEF Send, SendFails
  <2>2. Sending(me, s)
    BY <1>5 DEF Send, At, Sending
  <2>3. DoStoreSecret(s, me.fresh) => AnyCopies
    BY <2>2 DEF DoStoreSecret, AnyCopies, TypeOK, PodmanTypeOK
  <2> QED
    BY <2>1, <2>3, CallsCopy, PodmanAny
<1> QED
  BY <1>1, <1>2, <1>3, <1>4, <1>5 DEF SecretsStep

\* What a process comes to push after its step decides SentCopies.
LEMMA BecomeSent ==
  ASSUME TypeOK, NEW p \in Proc, NEW ACTION me, Become(p, me),
         \A s \in Secret : Sending(me, s) =>
           \/ Sending(proc[p], s) /\ me.fresh = proc[p].fresh
           \/ items'[s] # None /\ items'[s].val = me.fresh
  PROVE SentCopies
BY DEF TypeOK, Become, SentCopies

\* A command pushes what Save put in the keychain.
LEMMA SecretsSent ==
  ASSUME TypeOK, SavePlaceOK, NEW p \in Proc, SecretsStep(p)
  PROVE SentCopies
<1> DEFINE me == proc[p]
<1>1. me \in Local
  BY DEF TypeOK
<1>2. ASSUME NEW ACTION next, Become(p, next), next.pc \notin {"push", "send"}
      PROVE SentCopies
  BY <1>2, BecomeSent DEF Sending
<1>3. \A c : Idle(c).pc \notin {"push", "send"}
  BY DEF Idle
<1>4. CASE FindItem(p)
  BY <1>1, <1>2, <1>3, <1>4, CallBecomes DEF FindItem, Query, ReturnError, At, Local
<1>5. CASE MintAgain(p)
  BY <1>1, <1>2, <1>3, <1>5, CallBecomes DEF MintAgain, PodmanCall, ReturnError, At, Local
<1>6. CASE GenerateAgain(p)
  BY <1>1, <1>2, <1>3, <1>6, CallBecomes DEF GenerateAgain, LocalStep, At, Local
<1>7. CASE PushInterrupted(p)
  BY <1>1, <1>2, <1>3, <1>7, CallBecomes DEF PushInterrupted, LocalStep, At, Local
<1>8. CASE Send(p)
  BY <1>1, <1>2, <1>3, <1>8, CallBecomes DEF Send, SendFails, PodmanCall, At, Local
<1>9. CASE Erase(p)
  BY <1>1, <1>2, <1>3, <1>9, CallBecomes DEF Erase, KeychainCall, ReturnError, At, Local
<1>10. CASE InspectMachine(p)
  BY <1>1, <1>2, <1>3, <1>10, CallBecomes DEF InspectMachine, Query, At, Local
<1>11. CASE FindStored(p)
  BY <1>1, <1>2, <1>3, <1>11, CallBecomes DEF FindStored, Query, At, Local
<1>12. CASE DropStored(p)
  BY <1>1, <1>2, <1>3, <1>12, CallBecomes DEF DropStored, PodmanCall, At, Local
<1>13. CASE LookMachine(p)
  <2>1. Become(p, [me EXCEPT !.pc = "send"]) \/ \E c : Become(p, Idle(c))
    BY <1>13, CallBecomes DEF LookMachine, Query
  <2>2. \A s \in Secret : Sending([me EXCEPT !.pc = "send"], s) =>
          Sending(me, s) /\ [me EXCEPT !.pc = "send"].fresh = me.fresh
    BY <1>1, <1>13 DEF LookMachine, At, Sending, Local
  <2> QED
    BY <1>2, <1>3, <2>1, <2>2, BecomeSent
<1>14. CASE Save(p)
  <2>1. PICK s \in me.todo :
          \/ DoPut(s, me.fresh, NewSource(me, s)) /\ Become(p, [me EXCEPT !.pc = "push"])
          \/ Become(p, ReturnError(me))
    BY <1>14 DEF Save, SaveFails, KeychainCall, Call
  <2>2. ASSUME DoPut(s, me.fresh, NewSource(me, s)), Become(p, [me EXCEPT !.pc = "push"])
        PROVE SentCopies
    <3> DEFINE item == [val |-> me.fresh, src |-> NewSource(me, s)]
    <3>1. s \in Secret /\ me.fresh \in Value
      BY <1>1, <1>14 DEF Save, At, SavePlaceOK, SavePlaced, Local, Maybe
    <3>2. item \in Item
      BY <3>1, SourceType DEF NewSource, Item
    <3>3. items'[s] = item /\ item # None
      BY <2>2, <3>1, <3>2, KeychainAssumption DEF DoPut, TypeOK, KeychainTypeOK
    <3>4. \A u \in me.todo : u = s
      BY <1>14 DEF Save, At, SavePlaceOK, SavePlaced, SecretsLabels
    <3>5. \A u \in Secret : Sending([me EXCEPT !.pc = "push"], u) =>
            items'[u] # None /\ items'[u].val = [me EXCEPT !.pc = "push"].fresh
      BY <1>1, <3>3, <3>4 DEF Sending, Local
    <3> QED
      BY <2>2, <3>5, BecomeSent
  <2> QED
    BY <1>2, <1>3, <2>1, <2>2 DEF ReturnError
<1> QED
  BY <1>4, <1>5, <1>6, <1>7, <1>8, <1>9, <1>10, <1>11, <1>12, <1>13, <1>14 DEF SecretsStep

-----------------------------------------------------------------------------
(* The keychain: a secrets command changes the item it is about, and set   *)
(* only one that is not there.                                             *)

\* Calls that do not write the keychain.
LEMMA SecretsKeepItems ==
  ASSUME NEW p \in Proc, SecretsStep(p), ~Save(p), ~Erase(p)
  PROVE UNCHANGED items
<1>1. CASE FindItem(p) \/ LookMachine(p) \/ InspectMachine(p) \/ FindStored(p)
  BY <1>1, CallsKeepItems DEF FindItem, LookMachine, InspectMachine, FindStored
<1>2. CASE MintAgain(p) \/ Send(p) \/ DropStored(p)
  BY <1>2, CallsKeepItems DEF MintAgain, Send, DropStored
<1>3. CASE GenerateAgain(p) \/ PushInterrupted(p)
  BY <1>3, CallsKeepItems DEF GenerateAgain, PushInterrupted
<1> QED
  BY <1>1, <1>2, <1>3 DEF SecretsStep

\* Save is refused to a set where an item is; Erase is only delete's.
LEMMA SecretsOrdered ==
  ASSUME TypeOK, SavePlaceOK, NEW p \in Proc, SecretsStep(p),
         NEW s \in Secret, IsSet(s), items'[s] # items[s]
  PROVE Ordered(p, s)
<1> DEFINE me == proc[p]
<1>1. me \in Local /\ SavePlaced(me)
  BY DEF TypeOK, SavePlaceOK
<1>2. CASE Save(p)
  <2>1. PICK u \in me.todo :
          KeychainCall(p, CanPut(u, me.cmd # "set"), DoPut(u, me.fresh, NewSource(me, u)),
                       [me EXCEPT !.pc = "push"], SaveFails(me))
    BY <1>2 DEF Save
  <2>2. \/ UNCHANGED items
        \/ /\ me.cmd # "set" \/ ~IsSet(u)
           /\ items' = [items EXCEPT ![u] = [val |-> me.fresh, src |-> NewSource(me, u)]]
    BY <2>1 DEF KeychainCall, Call, CanPut, DoPut, keychainVars
  <2>3. u = s
    BY <2>2 DEF TypeOK, KeychainTypeOK
  <2>4. me.cmd \in Saves
    BY <1>1, <1>2 DEF Save, At, SavePlaced
  <2> QED
    BY <2>2, <2>3, <2>4 DEF Saves, Ordered
<1>3. CASE Erase(p)
  <2>1. PICK u \in me.todo :
          KeychainCall(p, CanDelete(u), DoDelete(u), [me EXCEPT !.pc = "inspect"],
                       ReturnError(me))
    BY <1>3 DEF Erase
  <2>2. UNCHANGED items \/ items' = [items EXCEPT ![u] = None]
    BY <2>1 DEF KeychainCall, Call, DoDelete, keychainVars
  <2>3. u = s
    BY <2>2 DEF TypeOK, KeychainTypeOK
  <2>4. me.cmd = "delete"
    BY <1>1, <1>3 DEF Erase, At, SavePlaced
  <2> QED
    BY <2>3, <2>4 DEF Ordered
<1> QED
  BY <1>2, <1>3, SecretsKeepItems

-----------------------------------------------------------------------------
(* All commands                                                            *)

\* Every copy a step makes is of a copy, or of the keychain's value.
LEMMA LclawCopies ==
  ASSUME TypeOK, PlaceOK, SavePlaceOK, LclawNext
  PROVE AnyCopies /\ GotCopies /\ SentCopies
<1>1. CASE Next
  BY <1>1, StepCopies, PodmanAny, StepGot, NextSent
<1>2. ASSUME NEW p \in Proc, StartSecrets(p)
      PROVE AnyCopies /\ GotCopies /\ SentCopies
  BY <1>2, StartSecretsCopies
<1>3. ASSUME NEW p \in Proc, SecretsStep(p)
      PROVE AnyCopies /\ GotCopies /\ SentCopies
  BY <1>3, SecretsAny, SecretsGot, SecretsSent
<1> QED
  BY <1>1, <1>2, <1>3 DEF LclawNext

-----------------------------------------------------------------------------
(* The history                                                             *)

\* What is inductive for all commands together.
HistoryOK == TypeOK /\ PlaceOK /\ SavePlaceOK /\ KeptOnce

\* It holds at the start: nothing is copied, and the history is the keychain.
LEMMA HistoryStart == HistoryInit => HistoryOK
<1> SUFFICES ASSUME HistoryInit
             PROVE HistoryOK
  OBVIOUS
<1>1. TypeOK /\ PlaceOK
  BY InitType DEF HistoryInit
<1>2. SavePlaceOK
  BY EndFree, FreeSavePlaced DEF HistoryInit, Init, CommandInit, SavePlaceOK
<1>3. KeptOnce
  BY DEF HistoryInit, Init, CommandInit, PodmanInit, Idle, NoneGot, ListPods, KeptOnce,
         OnceKept, InKeychain, Sending
<1> QED
  BY <1>1, <1>2, <1>3 DEF HistoryOK

\* Every step keeps it.
LEMMA HistoryStep == HistoryOK /\ [HistoryNext]_historyVars => HistoryOK'
<1> SUFFICES ASSUME HistoryOK, [HistoryNext]_historyVars
             PROVE HistoryOK'
  OBVIOUS
<1>1. [LclawNext]_vars
  BY DEF HistoryNext, historyVars
<1>2. TypeOK' /\ PlaceOK' /\ SavePlaceOK'
  BY <1>1, LclawStep DEF HistoryOK
<1>3. CASE UNCHANGED historyVars
  <2>1. KeptOnce'
    BY <1>3 DEF historyVars, vars, podmanVars, keychainVars, HistoryOK, KeptOnce, OnceKept,
                ListPods, IsSet, Sending
  <2> QED
    BY <1>2, <2>1 DEF HistoryOK
<1>4. CASE HistoryNext
  <2>1. AnyCopies /\ GotCopies /\ SentCopies
    BY <1>4, LclawCopies DEF HistoryOK, HistoryNext
  <2>2. KeptOnce'
    BY <1>2, <1>4, <2>1, KeptFollows DEF HistoryOK, HistoryNext
  <2> QED
    BY <1>2, <2>2 DEF HistoryOK
<1> QED
  BY <1>3, <1>4

\* Types hold for all commands together, too.
THEOREM LclawTypeCorrect == HistorySpec => []TypeOK
<1>1. HistoryOK => TypeOK
  BY DEF HistoryOK
<1> QED
  BY <1>1, HistoryStart, HistoryStep, PTL DEF HistorySpec

\* Whatever commands run at once and whatever disturbs them, every copy of a
\* secret on the machine has been the keychain's value.
THEOREM CopiesHaveBeenKept == HistorySpec => []CopiesOnceInKeychain
<1>1. HistoryOK => CopiesOnceInKeychain
  BY DEF HistoryOK, KeptOnce, CopiesOnceInKeychain
<1> QED
  BY <1>1, HistoryStart, HistoryStep, PTL DEF HistorySpec

\* However many commands run at once and wherever they are disturbed, a value
\* the user supplied goes only by a command the user gave for that secret.
THEOREM UserValueStays == HistorySpec => UserValueKept
<1>1. HistoryOK /\ [HistoryNext]_historyVars
        => [\A s \in Durable : IsSet(s) /\ items[s].src = "user" /\ items'[s] # items[s] =>
              \E p \in Proc : Ordered(p, s)]_vars
  <2> SUFFICES ASSUME HistoryOK, [LclawNext]_vars, NEW s \in Durable, IsSet(s),
                      items'[s] # items[s]
               PROVE \E p \in Proc : Ordered(p, s)
    BY DEF HistoryNext, historyVars
  <2>1. ~[Next]_vars
    BY DurableKept DEF HistoryOK
  <2>2. ASSUME NEW p \in Proc, StartSecrets(p)
        PROVE UNCHANGED items
    BY <2>2 DEF StartSecrets, RefuseSecrets, StartSet, StartUpdate, StartGenerate,
                StartDelete, Starts, LocalStep, keychainVars
  <2>3. PICK p \in Proc : SecretsStep(p)
    BY <2>1, <2>2 DEF LclawNext
  <2> QED
    BY <2>3, SecretsOrdered DEF HistoryOK, Durable
<1> QED
  BY <1>1, HistoryStart, HistoryStep, PTL DEF HistorySpec, UserValueKept

-----------------------------------------------------------------------------
(* The refinement: all commands together implement Custody                  *)

\* A call is on one of the two, and so is every step.
LEMMA OneSystem ==
  ASSUME LclawNext
  PROVE UNCHANGED items \/ UNCHANGED podmanVars
<1>1. CASE Next
  <2>1. ASSUME NEW p \in Proc, Put(p) \/ DeleteMinted(p)
        PROVE UNCHANGED podmanVars
    BY <2>1 DEF Put, DeleteMinted, KeychainCall, Call
  <2> QED
    BY <1>1, <2>1, StepKeepsItems
<1>2. ASSUME NEW p \in Proc, StartSecrets(p)
      PROVE UNCHANGED podmanVars
  BY <1>2 DEF StartSecrets, RefuseSecrets, StartSet, StartUpdate, StartGenerate,
              StartDelete, Starts, LocalStep
<1>3. ASSUME NEW p \in Proc, SecretsStep(p)
      PROVE UNCHANGED items \/ UNCHANGED podmanVars
  <2>1. CASE Save(p) \/ Erase(p)
    BY <2>1 DEF Save, Erase, KeychainCall, Call
  <2> QED
    BY <1>3, <2>1, SecretsKeepItems
<1> QED
  BY <1>1, <1>2, <1>3 DEF LclawNext

\* What is kept, in hand and on the machine are values.
CustodyTyped ==
  /\ \A s \in Secret : Holds(s) \in Value \union {None}
  /\ \A p \in Proc, s \in Secret : InHand(p, s) \subseteq Value
  /\ \A s \in Secret : OnMachine(s) \subseteq Value

\* What a process has in hand and what the machine has are values.
LEMMA CustodyTypes == TypeOK => CustodyTyped
<1> SUFFICES ASSUME TypeOK
             PROVE CustodyTyped
  OBVIOUS
<1>1. \A s \in Secret : Holds(s) \in Value \union {None}
  BY DEF TypeOK, KeychainTypeOK, Holds, IsSet, Item, Maybe
<1>2. \A p \in Proc, s \in Secret : InHand(p, s) \subseteq Value
  BY DEF TypeOK, Local, InHand, Maybe
<1>3. ASSUME NEW s \in Secret
      PROVE OnMachine(s) \subseteq Value
  <2>1. store[s] \in Maybe(Value) /\ vols[s] \in Maybe(Value)
    BY DEF TypeOK, PodmanTypeOK
  <2>2. \A w \in ListPods : pods[w].env[s] \in Maybe(Value)
    BY DEF TypeOK, PodmanTypeOK, ListPods, Maybe, Pod
  <2> QED
    BY <2>1, <2>2 DEF OnMachine, Maybe
<1> QED
  BY <1>1, <1>2, <1>3 DEF CustodyTyped

\* What is in a hand was there, or is what the keychain now has.
LEMMA HandsComeFrom ==
  ASSUME TypeOK, GotCopies, SentCopies, NEW p \in Proc, NEW s \in Secret
  PROVE InHand(p, s)' \subseteq InHand(p, s) \union ({Holds(s)'} \ {None})
<1>1. items'[s] # None => Holds(s)' = items'[s].val
  BY DEF Holds, IsSet
<1>2. proc'[p].got[s] # None => proc'[p].got[s] \in InHand(p, s) \union {Holds(s)'}
  BY <1>1 DEF GotCopies, InHand
<1>3. Sending(proc'[p], s) /\ proc'[p].fresh # None
        => proc'[p].fresh \in InHand(p, s) \union {Holds(s)'}
  BY <1>1 DEF SentCopies, InHand
<1>4. InHand(p, s)' \subseteq
        ({proc'[p].got[s]} \union (IF Sending(proc'[p], s) THEN {proc'[p].fresh} ELSE {}))
          \ {None}
  BY DEF InHand, Sending
<1> QED
  BY <1>2, <1>3, <1>4

\* What is on the machine was there, or in a hand.
LEMMA CopiesComeFrom ==
  ASSUME TypeOK, AnyCopies, NEW s \in Secret
  PROVE OnMachine(s)' \subseteq OnMachine(s) \union UNION {InHand(p, s) : p \in Proc}
<1> DEFINE before == OnMachine(s) \union UNION {InHand(p, s) : p \in Proc}
<1>1. ASSUME NEW v, v # None, v = store[s] \/ v = vols[s]
      PROVE v \in before
  BY <1>1 DEF OnMachine
<1>2. ASSUME NEW p \in Proc, NEW v, v # None,
             v = proc[p].got[s] \/ (Sending(proc[p], s) /\ v = proc[p].fresh)
      PROVE v \in before
  BY <1>2 DEF InHand
<1>3. store'[s] # None => store'[s] \in before
  BY <1>1, <1>2 DEF AnyCopies
<1>4. vols'[s] # None => vols'[s] \in before
  BY <1>1 DEF AnyCopies
<1>5. ASSUME NEW w \in Workload, pods'[w] # None, pods'[w].env[s] # None
      PROVE pods'[w].env[s] \in before
  <2>1. CASE pods'[w].env[s] = store[s]
    BY <1>1, <1>5, <2>1
  <2>2. CASE pods[w] # None /\ pods'[w].env[s] = pods[w].env[s]
    BY <1>5, <2>2 DEF OnMachine, ListPods
  <2> QED
    BY <1>5, <2>1, <2>2 DEF AnyCopies
<1>6. OnMachine(s)' =
        ({store'[s], vols'[s]} \union {pods'[w].env[s] : w \in {w \in Workload : pods'[w] # None}})
          \ {None}
  BY DEF OnMachine, ListPods
<1> QED
  BY <1>3, <1>4, <1>5, <1>6

\* An unchanged machine holds the same copies, unchanged items the same values.
LEMMA SameCustody ==
  /\ UNCHANGED podmanVars => \A s \in Secret : OnMachine(s)' = OnMachine(s)
  /\ UNCHANGED items => \A s \in Secret : Holds(s)' = Holds(s)
BY DEF podmanVars, OnMachine, ListPods, Holds, IsSet

\* Each step of a command is one of Custody.
LEMMA CustodyStep ==
  ASSUME TypeOK, TypeOK', PlaceOK, SavePlaceOK, LclawNext
  PROVE Carried!Next
<1>1. AnyCopies /\ GotCopies /\ SentCopies
  BY LclawCopies
<1>2. CustodyTyped'
  BY CustodyTypes, PTL
<1>3. Carried!HandsFollow
  BY <1>1, <1>2, HandsComeFrom DEF Carried!HandsFollow, CustodyTyped
<1>4. CASE UNCHANGED podmanVars
  BY <1>2, <1>3, <1>4, SameCustody DEF Carried!Next, Carried!Keep, CustodyTyped
<1>5. CASE UNCHANGED items
  BY <1>1, <1>2, <1>3, <1>5, SameCustody, CopiesComeFrom
     DEF Carried!Next, Carried!Bring, CustodyTyped
<1> QED
  BY <1>4, <1>5, OneSystem

\* However many commands run at once and whatever disturbs them, values travel
\* as Custody says: from the keychain, in a hand, to the machine.
THEOREM ValuesAreCarried == LclawSpec => ValuesCarried
<1>1. Init => Carried!Init
  <2> SUFFICES ASSUME Init
               PROVE Carried!Init
    OBVIOUS
  <2>1. \A s \in Secret : Holds(s) \in Value \union {None}
    BY InitType, CustodyTypes DEF CustodyTyped
  <2>2. \A p \in Proc, s \in Secret : InHand(p, s) = {}
    BY DEF Init, CommandInit, Idle, NoneGot, InHand, Sending
  <2>3. \A s \in Secret : OnMachine(s) = {}
    BY DEF Init, CommandInit, PodmanInit, OnMachine, ListPods
  <2> QED
    BY <2>1, <2>2, <2>3 DEF Carried!Init
<1>2. TypeOK /\ TypeOK' /\ PlaceOK /\ SavePlaceOK /\ [LclawNext]_vars
        => [Carried!Next]_(Carried!vars)
  <2>1. CASE UNCHANGED vars
    <3>1. UNCHANGED <<podmanVars, items, proc>>
      BY <2>1 DEF vars, keychainVars
    <3>2. \A p \in Proc, s \in Secret : InHand(p, s)' = InHand(p, s)
      BY <3>1 DEF InHand, Sending
    <3> QED
      BY <3>1, <3>2, SameCustody, Zenon DEF Carried!vars
  <2> QED
    BY <2>1, CustodyStep
<1>3. Init => TypeOK /\ PlaceOK /\ SavePlaceOK
  BY InitType, EndFree, FreeSavePlaced DEF Init, CommandInit, SavePlaceOK
<1> QED
  BY <1>1, <1>2, <1>3, LclawStep, PTL DEF LclawSpec, ValuesCarried, Carried!Spec

-----------------------------------------------------------------------------
(* The store follows the keychain, when one process runs: what a command   *)
(* is about to send is what the keychain has, what it is about to drop the *)
(* keychain no longer has, and each command keeps to its own places.       *)

Said(me, its) ==
  /\ me.pc \in UpLabels => me.cmd = "up"
  /\ me.pc \in DownLabels => me.cmd = "down"
  /\ me.pc \in {"push", "send"} =>
       /\ me.cmd \in Saves
       /\ \A s \in me.todo : its[s] # None /\ its[s].val = me.fresh
  /\ me.pc \in {"inspect", "exists", "drop"} =>
       me.cmd = "delete" /\ \A s \in me.todo : its[s] = None

SaidOK == \A p \in Proc : Said(proc[p], items)

\* What a command that exits 0 has done about each secret it was about, on a
\* machine that ran.
Follows(p) ==
  \A s \in proc[p].todo : Running =>
    /\ \A cmd \in Saves : EndsOk(p, cmd) => IsSet(s) /\ store'[s] = items[s].val
    /\ EndsOk(p, "delete") => ~IsSet(s) /\ store'[s] = None

\* Places where nothing is promised about the keychain.
LEMMA QuietSaid ==
  ASSUME NEW me, NEW its, me.pc \in {"idle", "have", "produce", "save", "erase"}
  PROVE Said(me, its)
BY DEF Said, UpLabels, DownLabels

\* No step but one that leaves its process idle, with exit status 0, ends a
\* command well.
LEMMA NotOkFollows ==
  ASSUME NEW p \in Proc,
         proc[p].pc = "idle" \/ proc'[p].pc # "idle" \/ proc'[p].exit # "ok"
           \/ proc[p].cmd \in {"up", "down"}
  PROVE Follows(p)
BY DEF Follows, EndsOk, Busy, Saves

\* The steps of up keep to up, ...
LEMMA UpSaid ==
  ASSUME TypeOK, NEW p \in Proc, Said(proc[p], items), UpStep(p)
  PROVE Said(proc'[p], items') /\ Follows(p)
<1> DEFINE me == proc[p]
<1>1. me \in Local /\ me.pc \in UpLabels /\ me.cmd = "up"
  BY UpPlaces DEF TypeOK, Said
<1>2. Follows(p)
  BY <1>1, NotOkFollows
<1>3. ASSUME DescribeUser(p)
      PROVE proc'[p].pc = "idle" \/ (proc'[p].pc = "users" /\ proc'[p].cmd = "up")
  <2>1. me.pc = "users"
    BY <1>3 DEF DescribeUser, At
  <2>2. PICK s \in me.todo :
          \/ Become(p, [me EXCEPT !.todo = @ \ {s}, !.failed = @ \/ ~IsSet(s)])
          \/ Become(p, ReturnError(me))
    BY <1>3, CallBecomes DEF DescribeUser, Query
  <2> DEFINE further == [me EXCEPT !.todo = @ \ {s}, !.failed = @ \/ ~IsSet(s)]
  <2>3. further.pc = me.pc /\ further.cmd = me.cmd
    BY <1>1 DEF Local
  <2>4. ReturnError(me).pc = "idle"
    BY DEF ReturnError, Idle
  <2> HIDE DEF further
  <2>5. proc'[p] = further \/ proc'[p] = ReturnError(me)
    BY <2>2 DEF TypeOK, Become, further
  <2> QED
    BY <1>1, <2>1, <2>3, <2>4, <2>5
<1>4. proc'[p].pc = "idle" \/ (proc'[p].pc \in UpLabels /\ proc'[p].cmd = "up")
  BY <1>1, <1>3, UpSameJob DEF JobStep, SameJob, Past, UpLabels
<1>5. Said(proc'[p], items')
  BY <1>4 DEF Said, UpLabels, DownLabels
<1> QED
  BY <1>2, <1>5

\* ... those of down to down, ...
LEMMA DownSaid ==
  ASSUME TypeOK, NEW p \in Proc, Said(proc[p], items), DownStep(p)
  PROVE Said(proc'[p], items') /\ Follows(p)
<1>1. proc[p].pc \in DownLabels /\ proc[p].cmd = "down"
  BY DownPlaces DEF Said
<1>2. Follows(p)
  BY <1>1, NotOkFollows
<1>3. proc'[p].pc \notin UpLabels /\ proc'[p].pc \notin SecretsLabels
  BY DownNotUp, DownFree DEF OffStep, NotUp, FreeStep, Free
<1>4. proc'[p].pc = "idle" \/ proc'[p].cmd = "down"
  BY <1>1, DownBareStep DEF BareStep
<1>5. Said(proc'[p], items')
  BY <1>3, <1>4 DEF Said, SecretsLabels, DownLabels
<1> QED
  BY <1>2, <1>5

\* ... and those of neither end no command well and start no promise.
LEMMA NextSaid ==
  ASSUME TypeOK, NEW p \in Proc, Said(proc[p], items),
         Start(p) \/ Step(p) \/ Interrupt(p) \/ Crash(p)
  PROVE Said(proc'[p], items') /\ Follows(p)
<1> DEFINE me == proc[p]
<1>1. me \in Local
  BY DEF TypeOK
<1>2. \A it : Become(p, it) => proc'[p] = it
  BY DEF TypeOK, Become
<1>3. CASE Refuse(p) \/ SeesInterrupt(p) \/ Crash(p)
  <2>1. \E c : c # "ok" /\ proc'[p] = Idle(c)
    BY <1>2, <1>3 DEF Refuse, SeesInterrupt, Crash, LocalStep
  <2> QED
    BY <2>1, QuietSaid, NotOkFollows DEF Idle
<1>4. CASE StartUp(p)
  <2>1. PICK job \in Jobs, t \in Topologies :
          /\ job.cmd = "up"
          /\ proc'[p] = [Loaded(job, t) EXCEPT !.pc = "users",
                                               !.todo = UserSecrets(t, job.roles)]
    BY <1>2, <1>4 DEF StartUp, LocalStep
  <2>2. proc'[p].pc = "users" /\ proc'[p].cmd = "up"
    BY <2>1 DEF Loaded, Idle
  <2> QED
    BY <2>2, NotOkFollows DEF Said, DownLabels
<1>5. CASE StartDown(p)
  <2>1. PICK job \in Jobs, t \in Topologies :
          job.cmd = "down" /\ proc'[p] = [Loaded(job, t) EXCEPT !.pc = "list"]
    BY <1>2, <1>5 DEF StartDown, LocalStep
  <2>2. proc'[p].pc = "list" /\ proc'[p].cmd = "down"
    BY <2>1 DEF Loaded, Idle
  <2> QED
    BY <2>2, NotOkFollows DEF Said, UpLabels
<1>6. CASE Interrupt(p)
  <2>1. proc'[p] = [me EXCEPT !.cancelled = TRUE] /\ items' = items /\ me.pc # "idle"
    BY <1>2, <1>6 DEF Interrupt, keychainVars, Busy
  <2>2. /\ proc'[p].pc = me.pc /\ proc'[p].cmd = me.cmd
        /\ proc'[p].todo = me.todo /\ proc'[p].fresh = me.fresh
    BY <1>1, <2>1 DEF Local
  <2> QED
    BY <2>1, <2>2, NotOkFollows DEF Said
<1> QED
  BY <1>3, <1>4, <1>5, <1>6, UpSaid, DownSaid DEF Start, Step

\* A command starts with nothing said.
LEMMA StartSecretsSaid ==
  ASSUME TypeOK, NEW p \in Proc, StartSecrets(p)
  PROVE Said(proc'[p], items') /\ Follows(p)
<1>1. proc[p].pc = "idle"
  BY DEF StartSecrets, RefuseSecrets, StartSet, StartUpdate, StartGenerate, StartDelete,
         Starts, At
<1>2. \A it : Become(p, it) => proc'[p] = it
  BY DEF TypeOK, Become
<1>3. CASE RefuseSecrets(p)
  BY <1>1, <1>2, <1>3, QuietSaid, NotOkFollows DEF RefuseSecrets, LocalStep, Idle
<1>4. ASSUME NEW cmd, NEW label, label \in {"have", "save", "erase"}, NEW values,
             Starts(p, cmd, label, values)
      PROVE Said(proc'[p], items') /\ Follows(p)
  <2>1. PICK job \in SecretJobs, t \in Topologies, v \in values :
          proc'[p] = [Prepared(job, t) EXCEPT !.pc = label, !.fresh = v]
    BY <1>2, <1>4 DEF Starts, LocalStep
  <2>2. proc'[p].pc = label
    BY <2>1 DEF Prepared, Idle
  <2> QED
    BY <1>1, <1>4, <2>2, QuietSaid, NotOkFollows
<1> QED
  BY <1>3, <1>4 DEF StartSecrets, StartSet, StartUpdate, StartGenerate, StartDelete

\* Where a command that saves comes from what it was given to the keychain and
\* from there to the store.
LEMMA SavesSaid ==
  ASSUME TypeOK, SavePlaceOK, NEW p \in Proc, Said(proc[p], items),
         \/ FindItem(p) \/ MintAgain(p) \/ GenerateAgain(p)
         \/ Save(p) \/ PushInterrupted(p) \/ LookMachine(p) \/ Send(p)
  PROVE Said(proc'[p], items') /\ Follows(p)
<1> DEFINE me == proc[p]
<1>1. me \in Local /\ SavePlaced(me)
  BY DEF TypeOK, SavePlaceOK
<1>2. \A it : Become(p, it) => proc'[p] = it
  BY DEF TypeOK, Become
<1>3. ASSUME NEW c, c # "ok", proc'[p] = Idle(c)
      PROVE Said(proc'[p], items') /\ Follows(p)
  BY <1>3, QuietSaid, NotOkFollows DEF Idle
<1>4. ASSUME proc'[p] = ReturnError(me) \/ proc'[p] = Idle("failed")
      PROVE Said(proc'[p], items') /\ Follows(p)
  BY <1>3, <1>4 DEF ReturnError
<1>5. ASSUME proc'[p].pc \in {"produce", "save"}
      PROVE Said(proc'[p], items') /\ Follows(p)
  BY <1>5, QuietSaid, NotOkFollows
<1>6. CASE FindItem(p)
  <2>1. \/ proc'[p] = [me EXCEPT !.pc = IF me.cmd = "generate" THEN "produce" ELSE "save"]
        \/ proc'[p] = Idle("failed")
        \/ proc'[p] = ReturnError(me)
    BY <1>2, <1>6, CallBecomes DEF FindItem, Query
  <2> QED
    BY <1>1, <1>4, <1>5, <2>1 DEF Local
<1>7. CASE MintAgain(p)
  <2>1. PICK k \in KeyValue :
          \/ proc'[p] = [me EXCEPT !.pc = "save", !.fresh = k]
          \/ proc'[p] = ReturnError(me)
    BY <1>2, <1>7, CallBecomes DEF MintAgain, PodmanCall
  <2> QED
    BY <1>1, <1>4, <1>5, <2>1 DEF Local
<1>8. CASE GenerateAgain(p)
  <2>1. PICK v \in Value : proc'[p] = [me EXCEPT !.pc = "save", !.fresh = v]
    BY <1>2, <1>8 DEF GenerateAgain, LocalStep
  <2> QED
    BY <1>1, <1>5, <2>1 DEF Local
<1>9. CASE Save(p)
  <2>1. PICK s \in me.todo :
          \/ DoPut(s, me.fresh, NewSource(me, s)) /\ proc'[p] = [me EXCEPT !.pc = "push"]
          \/ proc'[p] = ReturnError(me)
    BY <1>2, <1>9 DEF Save, SaveFails, KeychainCall, Call
  <2>2. ASSUME DoPut(s, me.fresh, NewSource(me, s)), proc'[p] = [me EXCEPT !.pc = "push"]
        PROVE Said(proc'[p], items') /\ Follows(p)
    <3> DEFINE item == [val |-> me.fresh, src |-> NewSource(me, s)]
    <3>1. s \in Secret /\ me.fresh \in Value /\ me.cmd \in Saves
      BY <1>1, <1>9 DEF Save, At, SavePlaced, Local, Maybe
    <3>2. item \in Item
      BY <3>1, SourceType DEF NewSource, Item
    <3>3. items'[s] = item /\ item # None
      BY <2>2, <3>1, <3>2, KeychainAssumption DEF DoPut, TypeOK, KeychainTypeOK
    <3>4. \A u \in me.todo : u = s
      BY <1>1, <1>9 DEF Save, At, SavePlaced, SecretsLabels
    <3>5. /\ proc'[p].pc = "push" /\ proc'[p].cmd = me.cmd
          /\ proc'[p].todo = me.todo /\ proc'[p].fresh = me.fresh
      BY <1>1, <2>2 DEF Local
    <3> QED
      BY <3>1, <3>3, <3>4, <3>5, NotOkFollows DEF Said, UpLabels, DownLabels
  <2> QED
    BY <1>4, <2>1, <2>2
<1>10. CASE PushInterrupted(p)
  BY <1>2, <1>3, <1>10 DEF PushInterrupted, LocalStep
<1>11. CASE LookMachine(p)
  <2>1. /\ me.pc = "push" /\ items' = items
        /\ \/ Running /\ proc'[p] = [me EXCEPT !.pc = "send"]
           \/ ~Running /\ proc'[p] = Idle("ok")
           \/ proc'[p] = Idle("failed")
    BY <1>2, <1>11 DEF LookMachine, Query, Call, At, keychainVars
  <2>2. CASE Running /\ proc'[p] = [me EXCEPT !.pc = "send"]
    <3>1. /\ proc'[p].pc = "send" /\ proc'[p].cmd = me.cmd
          /\ proc'[p].todo = me.todo /\ proc'[p].fresh = me.fresh
      BY <1>1, <2>2 DEF Local
    <3> QED
      BY <2>1, <3>1, NotOkFollows DEF Said, UpLabels, DownLabels
  <2>3. CASE ~Running /\ proc'[p] = Idle("ok")
    BY <2>3, QuietSaid DEF Follows, Idle
  <2> QED
    BY <1>4, <2>1, <2>2, <2>3
<1>12. CASE Send(p)
  <2>1. PICK s \in me.todo :
          \/ DoStoreSecret(s, me.fresh) /\ proc'[p] = Idle("ok")
          \/ proc'[p] = Idle("failed")
    BY <1>2, <1>12 DEF Send, SendFails, PodmanCall, Call
  <2>2. ASSUME DoStoreSecret(s, me.fresh), proc'[p] = Idle("ok")
        PROVE Said(proc'[p], items') /\ Follows(p)
    <3>1. s \in Secret /\ \A u \in me.todo : u = s
      BY <1>1, <1>12 DEF Send, At, SavePlaced, SecretsLabels, Local
    <3>2. store'[s] = me.fresh
      BY <2>2, <3>1 DEF DoStoreSecret, TypeOK, PodmanTypeOK
    <3>3. me.cmd \in Saves /\ IsSet(s) /\ items[s].val = me.fresh
      BY <1>12 DEF Send, At, Said, IsSet
    <3>4. Follows(p)
      BY <3>1, <3>2, <3>3 DEF Follows, EndsOk, Saves
    <3> QED
      BY <2>2, <3>4, QuietSaid DEF Idle
  <2> QED
    BY <1>4, <2>1, <2>2
<1> QED
  BY <1>6, <1>7, <1>8, <1>9, <1>10, <1>11, <1>12

\* Where a delete erases the item and then drops what the store has of it.
LEMMA DeleteSaid ==
  ASSUME TypeOK, SavePlaceOK, NEW p \in Proc, Said(proc[p], items),
         Erase(p) \/ InspectMachine(p) \/ FindStored(p) \/ DropStored(p)
  PROVE Said(proc'[p], items') /\ Follows(p)
<1> DEFINE me == proc[p]
<1>1. me \in Local /\ SavePlaced(me)
  BY DEF TypeOK, SavePlaceOK
<1>2. \A it : Become(p, it) => proc'[p] = it
  BY DEF TypeOK, Become
<1>3. ASSUME proc'[p] = ReturnError(me) \/ proc'[p] = Idle("failed")
      PROVE Said(proc'[p], items') /\ Follows(p)
  BY <1>3, QuietSaid, NotOkFollows DEF ReturnError, Idle
<1>4. me.pc \in {"inspect", "exists", "drop"} =>
        me.cmd = "delete" /\ \A s \in me.todo : ~IsSet(s)
  BY DEF Said, IsSet
<1>5. ASSUME NEW label, label \in {"inspect", "exists", "drop"},
             proc'[p] = [me EXCEPT !.pc = label],
             me.cmd = "delete", \A s \in me.todo : items'[s] = None
      PROVE Said(proc'[p], items') /\ Follows(p)
  <2>1. proc'[p].pc = label /\ proc'[p].cmd = me.cmd /\ proc'[p].todo = me.todo
    BY <1>1, <1>5 DEF Local
  <2> QED
    BY <1>5, <2>1, NotOkFollows DEF Said, UpLabels, DownLabels
<1>6. CASE Erase(p)
  <2>1. PICK s \in me.todo :
          \/ DoDelete(s) /\ proc'[p] = [me EXCEPT !.pc = "inspect"]
          \/ proc'[p] = ReturnError(me)
    BY <1>2, <1>6 DEF Erase, KeychainCall, Call
  <2>2. s \in Secret /\ me.cmd = "delete" /\ \A u \in me.todo : u = s
    BY <1>1, <1>6 DEF Erase, At, SavePlaced, SecretsLabels, Local
  <2>3. DoDelete(s) => items'[s] = None
    BY <2>2 DEF DoDelete, TypeOK, KeychainTypeOK
  <2> QED
    BY <1>3, <1>5, <2>1, <2>2, <2>3
<1>7. CASE InspectMachine(p)
  <2>1. /\ me.pc = "inspect" /\ items' = items
        /\ \/ proc'[p] = [me EXCEPT !.pc = "exists"]
           \/ ~Running /\ proc'[p] = Idle("ok")
           \/ proc'[p] = Idle("failed")
    BY <1>2, <1>7 DEF InspectMachine, Query, Call, At, keychainVars
  <2>2. CASE ~Running /\ proc'[p] = Idle("ok")
    BY <2>2, QuietSaid DEF Follows, Idle
  <2> QED
    BY <1>3, <1>4, <1>5, <2>1, <2>2 DEF IsSet
<1>8. CASE FindStored(p)
  <2>1. PICK s \in me.todo :
          /\ me.pc = "exists" /\ items' = items
          /\ \/ proc'[p] = [me EXCEPT !.pc = "drop"]
             \/ store[s] = None /\ store' = store /\ proc'[p] = Idle("ok")
             \/ proc'[p] = Idle("failed")
    BY <1>2, <1>8 DEF FindStored, Query, Call, At, keychainVars, podmanVars
  <2>2. CASE store[s] = None /\ store' = store /\ proc'[p] = Idle("ok")
    <3>1. \A u \in me.todo : u = s
      BY <1>1, <2>1 DEF SavePlaced, SecretsLabels
    <3>2. Follows(p)
      BY <1>4, <2>1, <2>2, <3>1 DEF Follows, EndsOk, Saves
    <3> QED
      BY <2>2, <3>2, QuietSaid DEF Idle
  <2> QED
    BY <1>3, <1>4, <1>5, <2>1, <2>2 DEF IsSet
<1>9. CASE DropStored(p)
  <2>1. PICK s \in me.todo :
          /\ me.pc = "drop"
          /\ \/ DoRemoveSecret(s) /\ proc'[p] = Idle("ok")
             \/ proc'[p] = Idle("failed")
    BY <1>2, <1>9 DEF DropStored, PodmanCall, Call, At
  <2>2. CASE DoRemoveSecret(s) /\ proc'[p] = Idle("ok")
    <3>1. s \in Secret /\ \A u \in me.todo : u = s
      BY <1>1, <2>1 DEF SavePlaced, SecretsLabels, Local
    <3>2. store'[s] = None
      BY <2>2, <3>1 DEF DoRemoveSecret, TypeOK, PodmanTypeOK
    <3>3. Follows(p)
      BY <1>4, <2>1, <3>1, <3>2 DEF Follows, EndsOk, Saves
    <3> QED
      BY <2>2, <3>3, QuietSaid DEF Idle
  <2> QED
    BY <1>3, <2>1, <2>2
<1> QED
  BY <1>6, <1>7, <1>8, <1>9

\* Every step of the one process.
LEMMA StepSaid ==
  ASSUME NEW only, Proc = {only}, TypeOK, SavePlaceOK, SaidOK, [LclawNext]_vars
  PROVE SaidOK' /\ (UNCHANGED vars \/ \A p \in Proc : Follows(p))
<1>1. CASE UNCHANGED vars
  BY <1>1 DEF vars, keychainVars, SaidOK
<1>2. CASE Reboot
  <2>1. \A p \in Proc : proc'[p] = IF Busy(p) THEN Idle("crashed") ELSE proc[p]
    BY <1>2 DEF Reboot
  <2>2. \A p \in Proc : proc'[p].pc = "idle"
    BY <2>1 DEF Busy, Idle
  <2>3. \A p \in Proc : proc[p].pc = "idle" \/ proc'[p].exit # "ok"
    BY <2>1 DEF Busy, Idle
  <2> QED
    BY <2>2, <2>3, QuietSaid, NotOkFollows DEF SaidOK
<1>3. ASSUME NEW p \in Proc,
             Start(p) \/ Step(p) \/ Interrupt(p) \/ Crash(p) \/ StartSecrets(p) \/ SecretsStep(p)
      PROVE Said(proc'[p], items') /\ Follows(p)
  BY <1>3, NextSaid, StartSecretsSaid, SavesSaid, DeleteSaid DEF SaidOK, SecretsStep
<1> QED
  BY <1>1, <1>2, <1>3 DEF LclawNext, Next, SaidOK

\* A secrets command that exits 0 leaves the store of a running machine as the
\* keychain, when nothing else runs.
THEOREM StoreHasFollowed ==
  ASSUME NEW only, Proc = {only}
  PROVE LclawSpec => StoreFollows
<1>1. Init => TypeOK /\ PlaceOK /\ SavePlaceOK /\ SaidOK
  BY InitType, EndFree, FreeSavePlaced, QuietSaid
     DEF Init, CommandInit, Idle, SavePlaceOK, SaidOK
<1>2. TypeOK /\ SavePlaceOK /\ SaidOK /\ [LclawNext]_vars
        => SaidOK' /\ [\A p \in Proc, s \in Secret : s \in proc[p].todo /\ Running =>
             /\ \A cmd \in Saves : EndsOk(p, cmd) => IsSet(s) /\ store'[s] = items[s].val
             /\ EndsOk(p, "delete") => ~IsSet(s) /\ store'[s] = None]_vars
  BY StepSaid DEF Follows
<1> QED
  BY <1>1, <1>2, LclawStep, PTL DEF LclawSpec, StoreFollows

-----------------------------------------------------------------------------
(* An up that nothing runs beside finds each of its zone's secrets in the  *)
(* keychain or puts it there, and takes it to the store before it plays:   *)
(* whatever was in the store, in a race's wake, does not outlive it.       *)

Settled(s) == IsSet(s) /\ store[s] = items[s].val

\* A zone's secret is still to be resolved, in hand, or in the store as the
\* keychain has it. A pod is played when none is left of the first two.
Fetched(me) ==
  /\ me.pc \in ZoneLabels /\ ~me.failed =>
       \A s \in ForZone(me.top, First(me.zones)) :
         s \in me.todo \/ me.got[s] # None \/ Settled(s)
  /\ me.pc = "play" => me.todo = {} /\ ToInject(me) = {} /\ ~me.failed

\* What an up has in hand is the keychain's.
InHandKept(me) ==
  me.pc \in UpLabels => Valid(me.top) /\ \A s \in Secret : FromKeychain(s, me.got[s])

Lone(me) == Said(me, items) /\ InHandKept(me) /\ Course(me) /\ Fetched(me)

Unaccompanied(p) == p \in Proc /\ Busy(p) /\ \A q \in Others(p) : ~Busy(q)

LoneOK == \A p \in alone : Unaccompanied(p) /\ Lone(proc[p])

\* The zones' secrets of lclaw.toml are those its pods use.
ZonesDeclareWhatTheyUse ==
  \A t \in Topologies, r \in Role : Valid(t) =>
    \A w \in WorkloadsOf(t, r) : Uses[w] \subseteq ForZone(t, r)

\* An up changes no item that is there.
LEMMA LoneKeepsItems ==
  ASSUME TypeOK, NEW p \in Proc, \A q \in Others(p) : ~Busy(q), UpStep(p)
  PROVE ItemsKept
<1>1. Next
  BY DEF Next, Step
<1>2. ASSUME NEW q \in Proc, Put(q) \/ DeleteMinted(q)
      PROVE q = p
  <2>1. Busy(q)
    <3>1. CASE Put(q)
      BY <3>1 DEF Put, At, Busy
    <3>2. CASE DeleteMinted(q)
      BY <3>2 DEF DeleteMinted, At, Busy
    <3> QED
      BY <1>2, <3>1, <3>2
  <2> QED
    BY <2>1 DEF Others
<1>3. ~DeleteMinted(p)
  BY UpPlaces DEF DeleteMinted, At, UpLabels
<1> QED
  BY <1>1, <1>2, <1>3, OthersKeepItems

\* What it has in hand stays the keychain's.
LEMMA UpInHandKept ==
  ASSUME TypeOK, PlaceOK, ItemsKept, NEW p \in Proc, InHandKept(proc[p]), UpStep(p)
  PROVE InHandKept(proc[p])'
<1> DEFINE me == proc[p]
<1>1. me \in Local /\ me.pc \in UpLabels
  BY UpPlaces DEF TypeOK
<1>2. GotCopies
  BY StepGot DEF Next, Step
<1>3. ASSUME NEW s \in Secret
      PROVE FromKeychain(s, proc[p].got[s])'
  <2>1. FromKeychain(s, me.got[s])
    BY <1>1 DEF InHandKept
  <2> QED
    BY <1>2, <2>1 DEF GotCopies, FromKeychain, IsSet, ItemsKept
<1>4. ASSUME DescribeUser(p)
      PROVE proc'[p].pc = "idle" \/ proc'[p].top = me.top
  <2>1. PICK s \in me.todo :
          \/ Become(p, [me EXCEPT !.todo = @ \ {s}, !.failed = @ \/ ~IsSet(s)])
          \/ Become(p, ReturnError(me))
    BY <1>4, CallBecomes DEF DescribeUser, Query
  <2> DEFINE further == [me EXCEPT !.todo = @ \ {s}, !.failed = @ \/ ~IsSet(s)]
  <2>2. further.top = me.top /\ ReturnError(me).pc = "idle"
    BY <1>1 DEF Local, ReturnError, Idle
  <2> HIDE DEF further
  <2>3. proc'[p] = further \/ proc'[p] = ReturnError(me)
    BY <2>1 DEF TypeOK, Become, further
  <2> QED
    BY <2>2, <2>3
<1>5. proc'[p].pc = "idle" \/ proc'[p].top = me.top
  BY <1>4, UpSameJob DEF JobStep, SameJob
<1> QED
  BY <1>1, <1>3, <1>5 DEF InHandKept, UpLabels

\* Outside the zones there is nothing to have fetched.
LEMMA ElsewhereFetched ==
  ASSUME TypeOK, NEW p \in Proc, NEW ACTION it, Become(p, it), it.pc \notin ZoneLabels
  PROVE Fetched(proc[p])'
BY BecomeAlone DEF Fetched, ZoneLabels

\* A zone that is entered has all its secrets to resolve.
LEMMA EnterFetched ==
  ASSUME TypeOK, NEW p \in Proc, NEW zones, Become(p, EnterZone(proc[p], zones))
  PROVE Fetched(proc[p])'
<1> DEFINE it == EnterZone(proc[p], zones)
<1>1. proc[p] \in Local /\ proc'[p] = it
  BY BecomeAlone DEF TypeOK
<1>2. /\ it.pc = "zone" /\ it.top = proc[p].top /\ it.zones = zones
      /\ it.todo = ForZone(proc[p].top, First(zones))
  BY <1>1 DEF EnterZone, Local
<1> HIDE DEF it
<1> QED
  BY <1>1, <1>2 DEF Fetched

\* A step within a zone, to another place than the play of a pod, after which
\* each secret is where it was, in hand or settled.
LEMMA WithinFetched ==
  ASSUME TypeOK, ItemsKept, NEW p \in Proc, NEW ACTION it, Become(p, it), Fetched(proc[p]),
         proc[p].pc \in ZoneLabels, it.pc # "play",
         it.top = proc[p].top, it.zones = proc[p].zones,
         \/ it.failed = TRUE
         \/ /\ it.failed = proc[p].failed
            /\ \A s \in Secret :
                 \/ /\ s \in proc[p].todo => s \in it.todo
                    /\ it.got[s] = proc[p].got[s] /\ store'[s] = store[s]
                 \/ it.got[s] # None
                 \/ items'[s] # None /\ store'[s] = items'[s].val
  PROVE Fetched(proc[p])'
<1> DEFINE me == proc[p]
<1>1. proc'[p] = it
  BY BecomeAlone
<1>2. ASSUME ~it.failed, NEW s \in ForZone(me.top, First(me.zones))
      PROVE s \in it.todo \/ it.got[s] # None \/ Settled(s)'
  <2>1. s \in Secret
    BY DEF ForZone
  <2>2. s \in me.todo \/ me.got[s] # None \/ Settled(s)
    BY <1>2 DEF Fetched
  <2> QED
    BY <1>2, <2>1, <2>2 DEF Settled, ItemsKept, IsSet
<1>3. ForZone(proc[p].top, First(proc[p].zones))' = ForZone(me.top, First(me.zones))
  BY <1>1 DEF ForZone, First
<1> QED
  BY <1>1, <1>2, <1>3 DEF Fetched

\* Resolving the zone's secrets.
LEMMA ResolveFetched ==
  ASSUME TypeOK, PlaceOK, ItemsKept, NEW p \in Proc, Fetched(proc[p]),
         Resolve(p) \/ Mint(p) \/ Put(p) \/ FindingsEndZone(p)
  PROVE Fetched(proc[p])'
<1> DEFINE me == proc[p]
<1>1. me \in Local
  BY DEF TypeOK
<1>2. ReturnError(me).pc = "idle" /\ ZoneFails(me).pc = "idle" /\ "idle" \notin ZoneLabels
  BY EndElsewhere DEF ZoneLabels
<1>3. CASE Resolve(p)
  <2>1. me.pc = "zone" /\ store' = store
    BY <1>3 DEF Resolve, Query, Call, At, podmanVars
  <2>2. PICK s \in me.todo :
          \/ IsSet(s) /\ Become(p, [me EXCEPT !.todo = @ \ {s}, !.got[s] = items[s].val])
          \/ Become(p, [me EXCEPT !.todo = @ \ {s}, !.failed = TRUE])
          \/ Become(p, [me EXCEPT !.pc = "mint"])
          \/ \E v : Become(p, [me EXCEPT !.pc = "put", !.fresh = v])
          \/ Become(p, ReturnError(me))
    BY <1>3, CallBecomes DEF Resolve, Query
  <2>3. CASE IsSet(s) /\ Become(p, [me EXCEPT !.todo = @ \ {s}, !.got[s] = items[s].val])
    <3> DEFINE it == [me EXCEPT !.todo = @ \ {s}, !.got[s] = items[s].val]
    <3>1. s \in Secret /\ items[s].val # None
      BY <1>1, <2>3, PodmanAssumption DEF Local, TypeOK, KeychainTypeOK, Item, IsSet, Maybe
    <3>2. /\ it.pc = "zone" /\ it.top = me.top /\ it.zones = me.zones
          /\ it.failed = me.failed /\ it.todo = me.todo \ {s} /\ it.got[s] # None
          /\ \A u \in Secret : u # s => it.got[u] = me.got[u]
      BY <1>1, <2>1, <3>1 DEF Local
    <3> HIDE DEF it
    <3>3. Become(p, it)
      BY <2>3 DEF it
    <3> QED
      BY <2>1, <3>2, <3>3, WithinFetched DEF ZoneLabels
  <2>4. CASE Become(p, [me EXCEPT !.todo = @ \ {s}, !.failed = TRUE])
    <3> DEFINE it == [me EXCEPT !.todo = @ \ {s}, !.failed = TRUE]
    <3>1. it.pc = "zone" /\ it.top = me.top /\ it.zones = me.zones /\ it.failed = TRUE
      BY <1>1, <2>1 DEF Local
    <3> HIDE DEF it
    <3>2. Become(p, it)
      BY <2>4 DEF it
    <3> QED
      BY <2>1, <3>1, <3>2, WithinFetched DEF ZoneLabels
  <2>5. ASSUME NEW ACTION it, Become(p, it), it.pc \in {"mint", "put"},
               it.top = me.top, it.zones = me.zones, it.failed = me.failed,
               it.todo = me.todo, it.got = me.got
        PROVE Fetched(proc[p])'
    BY <2>1, <2>5, WithinFetched DEF ZoneLabels
  <2>6. CASE Become(p, [me EXCEPT !.pc = "mint"])
    BY <1>1, <2>5, <2>6 DEF Local
  <2>7. ASSUME NEW v, Become(p, [me EXCEPT !.pc = "put", !.fresh = v])
        PROVE Fetched(proc[p])'
    BY <1>1, <2>5, <2>7 DEF Local
  <2> QED
    BY <1>2, <2>2, <2>3, <2>4, <2>6, <2>7, ElsewhereFetched
<1>4. CASE Mint(p)
  <2>1. me.pc = "mint" /\ store' = store
    BY <1>4 DEF Mint, PodmanCall, Call, At, DoMint, podmanVars
  <2>2. PICK s \in me.todo, k \in KeyValue :
          \/ Become(p, [me EXCEPT !.pc = "put", !.fresh = k])
          \/ Become(p, [me EXCEPT !.pc = "zone", !.todo = @ \ {s}, !.failed = TRUE])
    BY <1>4, CallBecomes DEF Mint, PodmanCall
  <2>3. CASE Become(p, [me EXCEPT !.pc = "put", !.fresh = k])
    <3> DEFINE it == [me EXCEPT !.pc = "put", !.fresh = k]
    <3>1. /\ it.pc = "put" /\ it.top = me.top /\ it.zones = me.zones
          /\ it.failed = me.failed /\ it.todo = me.todo /\ it.got = me.got
      BY <1>1 DEF Local
    <3> HIDE DEF it
    <3>2. Become(p, it)
      BY <2>3 DEF it
    <3> QED
      BY <2>1, <3>1, <3>2, WithinFetched DEF ZoneLabels
  <2>4. CASE Become(p, [me EXCEPT !.pc = "zone", !.todo = @ \ {s}, !.failed = TRUE])
    <3> DEFINE it == [me EXCEPT !.pc = "zone", !.todo = @ \ {s}, !.failed = TRUE]
    <3>1. it.pc = "zone" /\ it.top = me.top /\ it.zones = me.zones /\ it.failed = TRUE
      BY <1>1 DEF Local
    <3> HIDE DEF it
    <3>2. Become(p, it)
      BY <2>4 DEF it
    <3> QED
      BY <2>1, <3>1, <3>2, WithinFetched DEF ZoneLabels
  <2> QED
    BY <2>2, <2>3, <2>4
<1>5. CASE Put(p)
  <2>1. me.pc = "put" /\ store' = store /\ me.fresh # None
    BY <1>5 DEF Put, KeychainCall, Call, At, podmanVars, PlaceOK, Placed
  <2>2. PICK s \in me.todo :
          \/ Become(p, [me EXCEPT !.pc = "zone", !.todo = @ \ {s}, !.got[s] = me.fresh,
                                  !.fresh = None])
          \/ Become(p, ReturnError(me))
    BY <1>5, CallBecomes DEF Put, PutFails, KeychainCall
  <2>3. CASE Become(p, [me EXCEPT !.pc = "zone", !.todo = @ \ {s}, !.got[s] = me.fresh,
                                  !.fresh = None])
    <3> DEFINE it == [me EXCEPT !.pc = "zone", !.todo = @ \ {s}, !.got[s] = me.fresh,
                                !.fresh = None]
    <3>1. s \in Secret
      BY <1>1 DEF Local
    <3>2. /\ it.pc = "zone" /\ it.top = me.top /\ it.zones = me.zones
          /\ it.failed = me.failed /\ it.todo = me.todo \ {s} /\ it.got[s] # None
          /\ \A u \in Secret : u # s => it.got[u] = me.got[u]
      BY <1>1, <2>1, <3>1 DEF Local
    <3> HIDE DEF it
    <3>3. Become(p, it)
      BY <2>3 DEF it
    <3> QED
      BY <2>1, <3>2, <3>3, WithinFetched DEF ZoneLabels
  <2> QED
    BY <1>2, <2>2, <2>3, ElsewhereFetched
<1>6. CASE FindingsEndZone(p)
  BY <1>2, <1>6, ElsewhereFetched DEF FindingsEndZone, LocalStep
<1> QED
  BY <1>3, <1>4, <1>5, <1>6

\* Taking them to the store, building, playing, and the next zone.
LEMMA PlayFetched ==
  ASSUME TypeOK, ItemsKept, NEW p \in Proc, Fetched(proc[p]), InHandKept(proc[p]),
         Inject(p) \/ Build(p) \/ Play(p) \/ EndZone(p) \/ Ready(p) \/ BeginZones(p)
  PROVE Fetched(proc[p])'
<1> DEFINE me == proc[p]
<1>1. me \in Local
  BY DEF TypeOK
<1>2. StepFails(me).pc = "idle" /\ "idle" \notin ZoneLabels
  BY EndElsewhere DEF ZoneLabels
<1>3. CASE Inject(p)
  <2>1. me.pc = "zone" /\ items' = items
    BY <1>3 DEF Inject, Resolved, PodmanCall, Call, keychainVars
  <2>2. PICK s \in ToInject(me) :
          \/ DoStoreSecret(s, me.got[s]) /\ Become(p, [me EXCEPT !.got[s] = None])
          \/ Become(p, StepFails(me))
    BY <1>3 DEF Inject, PodmanCall, Call
  <2>3. CASE DoStoreSecret(s, me.got[s]) /\ Become(p, [me EXCEPT !.got[s] = None])
    <3> DEFINE it == [me EXCEPT !.got[s] = None]
    <3>1. s \in Secret /\ me.got[s] # None
      BY DEF ToInject
    <3>2. /\ it.pc = "zone" /\ it.top = me.top /\ it.zones = me.zones
          /\ it.failed = me.failed /\ it.todo = me.todo
          /\ \A u \in Secret : u # s => it.got[u] = me.got[u]
      BY <1>1, <2>1, <3>1 DEF Local
    <3>3. store'[s] = me.got[s] /\ \A u \in Secret : u # s => store'[u] = store[u]
      BY <2>3, <3>1 DEF DoStoreSecret, TypeOK, PodmanTypeOK
    <3>4. items'[s] # None /\ store'[s] = items'[s].val
      BY <2>1, <3>1, <3>3 DEF InHandKept, FromKeychain, IsSet, UpLabels
    <3> HIDE DEF it
    <3>5. Become(p, it)
      BY <2>3 DEF it
    <3> QED
      BY <2>1, <3>2, <3>3, <3>4, <3>5, WithinFetched DEF ZoneLabels
  <2> QED
    BY <1>2, <2>2, <2>3, ElsewhereFetched
<1>4. CASE Build(p)
  <2>1. /\ me.pc = "zone" /\ me.todo = {} /\ ~me.failed /\ ToInject(me) = {}
        /\ items' = items /\ store' = store
    BY <1>4 DEF Build, Injected, Resolved, Query, Call, podmanVars, keychainVars
  <2>2. Become(p, [me EXCEPT !.pc = "play"]) \/ Become(p, StepFails(me))
    BY <1>4, CallBecomes DEF Build, Query
  <2>3. CASE Become(p, [me EXCEPT !.pc = "play"])
    <3>1. proc'[p] = [me EXCEPT !.pc = "play"]
      BY <2>3, BecomeAlone
    <3>2. /\ proc'[p].pc = "play" /\ proc'[p].top = me.top /\ proc'[p].zones = me.zones
          /\ proc'[p].failed = me.failed /\ proc'[p].todo = me.todo
          /\ proc'[p].got = me.got
      BY <1>1, <3>1 DEF Local
    <3> QED
      BY <2>1, <3>2 DEF Fetched, Settled, IsSet, ToInject, ForZone, First, ZoneLabels
  <2> QED
    BY <1>2, <2>2, <2>3, ElsewhereFetched
<1>5. CASE Play(p)
  <2>1. me.pc = "play" /\ store' = store
    BY <1>5 DEF Play, PodmanCall, Call, At, DoPlay, DoDown, podmanVars
  <2>2. Become(p, [me EXCEPT !.pc = "zone", !.work = Tail(@)]) \/ Become(p, StepFails(me))
    BY <1>5, CallBecomes DEF Play, PodmanCall
  <2>3. CASE Become(p, [me EXCEPT !.pc = "zone", !.work = Tail(@)])
    <3> DEFINE it == [me EXCEPT !.pc = "zone", !.work = Tail(@)]
    <3>1. /\ it.pc = "zone" /\ it.top = me.top /\ it.zones = me.zones
          /\ it.failed = me.failed /\ it.todo = me.todo /\ it.got = me.got
      BY <1>1 DEF Local
    <3> HIDE DEF it
    <3>2. Become(p, it)
      BY <2>3 DEF it
    <3> QED
      BY <2>1, <3>1, <3>2, WithinFetched DEF ZoneLabels
  <2> QED
    BY <1>2, <2>2, <2>3, ElsewhereFetched
<1>6. CASE EndZone(p) \/ Ready(p)
  <2>1. Become(p, Applied(me)) \/ Become(p, StepFails(me))
    BY <1>6, CallBecomes DEF EndZone, Ready, Query, LocalStep
  <2>2. \/ Applied(me).pc = "idle"
        \/ Applied(me) = EnterZone(me, me.zones \ {First(me.zones)})
    BY EndElsewhere DEF Applied
  <2> QED
    BY <1>2, <2>1, <2>2, EnterFetched, ElsewhereFetched
<1>7. CASE BeginZones(p)
  BY <1>7, EnterFetched DEF BeginZones, LocalStep
<1> QED
  BY <1>3, <1>4, <1>5, <1>6, <1>7

\* Before the zones nothing is fetched.
LEMMA BeforeFetched ==
  ASSUME TypeOK, NEW p \in Proc,
         \/ DescribeUser(p) \/ UserMissing(p) \/ FindMachine(p) \/ InitMachine(p)
         \/ StartMachine(p) \/ FindNetwork(p) \/ CreateNetwork(p)
  PROVE Fetched(proc[p])'
<1> DEFINE me == proc[p]
           Off(it) == it.pc \notin ZoneLabels
<1>1. me \in Local
  BY DEF TypeOK
<1>2. /\ \A c : Off(Idle(c))
      /\ Off(Report(me)) /\ Off(ReturnError(me))
  BY EndElsewhere DEF ZoneLabels
<1>3. /\ Off([me EXCEPT !.pc = "init"]) /\ Off([me EXCEPT !.pc = "start"])
      /\ Off([me EXCEPT !.pc = "mknet"]) /\ Off(EnterNets(me))
      /\ \A r : Off([me EXCEPT !.pc = "nets", !.zones = @ \ {r}])
  BY <1>1 DEF EnterNets, Local, ZoneLabels
<1>4. ASSUME me.pc \in {"users", "nets"}, NEW s, NEW v
      PROVE Off([me EXCEPT !.todo = @ \ {s}, !.failed = v]) /\ Off([me EXCEPT !.zones = @ \ {s}])
  BY <1>1, <1>4 DEF Local, ZoneLabels
<1> HIDE DEF Off
<1> SUFFICES \E it : Become(p, it) /\ Off(it)
  BY ElsewhereFetched DEF Off
<1>5. CASE DescribeUser(p)
  BY <1>2, <1>4, <1>5, CallBecomes DEF DescribeUser, Query, At
<1>6. CASE UserMissing(p)
  BY <1>2, <1>6 DEF UserMissing, LocalStep
<1>7. CASE FindMachine(p)
  <2>1. Off(EnsureMachine(me))
    BY <1>3 DEF EnsureMachine, TypeOK, PodmanTypeOK
  <2> QED
    BY <1>2, <1>7, <2>1, CallBecomes DEF FindMachine, Query
<1>8. CASE InitMachine(p) \/ StartMachine(p)
  BY <1>2, <1>3, <1>8, CallBecomes DEF InitMachine, StartMachine, PodmanCall
<1>9. CASE FindNetwork(p) \/ CreateNetwork(p)
  BY <1>2, <1>3, <1>4, <1>9, CallBecomes DEF FindNetwork, CreateNetwork, Query, PodmanCall, At
<1> QED
  BY <1>5, <1>6, <1>7, <1>8, <1>9

\* What is fetched is kept, for all but the play.
LEMMA FetchedPlays ==
  ASSUME TypeOK, PlaceOK, ZonesDeclareWhatTheyUse, NEW p \in Proc, Lone(proc[p])
  PROVE PlaysKept(proc[p])
<1> SUFFICES ASSUME proc[p].pc = "play", NEW s \in Uses[Head(proc[p].work)]
             PROVE FromKeychain(s, store[s])
  BY DEF PlaysKept
<1> DEFINE me == proc[p]
           r == First(me.zones)
           w == Head(me.work)
<1>1. /\ me \in Local /\ me.zones # {} /\ me.work # <<>> /\ me.work \in Seq(Workload)
      /\ Valid(me.top) /\ me.top \in Topologies
  BY DEF TypeOK, PlaceOK, Placed, Lone, InHandKept, UpLabels, Local
<1>2. r \in Role
  BY <1>1, FirstLast DEF Local
<1>3. w \in WorkLeft(me)
  BY <1>1, HeadAndRest DEF WorkLeft
<1>4. w \in WorkloadsOf(me.top, r)
  BY <1>3 DEF Lone, Course, PodsMade, ZoneLabels
<1>5. s \in ForZone(me.top, r)
  BY <1>1, <1>2, <1>4 DEF ZonesDeclareWhatTheyUse
<1>6. s \in Secret
  BY <1>5 DEF ForZone
<1>7. me.todo = {} /\ me.got[s] = None /\ ~me.failed
  BY <1>6 DEF Lone, Fetched, ToInject
<1> QED
  BY <1>5, <1>7 DEF Lone, Fetched, Settled, FromKeychain, ZoneLabels

\* Where no up is, only the command's own places say anything.
LEMMA OffLone ==
  ASSUME NEW p \in Proc, proc'[p].pc \notin UpLabels, Said(proc'[p], items')
  PROVE Lone(proc[p])'
BY DEF Lone, InHandKept, Course, Fetched, UpLabels, ZoneLabels

\* A command begins with nothing.
LEMMA StartLone ==
  ASSUME TypeOK, NEW p \in Proc, Start(p) \/ StartSecrets(p)
  PROVE Lone(proc[p])'
<1>1. proc[p].pc = "idle"
  BY DEF Start, Refuse, StartUp, StartDown, StartSecrets, RefuseSecrets, StartSet, StartUpdate,
         StartGenerate, StartDelete, Starts, At
<1>2. Said(proc[p], items)
  BY <1>1, QuietSaid
<1>3. Said(proc'[p], items')
  BY <1>2, NextSaid, StartSecretsSaid
<1>4. \A it : Become(p, it) => proc'[p] = it
  BY DEF TypeOK, Become
<1>5. CASE StartUp(p)
  <2>1. PICK job \in Jobs, t \in Topologies :
          /\ Valid(t)
          /\ proc'[p] = [Loaded(job, t) EXCEPT !.pc = "users",
                                               !.todo = UserSecrets(t, job.roles)]
    BY <1>4, <1>5 DEF StartUp, LocalStep
  <2>2. proc'[p].pc = "users" /\ proc'[p].top = t /\ proc'[p].got = NoneGot
    BY <2>1 DEF Loaded, Idle
  <2> QED
    BY <1>3, <2>1, <2>2
       DEF Lone, InHandKept, Course, Fetched, ZoneLabels, FromKeychain, NoneGot
<1>6. CASE StartDown(p)
  <2>1. PICK job \in Jobs, t \in Topologies : proc'[p] = [Loaded(job, t) EXCEPT !.pc = "list"]
    BY <1>4, <1>6 DEF StartDown, LocalStep
  <2>2. proc'[p].pc = "list"
    BY <2>1 DEF Loaded, Idle
  <2> QED
    BY <1>3, <2>2, OffLone DEF UpLabels
<1>7. CASE Refuse(p)
  BY <1>3, <1>4, <1>7, OffLone DEF Refuse, LocalStep, Idle, UpLabels
<1>8. CASE StartSecrets(p)
  <2>1. CASE RefuseSecrets(p)
    BY <1>3, <1>4, <2>1, OffLone DEF RefuseSecrets, LocalStep, Idle, UpLabels
  <2>2. ASSUME NEW cmd, NEW label, label \in {"have", "save", "erase"}, NEW values,
               Starts(p, cmd, label, values)
        PROVE Lone(proc[p])'
    <3>1. PICK job \in SecretJobs, t \in Topologies, v \in values :
            proc'[p] = [Prepared(job, t) EXCEPT !.pc = label, !.fresh = v]
      BY <1>4, <2>2 DEF Starts, LocalStep
    <3>2. proc'[p].pc = label
      BY <3>1 DEF Prepared, Idle
    <3> QED
      BY <1>3, <2>2, <3>2, OffLone DEF UpLabels
  <2> QED
    BY <1>8, <2>1, <2>2 DEF StartSecrets, StartSet, StartUpdate, StartGenerate, StartDelete
<1> QED
  BY <1>5, <1>6, <1>7, <1>8 DEF Start

\* A secrets command stays away from the places of an up.
LEMMA SecretsOff ==
  ASSUME TypeOK, NEW p \in Proc, SecretsStep(p)
  PROVE proc[p].pc \in SecretsLabels /\ OffStep(p)
<1> DEFINE me == proc[p]
<1>1. me \in Local
  BY DEF TypeOK
<1>2. ASSUME NEW label \in SecretsLabels, NEW v
      PROVE NotUp([me EXCEPT !.pc = label]) /\ NotUp([me EXCEPT !.pc = label, !.fresh = v])
  BY <1>1 DEF NotUp, Local, SecretsLabels, UpLabels
<1>3. /\ \A label \in SecretsLabels : NotUp([me EXCEPT !.pc = label])
      /\ \A v : NotUp([me EXCEPT !.pc = "save", !.fresh = v])
  BY <1>2 DEF SecretsLabels
<1>4. CASE FindItem(p)
  <2>1. PICK s \in me.todo :
          \/ Become(p, IF IsSet(s)
                         THEN [me EXCEPT !.pc = IF me.cmd = "generate" THEN "produce" ELSE "save"]
                         ELSE Idle("failed"))
          \/ Become(p, ReturnError(me))
    BY <1>4, CallBecomes DEF FindItem, Query
  <2>2. (IF me.cmd = "generate" THEN "produce" ELSE "save") \in SecretsLabels
    BY DEF SecretsLabels
  <2>3. NotUp(IF IsSet(s)
                THEN [me EXCEPT !.pc = IF me.cmd = "generate" THEN "produce" ELSE "save"]
                ELSE Idle("failed"))
    BY <1>3, <2>2, EndNotUp
  <2> QED
    BY <1>4, <2>1, <2>3, BecomeNotUp, EndNotUp DEF FindItem, At, SecretsLabels
<1>5. CASE MintAgain(p) \/ GenerateAgain(p)
  BY <1>3, <1>5, CallBecomes, BecomeNotUp, EndNotUp
     DEF MintAgain, GenerateAgain, PodmanCall, LocalStep, At, SecretsLabels
<1>6. CASE Save(p)
  BY <1>3, <1>6, CallBecomes, BecomeNotUp, EndNotUp
     DEF Save, SaveFails, KeychainCall, At, SecretsLabels
<1>7. CASE PushInterrupted(p) \/ LookMachine(p)
  BY <1>3, <1>7, CallBecomes, BecomeNotUp, EndNotUp
     DEF PushInterrupted, LookMachine, Query, LocalStep, At, SecretsLabels
<1>8. CASE Send(p)
  BY <1>8, CallBecomes, BecomeNotUp, EndNotUp
     DEF Send, SendFails, PodmanCall, At, SecretsLabels
<1>9. CASE Erase(p)
  BY <1>3, <1>9, CallBecomes, BecomeNotUp, EndNotUp DEF Erase, KeychainCall, At, SecretsLabels
<1>10. CASE InspectMachine(p) \/ FindStored(p)
  BY <1>3, <1>10, CallBecomes, BecomeNotUp, EndNotUp
     DEF InspectMachine, FindStored, Query, At, SecretsLabels
<1>11. CASE DropStored(p)
  BY <1>11, CallBecomes, BecomeNotUp, EndNotUp DEF DropStored, PodmanCall, At, SecretsLabels
<1> QED
  BY <1>4, <1>5, <1>6, <1>7, <1>8, <1>9, <1>10, <1>11 DEF SecretsStep

\* What any process may do by itself, and from outside.
Moves(p) ==
  Start(p) \/ Step(p) \/ Interrupt(p) \/ Crash(p) \/ StartSecrets(p) \/ SecretsStep(p)

\* Whatever it does, it does alone.
LEMMA MovesByItself ==
  ASSUME TypeOK, NEW p \in Proc, Moves(p)
  PROVE Alone(p)
<1>1. CASE StartSecrets(p)
  <2>1. \E it : Become(p, it)
    BY <1>1 DEF StartSecrets, RefuseSecrets, StartSet, StartUpdate, StartGenerate, StartDelete,
                Starts, LocalStep
  <2> QED
    BY <2>1, BecomeAlone
<1> QED
  BY <1>1, MovesAlone, SecretsOff DEF Moves, OffStep

\* One that runs no command can only start one, which touches nothing.
LEMMA IdleStarts ==
  ASSUME TypeOK, NEW p \in Proc, ~Busy(p), Moves(p)
  PROVE (Start(p) \/ StartSecrets(p)) /\ UNCHANGED <<podmanVars, keychainVars>>
<1>1. ~UpStep(p) /\ ~DownStep(p) /\ ~SecretsStep(p)
  BY UpPlaces, DownPlaces, SecretsOff DEF Busy, UpLabels, DownLabels, SecretsLabels
<1>2. ~SeesInterrupt(p) /\ ~Interrupt(p) /\ ~Crash(p)
  BY DEF SeesInterrupt, ChecksContext, Interrupt, Crash, Busy
<1>3. Start(p) \/ StartSecrets(p)
  BY <1>1, <1>2 DEF Moves, Step
<1> QED
  BY <1>3 DEF Start, Refuse, StartUp, StartDown, StartSecrets, RefuseSecrets, StartSet,
              StartUpdate, StartGenerate, StartDelete, Starts, LocalStep

\* A step of a command that runs alone.
LEMMA OwnLone ==
  ASSUME TypeOK, PlaceOK, SavePlaceOK, ZonesDeclareWhatTheyUse,
         NEW p \in Proc, Unaccompanied(p), Lone(proc[p]), Moves(p)
  PROVE Lone(proc[p])'
<1> DEFINE me == proc[p]
<1>1. me \in Local /\ Said(me, items) /\ me.pc # "idle"
  BY DEF TypeOK, Lone, Unaccompanied, Busy
<1>2. Said(proc'[p], items')
  BY <1>1, NextSaid, StartSecretsSaid, SavesSaid, DeleteSaid DEF Moves, SecretsStep
<1>3. CASE UpStep(p)
  <2>1. ItemsKept
    BY <1>3, LoneKeepsItems DEF Unaccompanied
  <2>2. Valid(me.top) /\ me.pc \in UpLabels
    BY <1>3, UpPlaces DEF Lone, InHandKept
  <2>3. Course(proc[p])'
    BY <1>3, <2>1, <2>2, UpCourse, FetchedPlays DEF Lone
  <2>4. InHandKept(proc[p])'
    BY <1>3, <2>1, UpInHandKept DEF Lone
  <2>5. Fetched(proc[p])'
    BY <1>3, <2>1, BeforeFetched, ResolveFetched, PlayFetched DEF UpStep, Lone
  <2> QED
    BY <1>2, <2>3, <2>4, <2>5 DEF Lone
<1>4. CASE DownStep(p)
  BY <1>2, <1>4, DownNotUp, OffLone DEF OffStep, NotUp
<1>5. CASE SecretsStep(p)
  BY <1>2, <1>5, SecretsOff, OffLone DEF OffStep, NotUp
<1>6. CASE SeesInterrupt(p) \/ Crash(p)
  <2>1. proc'[p].pc = "idle"
    BY <1>6 DEF SeesInterrupt, Crash, LocalStep, Become, TypeOK, Idle
  <2> QED
    BY <1>2, <2>1, OffLone DEF UpLabels
<1>7. CASE Interrupt(p)
  <2>1. /\ proc'[p] = [me EXCEPT !.cancelled = TRUE]
        /\ UNCHANGED <<machine, nets, pods, store, items>>
    BY <1>7 DEF Interrupt, Become, TypeOK, podmanVars, keychainVars
  <2>2. /\ proc'[p].pc = me.pc /\ proc'[p].roles = me.roles /\ proc'[p].top = me.top
        /\ proc'[p].zones = me.zones /\ proc'[p].work = me.work
        /\ proc'[p].todo = me.todo /\ proc'[p].got = me.got /\ proc'[p].failed = me.failed
    BY <1>1, <2>1 DEF Local
  <2>3. InHandKept(proc[p])'
    BY <2>1, <2>2 DEF Lone, InHandKept, FromKeychain, IsSet
  <2>4. Fetched(proc[p])'
    BY <2>1, <2>2 DEF Lone, Fetched, Settled, IsSet, ToInject, ForZone, First
  <2>5. Course(proc[p])'
    <3>1. PodsStay /\ ItemsKept
      BY <2>1 DEF PodsStay, ItemsKept
    <3>2. CASE me.pc \in ZoneLabels
      BY <1>7, <2>1, <2>2, <3>1, <3>2, ZoneStays DEF Interrupt, Lone
    <3>3. CASE me.pc \notin ZoneLabels
      BY <2>1, <2>2, <3>3 DEF Lone, Course, NetsMade, Running, NetworkExists
    <3> QED
      BY <3>2, <3>3
  <2> QED
    BY <1>2, <2>3, <2>4, <2>5 DEF Lone
<1>8. ~Start(p) /\ ~StartSecrets(p)
  BY <1>1 DEF Start, Refuse, StartUp, StartDown, StartSecrets, RefuseSecrets, StartSet,
              StartUpdate, StartGenerate, StartDelete, Starts, At
<1> QED
  BY <1>3, <1>4, <1>5, <1>6, <1>7, <1>8 DEF Moves, Step

\* What touches neither its process nor what it works on.
LEMMA SameLone ==
  ASSUME NEW p \in Proc, Lone(proc[p]), proc'[p] = proc[p],
         UNCHANGED <<podmanVars, keychainVars>>
  PROVE Lone(proc[p])'
<1>1. UNCHANGED <<machine, nets, pods, store, items>>
  BY DEF podmanVars, keychainVars
<1>2. Said(proc'[p], items')
  BY <1>1 DEF Lone
<1>3. InHandKept(proc[p])'
  BY <1>1 DEF Lone, InHandKept, FromKeychain, IsSet
<1>4. Course(proc[p])'
  BY <1>1 DEF Lone, Course, NetsMade, PodsMade, PodRight, Running, NetworkExists, IsSet
<1>5. Fetched(proc[p])'
  BY <1>1 DEF Lone, Fetched, Settled, IsSet
<1> QED
  BY <1>2, <1>3, <1>4, <1>5 DEF Lone

\* A step of all commands together is one of a process, or a restart.
LEMMA LclawMoves ==
  ASSUME LclawNext
  PROVE Reboot \/ \E q \in Proc : Moves(q)
BY DEF LclawNext, Next, Moves

\* Every step keeps the promise to those that run alone.
LEMMA LoneStep ==
  ASSUME TypeOK, PlaceOK, SavePlaceOK, ZonesDeclareWhatTheyUse, LoneOK,
         [HistoryNext]_historyVars
  PROVE LoneOK'
<1>1. CASE UNCHANGED historyVars
  <2>1. UNCHANGED <<podmanVars, keychainVars, proc, alone>>
    BY <1>1 DEF historyVars, vars
  <2>2. ASSUME NEW p \in alone
        PROVE Unaccompanied(p)' /\ Lone(proc[p])'
    <3>1. p \in Proc /\ Unaccompanied(p) /\ Lone(proc[p])
      BY DEF LoneOK, Unaccompanied
    <3> QED
      BY <2>1, <3>1, SameLone DEF Unaccompanied, Busy
  <2> QED
    BY <2>1, <2>2 DEF LoneOK
<1>2. CASE HistoryNext
  <2> SUFFICES ASSUME NEW p \in alone'
               PROVE Unaccompanied(p)' /\ Lone(proc[p])'
    BY DEF LoneOK
  <2>1. /\ p \in Proc /\ proc'[p].pc # "idle" /\ (p \in alone \/ ~Busy(p))
        /\ \A q \in Others(p) : proc'[q].pc = "idle"
    BY <1>2 DEF HistoryNext, Busy
  <2>2. Unaccompanied(p)'
    BY <2>1 DEF Unaccompanied, Busy
  <2>3. ~Reboot
    BY <2>1 DEF Reboot, Busy, Idle
  <2>4. PICK q \in Proc : Moves(q)
    BY <1>2, <2>3, LclawMoves DEF HistoryNext
  <2>5. q # p => proc'[p] = proc[p]
    BY <2>1, <2>4, MovesByItself DEF Alone, Become, TypeOK
  <2>6. CASE p \in alone
    <3>1. Unaccompanied(p) /\ Lone(proc[p])
      BY <2>6 DEF LoneOK
    <3>2. CASE q = p
      BY <2>1, <2>2, <2>4, <3>1, <3>2, OwnLone
    <3>3. CASE q # p
      <4>1. UNCHANGED <<podmanVars, keychainVars>>
        BY <2>4, <3>1, <3>3, IdleStarts DEF Unaccompanied, Others
      <4> QED
        BY <2>1, <2>2, <2>5, <3>1, <3>3, <4>1, SameLone
    <3> QED
      BY <3>2, <3>3
  <2>7. CASE ~Busy(p)
    <3>1. q = p
      BY <2>1, <2>5, <2>7 DEF Busy
    <3> QED
      BY <2>1, <2>2, <2>4, <2>7, <3>1, IdleStarts, StartLone
  <2> QED
    BY <2>1, <2>2, <2>6, <2>7
<1> QED
  BY <1>1, <1>2

\* No command beside up and down touches a network.
LEMMA LclawNets ==
  ASSUME TypeOK, NetsDeclared, [LclawNext]_vars
  PROVE NetsDeclared'
<1>1. ASSUME NEW p \in Proc, StartSecrets(p)
      PROVE UNCHANGED nets
  BY <1>1 DEF StartSecrets, RefuseSecrets, StartSet, StartUpdate, StartGenerate, StartDelete,
              Starts, LocalStep, podmanVars
<1>2. ASSUME NEW p \in Proc, SecretsStep(p)
      PROVE UNCHANGED nets
  <2>1. CASE FindItem(p) \/ LookMachine(p) \/ InspectMachine(p) \/ FindStored(p)
    BY <2>1 DEF FindItem, LookMachine, InspectMachine, FindStored, Query, Call, podmanVars
  <2>2. CASE MintAgain(p) \/ Send(p) \/ DropStored(p)
    BY <2>2 DEF MintAgain, Send, DropStored, PodmanCall, Call, DoMint, DoStoreSecret,
                DoRemoveSecret, podmanVars
  <2>3. CASE Save(p) \/ Erase(p)
    BY <2>3 DEF Save, Erase, KeychainCall, Call, podmanVars
  <2>4. CASE GenerateAgain(p) \/ PushInterrupted(p)
    BY <2>4 DEF GenerateAgain, PushInterrupted, LocalStep, podmanVars
  <2> QED
    BY <1>2, <2>1, <2>2, <2>3, <2>4 DEF SecretsStep
<1> QED
  BY <1>1, <1>2, StepNets, NetsAlone, MovedNets DEF LclawNext

\* The end of an up that ran alone.
LEMMA LoneEnd ==
  ASSUME TypeOK, SavePlaceOK, NetsDeclared, LclawNext, NEW p \in Proc, Lone(proc[p]),
         EndsOk(p, "up")
  PROVE Running /\ \A r \in proc[p].roles : Delivered(proc[p].top, r)
<1> DEFINE me == proc[p]
<1>1. /\ me.pc # "idle" /\ me.cmd = "up"
      /\ proc'[p].pc = "idle" /\ proc'[p].exit = "ok"
  BY DEF EndsOk, Busy
<1>2. CASE Next
  <2>1. ~DownStep(p)
    BY <1>1, DownPlaces DEF Lone, Said
  <2>2. UpStep(p)
    BY <1>1, <1>2, <2>1, EndsByItself
  <2> QED
    BY <1>1, <2>2, UpEndDelivers DEF Lone, NotOk
<1>3. ASSUME NEW q \in Proc, StartSecrets(q) \/ SecretsStep(q)
      PROVE FALSE
  <2>1. Alone(q)
    BY <1>3, MovesByItself DEF Moves
  <2>2. q = p
    BY <1>1, <2>1 DEF Alone, Become, TypeOK
  <2>3. SecretsStep(p)
    BY <1>1, <1>3, <2>2
       DEF StartSecrets, RefuseSecrets, StartSet, StartUpdate, StartGenerate, StartDelete,
           Starts, At
  <2>4. me.pc \in SecretsLabels /\ Said(me, items) /\ SavePlaced(me)
    BY <1>1, <2>3, SecretsOff DEF Lone, SavePlaceOK
  <2> QED
    BY <1>1, <2>4 DEF Said, SavePlaced, Saves, SecretsLabels
<1> QED
  BY <1>2, <1>3 DEF LclawNext

\* Whatever ran at once before it and whatever was left behind, an up that runs
\* alone and exits 0 leaves its zones' workloads as lclaw.toml describes them,
\* each pod up, on its networks and with the keychain's values. The zones must
\* declare what their pods use: what one does not declare, up leaves in the store
\* as it finds it. A network it finds it leaves too, of the kind it was made.
THEOREM LoneUpHasReconciled ==
  ASSUME ZonesDeclareWhatTheyUse
  PROVE HistorySpec => LoneUpReconciles
<1>1. HistoryInit => LoneOK /\ NetsDeclared
  BY StartNets DEF HistoryInit, LoneOK
<1>2. HistoryOK /\ LoneOK /\ NetsDeclared /\ [HistoryNext]_historyVars
        => LoneOK' /\ NetsDeclared'
  BY LoneStep, LclawNets DEF HistoryOK, HistoryNext, historyVars
<1>3. HistoryOK /\ LoneOK /\ NetsDeclared /\ [HistoryNext]_historyVars
        => [\A p \in alone : EndsOk(p, "up") =>
              /\ Running
              /\ \A r \in proc[p].roles : Delivered(proc[p].top, r)]_historyVars
  BY LoneEnd DEF HistoryOK, LoneOK, Unaccompanied, HistoryNext
<1> QED
  BY <1>1, <1>2, <1>3, HistoryStart, HistoryStep, PTL DEF HistorySpec, LoneUpReconciles

\* Where there is one process, every command runs alone.
AllLone == \A p \in Proc : Busy(p) => Lone(proc[p])

LEMMA AllLoneStep ==
  ASSUME NEW only, Proc = {only}, TypeOK, PlaceOK, SavePlaceOK, ZonesDeclareWhatTheyUse,
         AllLone, [LclawNext]_vars
  PROVE AllLone'
<1> SUFFICES ASSUME Busy(only)' PROVE Lone(proc[only])'
  BY DEF AllLone
<1>1. only \in Proc /\ proc'[only].pc # "idle" /\ Others(only) = {}
  BY DEF Busy, Others
<1>2. CASE UNCHANGED vars
  BY <1>1, <1>2, SameLone DEF AllLone, Busy, vars
<1>3. CASE LclawNext
  <2>1. ~Reboot
    BY <1>1 DEF Reboot, Busy, Idle
  <2>2. Moves(only)
    BY <1>3, <2>1, LclawMoves
  <2>3. CASE Busy(only)
    BY <1>1, <2>2, <2>3, OwnLone DEF AllLone, Unaccompanied
  <2>4. CASE ~Busy(only)
    BY <1>1, <2>2, <2>4, IdleStarts, StartLone
  <2> QED
    BY <2>3, <2>4
<1> QED
  BY <1>2, <1>3

\* One command at a time, and secrets set, updated and deleted between ups and
\* downs, each of which may have been disturbed anywhere: an up that exits 0
\* leaves its zones' workloads as lclaw.toml describes them, each pod with the
\* keychain's values, on networks as they were made. (Up.)
THEOREM UpHasDeliveredAfterAll ==
  ASSUME NEW only, Proc = {only}, ZonesDeclareWhatTheyUse
  PROVE LclawSpec => UpDelivers
<1>1. Init => TypeOK /\ PlaceOK /\ SavePlaceOK /\ AllLone /\ NetsDeclared
  BY InitType, StartNets, EndFree, FreeSavePlaced DEF Init, CommandInit, Idle, SavePlaceOK, AllLone, Busy
<1>2. TypeOK /\ PlaceOK /\ SavePlaceOK /\ AllLone /\ NetsDeclared /\ [LclawNext]_vars
        => AllLone' /\ NetsDeclared'
  BY AllLoneStep, LclawNets
<1>3. TypeOK /\ SavePlaceOK /\ AllLone /\ NetsDeclared /\ [LclawNext]_vars
        => [\A p \in Proc : EndsOk(p, "up") =>
              /\ Running
              /\ \A r \in proc[p].roles : Delivered(proc[p].top, r)]_vars
  BY LoneEnd DEF AllLone, EndsOk
<1> QED
  BY <1>1, <1>2, <1>3, LclawStep, PTL DEF LclawSpec, UpDelivers

=============================================================================
