------------------------------ MODULE UpProofs -------------------------------
(***************************************************************************)
(* What an up that exits 0 has done, where one command runs at a time:     *)
(* the workloads of each zone it was given are as lclaw.toml has them.     *)
(* Four invariants carry this: the store and what the command resolved are *)
(* the keychain's values (Matched, for minted keys as well, since destroy  *)
(* forgets a key only with the store gone); a down brings nothing of its   *)
(* own (Bare); an up has made, or found, the networks it is past and has   *)
(* made the pods it is past (Course); and every network is of a kind some  *)
(* lclaw.toml declares (NetsDeclared).                                     *)
(*                                                   -> UpHasDelivered     *)
(* And what holds as long as nothing was disturbed (Sound): every key a    *)
(* pod was given is one LiteLLM knows, a machine that is off holds nothing *)
(* secret, and status finds nothing broken after a down.                   *)
(*   -> KeysAreAcceptedUndisturbed, OffHoldsNothingUndisturbed,            *)
(*      DownIsNoFailureUndisturbed                                         *)
(***************************************************************************)
EXTENDS UpDownProofs

ZoneLabels == {"zone", "mint", "put", "play"}

\* What is in the store or in a command's hands is the keychain's value.
Matched ==
  \A s \in Secret :
    /\ FromKeychain(s, store[s])
    /\ \A p \in Proc : FromKeychain(s, proc[p].got[s])

\* A down has nothing in its hands.
Bare(me) == me.pc \in DownLabels => me.cmd = "down" /\ me.got = NoneGot

BareOK == \A p \in Proc : Bare(proc[p])

\* What lclaw.toml says of a pod is so.
PodRight(t, r, w) ==
  /\ pods[w] # None
  /\ pods[w].up
  /\ pods[w].userns = t.zone[r].internal
  /\ pods[w].nets = {q \in Role : q = r \/ q \in t.zone[r].bridges[w]}
  /\ \A s \in Uses[w] : IsSet(s) /\ pods[w].env[s] = items[s].val

\* The up has not come to w yet.
ToCome(me, r, w) == r \in me.zones /\ (r = First(me.zones) => w \in WorkLeft(me))

NetsMade(me) ==
  /\ Running
  /\ \A r \in me.roles : r \in me.zones \/ NetworkExists(r)

PodsMade(me) ==
  /\ Running
  /\ \A r \in me.roles :
       /\ NetworkExists(r)
       /\ \A w \in WorkloadsOf(me.top, r) : PodRight(me.top, r, w) \/ ToCome(me, r, w)
  /\ WorkLeft(me) \subseteq WorkloadsOf(me.top, First(me.zones))

Course(me) ==
  /\ me.pc \in {"nets", "mknet"} => NetsMade(me)
  /\ me.pc \in ZoneLabels => PodsMade(me)

CourseOK == \A p \in Proc : Course(proc[p])

-----------------------------------------------------------------------------
(* Bare: a down goes on with empty hands                                   *)

\* A step of a down to it: the end of the run, or further with nothing in hand.
BareStep(me, it) ==
  \/ it.pc = "idle" /\ ~it.cancelled
  \/ it.cmd = me.cmd /\ it.got = me.got /\ it.cancelled = me.cancelled

\* A process that becomes such an it stays bare.
LEMMA BecomeBare ==
  ASSUME TypeOK, NEW p \in Proc, NEW ACTION it, Become(p, it),
         proc[p].pc \in DownLabels, Bare(proc[p]), BareStep(proc[p], it)
  PROVE Bare(proc'[p])
BY BecomeAlone DEF Bare, BareStep, DownLabels

\* However a run ends, it has nothing in hand.
LEMMA EndBare ==
  ASSUME NEW me
  PROVE /\ \A c : BareStep(me, Idle(c))
        /\ BareStep(me, Report(me)) /\ BareStep(me, ReturnError(me))
BY DEF BareStep, Idle, Report, ReturnError

\* Entering a zone takes nothing up.
LEMMA EnterBare ==
  ASSUME NEW me \in Local
  PROVE \A zones : BareStep(me, EnterDown(me, zones))
BY DEF BareStep, EnterDown, Local

\* Every place of a down is one of DownLabels.
LEMMA DownPlaces ==
  ASSUME NEW p \in Proc, DownStep(p)
  PROVE proc[p].pc \in DownLabels
<1>1. CASE ListMachine(p) \/ SnapshotPods(p) \/ SkipAbsent(p) \/ KubeDown(p)
  BY <1>1 DEF ListMachine, SnapshotPods, SkipAbsent, KubeDown, At, DownLabels
<1>2. CASE KeepNetwork(p) \/ FindOldNetwork(p) \/ RemoveNetwork(p)
  BY <1>2 DEF KeepNetwork, FindOldNetwork, RemoveNetwork, AtNetwork, At, DownLabels
<1>3. CASE KeepStore(p) \/ ListStored(p) \/ RemoveSecret(p) \/ RemoveVolume(p)
  BY <1>3 DEF KeepStore, ListStored, RemoveSecret, RemoveVolume, ZonesDown, At, DownLabels
<1>4. CASE StopMachine(p) \/ RemoveMachine(p)
  BY <1>4 DEF StopMachine, RemoveMachine, Stopping, At, DownLabels
<1>5. CASE FindMinted(p) \/ DeleteMinted(p) \/ Forgotten(p)
  BY <1>5 DEF FindMinted, DeleteMinted, Forgotten, At, DownLabels
<1> QED
  BY <1>1, <1>2, <1>3, <1>4, <1>5 DEF DownStep

\* Every step of a down is such a step.
LEMMA DownBareStep ==
  ASSUME TypeOK, NEW p \in Proc, DownStep(p)
  PROVE Alone(p) /\ BareStep(proc[p], proc'[p])
<1> DEFINE me == proc[p]
<1>1. me \in Local /\ me.pc \in DownLabels
  BY DownPlaces DEF TypeOK
<1> SUFFICES \E it : Become(p, it) /\ BareStep(me, it)
  BY BecomeAlone
<1>2. CASE ListMachine(p)
  <2>1. BareStep(me, [me EXCEPT !.pc = "pods"]) /\ BareStep(me, [me EXCEPT !.pc = "rm"])
    BY <1>1 DEF BareStep, Local
  <2> QED
    BY <1>2, <2>1, CallBecomes, EndBare DEF ListMachine, Query
<1>3. CASE SnapshotPods(p)
  <2> DEFINE seen == [me EXCEPT !.present = Listed(me.top)]
  <2>1. /\ seen \in Local /\ seen.cmd = me.cmd /\ seen.got = me.got
        /\ seen.cancelled = me.cancelled
    BY <1>1 DEF Listed, ListPods, Local
  <2>2. BareStep(me, EnterDown(seen, me.roles))
    BY <2>1, EnterBare DEF BareStep
  <2> QED
    BY <1>3, <2>2, CallBecomes, EndBare DEF SnapshotPods, Query
<1>4. CASE SkipAbsent(p) \/ KubeDown(p)
  <2>1. /\ BareStep(me, [me EXCEPT !.work = WithoutLast(me)])
        /\ BareStep(me, [me EXCEPT !.work = WithoutLast(me), !.present = @ \ {LastWork(me)}])
        /\ BareStep(me, [me EXCEPT !.work = WithoutLast(me), !.failed = TRUE, !.kept = TRUE])
    BY <1>1 DEF BareStep, Local
  <2> QED
    BY <1>4, <2>1, CallBecomes, EndBare
       DEF SkipAbsent, KubeDown, DownFails, LocalStep, PodmanCall
<1>5. CASE KeepNetwork(p) \/ FindOldNetwork(p) \/ RemoveNetwork(p)
  <2> DEFINE failed == [me EXCEPT !.failed = TRUE]
  <2>1. /\ failed \in Local /\ failed.cmd = me.cmd /\ failed.got = me.got
        /\ failed.cancelled = me.cancelled
    BY <1>1 DEF Local
  <2>2. BareStep(me, NetworkDone(me)) /\ BareStep(me, NetworkDone(failed))
    BY <1>1, <2>1, EnterBare DEF NetworkDone, BareStep
  <2>3. BareStep(me, [me EXCEPT !.pc = "rmnet"])
    BY <1>1 DEF BareStep, Local
  <2> QED
    BY <1>5, <2>2, <2>3, CallBecomes, EndBare
       DEF KeepNetwork, FindOldNetwork, RemoveNetwork, RemoveFails, LocalStep, Query, PodmanCall
<1>6. CASE KeepStore(p) \/ Forgotten(p)
  BY <1>6, EndBare DEF KeepStore, Forgotten, LocalStep
<1>7. CASE ListStored(p) \/ RemoveSecret(p) \/ RemoveVolume(p)
  <2>1. \A todo : /\ BareStep(me, [me EXCEPT !.pc = "purge", !.todo = todo])
                  /\ BareStep(me, [me EXCEPT !.pc = "purgevol"])
                  /\ BareStep(me, [me EXCEPT !.pc = "stop", !.failed = TRUE, !.todo = todo])
    BY <1>1 DEF BareStep, Local
  <2>2. BareStep(me, PurgeFails(me))
    BY <2>1, EndBare DEF PurgeFails
  <2> QED
    BY <1>7, <2>1, <2>2, CallBecomes
       DEF ListStored, RemoveSecret, RemoveVolume, Query, PodmanCall
<1>8. CASE StopMachine(p) \/ RemoveMachine(p)
  <2>1. /\ BareStep(me, [me EXCEPT !.pc = "rm"])
        /\ BareStep(me, [me EXCEPT !.pc = "forget", !.todo = ToForget(me.top)])
    BY <1>1 DEF BareStep, Local
  <2> QED
    BY <1>8, <2>1, CallBecomes, EndBare DEF StopMachine, RemoveMachine, PodmanCall
<1>9. CASE FindMinted(p) \/ DeleteMinted(p)
  <2>1. PICK s \in me.todo :
          \/ Become(p, [me EXCEPT !.pc = "delitem"])
          \/ Become(p, [me EXCEPT !.todo = @ \ {s}])
          \/ Become(p, [me EXCEPT !.todo = @ \ {s}, !.failed = TRUE])
          \/ Become(p, [me EXCEPT !.pc = "forget", !.todo = @ \ {s}])
          \/ Become(p, [me EXCEPT !.pc = "forget", !.todo = @ \ {s}, !.failed = TRUE])
    BY <1>9, CallBecomes DEF FindMinted, DeleteMinted, Query, KeychainCall
  <2>2. /\ BareStep(me, [me EXCEPT !.pc = "delitem"])
        /\ BareStep(me, [me EXCEPT !.todo = @ \ {s}])
        /\ BareStep(me, [me EXCEPT !.todo = @ \ {s}, !.failed = TRUE])
        /\ BareStep(me, [me EXCEPT !.pc = "forget", !.todo = @ \ {s}])
        /\ BareStep(me, [me EXCEPT !.pc = "forget", !.todo = @ \ {s}, !.failed = TRUE])
    BY <1>1 DEF BareStep, Local
  <2> QED
    BY <2>1, <2>2
<1> QED
  BY <1>2, <1>3, <1>4, <1>5, <1>6, <1>7, <1>8, <1>9 DEF DownStep

\* So it leaves a down bare.
LEMMA DownBare ==
  ASSUME TypeOK, NEW p \in Proc, DownStep(p), Bare(proc[p])
  PROVE Bare(proc'[p])
BY DownBareStep, DownPlaces, BecomeBare DEF Alone

\* A process that ends, or is an up's, is bare as it has nothing to be.
LEMMA OffDownBare ==
  ASSUME NEW it, it.pc \in {"idle"} \union UpLabels
  PROVE Bare(it)
BY DEF Bare, UpLabels, DownLabels

\* Every step of a process leaves it bare.
LEMMA ProcessBare ==
  ASSUME TypeOK, NEW p \in Proc, Bare(proc[p]),
         Start(p) \/ Step(p) \/ Interrupt(p) \/ Crash(p)
  PROVE Bare(proc'[p])
<1> DEFINE me == proc[p]
<1>1. me \in Local
  BY DEF TypeOK
<1>2. \A it : Become(p, it) => proc'[p] = it
  BY DEF TypeOK, Become
<1>3. \A c : Idle(c).pc = "idle"
  BY DEF Idle
<1>4. CASE Refuse(p) \/ SeesInterrupt(p) \/ Crash(p)
  BY <1>2, <1>3, <1>4, OffDownBare DEF Refuse, SeesInterrupt, Crash, LocalStep
<1>5. CASE StartUp(p)
  <2>1. PICK job \in Jobs, t \in Topologies :
          proc'[p] = [Loaded(job, t) EXCEPT !.pc = "users", !.todo = UserSecrets(t, job.roles)]
    BY <1>2, <1>5 DEF StartUp, LocalStep
  <2>2. proc'[p].pc = "users"
    BY <2>1 DEF Loaded, Idle
  <2> QED
    BY <2>2, OffDownBare DEF UpLabels
<1>6. CASE StartDown(p)
  <2>1. PICK job \in Jobs, t \in Topologies :
          job.cmd = "down" /\ proc'[p] = [Loaded(job, t) EXCEPT !.pc = "list"]
    BY <1>2, <1>6 DEF StartDown, LocalStep
  <2>2. proc'[p].cmd = "down" /\ proc'[p].got = NoneGot
    BY <2>1 DEF Loaded, Idle
  <2> QED
    BY <2>2 DEF Bare
<1>7. CASE UpStep(p)
  <2>1. CASE DescribeUser(p)
    <3>1. me.pc = "users"
      BY <2>1 DEF DescribeUser, At
    <3>2. PICK s \in me.todo :
            \/ proc'[p] = [me EXCEPT !.todo = @ \ {s}, !.failed = @ \/ ~IsSet(s)]
            \/ proc'[p] = ReturnError(me)
      BY <1>2, <2>1, CallBecomes DEF DescribeUser, Query
    <3>3. [me EXCEPT !.todo = @ \ {s}, !.failed = @ \/ ~IsSet(s)].pc = "users"
      BY <1>1, <3>1 DEF Local
    <3> QED
      BY <1>3, <3>2, <3>3, OffDownBare DEF ReturnError, UpLabels
  <2>2. CASE ~DescribeUser(p)
    BY <1>7, <2>2, UpSameJob, OffDownBare DEF JobStep, SameJob, Past
  <2> QED
    BY <2>1, <2>2
<1>8. CASE DownStep(p)
  BY <1>8, DownBare
<1>9. CASE Interrupt(p)
  <2>1. proc'[p] = [me EXCEPT !.cancelled = TRUE]
    BY <1>2, <1>9 DEF Interrupt
  <2>2. proc'[p].pc = me.pc /\ proc'[p].cmd = me.cmd /\ proc'[p].got = me.got
    BY <1>1, <2>1 DEF Local
  <2> QED
    BY <2>2 DEF Bare
<1> QED
  BY <1>4, <1>5, <1>6, <1>7, <1>8, <1>9 DEF Start, Step

\* Every step of the one process leaves it bare.
LEMMA StepBare ==
  ASSUME NEW only, Proc = {only}, TypeOK, BareOK, [Next]_vars
  PROVE BareOK'
<1>1. CASE UNCHANGED vars
  BY <1>1 DEF vars, BareOK
<1>2. CASE Reboot
  BY <1>2, OffDownBare DEF Reboot, Busy, Idle, BareOK
<1> QED
  BY <1>1, <1>2, ProcessBare DEF Next, BareOK

-----------------------------------------------------------------------------
(* Matched: every copy is the keychain's value, minted keys included       *)

\* No item there is replaced or removed.
ItemsKept == \A s \in Secret : IsSet(s) => items'[s] = items[s]

\* A Put is refused where an item is.
LEMMA PutKeepsItems ==
  ASSUME TypeOK, NEW p \in Proc, Put(p)
  PROVE ItemsKept
<1>1. PICK u \in proc[p].todo :
        KeychainCall(p, CanPut(u, PutReplaces), DoPut(u, proc[p].fresh, SourceOf(u)),
                     [proc[p] EXCEPT !.pc = "zone", !.todo = @ \ {u},
                                     !.got[u] = proc[p].fresh, !.fresh = None],
                     PutFails(proc[p], u))
  BY DEF Put
<1>2. \/ UNCHANGED items
      \/ ~IsSet(u) /\ items' = [items EXCEPT ![u] = [val |-> proc[p].fresh, src |-> SourceOf(u)]]
  BY <1>1 DEF KeychainCall, Call, CanPut, PutReplaces, DoPut, keychainVars
<1> QED
  BY <1>2 DEF ItemsKept, IsSet, TypeOK, KeychainTypeOK

\* Only destroy's removal of a minted key takes an item away.
LEMMA OthersKeepItems ==
  ASSUME TypeOK, [Next]_vars
  PROVE ItemsKept \/ \E p \in Proc : DeleteMinted(p)
BY StepKeepsItems, PutKeepsItems DEF ItemsKept

\* Copies come from copies and from items that stay.
LEMMA CopiesMatched ==
  ASSUME Matched, PodmanCopies, GotCopies, ItemsKept
  PROVE Matched'
<1>1. ASSUME NEW s \in Secret, NEW v, FromKeychain(s, v)
      PROVE v = None \/ (items'[s] # None /\ v = items'[s].val)
  BY <1>1 DEF FromKeychain, IsSet, ItemsKept
<1>2. ASSUME NEW s \in Secret
      PROVE FromKeychain(s, store[s])'
  BY <1>1 DEF Matched, PodmanCopies, FromKeychain, IsSet
<1>3. ASSUME NEW s \in Secret, NEW p \in Proc
      PROVE FromKeychain(s, proc[p].got[s])'
  BY <1>1 DEF Matched, GotCopies, FromKeychain, IsSet
<1> QED
  BY <1>2, <1>3 DEF Matched

\* When destroy removes a key, nothing else holds it.
LEMMA DeleteMatched ==
  ASSUME NEW only, Proc = {only}, TypeOK, GotCopies, RanOK, BareOK, DeleteMinted(only)
  PROVE Matched'
<1>1. proc[only].pc = "delitem"
  BY DEF DeleteMinted, At
<1>2. proc[only].got = NoneGot /\ ListSecrets = {}
  BY <1>1 DEF BareOK, Bare, DownLabels, RanOK, Ran, Wiped
<1>3. store' = store
  BY DEF DeleteMinted, KeychainCall, Call, podmanVars
<1>4. ASSUME NEW s \in Secret
      PROVE FromKeychain(s, store[s])' /\ FromKeychain(s, proc[only].got[s])'
  <2>1. store[s] = None /\ proc[only].got[s] = None
    BY <1>2 DEF ListSecrets, NoneGot
  <2> QED
    BY <1>3, <2>1 DEF GotCopies, FromKeychain, IsSet
<1> QED
  BY <1>4 DEF Matched

\* No step breaks Matched, where one command runs at a time.
LEMMA StepMatched ==
  ASSUME NEW only, Proc = {only}, TypeOK, PlaceOK, RanOK, BareOK, Matched, [Next]_vars
  PROVE Matched'
BY StepCopies, StepGot, OthersKeepItems, CopiesMatched, DeleteMatched

-----------------------------------------------------------------------------
(* Course: the networks and the pods an up has made                        *)

\* Places with nothing made yet, or nothing more to say.
LEMMA ElsewhereCourse ==
  ASSUME NEW p \in Proc, proc'[p].pc \notin {"nets", "mknet"} \union ZoneLabels
  PROVE Course(proc[p])'
BY DEF Course

\* What a step of an up may not touch of the machine.
PodsStay == machine' = machine /\ nets' = nets /\ pods' = pods

\* A pod that is right stays so.
LEMMA RightStays ==
  ASSUME ItemsKept, NEW t, NEW r, NEW w, PodRight(t, r, w), pods'[w] = pods[w],
         Uses[w] \subseteq Secret
  PROVE PodRight(t, r, w)'
BY DEF PodRight, ItemsKept, IsSet

\* The workloads of a topology the program loads name secrets it knows.
LEMMA WorkloadsKnown ==
  ASSUME NEW t \in Topologies, NEW r \in Role
  PROVE \A w \in WorkloadsOf(t, r) : w \in Workload /\ Uses[w] \subseteq Secret
<1>1. t.zone[r].workloads \in Seq(Workload)
  BY ZoneTypes
<1>2. \A w \in WorkloadsOf(t, r) : w \in Workload
  BY <1>1 DEF WorkloadsOf
<1> QED
  BY <1>2, PodmanAssumption

\* A step within a zone of the up that makes no pod.
LEMMA ZoneStays ==
  ASSUME TypeOK, ItemsKept, PodsStay, NEW p \in Proc, NEW ACTION it, Become(p, it),
         proc[p].pc \in ZoneLabels, it.pc \in ZoneLabels, Course(proc[p]),
         it.roles = proc[p].roles, it.top = proc[p].top, it.zones = proc[p].zones,
         it.work = proc[p].work
  PROVE Course(proc[p])'
<1> DEFINE me == proc[p]
<1>1. me \in Local /\ proc'[p] = it
  BY BecomeAlone DEF TypeOK
<1>2. PodsMade(me)
  BY DEF Course
<1>3. PICK t \in Topologies : t = me.top
  BY <1>1 DEF Local
<1>4. ASSUME NEW r \in me.roles
      PROVE /\ NetworkExists(r)'
            /\ \A w \in WorkloadsOf(t, r) : PodRight(t, r, w)' \/ ToCome(me, r, w)
  <2>1. NetworkExists(r)'
    BY <1>2 DEF PodsMade, NetworkExists, PodsStay
  <2>2. ASSUME NEW w \in WorkloadsOf(t, r)
        PROVE PodRight(t, r, w)' \/ ToCome(me, r, w)
    <3>1. Uses[w] \subseteq Secret
      BY <1>1, WorkloadsKnown DEF Local
    <3>2. PodRight(t, r, w) \/ ToCome(me, r, w)
      BY <1>2, <1>3 DEF PodsMade
    <3> QED
      BY <3>1, <3>2, RightStays DEF PodsStay
  <2> QED
    BY <2>1, <2>2
<1>5. PodsMade(proc[p])'
  <2>1. Running'
    BY <1>2 DEF PodsMade, PodsStay, Running
  <2>2. /\ it.roles = me.roles /\ it.top = t
        /\ WorkLeft(it) = WorkLeft(me) /\ WorkLeft(it) \subseteq WorkloadsOf(t, First(it.zones))
    BY <1>2, <1>3 DEF PodsMade, WorkLeft
  <2>3. \A r, w : ToCome(me, r, w) => ToCome(it, r, w)
    BY <2>2 DEF ToCome
  <2> QED
    BY <1>1, <1>4, <2>1, <2>2, <2>3 DEF PodsMade, ToCome, WorkLeft
<1> QED
  BY <1>1, <1>5 DEF Course, ZoneLabels

\* A process that becomes what is at no such place.
LEMMA BecomeElsewhere ==
  ASSUME TypeOK, NEW p \in Proc, NEW ACTION it, Become(p, it),
         it.pc \notin {"nets", "mknet"} \union ZoneLabels
  PROVE Course(proc[p])'
BY BecomeAlone, ElsewhereCourse

\* Nor has a run that ends.
LEMMA EndElsewhere ==
  ASSUME NEW me
  PROVE /\ \A c : Idle(c).pc = "idle"
        /\ Report(me).pc = "idle" /\ ReturnError(me).pc = "idle"
        /\ ZoneFails(me).pc = "idle" /\ StepFails(me).pc = "idle"
BY DEF Idle, Report, ReturnError, ZoneFails, StepFails

\* Going on to the networks, all of them to be made.
LEMMA EnterNetsCourse ==
  ASSUME TypeOK, NEW p \in Proc, Become(p, EnterNets(proc[p])), Running'
  PROVE Course(proc[p])'
<1>1. proc[p] \in Local /\ proc'[p] = EnterNets(proc[p])
  BY BecomeAlone DEF TypeOK
<1>2. proc'[p].pc = "nets" /\ proc'[p].zones = proc'[p].roles
  BY <1>1 DEF EnterNets, Local
<1> QED
  BY <1>2 DEF Course, NetsMade, ZoneLabels

\* The machine: found, made, started.
LEMMA MachineCourse ==
  ASSUME TypeOK, NEW p \in Proc,
         DescribeUser(p) \/ UserMissing(p) \/ FindMachine(p) \/ InitMachine(p) \/ StartMachine(p)
  PROVE Course(proc[p])'
<1> DEFINE me == proc[p]
<1>1. me \in Local
  BY DEF TypeOK
<1>2. /\ [me EXCEPT !.pc = "init"].pc = "init"
      /\ [me EXCEPT !.pc = "start"].pc = "start"
  BY <1>1 DEF Local
<1>3. CASE DescribeUser(p)
  <2>1. PICK s \in me.todo :
          \/ Become(p, [me EXCEPT !.todo = @ \ {s}, !.failed = @ \/ ~IsSet(s)])
          \/ Become(p, ReturnError(me))
    BY <1>3, CallBecomes DEF DescribeUser, Query
  <2>2. [me EXCEPT !.todo = @ \ {s}, !.failed = @ \/ ~IsSet(s)].pc = "users"
    BY <1>1, <1>3 DEF DescribeUser, At, Local
  <2> QED
    BY <2>1, <2>2, BecomeElsewhere, EndElsewhere DEF ZoneLabels
<1>4. CASE UserMissing(p)
  BY <1>4, BecomeElsewhere, EndElsewhere DEF UserMissing, LocalStep, ZoneLabels
<1>5. CASE FindMachine(p)
  <2>1. \/ Become(p, EnsureMachine(me))
        \/ Become(p, ReturnError(me))
    BY <1>5, CallBecomes DEF FindMachine, Query
  <2>2. Running' = Running
    BY <1>5 DEF FindMachine, Query, Call, podmanVars, Running
  <2>3. \/ EnsureMachine(me) = [me EXCEPT !.pc = "init"]
        \/ EnsureMachine(me) = [me EXCEPT !.pc = "start"]
        \/ Running /\ EnsureMachine(me) = EnterNets(me)
    BY DEF EnsureMachine, Running, TypeOK, PodmanTypeOK
  <2> QED
    BY <1>2, <2>1, <2>2, <2>3, BecomeElsewhere, EndElsewhere, EnterNetsCourse DEF ZoneLabels
<1>6. CASE InitMachine(p)
  <2>1. Become(p, [me EXCEPT !.pc = "start"]) \/ Become(p, ReturnError(me))
    BY <1>6, CallBecomes DEF InitMachine, PodmanCall
  <2> QED
    BY <1>2, <2>1, BecomeElsewhere, EndElsewhere DEF ZoneLabels
<1>7. CASE StartMachine(p)
  <2>1. \/ DoStart /\ Become(p, EnterNets(me))
        \/ Become(p, ReturnError(me))
    BY <1>7 DEF StartMachine, PodmanCall, Call
  <2>2. DoStart => Running'
    BY DEF DoStart, Running
  <2> QED
    BY <2>1, <2>2, BecomeElsewhere, EndElsewhere, EnterNetsCourse DEF ZoneLabels
<1> QED
  BY <1>3, <1>4, <1>5, <1>6, <1>7

\* Entering a zone, with the zones not to do any more in place.
LEMMA EnterZoneCourse ==
  ASSUME TypeOK, NEW p \in Proc, NEW zones \in SUBSET Role, zones # {},
         Become(p, EnterZone(proc[p], zones)), Running',
         NEW t \in Topologies, t = proc[p].top,
         \A r \in proc[p].roles :
           /\ NetworkExists(r)'
           /\ r \notin zones => \A w \in WorkloadsOf(t, r) : PodRight(t, r, w)'
  PROVE Course(proc[p])'
<1> DEFINE me == proc[p]
           it == EnterZone(me, zones)
<1>1. me \in Local /\ proc'[p] = it
  BY BecomeAlone DEF TypeOK
<1>2. it.pc = "zone" /\ it.roles = me.roles /\ it.top = t /\ it.zones = zones
  BY <1>1 DEF EnterZone, Local
<1>3. it.work = t.zone[First(zones)].workloads
  BY <1>1 DEF EnterZone, Local
<1> HIDE DEF it
<1>4. WorkLeft(it) = WorkloadsOf(t, First(zones))
  BY <1>3 DEF WorkLeft, WorkloadsOf
<1>5. ASSUME NEW r \in zones, NEW w \in WorkloadsOf(t, r)
      PROVE ToCome(it, r, w)
  BY <1>2, <1>4, <1>5 DEF ToCome
<1>6. PodsMade(proc[p])'
  <2>1. /\ proc'[p].roles = me.roles /\ proc'[p].top = t /\ proc'[p].zones = zones
        /\ WorkLeft(proc'[p]) = WorkloadsOf(t, First(zones))
    BY <1>1, <1>2, <1>4
  <2>2. \A r \in zones : \A w \in WorkloadsOf(t, r) : ToCome(proc'[p], r, w)
    BY <1>1, <1>5
  <2> QED
    BY <2>1, <2>2 DEF PodsMade, ToCome, WorkLeft
<1> QED
  BY <1>1, <1>2, <1>6 DEF Course

\* The networks, one after the other.
LEMMA NetworksCourse ==
  ASSUME TypeOK, PlaceOK, NEW p \in Proc, Course(proc[p]),
         FindNetwork(p) \/ CreateNetwork(p) \/ BeginZones(p)
  PROVE Course(proc[p])'
<1> DEFINE me == proc[p]
<1> PICK r : r = First(me.zones)
  OBVIOUS
<1> DEFINE next == [me EXCEPT !.pc = "nets", !.zones = @ \ {r}]
<1>1. me \in Local /\ me.pc \in {"nets", "mknet"}
  BY DEF TypeOK, FindNetwork, CreateNetwork, BeginZones, At
<1>2. NetsMade(me) /\ me.roles # {} /\ me.roles \in SUBSET Role
  BY <1>1 DEF Course, PlaceOK, Placed, UpLabels, Local
<1>3. ASSUME Become(p, next), Running',
             \A q \in me.roles : NetworkExists(q) => NetworkExists(q)', NetworkExists(r)'
      PROVE Course(proc[p])'
  <2>1. proc'[p] = next
    BY <1>3, BecomeAlone
  <2>2. /\ proc'[p].pc = "nets" /\ proc'[p].roles = me.roles
        /\ proc'[p].zones = me.zones \ {r}
    BY <1>1, <2>1 DEF Local
  <2>3. ASSUME NEW q \in me.roles
        PROVE q \in me.zones \ {r} \/ NetworkExists(q)'
    BY <1>2, <1>3 DEF NetsMade
  <2> QED
    BY <1>3, <2>2, <2>3 DEF Course, NetsMade, ZoneLabels
<1>4. CASE FindNetwork(p)
  <2>1. me.pc = "nets"
    BY <1>4 DEF FindNetwork, At
  <2>2. machine' = machine /\ nets' = nets
    BY <1>4 DEF FindNetwork, Query, Call, podmanVars
  <2>3. \/ NetworkExists(r) /\ Become(p, [me EXCEPT !.zones = @ \ {r}])
        \/ Become(p, [me EXCEPT !.pc = "mknet"])
        \/ Become(p, Idle("failed"))
    BY <1>4, CallBecomes DEF FindNetwork, Query
  <2>4. CASE NetworkExists(r) /\ Become(p, [me EXCEPT !.zones = @ \ {r}])
    <3>1. [me EXCEPT !.zones = @ \ {r}] = next
      BY <1>1, <2>1 DEF Local
    <3> QED
      BY <1>2, <1>3, <2>2, <2>4, <3>1 DEF NetsMade, Running, NetworkExists
  <2>5. CASE Become(p, [me EXCEPT !.pc = "mknet"])
    <3>1. proc'[p] = [me EXCEPT !.pc = "mknet"]
      BY <2>5, BecomeAlone
    <3>2. /\ proc'[p].pc = "mknet" /\ proc'[p].roles = me.roles
          /\ proc'[p].zones = me.zones
      BY <1>1, <3>1 DEF Local
    <3> QED
      BY <1>2, <2>2, <3>2 DEF Course, NetsMade, ZoneLabels, Running, NetworkExists
  <2> QED
    BY <2>3, <2>4, <2>5, BecomeElsewhere, EndElsewhere DEF ZoneLabels
<1>5. CASE CreateNetwork(p)
  <2>1. \/ DoCreateNetwork(r, me.top.zone[r].internal) /\ Become(p, next)
        \/ Become(p, Idle("failed"))
    BY <1>5 DEF CreateNetwork, PodmanCall, Call
  <2>2. CASE DoCreateNetwork(r, me.top.zone[r].internal) /\ Become(p, next)
    <3>1. r \in Role
      BY <1>1, <1>5, FirstLast DEF CreateNetwork, At, PlaceOK, Placed, Local
    <3>2. /\ machine' = machine
          /\ nets'[r] # "absent" /\ \A q \in Role : q # r => nets'[q] = nets[q]
      BY <2>2, <3>1 DEF DoCreateNetwork, NetworkKind, TypeOK, PodmanTypeOK
    <3>3. \A q \in me.roles : NetworkExists(q) => NetworkExists(q)'
      BY <1>2, <3>2 DEF NetworkExists
    <3>4. NetworkExists(r)' /\ Running'
      BY <1>2, <3>2 DEF NetworkExists, NetsMade, Running
    <3> QED
      BY <1>3, <2>2, <3>3, <3>4
  <2> QED
    BY <2>1, <2>2, BecomeElsewhere, EndElsewhere DEF ZoneLabels
<1>6. CASE BeginZones(p)
  <2>1. me.pc = "nets" /\ me.zones = {} /\ Become(p, EnterZone(me, me.roles))
        /\ machine' = machine /\ nets' = nets
    BY <1>6 DEF BeginZones, LocalStep, At, podmanVars
  <2>2. Running' /\ \A q \in me.roles : NetworkExists(q)'
    BY <1>2, <2>1 DEF NetsMade, Running, NetworkExists
  <2>3. me.top \in Topologies
    BY <1>1 DEF Local
  <2> QED
    BY <1>2, <2>1, <2>2, <2>3, EnterZoneCourse
<1> QED
  BY <1>4, <1>5, <1>6

\* Resolving, injecting and building: within a zone, and no pod is made.
LEMMA SecretsCourse ==
  ASSUME TypeOK, ItemsKept, NEW p \in Proc, Course(proc[p]),
         Resolve(p) \/ Mint(p) \/ Put(p) \/ FindingsEndZone(p) \/ Inject(p) \/ Build(p)
  PROVE Course(proc[p])'
<1> DEFINE me == proc[p]
           Same(it) == /\ it.pc \in ZoneLabels /\ it.roles = me.roles /\ it.top = me.top
                       /\ it.zones = me.zones /\ it.work = me.work
<1>1. me \in Local
  BY DEF TypeOK
<1>2. me.pc \in ZoneLabels
  BY DEF Resolve, Mint, Put, FindingsEndZone, Inject, Build, Injected, Resolved, At, ZoneLabels
<1>3. PodsStay
  <2>1. CASE Resolve(p) \/ Build(p) \/ FindingsEndZone(p)
    BY <2>1 DEF Resolve, Build, FindingsEndZone, Query, LocalStep, Call, podmanVars, PodsStay
  <2>2. CASE Mint(p)
    BY <2>2 DEF Mint, PodmanCall, Call, DoMint, podmanVars, PodsStay
  <2>3. CASE Put(p)
    BY <2>3 DEF Put, KeychainCall, Call, podmanVars, PodsStay
  <2>4. CASE Inject(p)
    BY <2>4 DEF Inject, PodmanCall, Call, DoStoreSecret, podmanVars, PodsStay
  <2> QED
    BY <2>1, <2>2, <2>3, <2>4
<1>4. \A s, v : /\ Same([me EXCEPT !.todo = @ \ {s}, !.got[s] = v])
                /\ Same([me EXCEPT !.todo = @ \ {s}, !.failed = TRUE])
                /\ Same([me EXCEPT !.got[s] = v])
                /\ Same([me EXCEPT !.pc = "mint"])
                /\ Same([me EXCEPT !.pc = "put", !.fresh = v])
                /\ Same([me EXCEPT !.pc = "zone", !.todo = @ \ {s}, !.failed = TRUE])
                /\ Same([me EXCEPT !.pc = "zone", !.todo = @ \ {s}, !.got[s] = v, !.fresh = None])
                /\ Same([me EXCEPT !.pc = "play"])
  BY <1>1, <1>2 DEF Local, ZoneLabels
<1> SUFFICES \E it : Become(p, it) /\ (Same(it) \/ it.pc = "idle")
  BY <1>2, <1>3, ZoneStays, BecomeElsewhere DEF ZoneLabels
<1> HIDE DEF Same
<1>5. CASE Resolve(p)
  BY <1>4, <1>5, CallBecomes, EndElsewhere DEF Resolve, Query
<1>6. CASE Mint(p) \/ Put(p)
  BY <1>4, <1>6, CallBecomes, EndElsewhere DEF Mint, Put, PutFails, PodmanCall, KeychainCall
<1>7. CASE FindingsEndZone(p)
  BY <1>7, EndElsewhere DEF FindingsEndZone, LocalStep
<1>8. CASE Inject(p) \/ Build(p)
  BY <1>4, <1>8, CallBecomes, EndElsewhere DEF Inject, Build, Query, PodmanCall
<1> QED
  BY <1>5, <1>6, <1>7, <1>8

\* What a pod is about to be played with is the keychain's.
PlaysKept(me) ==
  me.pc = "play" => \A s \in Uses[Head(me.work)] : FromKeychain(s, store[s])

\* A pod played with what the store holds is right, when the store matches.
LEMMA PlayedRight ==
  ASSUME TypeOK, NEW t \in Topologies, NEW r \in Role, NEW w \in Workload,
         \A s \in Uses[w] : FromKeychain(s, store[s]),
         CanPlay(w, Networks(t, r, w)), UNCHANGED items,
         DoPlay(w, Networks(t, r, w), t.zone[r].internal)
  PROVE PodRight(t, r, w)'
<1>1. Uses[w] \subseteq Secret /\ t.zone[r].bridges[w] \subseteq Role
  BY ZoneTypes, PodmanAssumption
<1> DEFINE env == [s \in Secret |-> IF s \in Uses[w] THEN store[s] ELSE None]
           pod == [up |-> TRUE, nets |-> Networks(t, r, w), userns |-> t.zone[r].internal,
                   env |-> env]
<1>2. pods'[w] = pod
  BY DEF DoPlay, TypeOK, PodmanTypeOK
<1>3. pods'[w] # None
  <2>1. env \in [Secret -> Maybe(Value)]
    BY DEF TypeOK, PodmanTypeOK, Maybe
  <2>2. Networks(t, r, w) \in SUBSET Role /\ t.zone[r].internal \in BOOLEAN
    BY <1>1, ZoneTypes DEF Networks
  <2> HIDE DEF env
  <2>3. pod \in Pod
    BY <2>1, <2>2 DEF Pod
  <2> QED
    BY <1>2, <2>3, PodAssumption
<1>4. pods'[w].nets = {q \in Role : q = r \/ q \in t.zone[r].bridges[w]}
  BY <1>1, <1>2 DEF Networks
<1>5. ASSUME NEW s \in Uses[w]
      PROVE IsSet(s)' /\ pods'[w].env[s] = items'[s].val
  <2>1. s \in Secret /\ store[s] # None /\ pods'[w].env[s] = store[s]
    BY <1>1, <1>2 DEF CanPlay
  <2> QED
    BY <2>1 DEF FromKeychain, IsSet
<1> QED
  BY <1>2, <1>3, <1>4, <1>5 DEF PodRight

\* The first of the work and the rest are all of it.
LEMMA HeadAndRest ==
  ASSUME NEW work \in Seq(Workload), work # <<>>
  PROVE /\ Head(work) \in {work[i] : i \in DOMAIN work}
        /\ {Tail(work)[i] : i \in DOMAIN Tail(work)} \subseteq {work[i] : i \in DOMAIN work}
        /\ \A v \in {work[i] : i \in DOMAIN work} :
             v # Head(work) => v \in {Tail(work)[i] : i \in DOMAIN Tail(work)}
<1> DEFINE n == Len(work)
           rest == Tail(work)
<1>1. n \in Nat /\ n # 0 /\ DOMAIN work = 1 .. n /\ Head(work) = work[1]
  BY EmptySeq, HeadTailProperties
<1>2. rest \in Seq(Workload) /\ Len(rest) = n - 1 /\ \A i \in 1 .. (n - 1) : rest[i] = work[i + 1]
  BY <1>1, HeadTailProperties
<1>3. DOMAIN rest = 1 .. (n - 1)
  BY <1>2
<1> HIDE DEF n, rest
<1>4. ASSUME NEW i \in 1 .. (n - 1)
      PROVE i + 1 \in 1 .. n
  BY <1>1
<1>5. ASSUME NEW i \in 1 .. n, i # 1
      PROVE i - 1 \in 1 .. (n - 1) /\ rest[i - 1] = work[i]
  <2>1. i - 1 \in 1 .. (n - 1) /\ (i - 1) + 1 = i
    BY <1>1, <1>5
  <2> QED
    BY <1>2, <2>1
<1>6. 1 \in 1 .. n
  BY <1>1
<1>7. Head(work) \in {work[i] : i \in DOMAIN work}
  BY <1>1, <1>6
<1>8. {rest[i] : i \in DOMAIN rest} \subseteq {work[i] : i \in DOMAIN work}
  BY <1>1, <1>2, <1>3, <1>4
<1>9. ASSUME NEW v \in {work[i] : i \in DOMAIN work}, v # Head(work)
      PROVE v \in {rest[i] : i \in DOMAIN rest}
  <2>1. PICK i \in 1 .. n : v = work[i]
    BY <1>1, <1>9
  <2>2. i # 1
    BY <1>1, <1>9, <2>1
  <2> QED
    BY <1>3, <1>5, <2>1, <2>2
<1> QED
  BY <1>7, <1>8, <1>9 DEF rest

\* Playing a pod: it is right then, and no other one is touched.
LEMMA PlayCourse ==
  ASSUME TypeOK, PlaceOK, ItemsKept, NEW p \in Proc, Course(proc[p]),
         Valid(proc[p].top), PlaysKept(proc[p]), Play(p)
  PROVE Course(proc[p])'
<1> DEFINE me == proc[p]
           it == [me EXCEPT !.pc = "zone", !.work = Tail(@)]
<1>1. me \in Local /\ me.pc = "play"
  BY DEF TypeOK, Play, At
<1>2. me.zones # {} /\ me.work # <<>>
  BY <1>1 DEF PlaceOK, Placed
<1>3. PICK r \in Role : r = First(me.zones)
  BY <1>1, <1>2, FirstLast DEF Local
<1>4. PICK w \in Workload : w = Head(me.work)
  BY <1>1, <1>2, HeadTailProperties DEF Local
<1>5. PICK t \in Topologies : t = me.top
  BY <1>1 DEF Local
<1>6. \/ /\ CanPlay(w, Networks(t, r, w))
         /\ DoPlay(w, Networks(t, r, w), t.zone[r].internal)
         /\ UNCHANGED keychainVars
         /\ Become(p, it)
      \/ Become(p, StepFails(me))
  BY <1>3, <1>4, <1>5 DEF Play, PodmanCall, Call
<1>7. ASSUME CanPlay(w, Networks(t, r, w)), UNCHANGED keychainVars, Become(p, it),
             DoPlay(w, Networks(t, r, w), t.zone[r].internal)
      PROVE Course(proc[p])'
  <2>1. PodsMade(me) /\ Valid(t)
    BY <1>1, <1>5 DEF Course, ZoneLabels
  <2>2. PodRight(t, r, w)'
    BY <1>1, <1>4, <1>7, PlayedRight DEF PlaysKept, keychainVars
  <2>3. /\ machine' = machine /\ nets' = nets
        /\ \A v \in Workload : v # w => pods'[v] = pods[v]
    BY <1>7 DEF DoPlay, TypeOK, PodmanTypeOK
  <2>4. /\ it.pc = "zone" /\ it.roles = me.roles /\ it.top = t
        /\ it.zones = me.zones /\ it.work = Tail(me.work)
    BY <1>1, <1>5 DEF Local
  <2> HIDE DEF it
  <2>5. /\ w \in WorkLeft(me) /\ WorkLeft(it) \subseteq WorkLeft(me)
        /\ \A v \in WorkLeft(me) : v # w => v \in WorkLeft(it)
    <3>1. me.work \in Seq(Workload)
      BY <1>1 DEF Local
    <3> QED
      BY <1>2, <1>4, <2>4, <3>1, HeadAndRest DEF WorkLeft
  <2>6. w \in WorkloadsOf(t, r) /\ WorkLeft(it) \subseteq WorkloadsOf(t, First(it.zones))
    BY <1>3, <1>5, <2>1, <2>4, <2>5 DEF PodsMade
  <2>7. ASSUME NEW q \in me.roles, NEW v \in WorkloadsOf(t, q)
        PROVE PodRight(t, q, v)' \/ ToCome(it, q, v)
    <3>1. q \in Role /\ v \in Workload /\ Uses[v] \subseteq Secret
      BY <1>1, WorkloadsKnown DEF Local
    <3>2. CASE v = w
      <4>1. q = r
        BY <2>1, <2>6, <2>7, <3>1, <3>2 DEF Valid, ListedOnce
      <4> QED
        BY <2>2, <3>2, <4>1
    <3>3. CASE v # w
      <4>1. PodRight(t, q, v) \/ ToCome(me, q, v)
        BY <1>5, <2>1 DEF PodsMade
      <4>2. ToCome(me, q, v) => ToCome(it, q, v)
        BY <2>4, <2>5, <3>3 DEF ToCome
      <4>3. pods'[v] = pods[v]
        BY <2>3, <3>1, <3>3
      <4>4. PodRight(t, q, v) => PodRight(t, q, v)'
        BY <3>1, <4>3, RightStays
      <4> QED
        BY <4>1, <4>2, <4>4
    <3> QED
      BY <3>2, <3>3
  <2>8. Running' /\ \A q \in me.roles : NetworkExists(q)'
    BY <2>1, <2>3 DEF PodsMade, Running, NetworkExists
  <2>9. proc'[p] = it
    BY <1>7, BecomeAlone
  <2>10. PodsMade(proc[p])'
    BY <2>4, <2>6, <2>7, <2>8, <2>9 DEF PodsMade, ToCome, WorkLeft
  <2> QED
    BY <2>4, <2>9, <2>10 DEF Course
<1> QED
  BY <1>6, <1>7, BecomeElsewhere, EndElsewhere DEF ZoneLabels

\* When the work of a zone is done, it is right, as are those before it.
LEMMA ZoneDone ==
  ASSUME NEW me, PodsMade(me), me.work = <<>>, NEW r \in me.roles,
         r \notin me.zones \/ r = First(me.zones), NEW w \in WorkloadsOf(me.top, r)
  PROVE PodRight(me.top, r, w)
<1>1. ~ToCome(me, r, w)
  BY DEF ToCome, WorkLeft
<1> QED
  BY <1>1 DEF PodsMade

\* The end of a zone, and the next one.
LEMMA ZoneEndCourse ==
  ASSUME TypeOK, PlaceOK, ItemsKept, NEW p \in Proc, Course(proc[p]), EndZone(p) \/ Ready(p)
  PROVE Course(proc[p])'
<1> DEFINE me == proc[p]
           left == me.zones \ {First(me.zones)}
<1>1. me \in Local /\ me.pc = "zone" /\ me.work = <<>>
  BY DEF TypeOK, EndZone, Ready, Injected, Resolved
<1>2. PodsStay
  BY DEF EndZone, Ready, Query, LocalStep, Call, podmanVars, PodsStay
<1>3. \/ Become(p, Applied(me)) \/ Become(p, StepFails(me))
  BY CallBecomes DEF EndZone, Ready, Query, LocalStep
<1>4. \/ Applied(me).pc = "idle"
      \/ left # {} /\ Applied(me) = EnterZone(me, left)
  BY EndElsewhere DEF Applied
<1>5. ASSUME left # {}, Become(p, EnterZone(me, left))
      PROVE Course(proc[p])'
  <2>1. PICK zones \in SUBSET Role : zones = left
    BY <1>1 DEF Local
  <2>2. PICK t \in Topologies : t = me.top
    BY <1>1 DEF Local
  <2>3. PodsMade(me)
    BY <1>1 DEF Course, ZoneLabels
  <2>4. Running' /\ \A r \in me.roles : NetworkExists(r)'
    BY <1>2, <2>3 DEF PodsStay, PodsMade, Running, NetworkExists
  <2>5. ASSUME NEW r \in me.roles, r \notin zones, NEW w \in WorkloadsOf(t, r)
        PROVE PodRight(t, r, w)'
    <3>1. PodRight(t, r, w)
      BY <1>1, <2>1, <2>2, <2>3, <2>5, ZoneDone
    <3>2. Uses[w] \subseteq Secret
      BY <1>1, WorkloadsKnown DEF Local
    <3> QED
      BY <1>2, <3>1, <3>2, RightStays DEF PodsStay
  <2> QED
    BY <1>5, <2>1, <2>2, <2>4, <2>5, EnterZoneCourse
<1> QED
  BY <1>3, <1>4, <1>5, BecomeElsewhere, EndElsewhere DEF ZoneLabels

\* No place of a down has anything of an up to say.
LEMMA DownNoCourse ==
  ASSUME NEW p \in Proc, OffStep(p)
  PROVE Course(proc[p])'
BY ElsewhereCourse DEF OffStep, NotUp, UpLabels, ZoneLabels

\* Every step of an up keeps what it has made.
LEMMA UpCourse ==
  ASSUME TypeOK, PlaceOK, ItemsKept, NEW p \in Proc, Course(proc[p]),
         Valid(proc[p].top), PlaysKept(proc[p]), UpStep(p)
  PROVE Course(proc[p])'
<1>1. CASE DescribeUser(p) \/ UserMissing(p) \/ FindMachine(p) \/ InitMachine(p) \/ StartMachine(p)
  BY <1>1, MachineCourse
<1>2. CASE FindNetwork(p) \/ CreateNetwork(p) \/ BeginZones(p)
  BY <1>2, NetworksCourse
<1>3. CASE Resolve(p) \/ Mint(p) \/ Put(p) \/ FindingsEndZone(p) \/ Inject(p) \/ Build(p)
  BY <1>3, SecretsCourse
<1>4. CASE Play(p)
  BY <1>4, PlayCourse
<1>5. CASE EndZone(p) \/ Ready(p)
  BY <1>5, ZoneEndCourse
<1> QED
  BY <1>1, <1>2, <1>3, <1>4, <1>5 DEF UpStep

\* No step breaks CourseOK, where one command runs at a time.
LEMMA StepCourse ==
  ASSUME NEW only, Proc = {only}, TypeOK, PlaceOK, Matched, RanOK, CourseOK, [Next]_vars
  PROVE CourseOK'
<1> SUFFICES Course(proc[only])'
  BY DEF CourseOK
<1>1. Course(proc[only]) /\ Ran(proc[only], Wiped) /\ proc[only] \in Local
  BY DEF CourseOK, RanOK, TypeOK
<1>2. CASE UNCHANGED vars
  BY <1>1, <1>2
     DEF vars, podmanVars, keychainVars, Course, NetsMade, PodsMade, PodRight, Running,
         NetworkExists, IsSet
<1>3. CASE Reboot
  BY <1>3, ElsewhereCourse DEF Reboot, Busy, Idle, ZoneLabels
<1>4. CASE Refuse(only) \/ SeesInterrupt(only) \/ Crash(only)
  BY <1>4, BecomeElsewhere, EndElsewhere DEF Refuse, SeesInterrupt, Crash, LocalStep, ZoneLabels
<1>5. CASE StartUp(only)
  <2>1. PICK job \in Jobs, t \in Topologies :
          Become(only, [Loaded(job, t) EXCEPT !.pc = "users", !.todo = UserSecrets(t, job.roles)])
    BY <1>5 DEF StartUp, LocalStep
  <2>2. [Loaded(job, t) EXCEPT !.pc = "users", !.todo = UserSecrets(t, job.roles)].pc = "users"
    BY DEF Loaded, Idle
  <2> QED
    BY <2>1, <2>2, BecomeElsewhere DEF ZoneLabels
<1>6. CASE StartDown(only)
  <2>1. PICK job \in Jobs, t \in Topologies :
          Become(only, [Loaded(job, t) EXCEPT !.pc = "list"])
    BY <1>6 DEF StartDown, LocalStep
  <2>2. [Loaded(job, t) EXCEPT !.pc = "list"].pc = "list"
    BY DEF Loaded, Idle
  <2> QED
    BY <2>1, <2>2, BecomeElsewhere DEF ZoneLabels
<1>7. CASE UpStep(only)
  <2>1. proc[only].pc \in UpLabels
    BY <1>7, UpPlaces
  <2>2. ~DeleteMinted(only) /\ Valid(proc[only].top)
    BY <1>1, <2>1 DEF DeleteMinted, At, UpLabels, Ran
  <2>3. PlaysKept(proc[only])
    <3>1. proc[only].pc = "play" => Head(proc[only].work) \in Workload
      BY <1>1, HeadTailProperties DEF PlaceOK, Placed, Local
    <3> QED
      BY <3>1, PodmanAssumption DEF PlaysKept, Matched
  <2> QED
    BY <1>1, <1>7, <2>2, <2>3, OthersKeepItems, UpCourse
<1>8. CASE DownStep(only)
  BY <1>8, DownNotUp, DownNoCourse
<1>9. CASE Interrupt(only)
  <2> DEFINE me == proc[only]
             it == [me EXCEPT !.cancelled = TRUE]
  <2>1. /\ proc'[only] = it /\ PodsStay /\ ItemsKept
        /\ UNCHANGED <<machine, nets, pods, items>>
    BY <1>9, BecomeAlone
       DEF Interrupt, podmanVars, keychainVars, PodsStay, ItemsKept
  <2>2. /\ it.pc = me.pc /\ it.roles = me.roles /\ it.top = me.top
        /\ it.zones = me.zones /\ it.work = me.work
    BY <1>1 DEF Local
  <2>3. CASE me.pc \in ZoneLabels
    BY <1>1, <1>9, <2>1, <2>2, <2>3, ZoneStays DEF Interrupt
  <2>4. CASE me.pc \notin ZoneLabels
    BY <1>1, <2>1, <2>2, <2>4 DEF Course, NetsMade, Running, NetworkExists
  <2> QED
    BY <2>3, <2>4
<1> QED
  BY <1>2, <1>3, <1>4, <1>5, <1>6, <1>7, <1>8, <1>9 DEF Next, Start, Step

-----------------------------------------------------------------------------
(* The networks: a network is made as some lclaw.toml declares it          *)

NetsDeclared == \A r \in Role : NetworkExists(r) => nets[r] \in DeclaredKinds(r)

\* Networks are let alone, or one goes, or all, or one is made as t has it.
NetsGo == \A r \in Role : nets'[r] \in {nets[r], "absent"}
NetsMove ==
  \/ NetsGo
  \/ \E t \in Topologies : \E r : DoCreateNetwork(r, t.zone[r].internal)

\* Networks that move so stay declared.
LEMMA MovedNets ==
  ASSUME TypeOK, NetsDeclared, NetsMove
  PROVE NetsDeclared'
<1>1. CASE NetsGo
  BY <1>1 DEF NetsGo, NetsDeclared, DeclaredKinds, NetworkExists
<1>2. ASSUME NEW t \in Topologies, NEW r, DoCreateNetwork(r, t.zone[r].internal)
      PROVE NetsDeclared'
  <2>1. \A q \in Role :
          nets'[q] = IF q = r THEN NetworkKind(t.zone[r].internal) ELSE nets[q]
    BY <1>2 DEF DoCreateNetwork, TypeOK, PodmanTypeOK
  <2> QED
    BY <2>1 DEF NetsDeclared, DeclaredKinds, NetworkExists
<1> QED
  BY <1>1, <1>2 DEF NetsMove

\* Steps that leave the networks alone, and the ones that take them away.
LEMMA NetsAlone == UNCHANGED nets => NetsMove
BY DEF NetsMove, NetsGo

\* up makes networks as its lclaw.toml has them.
LEMMA UpNets ==
  ASSUME TypeOK, NEW p \in Proc, UpStep(p)
  PROVE NetsMove
<1>1. proc[p].top \in Topologies
  BY DEF TypeOK, Local
<1>2. CASE DescribeUser(p) \/ UserMissing(p) \/ FindMachine(p)
  BY <1>2, NetsAlone
     DEF DescribeUser, UserMissing, FindMachine, Query, Call, LocalStep, podmanVars
<1>3. CASE InitMachine(p) \/ StartMachine(p)
  BY <1>3, NetsAlone
     DEF InitMachine, StartMachine, PodmanCall, Call, DoInit, DoStart, podmanVars
<1>4. CASE FindNetwork(p) \/ BeginZones(p)
  BY <1>4, NetsAlone DEF FindNetwork, BeginZones, Query, Call, LocalStep, podmanVars
<1>5. CASE CreateNetwork(p)
  <2>1. \/ UNCHANGED nets
        \/ DoCreateNetwork(First(proc[p].zones), proc[p].top.zone[First(proc[p].zones)].internal)
    BY <1>5 DEF CreateNetwork, PodmanCall, Call, podmanVars
  <2> QED
    BY <1>1, <2>1, NetsAlone DEF NetsMove
<1>6. CASE Resolve(p) \/ FindingsEndZone(p) \/ Build(p)
  BY <1>6, NetsAlone DEF Resolve, FindingsEndZone, Build, Query, Call, LocalStep, podmanVars
<1>7. CASE Mint(p) \/ Put(p)
  BY <1>7, NetsAlone DEF Mint, Put, PodmanCall, KeychainCall, Call, DoMint, podmanVars
<1>8. CASE Inject(p)
  BY <1>8, NetsAlone DEF Inject, PodmanCall, Call, DoStoreSecret, podmanVars
<1>9. CASE Play(p)
  BY <1>9, NetsAlone DEF Play, PodmanCall, Call, DoPlay, DoDown, podmanVars
<1>10. CASE EndZone(p) \/ Ready(p)
  BY <1>10, NetsAlone DEF EndZone, Ready, Query, Call, LocalStep, podmanVars
<1> QED
  BY <1>2, <1>3, <1>4, <1>5, <1>6, <1>7, <1>8, <1>9, <1>10 DEF UpStep

\* down only takes networks away.
LEMMA DownNets ==
  ASSUME TypeOK, NEW p \in Proc, DownStep(p)
  PROVE NetsMove
<1>1. CASE ListMachine(p) \/ SnapshotPods(p) \/ SkipAbsent(p)
  BY <1>1, NetsAlone
     DEF ListMachine, SnapshotPods, SkipAbsent, Query, Call, LocalStep, podmanVars
<1>2. CASE KubeDown(p)
  BY <1>2, NetsAlone DEF KubeDown, PodmanCall, Call, DoDown, podmanVars
<1>3. CASE KeepNetwork(p) \/ FindOldNetwork(p) \/ KeepStore(p)
  BY <1>3, NetsAlone
     DEF KeepNetwork, FindOldNetwork, KeepStore, Query, Call, LocalStep, podmanVars
<1>4. CASE RemoveNetwork(p)
  <2>1. UNCHANGED nets \/ DoRemoveNetwork(Last(proc[p].zones))
    BY <1>4 DEF RemoveNetwork, PodmanCall, Call, podmanVars
  <2> QED
    BY <2>1, NetsAlone DEF NetsMove, NetsGo, DoRemoveNetwork, TypeOK, PodmanTypeOK
<1>5. CASE ListStored(p) \/ FindMinted(p) \/ Forgotten(p)
  BY <1>5, NetsAlone DEF ListStored, FindMinted, Forgotten, Query, Call, LocalStep, podmanVars
<1>6. CASE RemoveSecret(p) \/ RemoveVolume(p)
  BY <1>6, NetsAlone
     DEF RemoveSecret, RemoveVolume, PodmanCall, Call, DoRemoveSecret, DoRemoveVolume, podmanVars
<1>7. CASE StopMachine(p)
  BY <1>7, NetsAlone DEF StopMachine, PodmanCall, Call, DoStop, podmanVars
<1>8. CASE RemoveMachine(p)
  <2>1. UNCHANGED nets \/ DoRemove
    BY <1>8 DEF RemoveMachine, PodmanCall, Call, podmanVars
  <2> QED
    BY <2>1, NetsAlone DEF NetsMove, NetsGo, DoRemove
<1>9. CASE DeleteMinted(p)
  BY <1>9, NetsAlone DEF DeleteMinted, KeychainCall, Call, podmanVars
<1> QED
  BY <1>1, <1>2, <1>3, <1>4, <1>5, <1>6, <1>7, <1>8, <1>9 DEF DownStep

\* Every step of up and down keeps the networks declared.
LEMMA StepNets ==
  ASSUME TypeOK, NetsDeclared, [Next]_vars
  PROVE NetsDeclared'
<1>1. ASSUME NEW p \in Proc, Start(p) \/ SeesInterrupt(p) \/ Interrupt(p) \/ Crash(p)
      PROVE UNCHANGED nets
  BY <1>1 DEF Start, Refuse, StartUp, StartDown, SeesInterrupt, Interrupt, Crash, LocalStep,
              podmanVars
<1>2. CASE Reboot
  BY <1>2, NetsAlone, MovedNets DEF Reboot, DoStop
<1>3. CASE UNCHANGED vars
  BY <1>3, NetsAlone, MovedNets DEF vars, podmanVars
<1> QED
  BY <1>1, <1>2, <1>3, UpNets, DownNets, NetsAlone, MovedNets DEF Next, Step

\* They are at the start, when there are none.
LEMMA StartNets == Init => NetsDeclared
BY DEF Init, CommandInit, PodmanInit, NetsDeclared, NetworkExists

-----------------------------------------------------------------------------
(* All of it                                                               *)

\* What an up with one command at a time counts on.
UpOK == BareOK /\ Matched /\ CourseOK /\ NetsDeclared

\* UpOK holds at the start and is kept.
LEMMA UpInvariance ==
  ASSUME NEW only, Proc = {only}
  PROVE Spec => []UpOK
<1>1. Init => UpOK
  <2>1. Init => BareOK
    BY OffDownBare DEF Init, CommandInit, Idle, BareOK
  <2>2. Init => Matched
    BY DEF Init, CommandInit, PodmanInit, Idle, NoneGot, Matched, FromKeychain
  <2>3. Init => CourseOK
    BY DEF Init, CommandInit, Idle, CourseOK, Course, ZoneLabels
  <2> QED
    BY <2>1, <2>2, <2>3, StartNets DEF UpOK
<1>2. TypeOK /\ PlaceOK /\ RanOK /\ UpOK /\ [Next]_vars => UpOK'
  <2>1. TypeOK /\ PlaceOK /\ RanOK /\ UpOK /\ [Next]_vars => BareOK'
    BY StepBare DEF UpOK
  <2>2. TypeOK /\ PlaceOK /\ RanOK /\ UpOK /\ [Next]_vars => Matched'
    BY StepMatched DEF UpOK
  <2>3. TypeOK /\ PlaceOK /\ RanOK /\ UpOK /\ [Next]_vars => CourseOK'
    BY StepCourse DEF UpOK
  <2> QED
    BY <2>1, <2>2, <2>3, StepNets DEF UpOK
<1> QED
  BY <1>1, <1>2, RanInvariance, Invariance, PTL DEF Spec

-----------------------------------------------------------------------------
(* The end of an up                                                        *)

\* Not the end of a command that exits 0.
NotOk(it) == it.pc # "idle" \/ it.exit # "ok"

\* A command that ends with an error does not.
LEMMA ErrorNotOk ==
  ASSUME NEW me
  PROVE /\ \A c : c # "ok" => NotOk(Idle(c))
        /\ NotOk(ReturnError(me)) /\ NotOk(ZoneFails(me)) /\ NotOk(StepFails(me))
        /\ me.failed => NotOk(Report(me))
BY DEF NotOk, Idle, ReturnError, ZoneFails, StepFails, Report

\* An up ends with "ok" at the end of its last zone only.
LEMMA UpEndsWhere ==
  ASSUME TypeOK, NEW p \in Proc, UpStep(p), ~NotOk(proc'[p])
  PROVE /\ EndZone(p) \/ Ready(p)
        /\ proc[p].zones \subseteq {First(proc[p].zones)}
<1> DEFINE me == proc[p]
<1>1. me \in Local /\ me.pc \in UpLabels
  BY UpPlaces DEF TypeOK
<1>2. \A it : Become(p, it) => proc'[p] = it
  BY DEF TypeOK, Become
<1>3. ASSUME \E it : Become(p, it) /\ NotOk(it)
      PROVE FALSE
  BY <1>2, <1>3
<1>4. \A s, v :
        /\ NotOk([me EXCEPT !.pc = "init"]) /\ NotOk([me EXCEPT !.pc = "start"])
        /\ NotOk([me EXCEPT !.pc = "mknet"]) /\ NotOk([me EXCEPT !.pc = "mint"])
        /\ NotOk([me EXCEPT !.pc = "play"])
        /\ NotOk([me EXCEPT !.pc = "put", !.fresh = v])
        /\ NotOk([me EXCEPT !.pc = "nets", !.zones = @ \ {v}])
        /\ NotOk([me EXCEPT !.pc = "zone", !.work = Tail(@)])
        /\ NotOk([me EXCEPT !.pc = "zone", !.todo = @ \ {s}, !.failed = TRUE])
        /\ NotOk([me EXCEPT !.pc = "zone", !.todo = @ \ {s}, !.got[s] = v, !.fresh = None])
  BY <1>1 DEF NotOk, Local
<1>5. \A s, v :
        /\ NotOk([me EXCEPT !.todo = @ \ {s}, !.failed = v])
        /\ NotOk([me EXCEPT !.zones = @ \ {v}])
        /\ NotOk([me EXCEPT !.todo = @ \ {s}, !.got[s] = v])
        /\ NotOk([me EXCEPT !.got[s] = v])
  BY <1>1 DEF NotOk, Local, UpLabels
<1>6. NotOk(EnterNets(me)) /\ \A zones : NotOk(EnterZone(me, zones))
  BY <1>1 DEF NotOk, EnterNets, EnterZone, Local
<1>7. ~DescribeUser(p)
  <2>1. SUFFICES ASSUME DescribeUser(p) PROVE FALSE
    OBVIOUS
  <2>2. PICK s \in me.todo :
          \/ Become(p, [me EXCEPT !.todo = @ \ {s}, !.failed = @ \/ ~IsSet(s)])
          \/ Become(p, ReturnError(me))
    BY <2>1, CallBecomes DEF DescribeUser, Query
  <2>3. NotOk([me EXCEPT !.todo = @ \ {s}, !.failed = @ \/ ~IsSet(s)])
    BY <1>1 DEF NotOk, Local, UpLabels
  <2> QED
    BY <1>3, <2>2, <2>3, ErrorNotOk
<1>8. ~UserMissing(p) /\ ~FindingsEndZone(p)
  BY <1>3, ErrorNotOk DEF UserMissing, FindingsEndZone, LocalStep
<1>9. ~FindMachine(p)
  <2>1. NotOk(EnsureMachine(me))
    BY <1>4, <1>6 DEF EnsureMachine, TypeOK, PodmanTypeOK
  <2> QED
    BY <1>3, <2>1, CallBecomes, ErrorNotOk DEF FindMachine, Query
<1>10. ~InitMachine(p) /\ ~StartMachine(p)
  BY <1>3, <1>4, <1>6, CallBecomes, ErrorNotOk DEF InitMachine, StartMachine, PodmanCall
<1>11. ~FindNetwork(p) /\ ~CreateNetwork(p) /\ ~BeginZones(p)
  BY <1>3, <1>4, <1>5, <1>6, CallBecomes, ErrorNotOk
     DEF FindNetwork, CreateNetwork, BeginZones, Query, PodmanCall, LocalStep
<1>12. ~Resolve(p)
  BY <1>3, <1>4, <1>5, CallBecomes, ErrorNotOk DEF Resolve, Query
<1>13. ~Mint(p) /\ ~Put(p)
  BY <1>3, <1>4, CallBecomes, ErrorNotOk DEF Mint, Put, PutFails, PodmanCall, KeychainCall
<1>14. ~Inject(p) /\ ~Build(p)
  BY <1>3, <1>4, <1>5, CallBecomes, ErrorNotOk DEF Inject, Build, Query, PodmanCall
<1>15. ~Play(p)
  BY <1>3, <1>4, CallBecomes, ErrorNotOk DEF Play, PodmanCall
<1>16. EndZone(p) \/ Ready(p)
  BY <1>7, <1>8, <1>9, <1>10, <1>11, <1>12, <1>13, <1>14, <1>15 DEF UpStep
<1>17. Become(p, Applied(me)) \/ Become(p, StepFails(me))
  BY <1>16, CallBecomes DEF EndZone, Ready, Query, LocalStep
<1>18. me.zones \ {First(me.zones)} # {} => NotOk(Applied(me))
  BY <1>6, ErrorNotOk DEF Applied
<1> QED
  BY <1>3, <1>16, <1>17, <1>18, ErrorNotOk

\* There, every zone is delivered.
LEMMA UpEndDelivers ==
  ASSUME TypeOK, NetsDeclared, NEW p \in Proc, Course(proc[p]), UpStep(p),
         ~NotOk(proc'[p])
  PROVE Running /\ \A r \in proc[p].roles : Delivered(proc[p].top, r)
<1> DEFINE me == proc[p]
<1>1. /\ EndZone(p) \/ Ready(p)
      /\ me.zones \subseteq {First(me.zones)}
  BY UpEndsWhere
<1>2. me.pc = "zone" /\ me.work = <<>>
  BY <1>1 DEF EndZone, Ready, Injected, Resolved
<1>3. PodsMade(me)
  BY <1>2 DEF Course, ZoneLabels
<1>4. ASSUME NEW r \in me.roles
      PROVE Delivered(me.top, r)
  <2>1. \A w \in WorkloadsOf(me.top, r) : PodRight(me.top, r, w)
    BY <1>1, <1>2, <1>3, ZoneDone
  <2>2. nets[r] \in DeclaredKinds(r)
    BY <1>3 DEF PodsMade, NetsDeclared, TypeOK, Local
  <2> QED
    BY <2>1, <2>2 DEF PodRight, Delivered
<1> QED
  BY <1>3, <1>4 DEF PodsMade

\* Every step of a process moves it alone.
LEMMA MovesAlone ==
  ASSUME TypeOK, NEW p \in Proc, Start(p) \/ Step(p) \/ Interrupt(p) \/ Crash(p)
  PROVE Alone(p)
<1>1. CASE Start(p)
  BY <1>1, BecomeAlone DEF Start, Refuse, StartUp, StartDown, LocalStep
<1>2. CASE SeesInterrupt(p) \/ Interrupt(p) \/ Crash(p)
  BY <1>2, BecomeAlone DEF SeesInterrupt, Interrupt, Crash, LocalStep
<1>3. CASE DescribeUser(p)
  BY <1>3, CallBecomes, BecomeAlone DEF DescribeUser, Query
<1>4. CASE UpStep(p) /\ ~DescribeUser(p)
  BY <1>4, UpSameJob DEF JobStep
<1>5. CASE DownStep(p)
  BY <1>5, DownBareStep
<1> QED
  BY <1>1, <1>2, <1>3, <1>4, <1>5 DEF Step

\* What ends a command with "ok" is a step of its process.
LEMMA EndsByItself ==
  ASSUME TypeOK, NEW p \in Proc, NEW cmd, EndsOk(p, cmd), Next
  PROVE UpStep(p) \/ DownStep(p)
<1> DEFINE me == proc[p]
<1>1. /\ me \in Local /\ me.pc # "idle"
      /\ proc'[p].pc = "idle" /\ proc'[p].exit = "ok"
  BY DEF TypeOK, EndsOk, Busy
<1>2. \A it : Become(p, it) => proc'[p] = it
  BY DEF TypeOK, Become
<1>3. ~Start(p)
  BY <1>1 DEF Start, Refuse, StartUp, StartDown, At
<1>4. ~SeesInterrupt(p) /\ ~Crash(p) /\ ~Interrupt(p)
  <2>1. [me EXCEPT !.cancelled = TRUE].pc # "idle"
    BY <1>1 DEF Local
  <2>2. ~Interrupt(p)
    BY <1>1, <1>2, <2>1 DEF Interrupt
  <2>3. Idle("interrupted").exit # "ok" /\ Idle("crashed").exit # "ok"
    BY DEF Idle
  <2> QED
    BY <1>1, <1>2, <2>2, <2>3 DEF SeesInterrupt, Crash, LocalStep
<1>5. ~Reboot
  BY <1>1 DEF Reboot, Busy, Idle
<1>6. ASSUME NEW q \in Proc, Start(q) \/ Step(q) \/ Interrupt(q) \/ Crash(q)
      PROVE Become(q, proc'[q])
  BY <1>6, MovesAlone DEF Alone
<1>7. \A q \in Proc : Become(q, proc'[q]) /\ q # p => proc'[p] = proc[p]
  BY DEF Become, TypeOK
<1> QED
  BY <1>1, <1>3, <1>4, <1>5, <1>6, <1>7 DEF Next, Step

\* There, every zone is delivered, where one command runs at a time.
LEMMA EndDelivers ==
  ASSUME NEW only, Proc = {only}, TypeOK, RanOK, UpOK, [Next]_vars
  PROVE [\A p \in Proc : EndsOk(p, "up") =>
           /\ Running
           /\ \A r \in proc[p].roles : Delivered(proc[p].top, r)]_vars
<1> SUFFICES ASSUME NEW p \in Proc, EndsOk(p, "up"), ~UNCHANGED vars
             PROVE Running /\ \A r \in proc[p].roles : Delivered(proc[p].top, r)
  OBVIOUS
<1>1. ~DownStep(p)
  BY DownPlaces DEF UpOK, BareOK, Bare, EndsOk
<1>2. UpStep(p)
  BY <1>1, EndsByItself
<1>3. Course(proc[p]) /\ NetsDeclared /\ ~NotOk(proc'[p])
  BY DEF UpOK, CourseOK, EndsOk, NotOk
<1> QED
  BY <1>2, <1>3, UpEndDelivers

\* Where one command runs at a time, an up that exits 0 leaves the machine
\* running and the workloads of every zone it was given as lclaw.toml describes
\* them: each pod up, on its networks and with the keychain's values, whatever
\* earlier runs left half done and whatever failed or restarted on the way. The
\* zone's network is there, internal or not as some lclaw.toml had it: an edit
\* of `internal` does not reach a network that was made before.
THEOREM UpHasDelivered ==
  ASSUME NEW only, Proc = {only}
  PROVE Spec => UpDelivers
<1>1. TypeOK /\ RanOK /\ UpOK /\ [Next]_vars =>
        [\A p \in Proc : EndsOk(p, "up") =>
           /\ Running
           /\ \A r \in proc[p].roles : Delivered(proc[p].top, r)]_vars
  BY EndDelivers
<1> QED
  BY <1>1, RanInvariance, UpInvariance, Invariance, PTL DEF Spec, UpDelivers

-----------------------------------------------------------------------------
(* As long as nothing was disturbed. None of the three properties below is *)
(* inductive; Sound is: a pod has its key from the store, which has it     *)
(* from the keychain (Matched), so the keychain's minted items must be     *)
(* known too, but for those a destroy is about to forget; a volume has its *)
(* secret's name, so the store must list what the volumes hold, but for    *)
(* the one a purge has just removed; and a down must not come to stop the  *)
(* machine by the way of a failure.                                        *)

\* Nothing was disturbed so far.
Calm == budget = MaxFaults

\* A pod that is there runs, with keys LiteLLM knows.
PodsSound ==
  \A w \in ListPods :
    /\ pods[w].up
    /\ \A s \in Minted : pods[w].env[s] # None => pods[w].env[s] \in keys

\* A machine that is off has no pod, no secret and no volume of one.
OffIsEmpty ==
  ~Running => ListPods = {} /\ \A s \in Secret : store[s] = None /\ vols[s] = None

ItemsInFile == \A s \in Secret : IsSet(s) => kcFile

\* LiteLLM knows the keychain's keys, but for those me is about to forget.
KeysKnown(me) ==
  \A s \in Minted : IsSet(s) =>
    items[s].val \in keys \/ (me.pc \in {"forget", "delitem"} /\ s \in me.todo)

\* The store lists what the volumes hold, but for the one me is about to remove.
VolsListed(me) ==
  \A s \in Secret : vols[s] # None =>
    store[s] # None \/ (me.pc = "purgevol" /\ IsFirst(s, me.todo))

\* Where a down counts on a machine that runs.
OnMachineLabels == {"pods", "down", "rmnet", "purge", "purgevol"}

\* What a command that nothing disturbed can count on at its place.
Placid(me) ==
  /\ ~me.cancelled /\ me.pc # "stop"
  /\ me.pc \in OnMachineLabels => Running
  /\ me.pc = "purge" => me.todo = ListSecrets
  /\ me.pc = "purgevol" =>
       \A s \in me.todo : IsFirst(s, me.todo) => ListSecrets = me.todo \ {s}
  /\ me.pc = "put" => \A s \in Minted : IsFirst(s, me.todo) => me.fresh \in keys
  /\ me.pc = "delitem" => \A s \in me.todo : IsFirst(s, me.todo) => IsSet(s)

Sound(me) ==
  PodsSound /\ OffIsEmpty /\ ItemsInFile /\ KeysKnown(me) /\ VolsListed(me) /\ Placid(me)

SoundOK == Calm => \A p \in Proc : Sound(proc[p])

-----------------------------------------------------------------------------
(* Undisturbed steps                                                       *)

\* A step leaves the budget or takes one from it.
Spends == budget' = budget \/ budget' = budget - 1

\* So does every call.
LEMMA CallSpends ==
  ASSUME NEW p \in Proc, NEW ACTION can, NEW ACTION effect,
         NEW ACTION done, NEW ACTION failure
  PROVE /\ PodmanCall(p, can, effect, done, failure) => Spends
        /\ KeychainCall(p, can, effect, done, failure) => Spends
        /\ Query(p, can, done, failure) => Spends
        /\ LocalStep(p, done) => Spends
BY DEF PodmanCall, KeychainCall, Query, Call, Disturbed, LocalStep, Spends

\* And every step: nothing gives a disturbance back.
LEMMA StepSpends ==
  ASSUME [Next]_vars
  PROVE Spends
<1>1. CASE UNCHANGED vars \/ Reboot
  BY <1>1 DEF vars, Reboot, Disturb, Spends
<1>2. ASSUME NEW p \in Proc, Start(p) \/ SeesInterrupt(p) \/ Interrupt(p) \/ Crash(p)
      PROVE Spends
  BY <1>2, CallSpends DEF Start, Refuse, StartUp, StartDown, SeesInterrupt,
                          Interrupt, Crash, Disturb, Spends
<1>3. ASSUME NEW p \in Proc, UpStep(p)
      PROVE Spends
  <2>1. CASE Resolve(p)
    BY <2>1, CallSpends DEF Resolve
  <2>2. CASE Mint(p) \/ Inject(p) \/ Put(p)
    BY <2>2, CallSpends DEF Mint, Inject, Put
  <2>3. CASE Play(p)
    BY <2>3, CallSpends DEF Play, Disturbed, Spends
  <2>4. CASE DescribeUser(p) \/ UserMissing(p) \/ FindMachine(p) \/ InitMachine(p)
             \/ StartMachine(p) \/ FindNetwork(p) \/ CreateNetwork(p) \/ BeginZones(p)
    BY <2>4, CallSpends
       DEF DescribeUser, UserMissing, FindMachine, InitMachine, StartMachine,
           FindNetwork, CreateNetwork, BeginZones
  <2>5. CASE FindingsEndZone(p) \/ Build(p) \/ EndZone(p) \/ Ready(p)
    BY <2>5, CallSpends DEF FindingsEndZone, Build, EndZone, Ready
  <2> QED
    BY <1>3, <2>1, <2>2, <2>3, <2>4, <2>5 DEF UpStep
<1>4. ASSUME NEW p \in Proc, DownStep(p)
      PROVE Spends
  <2>1. CASE ListMachine(p) \/ SnapshotPods(p) \/ SkipAbsent(p) \/ KubeDown(p)
             \/ KeepNetwork(p) \/ FindOldNetwork(p) \/ RemoveNetwork(p)
    BY <2>1, CallSpends
       DEF ListMachine, SnapshotPods, SkipAbsent, KubeDown, KeepNetwork,
           FindOldNetwork, RemoveNetwork
  <2>2. CASE KeepStore(p) \/ ListStored(p) \/ RemoveSecret(p) \/ RemoveVolume(p)
             \/ StopMachine(p) \/ RemoveMachine(p) \/ FindMinted(p) \/ DeleteMinted(p)
             \/ Forgotten(p)
    BY <2>2, CallSpends
       DEF KeepStore, ListStored, RemoveSecret, RemoveVolume, StopMachine,
           RemoveMachine, FindMinted, DeleteMinted, Forgotten
  <2> QED
    BY <1>4, <2>1, <2>2 DEF DownStep
<1> QED
  BY <1>1, <1>2, <1>3, <1>4 DEF Next, Step

\* A state nothing disturbed comes from one, by a step nothing disturbed.
LEMMA CalmBefore ==
  ASSUME TypeOK, Spends, Calm'
  PROVE Calm /\ UNCHANGED budget
BY CommandAssumption DEF TypeOK, Spends, Calm

\* It disturbs no call, so that each has its effect or is refused.
LEMMA CalmCall ==
  ASSUME TypeOK, UNCHANGED budget, NEW p \in Proc, ~proc[p].cancelled
  PROVE ~Disturbed(proc[p])
BY CommandAssumption DEF TypeOK, Disturbed

\* Two secrets are never both first.
LEMMA OneFirst ==
  ASSUME NEW names \in SUBSET Secret, NEW s, NEW u, IsFirst(s, names), IsFirst(u, names)
  PROVE s = u
<1>1. s \in Secret /\ u \in Secret /\ NameRank[s] \in Int /\ NameRank[u] \in Int
  BY SecretAssumption DEF IsFirst
<1>2. NameRank[s] = NameRank[u]
  BY <1>1 DEF IsFirst
<1> QED
  BY <1>1, <1>2, SecretAssumption

-----------------------------------------------------------------------------
(* What an effect leaves of it                                             *)

\* The part that is about no process, where no purge or destroy is half done.
StateSound ==
  /\ PodsSound /\ OffIsEmpty /\ ItemsInFile
  /\ \A s \in Minted : IsSet(s) => items[s].val \in keys
  /\ \A s \in Secret : vols[s] # None => store[s] # None

\* It is what Sound says at all places but three ...
LEMMA SoundState ==
  ASSUME NEW me, Sound(me), me.pc \notin {"purgevol", "forget", "delitem"}
  PROVE StateSound
BY DEF Sound, StateSound, KeysKnown, VolsListed

\* ... and with Placid all it says.
LEMMA StateThenSound ==
  ASSUME NEW p \in Proc, StateSound', Placid(proc[p])'
  PROVE Sound(proc[p])'
BY DEF Sound, StateSound, KeysKnown, VolsListed

\* Most places have nothing to count on.
LEMMA PlainPlacid ==
  ASSUME NEW p \in Proc, ~proc'[p].cancelled,
         proc'[p].pc \notin OnMachineLabels \union {"stop", "put", "delitem"}
  PROVE Placid(proc[p])'
BY DEF Placid, OnMachineLabels

\* No effect, nothing lost.
LEMMA SameState ==
  ASSUME StateSound, UNCHANGED <<podmanVars, keychainVars>>
  PROVE StateSound'
BY DEF podmanVars, keychainVars, StateSound, PodsSound, OffIsEmpty, ItemsInFile,
       Running, ListPods, IsSet

\* Effects on the machine and its networks, a key minted, a pod gone.
LEMMA MachineSound ==
  ASSUME TypeOK, StateSound, UNCHANGED keychainVars,
         \/ CanInit /\ DoInit
         \/ DoStart
         \/ \E r \in Role : DoRemoveNetwork(r) \/ \E i \in BOOLEAN : DoCreateNetwork(r, i)
         \/ \E k \in KeyValue : DoMint(k)
         \/ \E w \in Workload : DoDown(w)
  PROVE StateSound'
<1>1. ListPods' \subseteq ListPods /\ \A w \in ListPods' : pods'[w] = pods[w]
  BY DEF DoInit, DoStart, DoRemoveNetwork, DoCreateNetwork, DoMint, DoDown, ListPods,
         TypeOK, PodmanTypeOK
<1>2. keys \subseteq keys' /\ store' = store /\ vols' = vols /\ items' = items /\ kcFile' = kcFile
  BY DEF DoInit, DoStart, DoRemoveNetwork, DoCreateNetwork, DoMint, DoDown, keychainVars
<1>3. ~Running' => ~Running
  BY DEF DoInit, DoStart, DoRemoveNetwork, DoCreateNetwork, DoMint, DoDown, CanInit, Running
<1>4. PodsSound'
  BY <1>1, <1>2 DEF StateSound, PodsSound
<1>5. OffIsEmpty'
  BY <1>1, <1>2, <1>3 DEF StateSound, OffIsEmpty
<1> QED
  BY <1>2, <1>4, <1>5 DEF StateSound, ItemsInFile, IsSet

\* A value stored on a machine that runs.
LEMMA StoreSound ==
  ASSUME TypeOK, StateSound, UNCHANGED keychainVars, Running,
         NEW s \in Secret, NEW v, v # None, DoStoreSecret(s, v)
  PROVE StateSound'
<1>1. \A u \in Secret : store'[u] # None \/ store'[u] = store[u]
  BY DEF DoStoreSecret, TypeOK, PodmanTypeOK
<1> QED
  BY <1>1 DEF DoStoreSecret, keychainVars, StateSound, PodsSound, OffIsEmpty, ItemsInFile,
              Running, ListPods, IsSet

\* A pod gets its values from the store, and so do its volumes.
LEMMA PlaySound ==
  ASSUME TypeOK, Matched, StateSound, UNCHANGED keychainVars,
         NEW w \in Workload, NEW networks, NEW userns,
         CanPlay(w, networks), DoPlay(w, networks, userns)
  PROVE StateSound'
<1>1. Running /\ Running' /\ keys' = keys /\ store' = store /\ items' = items /\ kcFile' = kcFile
  BY DEF CanPlay, DoPlay, Running, keychainVars
<1>2. ASSUME NEW s \in Minted, store[s] # None
      PROVE store[s] \in keys
  BY <1>2 DEF Matched, FromKeychain, StateSound, Minted
<1>3. \A v \in Workload \ {w} : pods'[v] = pods[v]
  BY DEF DoPlay, TypeOK, PodmanTypeOK
<1>4. /\ pods'[w].up
      /\ \A s \in Secret : pods'[w].env[s] = IF s \in Uses[w] THEN store[s] ELSE None
  BY DEF DoPlay, TypeOK, PodmanTypeOK
<1>5. PodsSound'
  BY <1>1, <1>2, <1>3, <1>4 DEF StateSound, PodsSound, ListPods, Minted
<1>6. ASSUME NEW s \in Secret, vols'[s] # None
      PROVE store[s] # None
  <2>1. Mounts[w] \subseteq Uses[w]
    BY PodmanAssumption
  <2> QED
    BY <1>6, <2>1 DEF DoPlay, CanPlay, StateSound
<1> QED
  BY <1>1, <1>5, <1>6 DEF StateSound, OffIsEmpty, ItemsInFile, IsSet

\* An item put in a keychain that is there, if minted with a key that is known.
LEMMA PutSound ==
  ASSUME TypeOK, StateSound, UNCHANGED podmanVars, kcFile,
         NEW s \in Secret, NEW v, NEW src, s \in Minted => v \in keys, DoPut(s, v, src)
  PROVE StateSound'
<1>1. kcFile' /\ \A u \in Secret \ {s} : items'[u] = items[u]
  BY DEF DoPut, TypeOK, KeychainTypeOK
<1>2. items'[s].val = v
  BY DEF DoPut, TypeOK, KeychainTypeOK
<1> QED
  BY <1>1, <1>2 DEF podmanVars, StateSound, PodsSound, OffIsEmpty, ItemsInFile,
                    Running, ListPods, IsSet, Minted

-----------------------------------------------------------------------------
(* up                                                                      *)

\* A call that only reads, and a step that calls nothing, change nothing.
LEMMA QuietState ==
  ASSUME TypeOK, UNCHANGED budget, StateSound, NEW p \in Proc, ~proc[p].cancelled,
         NEW ACTION can, NEW ACTION done, NEW ACTION failure,
         Query(p, can, done, failure) \/ LocalStep(p, done)
  PROVE StateSound'
<1>1. UNCHANGED <<podmanVars, keychainVars>>
  BY DEF Query, Call, LocalStep
<1> QED
  BY <1>1, SameState

\* Where up starts the machine and makes its networks.
LEMMA UpMachineSound ==
  ASSUME TypeOK, PlaceOK, UNCHANGED budget, StateSound, NEW p \in Proc, ~proc[p].cancelled,
         InitMachine(p) \/ StartMachine(p) \/ CreateNetwork(p) \/ Mint(p)
  PROVE StateSound'
<1>1. CASE InitMachine(p)
  <2>1. \/ UNCHANGED <<podmanVars, keychainVars>>
        \/ CanInit /\ DoInit /\ UNCHANGED keychainVars
    BY <1>1, CalmCall DEF InitMachine, PodmanCall, Call
  <2> QED
    BY <2>1, MachineSound, SameState
<1>2. CASE StartMachine(p)
  <2>1. \/ UNCHANGED <<podmanVars, keychainVars>>
        \/ DoStart /\ UNCHANGED keychainVars
    BY <1>2, CalmCall DEF StartMachine, PodmanCall, Call
  <2> QED
    BY <2>1, MachineSound, SameState
<1>3. CASE CreateNetwork(p)
  <2> DEFINE r == First(proc[p].zones)
  <2>1. proc[p] \in Local /\ proc[p].zones # {} /\ proc[p].top \in Topology
    BY <1>3, CommandAssumption DEF CreateNetwork, At, PlaceOK, Placed, TypeOK, Local
  <2>2. r \in Role /\ proc[p].top.zone[r].internal \in BOOLEAN
    BY <2>1, FirstLast DEF Local, Topology, Zone
  <2>3. \/ UNCHANGED <<podmanVars, keychainVars>>
        \/ DoCreateNetwork(r, proc[p].top.zone[r].internal) /\ UNCHANGED keychainVars
    BY <1>3, CalmCall DEF CreateNetwork, PodmanCall, Call
  <2> QED
    BY <2>2, <2>3, MachineSound, SameState
<1>4. CASE Mint(p)
  <2>1. \/ UNCHANGED <<podmanVars, keychainVars>>
        \/ \E k \in KeyValue : DoMint(k) /\ UNCHANGED keychainVars
    BY <1>4, CalmCall DEF Mint, PodmanCall, Call
  <2> QED
    BY <2>1, MachineSound, SameState
<1> QED
  BY <1>1, <1>2, <1>3, <1>4

\* Where it stores what it made, and hands it to the machine.
LEMMA UpSecretsSound ==
  ASSUME TypeOK, PlaceOK, UNCHANGED budget, StateSound, NEW p \in Proc, Placid(proc[p]),
         Put(p) \/ Inject(p)
  PROVE StateSound'
<1> DEFINE me == proc[p]
<1>1. me \in Local /\ ~me.cancelled
  BY DEF TypeOK, Placid
<1>2. CASE Put(p)
  <2>1. PICK s \in me.todo :
          /\ me.pc = "put" /\ IsFirst(s, me.todo)
          /\ \/ UNCHANGED <<podmanVars, keychainVars>>
             \/ CanPut(s, PutReplaces) /\ DoPut(s, me.fresh, SourceOf(s)) /\ UNCHANGED podmanVars
    BY <1>1, <1>2, CalmCall DEF Put, KeychainCall, Call, At
  <2>2. s \in Secret /\ (s \in Minted => me.fresh \in keys)
    BY <1>1, <2>1 DEF Placid, Local
  <2> QED
    BY <2>1, <2>2, PutSound, SameState DEF CanPut
<1>3. CASE Inject(p)
  <2>1. PICK s \in ToInject(me) :
          \/ UNCHANGED <<podmanVars, keychainVars>>
          \/ CanStoreSecret /\ DoStoreSecret(s, me.got[s]) /\ UNCHANGED keychainVars
    BY <1>1, <1>3, CalmCall DEF Inject, PodmanCall, Call
  <2>2. s \in Secret /\ me.got[s] # None
    BY DEF ToInject
  <2> QED
    BY <2>1, <2>2, StoreSound, SameState DEF CanStoreSecret
<1> QED
  BY <1>2, <1>3

\* A play, or one that failed with the old pod gone.
LEMMA UpPlaySound ==
  ASSUME TypeOK, PlaceOK, UNCHANGED budget, Matched, StateSound,
         NEW p \in Proc, ~proc[p].cancelled, Play(p)
  PROVE StateSound'
<1> DEFINE me == proc[p]
           r == First(me.zones)
           w == Head(me.work)
           networks == Networks(me.top, r, w)
<1>1. me \in Local /\ me.work # <<>>
  BY DEF TypeOK, Play, At, PlaceOK, Placed
<1>2. w \in Workload
  BY <1>1, HeadTailProperties DEF Local
<1>3. \/ UNCHANGED <<podmanVars, keychainVars>>
      \/ CanPlay(w, networks) /\ DoPlay(w, networks, me.top.zone[r].internal) /\ UNCHANGED keychainVars
      \/ DoDown(w) /\ UNCHANGED keychainVars
  BY CalmCall DEF Play, PodmanCall, Call
<1> HIDE DEF w, networks, r
<1> QED
  BY <1>2, <1>3, PlaySound, MachineSound, SameState

\* Every step of an up.
LEMMA UpState ==
  ASSUME TypeOK, PlaceOK, UNCHANGED budget, Matched, StateSound,
         NEW p \in Proc, Placid(proc[p]), UpStep(p)
  PROVE StateSound'
<1>1. ~proc[p].cancelled
  BY DEF Placid
<1>2. CASE DescribeUser(p) \/ UserMissing(p) \/ FindMachine(p) \/ FindNetwork(p) \/ BeginZones(p)
  BY <1>1, <1>2, QuietState
     DEF DescribeUser, UserMissing, FindMachine, FindNetwork, BeginZones
<1>3. CASE Resolve(p)
  BY <1>1, <1>3, QuietState DEF Resolve
<1>4. CASE FindingsEndZone(p) \/ Build(p) \/ EndZone(p) \/ Ready(p)
  BY <1>1, <1>4, QuietState DEF FindingsEndZone, Build, EndZone, Ready
<1> QED
  BY <1>1, <1>2, <1>3, <1>4, UpMachineSound, UpSecretsSound, UpPlaySound DEF UpStep

\* Only a value made leads to the Put.
LEMMA PutAfter ==
  ASSUME TypeOK, NEW p \in Proc, UpStep(p), ~Resolve(p), ~Mint(p)
  PROVE proc'[p].pc # "put"
<1> DEFINE me == proc[p]
<1>1. me \in Local
  BY DEF TypeOK
<1>2. \A it : Become(p, it) => proc'[p] = it
  BY DEF TypeOK, Become
<1>3. /\ \A c : Idle(c).pc # "put"
      /\ ZoneFails(me).pc # "put" /\ StepFails(me).pc # "put"
      /\ Report(me).pc # "put" /\ ReturnError(me).pc # "put"
  BY DEF Idle, ZoneFails, StepFails, Report, ReturnError
<1>4. EnterNets(me).pc = "nets" /\ \A zones : EnterZone(me, zones).pc = "zone"
  BY <1>1 DEF EnterNets, EnterZone, Local
<1>5. CASE UserMissing(p) \/ FindingsEndZone(p) \/ BeginZones(p)
  BY <1>2, <1>3, <1>4, <1>5 DEF UserMissing, FindingsEndZone, BeginZones, LocalStep
<1>6. CASE DescribeUser(p)
  <2>1. PICK s \in me.todo :
          \/ proc'[p] = [me EXCEPT !.todo = @ \ {s}, !.failed = @ \/ ~IsSet(s)]
          \/ proc'[p] = ReturnError(me)
    BY <1>2, <1>6, CallBecomes DEF DescribeUser, Query
  <2>2. [me EXCEPT !.todo = @ \ {s}, !.failed = @ \/ ~IsSet(s)].pc = "users"
    BY <1>1, <1>6 DEF DescribeUser, At, Local
  <2> QED
    BY <1>3, <2>1, <2>2
<1>7. CASE FindMachine(p)
  <2>1. [me EXCEPT !.pc = "init"].pc # "put" /\ [me EXCEPT !.pc = "start"].pc # "put"
    BY <1>1 DEF Local
  <2>2. EnsureMachine(me).pc # "put"
    BY <1>4, <2>1 DEF EnsureMachine, TypeOK, PodmanTypeOK
  <2> QED
    BY <1>2, <1>3, <1>7, <2>2, CallBecomes DEF FindMachine, Query
<1>8. CASE InitMachine(p) \/ StartMachine(p)
  <2>1. [me EXCEPT !.pc = "start"].pc # "put"
    BY <1>1 DEF Local
  <2> QED
    BY <1>2, <1>3, <1>4, <1>8, <2>1, CallBecomes DEF InitMachine, StartMachine, PodmanCall
<1>9. CASE FindNetwork(p) \/ CreateNetwork(p)
  <2>1. /\ me.pc = "nets" => [me EXCEPT !.zones = @ \ {First(me.zones)}].pc = "nets"
        /\ [me EXCEPT !.pc = "mknet"].pc = "mknet"
        /\ [me EXCEPT !.pc = "nets", !.zones = @ \ {First(me.zones)}].pc = "nets"
    BY <1>1 DEF Local
  <2> QED
    BY <1>2, <1>3, <1>9, <2>1, CallBecomes DEF FindNetwork, CreateNetwork, At, Query, PodmanCall
<1>10. CASE Put(p)
  <2>1. \A s : [me EXCEPT !.pc = "zone", !.todo = @ \ {s}, !.got[s] = me.fresh,
                          !.fresh = None].pc = "zone"
    BY <1>1 DEF Local
  <2> QED
    BY <1>2, <1>3, <1>10, <2>1, CallBecomes DEF Put, PutFails, KeychainCall
<1>11. CASE Inject(p)
  <2>1. me.pc = "zone"
    BY <1>11 DEF Inject, Resolved
  <2>2. \A s : [me EXCEPT !.got[s] = None].pc = "zone"
    BY <1>1, <2>1 DEF Local
  <2> QED
    BY <1>2, <1>3, <1>11, <2>2, CallBecomes DEF Inject, PodmanCall
<1>12. CASE Build(p) \/ Play(p)
  <2>1. /\ [me EXCEPT !.pc = "play"].pc = "play"
        /\ [me EXCEPT !.pc = "zone", !.work = Tail(@)].pc = "zone"
    BY <1>1 DEF Local
  <2> QED
    BY <1>2, <1>3, <1>12, <2>1, CallBecomes DEF Build, Play, Query, PodmanCall
<1>13. CASE EndZone(p) \/ Ready(p)
  BY <1>2, <1>3, <1>4, <1>13, CallBecomes DEF EndZone, Ready, Applied, LocalStep, Query
<1> QED
  BY <1>5, <1>6, <1>7, <1>8, <1>9, <1>10, <1>11, <1>12, <1>13 DEF UpStep

\* A minted secret's Put stores the key that was just minted.
LEMMA PutPlacid ==
  ASSUME TypeOK, UNCHANGED budget, NEW p \in Proc, ~proc[p].cancelled,
         Resolve(p) \/ Mint(p), proc'[p].pc = "put",
         NEW s \in Minted, IsFirst(s, proc'[p].todo)
  PROVE proc'[p].fresh \in keys'
<1> DEFINE me == proc[p]
<1>1. me \in Local /\ me.todo \in SUBSET Secret
  BY DEF TypeOK, Local
<1>2. \A it : Become(p, it) => proc'[p] = it
  BY DEF TypeOK, Become
<1>3. \A c : Idle(c).pc # "put"
  BY DEF Idle
<1>4. \A v : /\ [me EXCEPT !.pc = "put", !.fresh = v].fresh = v
             /\ [me EXCEPT !.pc = "put", !.fresh = v].todo = me.todo
  BY <1>1 DEF Local
<1>5. CASE Resolve(p)
  <2>1. me.pc = "zone"
    BY <1>5 DEF Resolve, At
  <2>2. \A u, v : /\ [me EXCEPT !.todo = @ \ {u}, !.got[u] = v].pc = "zone"
                  /\ [me EXCEPT !.todo = @ \ {u}, !.failed = TRUE].pc = "zone"
                  /\ [me EXCEPT !.pc = "mint"].pc = "mint"
    BY <1>1, <2>1 DEF Local
  <2>3. PICK u \in me.todo :
          /\ IsFirst(u, me.todo) /\ SourceOf(u) = "generated"
          /\ \E v : proc'[p] = [me EXCEPT !.pc = "put", !.fresh = v]
    <3>1. PICK u \in me.todo :
            /\ IsFirst(u, me.todo)
            /\ \/ proc'[p] = [me EXCEPT !.todo = @ \ {u}, !.got[u] = items[u].val]
               \/ proc'[p] = [me EXCEPT !.todo = @ \ {u}, !.failed = TRUE]
               \/ proc'[p] = [me EXCEPT !.pc = "mint"]
               \/ proc'[p] = ReturnError(me)
               \/ /\ SourceOf(u) = "generated"
                  /\ \E v : proc'[p] = [me EXCEPT !.pc = "put", !.fresh = v]
      BY <1>2, <1>5, CallBecomes DEF Resolve, Query
    <3>2. /\ [me EXCEPT !.todo = @ \ {u}, !.got[u] = items[u].val].pc = "zone"
          /\ [me EXCEPT !.todo = @ \ {u}, !.failed = TRUE].pc = "zone"
      BY <2>2
    <3>3. ReturnError(me).pc # "put" /\ [me EXCEPT !.pc = "mint"].pc # "put"
      BY <1>3, <2>2 DEF ReturnError
    <3> QED
      BY <3>1, <3>2, <3>3
  <2>4. s = u
    BY <1>1, <1>4, <2>3, OneFirst
  <2> QED
    BY <2>3, <2>4 DEF Minted
<1>6. CASE Mint(p)
  <2>1. \A u : [me EXCEPT !.pc = "zone", !.todo = @ \ {u}, !.failed = TRUE].pc = "zone"
    BY <1>1 DEF Local
  <2>2. PICK u \in me.todo, k \in KeyValue :
          \/ DoMint(k) /\ proc'[p] = [me EXCEPT !.pc = "put", !.fresh = k]
          \/ proc'[p] = [me EXCEPT !.pc = "zone", !.todo = @ \ {u}, !.failed = TRUE]
    BY <1>2, <1>6, CalmCall DEF Mint, PodmanCall, Call
  <2>3. DoMint(k) /\ proc'[p] = [me EXCEPT !.pc = "put", !.fresh = k]
    BY <2>1, <2>2
  <2> QED
    BY <1>4, <2>3 DEF DoMint
<1> QED
  BY <1>5, <1>6

\* Every step of an up.
LEMMA UpSound ==
  ASSUME TypeOK, PlaceOK, UNCHANGED budget, Matched,
         NEW p \in Proc, Sound(proc[p]), UpStep(p)
  PROVE Sound(proc[p])'
<1> DEFINE me == proc[p]
<1>1. me \in Local /\ me.pc \in UpLabels /\ Placid(me) /\ ~me.cancelled
  BY UpPlaces DEF TypeOK, Sound, Placid
<1>2. StateSound'
  BY <1>1, SoundState, UpState DEF UpLabels
<1>3. proc'[p].pc \in UpLabels \union {"idle"} /\ ~proc'[p].cancelled
  <2>1. CASE DescribeUser(p)
    <3>1. PICK s \in me.todo :
            \/ Become(p, [me EXCEPT !.todo = @ \ {s}, !.failed = @ \/ ~IsSet(s)])
            \/ Become(p, ReturnError(me))
      BY <2>1, CallBecomes DEF DescribeUser, Query
    <3>2. /\ [me EXCEPT !.todo = @ \ {s}, !.failed = @ \/ ~IsSet(s)].pc = me.pc
          /\ [me EXCEPT !.todo = @ \ {s}, !.failed = @ \/ ~IsSet(s)].cancelled = me.cancelled
      BY <1>1 DEF Local
    <3>3. ReturnError(me).pc = "idle" /\ ~ReturnError(me).cancelled
      BY DEF ReturnError, Idle
    <3> QED
      BY <1>1, <3>1, <3>2, <3>3, BecomeAlone
  <2>2. CASE ~DescribeUser(p)
    BY <1>1, <2>2, UpSameJob DEF JobStep, SameJob, Past
  <2> QED
    BY <2>1, <2>2
<1>4. CASE proc'[p].pc # "put"
  <2>1. Placid(proc[p])'
    BY <1>3, <1>4, PlainPlacid DEF UpLabels, OnMachineLabels
  <2> QED
    BY <1>2, <2>1, StateThenSound
<1>5. CASE proc'[p].pc = "put"
  <2>1. Resolve(p) \/ Mint(p)
    BY <1>5, PutAfter
  <2>2. \A s \in Minted : IsFirst(s, proc'[p].todo) => proc'[p].fresh \in keys'
    BY <1>1, <1>5, <2>1, PutPlacid
  <2>3. Placid(proc[p])'
    BY <1>3, <1>5, <2>2 DEF Placid, OnMachineLabels, IsFirst
  <2> QED
    BY <1>2, <2>3, StateThenSound
<1> QED
  BY <1>4, <1>5

-----------------------------------------------------------------------------
(* down                                                                    *)

\* A down's step makes no interrupt.
LEMMA DownNotCancelled ==
  ASSUME TypeOK, NEW p \in Proc, DownStep(p), ~proc[p].cancelled
  PROVE ~proc'[p].cancelled
BY DownBareStep DEF BareStep

\* Places that count on the machine alone.
LEMMA OnMachinePlacid ==
  ASSUME NEW p \in Proc, ~proc'[p].cancelled,
         proc'[p].pc \in {"idle", "rm", "pods", "down", "rmnet"},
         proc'[p].pc \in OnMachineLabels => Running'
  PROVE Placid(proc[p])'
BY DEF Placid, Running

\* The pods and the networks.
LEMMA ZonesSound ==
  ASSUME TypeOK, PlaceOK, UNCHANGED budget, NEW p \in Proc, Sound(proc[p]), DownStep(p),
         \/ ListMachine(p) \/ SnapshotPods(p) \/ SkipAbsent(p) \/ KubeDown(p)
         \/ KeepNetwork(p) \/ FindOldNetwork(p) \/ RemoveNetwork(p) \/ KeepStore(p)
  PROVE Sound(proc[p])'
<1> DEFINE me == proc[p]
<1>1. me \in Local /\ Placid(me) /\ ~me.cancelled
  BY DEF TypeOK, Sound, Placid
<1>2. \A it : Become(p, it) => proc'[p] = it
  BY DEF TypeOK, Become
<1>3. \A c : Idle(c).pc = "idle"
  BY DEF Idle
<1>4. \A it \in Local : \A zones : EnterDown(it, zones).pc = "down"
  BY DEF EnterDown, Local
<1>5. me.pc \in {"list", "pods", "down", "rmnet"} /\ (me.pc = "list" \/ Running)
  BY <1>1 DEF ListMachine, SnapshotPods, SkipAbsent, KubeDown, KeepNetwork, FindOldNetwork,
              RemoveNetwork, KeepStore, AtNetwork, ZonesDown, At, Placid, OnMachineLabels
<1>6. StateSound
  BY <1>5, SoundState
<1>7. CASE ListMachine(p)
  <2>1. [me EXCEPT !.pc = "pods"].pc = "pods" /\ [me EXCEPT !.pc = "rm"].pc = "rm"
    BY <1>1 DEF Local
  <2>2. proc'[p].pc \in {"idle", "rm"} \/ (Running /\ proc'[p].pc = "pods")
    BY <1>2, <1>3, <1>7, <2>1, CallBecomes DEF ListMachine, Query, Report
  <2>3. StateSound' /\ Running' = Running
    BY <1>1, <1>6, <1>7, QuietState DEF ListMachine, Query, Call, podmanVars, Running
  <2>4. Placid(proc[p])'
    BY <1>1, <2>2, <2>3, DownNotCancelled, OnMachinePlacid DEF OnMachineLabels
  <2> QED
    BY <2>3, <2>4, StateThenSound
<1>8. CASE ~ListMachine(p)
  <2> DEFINE failed == [me EXCEPT !.failed = TRUE]
             seen == [me EXCEPT !.present = Listed(me.top)]
  <2>1. me.pc # "list" /\ Running
    BY <1>5, <1>8 DEF SnapshotPods, SkipAbsent, KubeDown, KeepNetwork, FindOldNetwork,
                      RemoveNetwork, KeepStore, AtNetwork, ZonesDown, At
  <2>2. StateSound' /\ Running'
    <3>1. CASE SnapshotPods(p) \/ SkipAbsent(p) \/ KeepNetwork(p) \/ FindOldNetwork(p) \/ KeepStore(p)
      <4>1. StateSound'
        BY <1>1, <1>6, <3>1, QuietState
           DEF SnapshotPods, SkipAbsent, KeepNetwork, FindOldNetwork, KeepStore
      <4>2. UNCHANGED podmanVars
        BY <3>1 DEF SnapshotPods, SkipAbsent, KeepNetwork, FindOldNetwork, KeepStore,
                    Query, Call, LocalStep
      <4> QED
        BY <2>1, <4>1, <4>2 DEF podmanVars, Running
    <3>2. CASE KubeDown(p)
      <4>1. LastWork(me) \in Workload
        BY <1>1, <3>2 DEF KubeDown, Local
      <4>2. \/ UNCHANGED <<podmanVars, keychainVars>>
            \/ DoDown(LastWork(me)) /\ UNCHANGED keychainVars
        BY <1>1, <3>2, CalmCall DEF KubeDown, PodmanCall, Call
      <4> QED
        BY <1>6, <2>1, <4>1, <4>2, MachineSound, SameState DEF DoDown, podmanVars, Running
    <3>3. CASE RemoveNetwork(p)
      <4>1. \/ UNCHANGED <<podmanVars, keychainVars>>
            \/ DoRemoveNetwork(Last(me.zones)) /\ UNCHANGED keychainVars
        BY <1>1, <3>3, CalmCall DEF RemoveNetwork, PodmanCall, Call
      <4>2. Last(me.zones) \in Role
        BY <1>1, <3>3, FirstLast DEF RemoveNetwork, At, PlaceOK, Placed, Local
      <4> QED
        BY <1>6, <2>1, <4>1, <4>2, MachineSound, SameState DEF DoRemoveNetwork, podmanVars, Running
    <3> QED
      BY <1>8, <3>1, <3>2, <3>3
  <2>3. proc'[p].pc \in {"idle", "down", "rmnet"}
    <3>1. /\ [me EXCEPT !.work = WithoutLast(me)].pc = me.pc
          /\ [me EXCEPT !.work = WithoutLast(me), !.present = @ \ {LastWork(me)}].pc = me.pc
          /\ [me EXCEPT !.work = WithoutLast(me), !.failed = TRUE, !.kept = TRUE].pc = me.pc
          /\ [me EXCEPT !.pc = "rmnet"].pc = "rmnet"
          /\ failed \in Local /\ seen \in Local
      BY <1>1 DEF Listed, ListPods, Local
    <3>2. /\ NetworkDone(me).pc = "down" /\ NetworkDone(failed).pc = "down"
          /\ EnterDown(seen, me.roles).pc = "down"
      BY <1>1, <1>4, <3>1 DEF NetworkDone
    <3>3. CASE SnapshotPods(p) \/ KeepStore(p)
      BY <1>2, <1>3, <3>2, <3>3, CallBecomes DEF SnapshotPods, KeepStore, Query, LocalStep, Report
    <3>4. CASE SkipAbsent(p) \/ KubeDown(p)
      <4>1. me.pc = "down"
        BY <3>4 DEF SkipAbsent, KubeDown, At
      <4> QED
        BY <1>2, <1>3, <3>1, <3>4, <4>1, CallBecomes
           DEF SkipAbsent, KubeDown, DownFails, LocalStep, PodmanCall
    <3>5. CASE KeepNetwork(p) \/ FindOldNetwork(p) \/ RemoveNetwork(p)
      BY <1>2, <1>3, <3>1, <3>2, <3>5, CallBecomes
         DEF KeepNetwork, FindOldNetwork, RemoveNetwork, RemoveFails, LocalStep, Query, PodmanCall
    <3> QED
      BY <1>8, <3>3, <3>4, <3>5
  <2> QED
    BY <1>1, <2>2, <2>3, DownNotCancelled, OnMachinePlacid, StateThenSound
<1> QED
  BY <1>7, <1>8

\* The store is listed on a machine that runs.
LEMMA ListStoredSound ==
  ASSUME TypeOK, UNCHANGED budget, NEW p \in Proc, Sound(proc[p]), ListStored(p)
  PROVE Sound(proc[p])'
<1> DEFINE me == proc[p]
           it == [me EXCEPT !.pc = "purge", !.todo = ListSecrets]
<1>1. me \in Local /\ ~me.cancelled /\ me.pc = "down" /\ Running /\ StateSound
  BY SoundState DEF TypeOK, Sound, Placid, ListStored, ZonesDown, OnMachineLabels
<1>2. UNCHANGED <<podmanVars, keychainVars>> /\ Become(p, it)
  BY <1>1, CalmCall DEF ListStored, Query, Call, Purgeable
<1>3. proc'[p] = it
  BY <1>2, BecomeAlone
<1>4. it.pc = "purge" /\ it.todo = ListSecrets /\ ~it.cancelled
  BY <1>1 DEF Local
<1>5. Running' /\ ListSecrets' = ListSecrets
  BY <1>1, <1>2 DEF podmanVars, Running, ListSecrets
<1>6. Placid(proc[p])'
  BY <1>3, <1>4, <1>5 DEF Placid
<1> QED
  BY <1>1, <1>2, <1>6, SameState, StateThenSound

\* A secret goes; its volume is now one the store does not list.
LEMMA RemoveSecretSound ==
  ASSUME TypeOK, Covered, UNCHANGED budget, NEW p \in Proc, Sound(proc[p]), RemoveSecret(p)
  PROVE Sound(proc[p])'
<1> DEFINE me == proc[p]
           it == [me EXCEPT !.pc = "purgevol"]
<1>1. /\ me \in Local /\ ~me.cancelled /\ me.pc = "purge" /\ Running /\ StateSound
      /\ me.todo = ListSecrets /\ me.todo \in SUBSET Secret
  BY SoundState DEF TypeOK, Sound, Placid, RemoveSecret, At, OnMachineLabels, Local
<1>2. PICK s \in me.todo :
        IsFirst(s, me.todo) /\ DoRemoveSecret(s) /\ UNCHANGED keychainVars /\ Become(p, it)
  BY <1>1, CalmCall DEF RemoveSecret, PodmanCall, Call, CanRemoveSecret, ListSecrets
<1>3. proc'[p] = it
  BY <1>2, BecomeAlone
<1>4. it.pc = "purgevol" /\ it.todo = me.todo /\ ~it.cancelled
  BY <1>1 DEF Local
<1>5. /\ Running' /\ ListPods' = ListPods /\ pods' = pods /\ vols' = vols /\ keys' = keys
      /\ \A u \in Secret \ {s} : store'[u] = store[u]
      /\ store'[s] = None
  BY <1>1, <1>2 DEF DoRemoveSecret, Running, ListPods, TypeOK, PodmanTypeOK
<1>6. ListSecrets' = me.todo \ {s}
  BY <1>1, <1>5 DEF ListSecrets
<1>7. Placid(proc[p])'
  <2>1. \A u \in me.todo : IsFirst(u, me.todo) => u = s
    BY <1>1, <1>2, OneFirst
  <2> QED
    BY <1>3, <1>4, <1>5, <1>6, <2>1 DEF Placid
<1>8. VolsListed(proc[p])'
  BY <1>1, <1>2, <1>3, <1>4, <1>5 DEF VolsListed, StateSound, IsFirst
<1>9. KeysKnown(proc[p])' /\ PodsSound' /\ OffIsEmpty' /\ ItemsInFile'
  BY <1>1, <1>2, <1>5 DEF StateSound, KeysKnown, PodsSound, OffIsEmpty, ItemsInFile, IsSet, keychainVars
<1> QED
  BY <1>7, <1>8, <1>9 DEF Sound

\* Its volume goes: no pod has it mounted any more.
LEMMA RemoveVolumeSound ==
  ASSUME TypeOK, Covered, UNCHANGED budget, NEW p \in Proc, Sound(proc[p]), RemoveVolume(p)
  PROVE Sound(proc[p])'
<1> DEFINE me == proc[p]
<1>1. /\ me \in Local /\ ~me.cancelled /\ me.pc = "purgevol" /\ Running
      /\ me.todo \in SUBSET Secret /\ ListPods = {}
  BY DEF TypeOK, Sound, Placid, RemoveVolume, At, OnMachineLabels, Local,
         Covered, Covers, PodsCovered
<1>2. \A s : CanRemoveVolume(s)
  BY <1>1 DEF CanRemoveVolume, ListPods
<1>3. PICK s \in me.todo :
        /\ IsFirst(s, me.todo)
        /\ DoRemoveVolume(s) /\ UNCHANGED keychainVars
        /\ Become(p, [me EXCEPT !.pc = "purge", !.todo = @ \ {s}])
  BY <1>1, <1>2, CalmCall DEF RemoveVolume, PodmanCall, Call
<1> DEFINE it == [me EXCEPT !.pc = "purge", !.todo = @ \ {s}]
<1>4. proc'[p] = it
  BY <1>3, BecomeAlone
<1>5. it.pc = "purge" /\ it.todo = me.todo \ {s} /\ ~it.cancelled
  BY <1>1 DEF Local
<1>6. /\ Running' /\ ListPods' = ListPods /\ pods' = pods /\ store' = store /\ keys' = keys
      /\ \A u \in Secret : vols'[u] # None => u # s /\ vols[u] # None
  BY <1>1, <1>3 DEF DoRemoveVolume, Running, ListPods, TypeOK, PodmanTypeOK
<1>7. ListSecrets = me.todo \ {s}
  BY <1>1, <1>3 DEF Sound, Placid
<1>8. Placid(proc[p])'
  <2>1. ListSecrets' = ListSecrets
    BY <1>6 DEF ListSecrets
  <2> QED
    BY <1>4, <1>5, <1>6, <1>7, <2>1 DEF Placid
<1>9. ASSUME NEW u \in Secret, vols'[u] # None
      PROVE store'[u] # None
  <2>1. store[u] # None \/ IsFirst(u, me.todo)
    BY <1>1, <1>6, <1>9 DEF Sound, VolsListed
  <2> QED
    BY <1>1, <1>3, <1>6, <1>9, <2>1, OneFirst
<1>10. KeysKnown(proc[p])' /\ PodsSound' /\ OffIsEmpty' /\ ItemsInFile'
  BY <1>1, <1>3, <1>6
     DEF Sound, KeysKnown, PodsSound, OffIsEmpty, ItemsInFile, IsSet, keychainVars
<1> QED
  BY <1>8, <1>9, <1>10 DEF Sound, VolsListed

\* The machine stops with no pod, an empty store and no volume left.
LEMMA StopSound ==
  ASSUME TypeOK, Covered, UNCHANGED budget, NEW p \in Proc, Sound(proc[p]), StopMachine(p)
  PROVE Sound(proc[p])'
<1> DEFINE me == proc[p]
           it == IF me.destroy THEN [me EXCEPT !.pc = "rm"] ELSE Report(me)
<1>1. /\ me \in Local /\ ~me.cancelled /\ me.pc = "purge" /\ me.todo = {} /\ Running
      /\ ListPods = {} /\ ListSecrets = {} /\ StateSound
  BY SoundState DEF TypeOK, Sound, Placid, StopMachine, Stopping, OnMachineLabels,
                    Covered, Covers, PodsCovered
<1>2. DoStop /\ UNCHANGED keychainVars /\ Become(p, it)
  BY <1>1, CalmCall DEF StopMachine, PodmanCall, Call, CanStop, Running
<1>3. proc'[p] = it
  BY <1>2, BecomeAlone
<1>4. it.pc \in {"rm", "idle"} /\ ~it.cancelled
  BY <1>1 DEF Report, Idle, Local
<1>5. \A s \in Secret : store[s] = None /\ vols[s] = None
  BY <1>1 DEF StateSound, ListSecrets
<1>6. \A w \in Workload : pods'[w] = None
  BY <1>1, <1>2 DEF DoStop, Exited, ListPods
<1>7. StateSound'
  BY <1>1, <1>2, <1>5, <1>6
     DEF DoStop, keychainVars, StateSound, PodsSound, OffIsEmpty, ItemsInFile, ListPods, IsSet
<1>8. Placid(proc[p])'
  BY <1>3, <1>4, OnMachinePlacid DEF OnMachineLabels
<1> QED
  BY <1>7, <1>8, StateThenSound

\* With the machine its keys go, all of them to be forgotten.
LEMMA RemoveMachineSound ==
  ASSUME TypeOK, UNCHANGED budget, NEW p \in Proc, Sound(proc[p]), RemoveMachine(p)
  PROVE Sound(proc[p])'
<1> DEFINE me == proc[p]
           it == [me EXCEPT !.pc = "forget", !.todo = ToForget(me.top)]
<1>1. me \in Local /\ ~me.cancelled /\ me.pc = "rm" /\ StateSound
  BY SoundState DEF TypeOK, Sound, Placid, RemoveMachine, At
<1>2. \/ UNCHANGED <<podmanVars, keychainVars>> /\ Become(p, ReturnError(me))
      \/ DoRemove /\ UNCHANGED keychainVars /\ Become(p, it)
  BY <1>1, CalmCall DEF RemoveMachine, PodmanCall, Call
<1>3. CASE UNCHANGED <<podmanVars, keychainVars>> /\ Become(p, ReturnError(me))
  <2>1. proc'[p] = ReturnError(me)
    BY <1>3, BecomeAlone
  <2>2. proc'[p].pc = "idle" /\ ~proc'[p].cancelled
    BY <2>1 DEF ReturnError, Idle
  <2>3. Placid(proc[p])'
    BY <2>2, OnMachinePlacid DEF OnMachineLabels
  <2> QED
    BY <1>1, <1>3, <2>3, SameState, StateThenSound
<1>4. CASE DoRemove /\ UNCHANGED keychainVars /\ Become(p, it)
  <2>1. proc'[p] = it
    BY <1>4, BecomeAlone
  <2>2. it.pc = "forget" /\ it.todo = ToForget(me.top) /\ ~it.cancelled
    BY <1>1 DEF Local
  <2>3. Minted \subseteq ToForget(me.top)
    BY DEF Minted, ToForget, SourceOf, Entries
  <2>4. Placid(proc[p])'
    BY <2>1, <2>2 DEF Placid, OnMachineLabels
  <2>5. KeysKnown(proc[p])'
    BY <2>1, <2>2, <2>3 DEF KeysKnown
  <2>6. /\ \A w \in Workload : pods'[w] = None
        /\ \A s \in Secret : store'[s] = None /\ vols'[s] = None
    BY <1>4 DEF DoRemove
  <2>7. PodsSound' /\ OffIsEmpty' /\ ItemsInFile' /\ VolsListed(proc[p])'
    BY <1>1, <1>4, <2>6
       DEF keychainVars, StateSound, PodsSound, OffIsEmpty, ItemsInFile, VolsListed, ListPods, IsSet
  <2> QED
    BY <2>4, <2>5, <2>7 DEF Sound
<1> QED
  BY <1>2, <1>3, <1>4

\* A key that is not there is no key to forget; one that is, is deleted.
LEMMA ForgetSound ==
  ASSUME TypeOK, UNCHANGED budget, NEW p \in Proc, Sound(proc[p]),
         FindMinted(p) \/ DeleteMinted(p)
  PROVE Sound(proc[p])'
<1> DEFINE me == proc[p]
<1>1. /\ me \in Local /\ ~me.cancelled /\ me.pc \in {"forget", "delitem"}
      /\ me.todo \in SUBSET Secret /\ PodsSound /\ OffIsEmpty /\ ItemsInFile
  BY DEF TypeOK, Sound, Placid, FindMinted, DeleteMinted, At, Local
<1>2. UNCHANGED podmanVars
  BY DEF FindMinted, DeleteMinted, Query, KeychainCall, Call
<1>3. CASE FindMinted(p)
  <2>1. PICK s \in me.todo :
          /\ IsFirst(s, me.todo)
          /\ UNCHANGED keychainVars
          /\ \/ IsSet(s) /\ Become(p, [me EXCEPT !.pc = "delitem"])
             \/ ~IsSet(s) /\ Become(p, [me EXCEPT !.todo = @ \ {s}])
             \/ ~kcFile /\ Become(p, [me EXCEPT !.todo = @ \ {s}, !.failed = TRUE])
    BY <1>1, <1>3, CalmCall DEF FindMinted, Query, Call
  <2>2. me.pc = "forget" /\ (~kcFile => ~IsSet(s))
    BY <1>1, <1>3 DEF FindMinted, At, ItemsInFile
  <2>3. \/ IsSet(s) /\ proc'[p] = [me EXCEPT !.pc = "delitem"]
        \/ ~IsSet(s) /\ proc'[p] = [me EXCEPT !.todo = @ \ {s}]
        \/ ~IsSet(s) /\ proc'[p] = [me EXCEPT !.todo = @ \ {s}, !.failed = TRUE]
    BY <2>1, <2>2, BecomeAlone
  <2>4. /\ ~proc'[p].cancelled
        /\ \/ IsSet(s) /\ proc'[p].pc = "delitem" /\ proc'[p].todo = me.todo
           \/ ~IsSet(s) /\ proc'[p].pc = "forget" /\ proc'[p].todo = me.todo \ {s}
    BY <1>1, <2>2, <2>3 DEF Local
  <2>5. KeysKnown(proc[p])'
    BY <1>2, <2>1, <2>2, <2>4 DEF Sound, KeysKnown, podmanVars, keychainVars, IsSet
  <2>6. Placid(proc[p])'
    <3>1. \A u : IsFirst(u, me.todo) => u = s
      BY <1>1, <2>1, OneFirst
    <3> QED
      BY <2>1, <2>4, <3>1 DEF Placid, OnMachineLabels, IsSet, keychainVars
  <2>7. PodsSound' /\ OffIsEmpty' /\ ItemsInFile' /\ VolsListed(proc[p])'
    BY <1>1, <1>2, <2>1, <2>2
       DEF podmanVars, keychainVars, Sound, PodsSound, OffIsEmpty, ItemsInFile,
           VolsListed, ListPods, Running, IsSet
  <2> QED
    BY <2>5, <2>6, <2>7 DEF Sound
<1>4. CASE DeleteMinted(p)
  <2>1. me.pc = "delitem"
    BY <1>4 DEF DeleteMinted, At
  <2>2. \A s \in me.todo : IsFirst(s, me.todo) => CanDelete(s)
    BY <1>1, <2>1 DEF Sound, Placid, ItemsInFile, CanDelete
  <2>3. PICK s \in me.todo :
          DoDelete(s) /\ Become(p, [me EXCEPT !.pc = "forget", !.todo = @ \ {s}])
    BY <1>1, <1>4, <2>2, CalmCall DEF DeleteMinted, KeychainCall, Call
  <2>4. /\ ~proc'[p].cancelled /\ proc'[p].pc = "forget" /\ proc'[p].todo = me.todo \ {s}
    <3>1. proc'[p] = [me EXCEPT !.pc = "forget", !.todo = @ \ {s}]
      BY <2>3, BecomeAlone
    <3> QED
      BY <1>1, <3>1 DEF Local
  <2>5. kcFile' = kcFile /\ \A u \in Secret : IsSet(u)' => u # s /\ IsSet(u) /\ items'[u] = items[u]
    BY <2>3 DEF DoDelete, IsSet, TypeOK, KeychainTypeOK
  <2>6. KeysKnown(proc[p])'
    BY <1>1, <1>2, <2>4, <2>5 DEF Sound, KeysKnown, podmanVars, Minted, IsSet
  <2>7. Placid(proc[p])'
    BY <2>4 DEF Placid, OnMachineLabels
  <2>8. PodsSound' /\ OffIsEmpty' /\ ItemsInFile' /\ VolsListed(proc[p])'
    BY <1>1, <1>2, <2>1, <2>5
       DEF podmanVars, Sound, PodsSound, OffIsEmpty, ItemsInFile,
           VolsListed, ListPods, Running, IsSet
  <2> QED
    BY <2>6, <2>7, <2>8 DEF Sound
<1> QED
  BY <1>3, <1>4

\* When all is forgotten the keychain has no key LiteLLM does not know.
LEMMA ForgottenSound ==
  ASSUME TypeOK, NEW p \in Proc, Sound(proc[p]), Forgotten(p)
  PROVE Sound(proc[p])'
<1> DEFINE me == proc[p]
<1>1. me.pc = "forget" /\ me.todo = {}
  BY DEF Forgotten, At
<1>2. UNCHANGED <<podmanVars, keychainVars>> /\ proc'[p] = Report(me)
  BY BecomeAlone DEF Forgotten, LocalStep
<1>3. StateSound
  BY <1>1 DEF Sound, StateSound, KeysKnown, VolsListed
<1>4. Placid(proc[p])'
  BY <1>2, OnMachinePlacid DEF Report, Idle, OnMachineLabels
<1> QED
  BY <1>2, <1>3, <1>4, SameState, StateThenSound

-----------------------------------------------------------------------------
(* One command at a time                                                   *)

\* A command starts with nothing to count on.
LEMMA StartSound ==
  ASSUME TypeOK, NEW p \in Proc, Sound(proc[p]), Start(p)
  PROVE Sound(proc[p])'
<1>1. UNCHANGED <<podmanVars, keychainVars>> /\ proc[p].pc = "idle"
  BY DEF Start, Refuse, StartUp, StartDown, LocalStep, At
<1>2. proc'[p].pc \in {"idle", "users", "list"} /\ ~proc'[p].cancelled
  <2>1. CASE Refuse(p)
    BY <2>1, BecomeAlone DEF Refuse, LocalStep, Idle
  <2>2. CASE StartUp(p)
    <3>1. PICK job \in Jobs, t \in Topologies :
            proc'[p] = [Loaded(job, t) EXCEPT !.pc = "users", !.todo = UserSecrets(t, job.roles)]
      BY <2>2, BecomeAlone DEF StartUp, LocalStep
    <3> QED
      BY <3>1 DEF Loaded, Idle
  <2>3. CASE StartDown(p)
    <3>1. PICK job \in Jobs, t \in Topologies :
            proc'[p] = [Loaded(job, t) EXCEPT !.pc = "list"]
      BY <2>3, BecomeAlone DEF StartDown, LocalStep
    <3> QED
      BY <3>1 DEF Loaded, Idle
  <2> QED
    BY <2>1, <2>2, <2>3 DEF Start
<1>3. Placid(proc[p])'
  BY <1>2, PlainPlacid DEF OnMachineLabels
<1> QED
  BY <1>1, <1>3, SoundState, SameState, StateThenSound

\* Nothing that leaves the budget alone breaks Sound.
LEMMA ProcessSound ==
  ASSUME TypeOK, PlaceOK, Covered, Matched, UNCHANGED budget, NEW p \in Proc,
         Sound(proc[p]), Start(p) \/ Step(p) \/ Interrupt(p) \/ Crash(p)
  PROVE Sound(proc[p])'
<1>1. ~Interrupt(p) /\ ~Crash(p)
  BY CommandAssumption DEF Interrupt, Crash, Disturb, TypeOK
<1>2. ~SeesInterrupt(p)
  BY DEF SeesInterrupt, Sound, Placid
<1>3. CASE DownStep(p)
  <2>1. CASE \/ ListMachine(p) \/ SnapshotPods(p) \/ SkipAbsent(p) \/ KubeDown(p)
             \/ KeepNetwork(p) \/ FindOldNetwork(p) \/ RemoveNetwork(p) \/ KeepStore(p)
    BY <1>3, <2>1, ZonesSound
  <2>2. CASE ListStored(p) \/ RemoveSecret(p) \/ RemoveVolume(p) \/ StopMachine(p)
    BY <2>2, ListStoredSound, RemoveSecretSound, RemoveVolumeSound, StopSound
  <2>3. CASE RemoveMachine(p) \/ FindMinted(p) \/ DeleteMinted(p) \/ Forgotten(p)
    BY <2>3, RemoveMachineSound, ForgetSound, ForgottenSound
  <2> QED
    BY <1>3, <2>1, <2>2, <2>3 DEF DownStep
<1> QED
  BY <1>1, <1>2, <1>3, StartSound, UpSound DEF Step

\* No step breaks SoundOK.
LEMMA StepSound ==
  ASSUME NEW only, Proc = {only}, TypeOK, PlaceOK, Covered, Matched, SoundOK, [Next]_vars
  PROVE SoundOK'
<1> SUFFICES ASSUME Calm'
             PROVE Sound(proc[only])'
  BY DEF SoundOK
<1>1. Calm /\ UNCHANGED budget
  BY StepSpends, CalmBefore
<1>2. Sound(proc[only])
  BY <1>1 DEF SoundOK
<1>3. CASE UNCHANGED vars
  BY <1>2, <1>3
     DEF vars, podmanVars, keychainVars, Sound, PodsSound, OffIsEmpty, ItemsInFile, KeysKnown,
         VolsListed, Placid, Running, ListPods, ListSecrets, IsSet
<1>4. ~Reboot
  BY <1>1, CommandAssumption DEF Reboot, Disturb, TypeOK
<1> QED
  BY <1>1, <1>2, <1>3, <1>4, ProcessSound DEF Next

\* SoundOK holds at the start and is kept.
LEMMA SoundInvariance ==
  ASSUME NEW only, Proc = {only}
  PROVE Spec => []SoundOK
<1>1. Init => SoundOK
  BY DEF Init, CommandInit, PodmanInit, KeychainInit, Idle, SoundOK, Sound, PodsSound,
         OffIsEmpty, ItemsInFile, KeysKnown, VolsListed, Placid, OnMachineLabels,
         Running, ListPods, IsSet, Minted
<1>2. TypeOK /\ PlaceOK /\ Covered /\ UpOK /\ SoundOK /\ [Next]_vars => SoundOK'
  BY StepSound DEF UpOK
<1> QED
  BY <1>1, <1>2, UpInvariance, CoverInvariance, Invariance, PTL DEF Spec

-----------------------------------------------------------------------------
(* What follows                                                            *)

\* Where one command runs at a time and nothing was disturbed, every key a pod
\* was given is one LiteLLM knows, however ups, downs and destroys follow each
\* other and lclaw.toml is edited between them.
THEOREM KeysAreAcceptedUndisturbed ==
  ASSUME NEW only, Proc = {only}
  PROVE Spec => []KeyAcceptedUndisturbed
<1>1. SoundOK => KeyAcceptedUndisturbed
  BY DEF SoundOK, Calm, Sound, PodsSound, KeyAcceptedUndisturbed, AgentKeyAccepted
<1> QED
  BY <1>1, SoundInvariance, PTL

\* There, a machine that is stopped has no secret in its store or a volume:
\* down purges what the store lists, and lists what the volumes hold.
THEOREM OffHoldsNothingUndisturbed ==
  ASSUME NEW only, Proc = {only}
  PROVE Spec => []NothingHeldUndisturbed
<1>1. SoundOK => NothingHeldUndisturbed
  BY DEF SoundOK, Calm, Sound, OffIsEmpty, Running, NothingHeldUndisturbed, StoppedHoldsNothing
<1> QED
  BY <1>1, SoundInvariance, PTL

\* There, status finds no FAIL between commands, whatever lclaw.toml says by
\* then: a pod that is there runs.
THEOREM DownIsNoFailureUndisturbed ==
  ASSUME NEW only, Proc = {only}
  PROVE Spec => []DownIsNotBroken
<1>1. TypeOK /\ SoundOK => DownIsNotBroken
  <2> SUFFICES ASSUME TypeOK, PodsSound, NEW t \in Topologies
               PROVE "fail" \notin StatusChecks(t)
    BY DEF SoundOK, Calm, Sound, DownIsNotBroken
  <2>1. MachineCheck # "fail" /\ \A r : NetworkCheck(r) # "fail"
    BY DEF MachineCheck, NetworkCheck
  <2>2. ASSUME NEW r \in Role, NEW w \in WorkloadsOf(t, r)
        PROVE WorkloadCheck(w) # "fail"
    <3>1. w \in Workload
      BY <2>2, ZoneTypes DEF WorkloadsOf
    <3> QED
      BY <3>1 DEF PodsSound, ListPods, WorkloadCheck
  <2> QED
    BY <2>1, <2>2 DEF StatusChecks
<1> QED
  BY <1>1, SoundInvariance, Invariance, PTL

=============================================================================
