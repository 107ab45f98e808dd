---------------------------- MODULE UpDownProofs ----------------------------
(***************************************************************************)
(* What up and down can count on when they come to a point of no return:   *)
(* up on its user's secrets when it boots the machine, however many        *)
(* commands run at once; down on no pod and an empty store when it stops   *)
(* the machine, where one command runs at a time (with two it cannot: a pod *)
(* may come after the list).                                               *)
(*                                                                         *)
(* up: a run goes on with the job it was started with (SameJob), and a     *)
(* user secret once found stays (DurableKept), so what the first loop has  *)
(* found (Looked) is there at every later step    -> UserSecretsAreFirst   *)
(* down: what it listed covers what is there (Covers), as nothing else     *)
(* changes it               -> TeardownIsAfterLastPod, StopHasNoSecret     *)
(* A pod it still counts as present is one of a zone it has not come to,   *)
(* or of what is left of the zone it is in (Took)       -> DownHasLeftNoPod *)
(***************************************************************************)
EXTENDS LifecycleProofs

\* The places of an up past its first loop.
Past == UpLabels \ {"users"}

-----------------------------------------------------------------------------
(* up: the job stays the same                                              *)

\* A step of p to it: the end of the run, or further with the same job.
SameJob(me, it) ==
  \/ it.pc = "idle" /\ ~it.cancelled
  \/ /\ it.pc \in Past /\ it.cancelled = me.cancelled
     /\ it.cmd = me.cmd /\ it.roles = me.roles /\ it.top = me.top

\* A step moves one process only.
Alone(p) == Become(p, proc'[p])

\* Becoming something is a step of one process.
LEMMA BecomeAlone ==
  ASSUME TypeOK, NEW p \in Proc, NEW ACTION it, Become(p, it)
  PROVE Alone(p) /\ proc'[p] = it /\ \A q \in Proc : q # p => proc'[q] = proc[q]
BY DEF TypeOK, Become, Alone

JobStep(p) == Alone(p) /\ SameJob(proc[p], proc'[p])

\* A process that becomes what is of its job makes a step of its job.
LEMMA BecomeSameJob ==
  ASSUME TypeOK, NEW p \in Proc, NEW ACTION it, Become(p, it), SameJob(proc[p], it)
  PROVE JobStep(p)
BY BecomeAlone DEF JobStep

\* However a run ends is the end of its job.
LEMMA EndSameJob ==
  ASSUME NEW me
  PROVE /\ \A c : SameJob(me, Idle(c))
        /\ SameJob(me, Report(me)) /\ SameJob(me, ReturnError(me))
        /\ SameJob(me, ZoneFails(me)) /\ SameJob(me, StepFails(me))
BY DEF SameJob, Idle, Report, ReturnError, ZoneFails, StepFails, UpLabels

\* Entering the networks and a zone is going further.
LEMMA EnterSameJob ==
  ASSUME NEW me \in Local
  PROVE /\ SameJob(me, EnterNets(me))
        /\ \A zones : SameJob(me, EnterZone(me, zones))
        /\ SameJob(me, Applied(me))
<1>1. SameJob(me, EnterNets(me)) /\ \A zones : SameJob(me, EnterZone(me, zones))
  BY DEF SameJob, EnterNets, EnterZone, Local, UpLabels, Past
<1> QED
  BY <1>1, EndSameJob DEF Applied

\* Every step of an up but its look for a user secret.
LEMMA UpSameJob ==
  ASSUME TypeOK, NEW p \in Proc, UpStep(p), ~DescribeUser(p)
  PROVE JobStep(p)
<1> DEFINE me == proc[p]
<1>1. me \in Local
  BY DEF TypeOK
<1>2. CASE UserMissing(p) \/ FindingsEndZone(p)
  BY <1>2, BecomeSameJob, EndSameJob DEF UserMissing, FindingsEndZone, LocalStep
<1>3. CASE FindMachine(p)
  <2>1. SameJob(me, [me EXCEPT !.pc = "init"]) /\ SameJob(me, [me EXCEPT !.pc = "start"])
    BY <1>1 DEF SameJob, Local, UpLabels, Past
  <2>2. SameJob(me, EnsureMachine(me))
    BY <1>1, <2>1, EnterSameJob DEF EnsureMachine, TypeOK, PodmanTypeOK
  <2> QED
    BY <1>3, <2>2, CallBecomes, BecomeSameJob, EndSameJob DEF FindMachine, Query
<1>4. CASE InitMachine(p)
  <2>1. SameJob(me, [me EXCEPT !.pc = "start"])
    BY <1>1 DEF SameJob, Local, UpLabels, Past
  <2> QED
    BY <1>4, <2>1, CallBecomes, BecomeSameJob, EndSameJob DEF InitMachine, PodmanCall
<1>5. CASE StartMachine(p)
  BY <1>1, <1>5, CallBecomes, BecomeSameJob, EndSameJob, EnterSameJob DEF StartMachine, PodmanCall
<1>6. CASE FindNetwork(p)
  <2>1. me.pc = "nets"
    BY <1>6 DEF FindNetwork, At
  <2>2. SameJob(me, [me EXCEPT !.zones = @ \ {First(me.zones)}])
    BY <1>1, <2>1 DEF SameJob, Local, UpLabels, Past
  <2>3. SameJob(me, [me EXCEPT !.pc = "mknet"])
    BY <1>1 DEF SameJob, Local, UpLabels, Past
  <2> QED
    BY <1>6, <2>2, <2>3, CallBecomes, BecomeSameJob, EndSameJob DEF FindNetwork, Query
<1>7. CASE CreateNetwork(p)
  <2>1. SameJob(me, [me EXCEPT !.pc = "nets", !.zones = @ \ {First(me.zones)}])
    BY <1>1 DEF SameJob, Local, UpLabels, Past
  <2> QED
    BY <1>7, <2>1, CallBecomes, BecomeSameJob, EndSameJob DEF CreateNetwork, PodmanCall
<1>8. CASE BeginZones(p)
  BY <1>1, <1>8, BecomeSameJob, EnterSameJob DEF BeginZones, LocalStep
<1>9. \A s, v : /\ SameJob(me, [me EXCEPT !.pc = "mint"])
                /\ SameJob(me, [me EXCEPT !.pc = "put", !.fresh = v])
                /\ SameJob(me, [me EXCEPT !.pc = "play"])
                /\ SameJob(me, [me EXCEPT !.pc = "zone", !.work = v])
                /\ SameJob(me, [me EXCEPT !.pc = "zone", !.todo = v, !.failed = TRUE])
                /\ SameJob(me, [me EXCEPT !.pc = "zone", !.todo = @ \ {s}, !.got[s] = v,
                                          !.fresh = None])
  BY <1>1 DEF SameJob, Local, UpLabels, Past
<1>10. me.pc = "zone" =>
         \A s, v : /\ SameJob(me, [me EXCEPT !.todo = @ \ {s}, !.got[s] = v])
                   /\ SameJob(me, [me EXCEPT !.todo = @ \ {s}, !.failed = TRUE])
                   /\ SameJob(me, [me EXCEPT !.got[s] = v])
  BY <1>1 DEF SameJob, Local, UpLabels, Past
<1>11. CASE Resolve(p)
  BY <1>9, <1>10, <1>11, CallBecomes, BecomeSameJob, EndSameJob DEF Resolve, Query, At
<1>12. CASE Mint(p) \/ Put(p)
  BY <1>9, <1>12, CallBecomes, BecomeSameJob, EndSameJob
     DEF Mint, Put, PutFails, PodmanCall, KeychainCall
<1>13. CASE Inject(p)
  BY <1>10, <1>13, CallBecomes, BecomeSameJob, EndSameJob
     DEF Inject, Resolved, PodmanCall
<1>14. CASE Build(p) \/ Play(p)
  BY <1>9, <1>14, CallBecomes, BecomeSameJob, EndSameJob
     DEF Build, Play, Query, PodmanCall
<1>15. CASE EndZone(p) \/ Ready(p)
  BY <1>1, <1>15, CallBecomes, BecomeSameJob, EndSameJob, EnterSameJob
     DEF EndZone, Ready, LocalStep, Query
<1> QED
  BY <1>2, <1>3, <1>4, <1>5, <1>6, <1>7, <1>8, <1>9, <1>10, <1>11, <1>12, <1>13,
     <1>14, <1>15 DEF UpStep

\* Each step of an up is one from a place of an up, and what is done in its
\* first place is the search for the user's secrets and for the machine.
LEMMA UpPlaces ==
  ASSUME NEW p \in Proc, UpStep(p)
  PROVE /\ proc[p].pc \in UpLabels
        /\ proc[p].pc = "users" => DescribeUser(p) \/ UserMissing(p) \/ FindMachine(p)
<1>1. CASE DescribeUser(p) \/ UserMissing(p) \/ FindMachine(p)
  BY <1>1 DEF DescribeUser, UserMissing, FindMachine, At, UpLabels
<1>2. CASE InitMachine(p) \/ StartMachine(p)
  BY <1>2 DEF InitMachine, StartMachine, At, UpLabels
<1>3. CASE FindNetwork(p) \/ CreateNetwork(p) \/ BeginZones(p)
  BY <1>3 DEF FindNetwork, CreateNetwork, BeginZones, At, UpLabels
<1>4. CASE Resolve(p) \/ Mint(p) \/ Put(p) \/ FindingsEndZone(p)
  BY <1>4 DEF Resolve, Mint, Put, FindingsEndZone, At, UpLabels
<1>5. CASE Inject(p) \/ Build(p) \/ EndZone(p) \/ Ready(p)
  BY <1>5 DEF Inject, Build, EndZone, Ready, Injected, Resolved, UpLabels
<1>6. CASE Play(p)
  BY <1>6 DEF Play, At, UpLabels
<1> QED
  BY <1>1, <1>2, <1>3, <1>4, <1>5, <1>6 DEF UpStep

\* Places that are none of an up's.
NotUp(it) == it.pc \notin UpLabels

OffStep(p) == Alone(p) /\ NotUp(proc'[p])

\* A process that becomes what is at none of them leaves them.
LEMMA BecomeNotUp ==
  ASSUME TypeOK, NEW p \in Proc, NEW ACTION it, Become(p, it), NotUp(it)
  PROVE OffStep(p)
BY BecomeAlone DEF OffStep

\* No run that ended is at one of them.
LEMMA EndNotUp ==
  ASSUME NEW me
  PROVE /\ \A c : NotUp(Idle(c))
        /\ NotUp(Report(me)) /\ NotUp(ReturnError(me))
BY DEF NotUp, Idle, Report, ReturnError, UpLabels

\* A down never comes to a place of an up.
LEMMA DownNotUp ==
  ASSUME TypeOK, NEW p \in Proc, DownStep(p)
  PROVE OffStep(p)
<1> DEFINE me == proc[p]
<1>1. me \in Local
  BY DEF TypeOK
<1>2. \A it \in Local : \A zones : NotUp(EnterDown(it, zones))
  BY DEF NotUp, EnterDown, Local, UpLabels
<1>3. CASE ListMachine(p)
  BY <1>1, <1>3, CallBecomes, BecomeNotUp, EndNotUp
     DEF ListMachine, Query, NotUp, Local, UpLabels
<1>4. CASE SnapshotPods(p)
  <2>1. [me EXCEPT !.present = Listed(me.top)] \in Local
    BY <1>1 DEF Listed, ListPods, Local
  <2> QED
    BY <1>2, <1>4, <2>1, CallBecomes, BecomeNotUp, EndNotUp DEF SnapshotPods, Query
<1>5. CASE SkipAbsent(p)
  BY <1>1, <1>5, BecomeNotUp DEF SkipAbsent, LocalStep, At, NotUp, Local, UpLabels
<1>6. CASE KubeDown(p)
  <2>1. NotUp([me EXCEPT !.work = WithoutLast(me), !.present = @ \ {LastWork(me)}])
    BY <1>1, <1>6 DEF KubeDown, At, NotUp, Local, UpLabels
  <2>2. NotUp([me EXCEPT !.work = WithoutLast(me), !.failed = TRUE, !.kept = TRUE])
    BY <1>1, <1>6 DEF KubeDown, At, NotUp, Local, UpLabels
  <2> QED
    BY <1>6, <2>1, <2>2, CallBecomes, BecomeNotUp, EndNotUp
       DEF KubeDown, DownFails, PodmanCall
<1>7. CASE KeepNetwork(p) \/ FindOldNetwork(p) \/ RemoveNetwork(p)
  <2>1. [me EXCEPT !.failed = TRUE] \in Local
    BY <1>1 DEF Local
  <2>2. NotUp(NetworkDone(me)) /\ NotUp(NetworkDone([me EXCEPT !.failed = TRUE]))
    BY <1>1, <1>2, <2>1 DEF NetworkDone
  <2>3. NotUp([me EXCEPT !.pc = "rmnet"])
    BY <1>1 DEF NotUp, Local, UpLabels
  <2> QED
    BY <1>7, <2>2, <2>3, CallBecomes, BecomeNotUp, EndNotUp
       DEF KeepNetwork, FindOldNetwork, RemoveNetwork, RemoveFails, LocalStep, Query, PodmanCall
<1>8. CASE KeepStore(p) \/ Forgotten(p)
  BY <1>8, BecomeNotUp, EndNotUp DEF KeepStore, Forgotten, LocalStep
<1>9. NotUp(PurgeFails(me))
  <2>1. NotUp([me EXCEPT !.pc = "stop", !.failed = TRUE, !.todo = {}])
    BY <1>1 DEF NotUp, Local, UpLabels
  <2> QED
    BY <2>1, EndNotUp DEF PurgeFails
<1>10. CASE ListStored(p) \/ RemoveSecret(p) \/ RemoveVolume(p)
  <2>1. \A todo : /\ NotUp([me EXCEPT !.pc = "purge", !.todo = todo])
                  /\ NotUp([me EXCEPT !.pc = "purgevol"])
    BY <1>1 DEF NotUp, Local, UpLabels
  <2> QED
    BY <1>9, <1>10, <2>1, CallBecomes, BecomeNotUp
       DEF ListStored, RemoveSecret, RemoveVolume, Query, PodmanCall
<1>11. CASE StopMachine(p) \/ RemoveMachine(p)
  BY <1>1, <1>11, CallBecomes, BecomeNotUp, EndNotUp
     DEF StopMachine, RemoveMachine, PodmanCall, NotUp, Local, UpLabels
<1>12. CASE FindMinted(p)
  BY <1>1, <1>12, CallBecomes, BecomeNotUp
     DEF FindMinted, Query, At, NotUp, Local, UpLabels
<1>13. CASE DeleteMinted(p)
  BY <1>1, <1>13, CallBecomes, BecomeNotUp
     DEF DeleteMinted, KeychainCall, NotUp, Local, UpLabels
<1> QED
  BY <1>3, <1>4, <1>5, <1>6, <1>7, <1>8, <1>10, <1>11, <1>12, <1>13 DEF DownStep

-----------------------------------------------------------------------------
(* up: the user's secrets                                                  *)

\* What the first loop of me has found, or is still to find.
Looked(me) ==
  /\ me.pc \in Past => \A s \in UserSecrets(me.top, me.roles) : IsSet(s)
  /\ me.pc = "users" =>
       \A s \in UserSecrets(me.top, me.roles) : s \in me.todo \/ me.failed \/ IsSet(s)

LooksOn(p) == Alone(p) /\ Looked(proc[p])'

LookedOK == \A p \in Proc : Looked(proc[p])

\* What is found of the user's secrets is not lost.
LEMMA UserKept ==
  ASSUME TypeOK, PlaceOK, [Next]_vars, NEW t, NEW roles,
         NEW s \in UserSecrets(t, roles), IsSet(s)
  PROVE IsSet(s)'
<1>1. s \in Secret /\ SourceOf(s) = "user"
  BY DEF UserSecrets, ForZone
<1>2. s \in Durable
  BY <1>1 DEF Durable, Minted
<1> QED
  BY <1>2, DurableKept DEF IsSet

\* A process that does not move, or stays at its job, has looked.
LEMMA StayLooked ==
  ASSUME TypeOK, PlaceOK, [Next]_vars, NEW p \in Proc, Looked(proc[p]), 
         proc'[p].pc = proc[p].pc, proc'[p].top = proc[p].top,
         proc'[p].roles = proc[p].roles, proc'[p].todo = proc[p].todo,
         proc'[p].failed = proc[p].failed
  PROVE Looked(proc[p])'
BY UserKept DEF Looked

\* One that goes on with its job has looked, if nothing is left to be found.
LEMMA PastLooked ==
  ASSUME TypeOK, PlaceOK, [Next]_vars, NEW p \in Proc, JobStep(p),
         \A s \in UserSecrets(proc[p].top, proc[p].roles) : IsSet(s)
  PROVE LooksOn(p)
BY UserKept DEF LooksOn, Looked, JobStep, SameJob, Past, UpLabels

\* A process elsewhere has nothing to look for.
LEMMA ElsewhereLooked ==
  ASSUME NEW p \in Proc, OffStep(p)
  PROVE LooksOn(p)
BY DEF LooksOn, OffStep, NotUp, Looked, Past, UpLabels

\* Each step of p keeps its own finding.
LEMMA UpLooked ==
  ASSUME TypeOK, PlaceOK, [Next]_vars, NEW p \in Proc, Looked(proc[p]), UpStep(p)
  PROVE LooksOn(p)
<1> DEFINE me == proc[p]
<1>1. me \in Local
  BY DEF TypeOK
<1>2. CASE DescribeUser(p)
  <2>1. PICK s \in me.todo :
          \/ Become(p, [me EXCEPT !.todo = @ \ {s}, !.failed = @ \/ ~IsSet(s)])
          \/ Become(p, ReturnError(me))
    BY <1>2, CallBecomes DEF DescribeUser, Query
  <2>2. CASE Become(p, ReturnError(me))
    BY <2>2, BecomeNotUp, EndNotUp, ElsewhereLooked
  <2>3. CASE Become(p, [me EXCEPT !.todo = @ \ {s}, !.failed = @ \/ ~IsSet(s)])
    <3>1. /\ proc'[p].pc = "users" /\ me.pc = "users"
          /\ proc'[p].top = me.top /\ proc'[p].roles = me.roles
          /\ proc'[p].todo = me.todo \ {s}
      BY <1>1, <1>2, <2>3 DEF DescribeUser, At, Become, TypeOK, Local
    <3>2. proc'[p].failed = (me.failed \/ ~IsSet(s))
      BY <1>1, <2>3, Zenon DEF Become, TypeOK, Local
    <3>3. ASSUME NEW u \in UserSecrets(me.top, me.roles)
          PROVE u \in proc'[p].todo \/ proc'[p].failed \/ IsSet(u)'
      <4>1. u \in me.todo \/ me.failed \/ IsSet(u)
        BY <3>1, <3>3 DEF Looked
      <4>2. IsSet(u) => IsSet(u)'
        BY UserKept
      <4> QED
        BY <3>1, <3>2, <4>1, <4>2
    <3> QED
      BY <2>3, <3>1, <3>3, BecomeAlone DEF LooksOn, Looked, Past
  <2> QED
    BY <2>1, <2>2, <2>3
<1>3. CASE UserMissing(p)
  BY <1>3, BecomeNotUp, EndNotUp, ElsewhereLooked DEF UserMissing, LocalStep
<1>4. CASE FindMachine(p)
  <2>1. \A s \in UserSecrets(me.top, me.roles) : IsSet(s)
    BY <1>4 DEF FindMachine, At, Looked
  <2>2. ~DescribeUser(p)
    BY <1>4 DEF FindMachine, DescribeUser
  <2> QED
    BY <1>4, <2>1, <2>2, UpSameJob, PastLooked DEF UpStep
<1>5. CASE me.pc # "users"
  <2>1. me.pc \in Past /\ ~DescribeUser(p)
    BY <1>5, UpPlaces DEF Past, DescribeUser, At
  <2> QED
    BY <2>1, UpSameJob, PastLooked DEF Looked
<1> QED
  BY <1>2, <1>3, <1>4, <1>5, UpPlaces

\* Starting a command sets what is to be looked for.
LEMMA StartLooked ==
  ASSUME TypeOK, NEW p \in Proc, Start(p)
  PROVE LooksOn(p)
<1>1. CASE Refuse(p)
  BY <1>1, BecomeNotUp, EndNotUp, ElsewhereLooked DEF Refuse, LocalStep
<1>2. CASE StartUp(p)
  <2>1. PICK job \in Jobs, t \in Topologies :
          Become(p, [Loaded(job, t) EXCEPT !.pc = "users", !.todo = UserSecrets(t, job.roles)])
    BY <1>2 DEF StartUp, LocalStep
  <2>2. /\ proc'[p].pc = "users" /\ proc'[p].top = t /\ proc'[p].roles = job.roles
        /\ proc'[p].todo = UserSecrets(t, job.roles)
    BY <2>1 DEF Become, TypeOK, Loaded, Idle
  <2> QED
    BY <2>1, <2>2, BecomeAlone DEF LooksOn, Looked, Past
<1>3. CASE StartDown(p)
  <2>1. PICK job \in Jobs, t \in Topologies :
          Become(p, [Loaded(job, t) EXCEPT !.pc = "list"])
    BY <1>3 DEF StartDown, LocalStep
  <2>2. NotUp([Loaded(job, t) EXCEPT !.pc = "list"])
    BY DEF NotUp, Loaded, Idle, UpLabels
  <2> QED
    BY <2>1, <2>2, BecomeNotUp, ElsewhereLooked
<1> QED
  BY <1>1, <1>2, <1>3 DEF Start

\* Neither does a signal or a crash find or lose anything.
LEMMA OutsideLooked ==
  ASSUME TypeOK, PlaceOK, [Next]_vars, NEW p \in Proc, Looked(proc[p]),
         SeesInterrupt(p) \/ Interrupt(p) \/ Crash(p)
  PROVE LooksOn(p)
<1>1. CASE SeesInterrupt(p) \/ Crash(p)
  BY <1>1, BecomeNotUp, EndNotUp, ElsewhereLooked DEF SeesInterrupt, Crash, LocalStep
<1>2. CASE Interrupt(p)
  <2>1. Become(p, [proc[p] EXCEPT !.cancelled = TRUE])
    BY <1>2 DEF Interrupt
  <2>2. /\ Alone(p)
        /\ proc'[p].pc = proc[p].pc /\ proc'[p].top = proc[p].top
        /\ proc'[p].roles = proc[p].roles /\ proc'[p].todo = proc[p].todo
        /\ proc'[p].failed = proc[p].failed
    BY <2>1, BecomeAlone DEF TypeOK, Local
  <2> QED
    BY <2>2, StayLooked DEF LooksOn
<1> QED
  BY <1>1, <1>2

\* No step breaks LookedOK.
LEMMA StepLooked ==
  ASSUME TypeOK, PlaceOK, [Next]_vars, LookedOK
  PROVE LookedOK'
<1>1. ASSUME NEW p \in Proc, LooksOn(p)
      PROVE LookedOK'
  <2>1. \A q \in Proc : q # p => proc'[q] = proc[q]
    BY <1>1, BecomeAlone DEF LooksOn, Alone
  <2>2. \A q \in Proc : Looked(proc[q])'
    BY <1>1, <2>1, StayLooked DEF LooksOn, LookedOK
  <2> QED
    BY <2>2 DEF LookedOK
<1>2. ASSUME UNCHANGED proc
      PROVE LookedOK'
  BY <1>2, StayLooked DEF LookedOK
<1>3. ASSUME NEW p \in Proc, DownStep(p)
      PROVE LookedOK'
  BY <1>1, <1>3, DownNotUp, ElsewhereLooked
<1>4. ASSUME NEW p \in Proc, Step(p)
      PROVE LookedOK'
  BY <1>1, <1>3, <1>4, UpLooked, OutsideLooked DEF Step, LookedOK
<1>5. CASE Reboot
  <2>1. ASSUME NEW p \in Proc
        PROVE Looked(proc[p])'
    <3>1. proc'[p] = proc[p] \/ proc'[p] = Idle("crashed")
      BY <1>5 DEF Reboot
    <3>2. CASE proc'[p] = proc[p]
      BY <3>2, StayLooked DEF LookedOK
    <3>3. CASE proc'[p] = Idle("crashed")
      BY <3>3 DEF Looked, Idle, Past, UpLabels
    <3> QED
      BY <3>1, <3>2, <3>3
  <2> QED
    BY <2>1 DEF LookedOK
<1> QED
  BY <1>1, <1>2, <1>4, <1>5, StartLooked, OutsideLooked DEF Next, vars, LookedOK

\* Past its first loop an up has every one of its user's secrets, however many
\* other commands run, whatever fails and whenever the host restarts.
THEOREM UserSecretsAreFirst == Spec => []UserSecretsFirst
<1>1. Init => LookedOK
  BY DEF Init, CommandInit, Idle, LookedOK, Looked, Past, UpLabels
<1>2. TypeOK /\ PlaceOK /\ LookedOK /\ [Next]_vars => LookedOK'
  BY StepLooked
<1>3. TypeOK /\ LookedOK => UserSecretsFirst
  <2>1. ASSUME TypeOK, LookedOK, NEW p \in Proc, proc[p].pc \in Past,
               NEW r \in proc[p].roles, NEW s \in ForZone(proc[p].top, r),
               SourceOf(s) = "user"
        PROVE IsSet(s)
    <3>1. s \in UserSecrets(proc[p].top, proc[p].roles)
      BY <2>1 DEF UserSecrets
    <3> QED
      BY <2>1, <3>1 DEF LookedOK, Looked
  <2> QED
    BY <2>1 DEF UserSecretsFirst, Past
<1> QED
  BY <1>1, <1>2, <1>3, Invariance, PTL DEF Spec

-----------------------------------------------------------------------------
(* down: what it listed is all there is                                    *)

Tearing == {"down", "rmnet", "purge", "purgevol", "stop"}

\* What me, a down, knows of the pods there are and of what is stored.
PodsCovered(me, there) ==
  /\ me.pc \in {"down", "rmnet"} => there \subseteq me.present
  /\ me.pc \in {"purge", "purgevol", "stop"} => there = {}

StoreCovered(me, stored) ==
  /\ me.pc = "purge" /\ ~me.failed => stored \subseteq me.todo
  /\ me.pc = "purgevol" /\ ~me.failed =>
       \A s \in me.todo : IsFirst(s, me.todo) => stored \subseteq me.todo \ {s}
  /\ me.pc = "stop" => me.failed

Covers(me, there, stored) == PodsCovered(me, there) /\ StoreCovered(me, stored)

Covered == \A p \in Proc : Covers(proc[p], ListPods, ListSecrets)

\* The step of p is one to a place that it fits.
Fits(p, it) == Become(p, it) /\ Covers(it, ListPods', ListSecrets')

\* Before and after the teardown there is nothing to know.
LEMMA ElsewhereCovers ==
  ASSUME NEW it, it.pc \notin Tearing
  PROVE \A there, stored : Covers(it, there, stored)
BY DEF Covers, PodsCovered, StoreCovered, Tearing

\* A run that ended knows nothing.
LEMMA EndCovers ==
  ASSUME NEW me, NEW there, NEW stored
  PROVE /\ \A c : Covers(Idle(c), there, stored)
        /\ Covers(Report(me), there, stored) /\ Covers(ReturnError(me), there, stored)
BY ElsewhereCovers DEF Idle, Report, ReturnError, Tearing

\* What a step makes of the pods and the store is less, or the same.
PodsKept == ListPods' \subseteq ListPods
StoreSame == ListSecrets' = ListSecrets

\* A call that only reads changes neither.
LEMMA QueryKeeps ==
  ASSUME NEW p \in Proc, NEW ACTION can, NEW ACTION done, NEW ACTION failure,
         Query(p, can, done, failure)
  PROVE PodsKept /\ StoreSame
BY DEF Query, Call, podmanVars, PodsKept, StoreSame, ListPods, ListSecrets

\* A step that calls nothing changes neither.
LEMMA LocalKeeps ==
  ASSUME NEW p \in Proc, NEW ACTION it, LocalStep(p, it)
  PROVE PodsKept /\ StoreSame
BY DEF LocalStep, podmanVars, PodsKept, StoreSame, ListPods, ListSecrets

\* Taking the pods down.
LEMMA PodsDownCovers ==
  ASSUME TypeOK, NEW p \in Proc, Covers(proc[p], ListPods, ListSecrets),
         SnapshotPods(p) \/ SkipAbsent(p) \/ KubeDown(p)
  PROVE \E it : Fits(p, it)
<1> DEFINE me == proc[p]
<1>1. me \in Local
  BY DEF TypeOK
<1>2. CASE SnapshotPods(p)
  <2> DEFINE it == EnterDown([me EXCEPT !.present = Listed(me.top)], me.roles)
  <2>1. it.pc = "down" /\ it.present = ListPods
    BY <1>1 DEF EnterDown, Listed, Local
  <2>2. Covers(it, ListPods', ListSecrets')
    BY <1>2, <2>1, QueryKeeps DEF SnapshotPods, PodsKept, Covers, PodsCovered, StoreCovered
  <2> QED
    BY <1>2, <2>2, CallBecomes, EndCovers DEF SnapshotPods, Query, Fits
<1>3. CASE SkipAbsent(p)
  <2> DEFINE it == [me EXCEPT !.work = WithoutLast(me)]
  <2>1. it.pc = "down" /\ it.present = me.present /\ me.pc = "down"
    BY <1>1, <1>3 DEF SkipAbsent, At, Local
  <2>2. Covers(it, ListPods', ListSecrets')
    BY <1>3, <2>1, LocalKeeps
       DEF SkipAbsent, PodsKept, Covers, PodsCovered, StoreCovered
  <2> QED
    BY <1>3, <2>2 DEF SkipAbsent, LocalStep, Fits
<1>4. CASE KubeDown(p)
  <2> DEFINE w == LastWork(me)
             done == [me EXCEPT !.work = WithoutLast(me), !.present = @ \ {w}]
             left == [me EXCEPT !.work = WithoutLast(me), !.failed = TRUE, !.kept = TRUE]
  <2>1. /\ me.pc = "down" /\ w \in me.present /\ w \in Workload
        /\ PodmanCall(p, CanDown, DoDown(w), done, DownFails(me))
    BY <1>1, <1>4 DEF KubeDown, At, Local
  <2>2. ListPods \subseteq me.present
    BY <2>1 DEF Covers, PodsCovered
  <2>3. DoDown(w) => ListPods' = ListPods \ {w}
    BY <2>1 DEF DoDown, ListPods, TypeOK, PodmanTypeOK
  <2>4. CASE DoDown(w) /\ Become(p, done)
    <3>1. done.pc = "down" /\ done.present = me.present \ {w}
      BY <1>1, <2>1 DEF Local
    <3> QED
      BY <2>2, <2>3, <2>4, <3>1 DEF Fits, Covers, PodsCovered, StoreCovered
  <2>5. CASE Become(p, DownFails(me)) /\ (DoDown(w) \/ UNCHANGED podmanVars)
    <3>1. left.pc = "down" /\ left.present = me.present
      BY <1>1, <2>1 DEF Local
    <3>2. ListPods' \subseteq ListPods
      BY <2>3, <2>5 DEF podmanVars, ListPods
    <3>3. Covers(left, ListPods', ListSecrets')
      BY <2>2, <3>1, <3>2 DEF Covers, PodsCovered, StoreCovered
    <3> QED
      BY <2>5, <3>3, EndCovers DEF DownFails, Fits
  <2> QED
    BY <2>1, <2>4, <2>5 DEF PodmanCall, Call
<1> QED
  BY <1>2, <1>3, <1>4

\* A zone's network, and the next zone.
LEMMA NetworkCovers ==
  ASSUME TypeOK, NEW p \in Proc, Covers(proc[p], ListPods, ListSecrets),
         KeepNetwork(p) \/ FindOldNetwork(p) \/ RemoveNetwork(p)
  PROVE \E it : Fits(p, it)
<1> DEFINE me == proc[p]
           failed == [me EXCEPT !.failed = TRUE]
           rmnet == [me EXCEPT !.pc = "rmnet"]
<1>1. me \in Local
  BY DEF TypeOK
<1>2. /\ me.pc \in {"down", "rmnet"}
      /\ PodsKept
  <2>1. CASE KeepNetwork(p)
    BY <2>1, LocalKeeps DEF KeepNetwork, AtNetwork
  <2>2. CASE FindOldNetwork(p)
    BY <2>2, QueryKeeps DEF FindOldNetwork, AtNetwork
  <2>3. CASE RemoveNetwork(p)
    BY <2>3 DEF RemoveNetwork, At, PodmanCall, Call, DoRemoveNetwork, podmanVars,
                PodsKept, ListPods
  <2> QED
    BY <2>1, <2>2, <2>3
<1>3. \/ Become(p, NetworkDone(me)) \/ Become(p, NetworkDone(failed))
      \/ Become(p, rmnet) \/ Become(p, Idle("interrupted"))
  BY CallBecomes
     DEF KeepNetwork, FindOldNetwork, RemoveNetwork, RemoveFails, LocalStep, Query, PodmanCall
<1>4. ListPods' \subseteq me.present
  BY <1>2 DEF Covers, PodsCovered, PodsKept
<1>5. ASSUME NEW it \in Local, it.present = me.present
      PROVE Covers(NetworkDone(it), ListPods', ListSecrets')
  <2>1. NetworkDone(it).pc = "down" /\ NetworkDone(it).present = me.present
    BY <1>5 DEF NetworkDone, EnterDown, Local
  <2> QED
    BY <1>4, <2>1 DEF Covers, PodsCovered, StoreCovered
<1>6. failed \in Local /\ failed.present = me.present
  BY <1>1 DEF Local
<1>7. Covers(rmnet, ListPods', ListSecrets')
  <2>1. rmnet.pc = "rmnet" /\ rmnet.present = me.present
    BY <1>1 DEF Local
  <2> QED
    BY <1>4, <2>1 DEF Covers, PodsCovered, StoreCovered
<1> QED
  BY <1>1, <1>3, <1>5, <1>6, <1>7, EndCovers DEF Fits

\* A purge that fails goes on to stop, with a FAIL.
LEMMA FailCovers ==
  ASSUME NEW me \in Local, NEW stored
  PROVE Covers(PurgeFails(me), {}, stored)
<1> DEFINE stop == [me EXCEPT !.pc = "stop", !.failed = TRUE, !.todo = {}]
<1>1. stop.pc = "stop" /\ stop.failed
  BY DEF Local
<1>2. Covers(stop, {}, stored)
  BY <1>1 DEF Covers, PodsCovered, StoreCovered
<1> QED
  BY <1>2, EndCovers DEF PurgeFails

\* The purge: what is left of the store is still to do.
LEMMA PurgeCovers ==
  ASSUME TypeOK, NEW p \in Proc, Covers(proc[p], ListPods, ListSecrets),
         ListStored(p) \/ RemoveSecret(p) \/ RemoveVolume(p)
  PROVE \E it : Fits(p, it)
<1> DEFINE me == proc[p]
<1>1. me \in Local
  BY DEF TypeOK
<1>2. CASE ListStored(p)
  <2> DEFINE it == [me EXCEPT !.pc = "purge", !.todo = Purgeable(me.top)]
  <2>1. ListPods' = {} /\ ListSecrets' = ListSecrets
    BY <1>2, QueryKeeps
       DEF ListStored, ZonesDown, Kept, Covers, PodsCovered, PodsKept, StoreSame
  <2>2. it.pc = "purge" /\ it.todo = ListSecrets
    BY <1>1 DEF Purgeable, Local
  <2>3. Covers(it, ListPods', ListSecrets')
    BY <2>1, <2>2 DEF Covers, PodsCovered, StoreCovered
  <2> QED
    BY <1>1, <1>2, <2>1, <2>3, CallBecomes, FailCovers DEF ListStored, Query, Fits
<1>3. CASE RemoveSecret(p)
  <2> DEFINE it == [me EXCEPT !.pc = "purgevol"]
  <2>1. PICK s \in me.todo :
          /\ IsFirst(s, me.todo)
          /\ PodmanCall(p, CanRemoveSecret(s), DoRemoveSecret(s), it, PurgeFails(me))
    BY <1>3 DEF RemoveSecret
  <2>2. me.pc = "purge" /\ s \in Secret
    BY <1>1, <1>3 DEF RemoveSecret, At, Local
  <2>3. ListPods' = {}
    BY <2>1, <2>2 DEF PodmanCall, Call, DoRemoveSecret, podmanVars, ListPods,
                      Covers, PodsCovered
  <2>4. CASE DoRemoveSecret(s) /\ Become(p, it)
    <3>1. it.pc = "purgevol" /\ it.todo = me.todo /\ it.failed = me.failed
      BY <1>1 DEF Local
    <3>2. ListSecrets' = ListSecrets \ {s}
      BY <2>2, <2>4 DEF DoRemoveSecret, ListSecrets, TypeOK, PodmanTypeOK
    <3>3. ~me.failed => ListSecrets \subseteq me.todo
      BY <2>2 DEF Covers, StoreCovered
    <3>4. ASSUME NEW u \in me.todo, IsFirst(u, me.todo)
          PROVE u = s
      <4>1. u \in Secret /\ NameRank[u] \in Int /\ NameRank[s] \in Int
        BY <1>1, <2>2, SecretAssumption DEF Local
      <4>2. NameRank[u] = NameRank[s]
        BY <2>1, <3>4, <4>1 DEF IsFirst
      <4> QED
        BY <2>2, <4>1, <4>2, SecretAssumption
    <3>5. Covers(it, ListPods', ListSecrets')
      BY <2>3, <3>1, <3>2, <3>3, <3>4 DEF Covers, PodsCovered, StoreCovered
    <3> QED
      BY <2>4, <3>5 DEF Fits
  <2>5. CASE Become(p, PurgeFails(me))
    BY <1>1, <2>3, <2>5, FailCovers DEF Fits
  <2> QED
    BY <2>1, <2>4, <2>5 DEF PodmanCall, Call
<1>4. CASE RemoveVolume(p)
  <2>1. PICK s \in me.todo :
          /\ IsFirst(s, me.todo)
          /\ PodmanCall(p, CanRemoveVolume(s), DoRemoveVolume(s),
                        [me EXCEPT !.pc = "purge", !.todo = @ \ {s}], PurgeFails(me))
    BY <1>4 DEF RemoveVolume
  <2> DEFINE it == [me EXCEPT !.pc = "purge", !.todo = @ \ {s}]
  <2>2. me.pc = "purgevol"
    BY <1>4 DEF RemoveVolume, At
  <2>3. ListPods' = {} /\ ListSecrets' = ListSecrets
    BY <2>1, <2>2 DEF PodmanCall, Call, DoRemoveVolume, podmanVars, ListPods,
                      ListSecrets, Covers, PodsCovered
  <2>4. it.pc = "purge" /\ it.todo = me.todo \ {s} /\ it.failed = me.failed
    BY <1>1 DEF Local
  <2>5. ~me.failed => ListSecrets \subseteq me.todo \ {s}
    BY <2>1, <2>2 DEF Covers, StoreCovered
  <2>6. Covers(it, ListPods', ListSecrets')
    BY <2>3, <2>4, <2>5 DEF Covers, PodsCovered, StoreCovered
  <2> QED
    BY <1>1, <2>1, <2>3, <2>6, CallBecomes, FailCovers DEF PodmanCall, Fits
<1> QED
  BY <1>2, <1>3, <1>4

\* The rest of a down, and every step of an up, leads elsewhere.
LEMMA RestCovers ==
  ASSUME TypeOK, NEW p \in Proc,
         \/ ListMachine(p) \/ KeepStore(p) \/ StopMachine(p) \/ RemoveMachine(p)
         \/ FindMinted(p) \/ DeleteMinted(p) \/ Forgotten(p)
  PROVE \E it : Fits(p, it)
<1> DEFINE me == proc[p]
<1>1. me \in Local
  BY DEF TypeOK
<1>2. CASE ListMachine(p)
  <2>1. [me EXCEPT !.pc = "pods"].pc = "pods" /\ [me EXCEPT !.pc = "rm"].pc = "rm"
    BY <1>1 DEF Local
  <2> QED
    BY <1>2, <2>1, CallBecomes, EndCovers, ElsewhereCovers
       DEF ListMachine, Query, Fits, Tearing
<1>3. CASE KeepStore(p) \/ Forgotten(p)
  BY <1>3, EndCovers DEF KeepStore, Forgotten, LocalStep, Fits
<1>4. CASE StopMachine(p) \/ RemoveMachine(p)
  <2>1. /\ [me EXCEPT !.pc = "rm"].pc = "rm"
        /\ [me EXCEPT !.pc = "forget", !.todo = ToForget(me.top)].pc = "forget"
    BY <1>1 DEF Local
  <2> QED
    BY <1>4, <2>1, CallBecomes, EndCovers, ElsewhereCovers
       DEF StopMachine, RemoveMachine, PodmanCall, Fits, Tearing
<1>5. CASE FindMinted(p)
  <2>1. PICK s \in me.todo :
          \/ Become(p, [me EXCEPT !.pc = "delitem"])
          \/ Become(p, [me EXCEPT !.todo = @ \ {s}])
          \/ Become(p, [me EXCEPT !.todo = @ \ {s}, !.failed = TRUE])
    BY <1>5, CallBecomes DEF FindMinted, Query
  <2>2. /\ [me EXCEPT !.pc = "delitem"].pc = "delitem"
        /\ [me EXCEPT !.todo = @ \ {s}].pc = "forget"
        /\ [me EXCEPT !.todo = @ \ {s}, !.failed = TRUE].pc = "forget"
    BY <1>1, <1>5 DEF FindMinted, At, Local
  <2> QED
    BY <2>1, <2>2, ElsewhereCovers DEF Fits, Tearing
<1>6. CASE DeleteMinted(p)
  <2>1. PICK s \in me.todo :
          \/ Become(p, [me EXCEPT !.pc = "forget", !.todo = @ \ {s}])
          \/ Become(p, [me EXCEPT !.pc = "forget", !.todo = @ \ {s}, !.failed = TRUE])
    BY <1>6, CallBecomes DEF DeleteMinted, KeychainCall
  <2>2. /\ [me EXCEPT !.pc = "forget", !.todo = @ \ {s}].pc = "forget"
        /\ [me EXCEPT !.pc = "forget", !.todo = @ \ {s}, !.failed = TRUE].pc = "forget"
    BY <1>1 DEF Local
  <2> QED
    BY <2>1, <2>2, ElsewhereCovers DEF Fits, Tearing
<1> QED
  BY <1>2, <1>3, <1>4, <1>5, <1>6

-----------------------------------------------------------------------------
(* One command at a time                                                   *)

\* A single process meets every step of its own with Covers, and others of
\* its steps lead elsewhere or change nothing it knows of.
LEMMA ProcessCovers ==
  ASSUME TypeOK, NEW p \in Proc, Covers(proc[p], ListPods, ListSecrets),
         Start(p) \/ Step(p) \/ Interrupt(p) \/ Crash(p)
  PROVE \E it : Fits(p, it)
<1> DEFINE me == proc[p]
<1>1. me \in Local
  BY DEF TypeOK
<1>2. CASE Refuse(p) \/ SeesInterrupt(p) \/ Crash(p)
  BY <1>2, EndCovers DEF Refuse, SeesInterrupt, Crash, LocalStep, Fits
<1>3. CASE StartUp(p)
  <2>1. PICK job \in Jobs, t \in Topologies :
          Become(p, [Loaded(job, t) EXCEPT !.pc = "users", !.todo = UserSecrets(t, job.roles)])
    BY <1>3 DEF StartUp, LocalStep
  <2>2. [Loaded(job, t) EXCEPT !.pc = "users", !.todo = UserSecrets(t, job.roles)].pc = "users"
    BY DEF Loaded, Idle
  <2> QED
    BY <2>1, <2>2, ElsewhereCovers DEF Fits, Tearing
<1>4. CASE StartDown(p)
  <2>1. PICK job \in Jobs, t \in Topologies :
          Become(p, [Loaded(job, t) EXCEPT !.pc = "list"])
    BY <1>4 DEF StartDown, LocalStep
  <2>2. [Loaded(job, t) EXCEPT !.pc = "list"].pc = "list"
    BY DEF Loaded, Idle
  <2> QED
    BY <2>1, <2>2, ElsewhereCovers DEF Fits, Tearing
<1>5. CASE DescribeUser(p)
  <2>1. PICK s \in me.todo :
          \/ Become(p, [me EXCEPT !.todo = @ \ {s}, !.failed = @ \/ ~IsSet(s)])
          \/ Become(p, ReturnError(me))
    BY <1>5, CallBecomes DEF DescribeUser, Query
  <2>2. [me EXCEPT !.todo = @ \ {s}, !.failed = @ \/ ~IsSet(s)].pc = "users"
    BY <1>1, <1>5 DEF DescribeUser, At, Local
  <2> QED
    BY <2>1, <2>2, EndCovers, ElsewhereCovers DEF Fits, Tearing
<1>6. CASE UpStep(p) /\ ~DescribeUser(p)
  <2>1. JobStep(p)
    BY <1>6, UpSameJob
  <2>2. proc'[p].pc \notin Tearing
    BY <2>1 DEF JobStep, SameJob, Past, UpLabels, Tearing
  <2> QED
    BY <2>1, <2>2, ElsewhereCovers DEF JobStep, Alone, Fits
<1>7. CASE DownStep(p)
  BY <1>7, PodsDownCovers, NetworkCovers, PurgeCovers, RestCovers DEF DownStep
<1>8. CASE Interrupt(p)
  <2> DEFINE it == [me EXCEPT !.cancelled = TRUE]
  <2>1. /\ it.pc = me.pc /\ it.present = me.present
        /\ it.todo = me.todo /\ it.failed = me.failed
    BY <1>1 DEF Local
  <2>2. ListPods' = ListPods /\ ListSecrets' = ListSecrets
    BY <1>8 DEF Interrupt, podmanVars, ListPods, ListSecrets
  <2>3. Covers(it, ListPods', ListSecrets')
    BY <2>1, <2>2 DEF Covers, PodsCovered, StoreCovered
  <2> QED
    BY <1>8, <2>3 DEF Interrupt, Fits
<1> QED
  BY <1>2, <1>3, <1>4, <1>5, <1>6, <1>7, <1>8 DEF Start, Step

\* No step breaks Covered: there is no other process whose pods could come.
LEMMA StepCovered ==
  ASSUME NEW only, Proc = {only}, TypeOK, Covered, [Next]_vars
  PROVE Covered'
<1>1. CASE UNCHANGED vars
  BY <1>1 DEF vars, podmanVars, Covered, ListPods, ListSecrets
<1>2. CASE Reboot
  <2>1. proc'[only].pc = "idle"
    BY <1>2 DEF Reboot, Busy, Idle
  <2> QED
    BY <2>1, ElsewhereCovers DEF Covered, Tearing
<1>3. ASSUME NEW p \in Proc, NEW ACTION it, Fits(p, it)
      PROVE Covered'
  <2>1. proc'[only] = it /\ Covers(it, ListPods', ListSecrets')
    BY <1>3, BecomeAlone DEF Fits
  <2> QED
    BY <2>1 DEF Covered
<1> QED
  BY <1>1, <1>2, <1>3, ProcessCovers DEF Next, Covered

\* Covered holds at the start and is kept.
LEMMA CoverInvariance ==
  ASSUME NEW only, Proc = {only}
  PROVE Spec => []Covered
<1>1. Init => Covered
  BY ElsewhereCovers DEF Init, CommandInit, Idle, Covered, Tearing
<1>2. TypeOK /\ Covered /\ [Next]_vars => Covered'
  BY StepCovered
<1> QED
  BY <1>1, <1>2, Invariance, PTL DEF Spec

\* Where one command runs at a time, a down comes to purge the store and stop
\* the machine only when no pod is left, whatever earlier commands left there
\* and whatever fails.
THEOREM TeardownIsAfterLastPod ==
  ASSUME NEW only, Proc = {only}
  PROVE Spec => []TeardownAfterLastPod
<1>1. Covered => TeardownAfterLastPod
  BY DEF Covered, Covers, PodsCovered, TeardownAfterLastPod
<1> QED
  BY <1>1, CoverInvariance, PTL

\* Where one command runs at a time, a down that comes to stop the machine
\* with no failure reported has emptied the store.
THEOREM StopHasNoSecret ==
  ASSUME NEW only, Proc = {only}
  PROVE Spec => []StopHoldsNoSecret
<1>1. TypeOK /\ Covered => StopHoldsNoSecret
  BY DEF Covered, Covers, StoreCovered, Stopping, StopHoldsNoSecret
<1> QED
  BY <1>1, CoverInvariance, Invariance, PTL

-----------------------------------------------------------------------------
(* down: what it has taken down so far                                      *)

WorkLeft(me) == {me.work[i] : i \in DOMAIN me.work}

\* A zone of the job that is not to do any more has no pod left, the one it is
\* in only those it still works on.
ZonesTaken(me) ==
  /\ \A r \in me.roles : r \notin me.zones =>
       WorkloadsOf(me.top, r) \cap me.present = {}
  /\ me.zones # {} => WorkloadsOf(me.top, Last(me.zones)) \cap me.present \subseteq WorkLeft(me)

Took(me) ==
  /\ me.pc \in {"down", "rmnet"} /\ ~me.failed => ZonesTaken(me)
  /\ me.pc = "rmnet" => me.work = <<>>

\* The machine is off and its disk gone.
Wiped == ~Running /\ ListSecrets = {}

\* What the course of me has come to, with the machine wiped or not.
Ran(me, wiped) ==
  /\ Took(me)
  /\ me.pc \in UpLabels => me.cmd = "up" /\ Valid(me.top)
  /\ me.pc \in {"forget", "delitem"} => wiped

RanOK == \A p \in Proc : Ran(proc[p], Wiped)

RunsTo(p, it) == Become(p, it) /\ Ran(it, Wiped')

\* The places Ran says something of.
Told == UpLabels \union {"down", "rmnet", "forget", "delitem"}

\* Anywhere else there is nothing to say.
LEMMA ElsewhereRan ==
  ASSUME NEW it, it.pc \notin Told
  PROVE \A wiped : Ran(it, wiped)
BY DEF Ran, Took, Told

\* Nor is there of a run that ended.
LEMMA EndRan ==
  ASSUME NEW me, NEW wiped
  PROVE /\ \A c : Ran(Idle(c), wiped)
        /\ Ran(Report(me), wiped) /\ Ran(ReturnError(me), wiped)
BY ElsewhereRan DEF Idle, Report, ReturnError, Told, UpLabels

\* Down's first zone, with every zone of the job to do.
LEMMA FirstZoneTaken ==
  ASSUME NEW me \in Local, NEW wiped
  PROVE Ran(EnterDown(me, me.roles), wiped)
<1> DEFINE it == EnterDown(me, me.roles)
<1>1. /\ it.pc = "down" /\ it.zones = me.roles /\ it.roles = me.roles
      /\ it.top = me.top /\ it.present = me.present
  BY DEF EnterDown, Local
<1>2. me.roles # {} => it.work = me.top.zone[Last(me.roles)].workloads
  BY DEF EnterDown, Local
<1> HIDE DEF it
<1>3. ZonesTaken(it)
  BY <1>1, <1>2 DEF ZonesTaken, WorkloadsOf, WorkLeft
<1> QED
  BY <1>1, <1>3 DEF Ran, Took, UpLabels, it

\* The next zone, once the work in this one is done.
LEMMA NextZoneTaken ==
  ASSUME NEW me \in Local, NEW wiped, me.work = <<>>, ~me.failed => ZonesTaken(me)
  PROVE Ran(NetworkDone(me), wiped)
<1> DEFINE left == me.zones \ {Last(me.zones)}
           it == EnterDown(me, left)
<1>1. /\ it.pc = "down" /\ it.zones = left /\ it.roles = me.roles
      /\ it.top = me.top /\ it.present = me.present /\ it.failed = me.failed
  BY DEF EnterDown, Local
<1>2. left # {} => it.work = me.top.zone[Last(left)].workloads
  BY DEF EnterDown, Local
<1>3. it = NetworkDone(me)
  BY DEF NetworkDone
<1> HIDE DEF it
<1>4. WorkLeft(me) = {}
  BY DEF WorkLeft
<1>5. ASSUME ~me.failed
      PROVE ZonesTaken(it)
  <2>1. ASSUME NEW r \in me.roles, r \notin left
        PROVE WorkloadsOf(me.top, r) \cap me.present = {}
    BY <1>4, <1>5, <2>1 DEF ZonesTaken
  <2>2. left # {} => WorkloadsOf(it.top, Last(it.zones)) \cap it.present \subseteq WorkLeft(it)
    BY <1>1, <1>2 DEF WorkloadsOf, WorkLeft
  <2> QED
    BY <1>1, <2>1, <2>2 DEF ZonesTaken
<1> QED
  BY <1>1, <1>3, <1>5 DEF Ran, Took, UpLabels

\* Dropping the last workload leaves the work before it.
LEMMA WorkBefore ==
  ASSUME NEW me \in Local, me.work # <<>>
  PROVE WorkLeft(me) \subseteq WorkLeft([me EXCEPT !.work = WithoutLast(me)]) \union {LastWork(me)}
<1> DEFINE n == Len(me.work)
           rest == WithoutLast(me)
<1>1. me.work \in Seq(Workload) /\ n \in Nat /\ DOMAIN me.work = 1 .. n
  BY DEF Local
<1>2. \A i \in 1 .. (n - 1) : me.work[i] \in Workload
  BY <1>1
<1>3. /\ rest \in Seq(Workload) /\ Len(rest) = n - 1
      /\ \A i \in 1 .. (n - 1) : rest[i] = me.work[i]
  BY <1>1, <1>2, EmptySeq, SubSeqProperties DEF WithoutLast
<1>4. DOMAIN rest = 1 .. (n - 1)
  BY <1>3
<1>5. [me EXCEPT !.work = rest].work = rest
  BY DEF Local
<1> HIDE DEF rest
<1>6. ASSUME NEW i \in 1 .. n
      PROVE me.work[i] \in {rest[j] : j \in 1 .. (n - 1)} \union {me.work[n]}
  <2>1. i = n \/ i \in 1 .. (n - 1)
    BY <1>1
  <2> QED
    BY <1>3, <2>1
<1> QED
  BY <1>1, <1>4, <1>5, <1>6 DEF WorkLeft, LastWork, rest

-----------------------------------------------------------------------------
(* down                                                                    *)

\* Taking the pods of a zone down.
LEMMA PodsRan ==
  ASSUME TypeOK, NEW p \in Proc, Ran(proc[p], Wiped),
         SnapshotPods(p) \/ SkipAbsent(p) \/ KubeDown(p)
  PROVE \E it : RunsTo(p, it)
<1> DEFINE me == proc[p]
           rest == WithoutLast(me)
           w == LastWork(me)
<1>1. me \in Local
  BY DEF TypeOK
<1>2. CASE SnapshotPods(p)
  <2> DEFINE seen == [me EXCEPT !.present = Listed(me.top)]
  <2>1. seen \in Local /\ seen.roles = me.roles
    BY <1>1 DEF Listed, ListPods, Local
  <2>2. Ran(EnterDown(seen, me.roles), Wiped')
    BY <2>1, FirstZoneTaken
  <2> QED
    BY <1>2, <2>2, CallBecomes, EndRan DEF SnapshotPods, Query, RunsTo
<1>3. CASE SkipAbsent(p) \/ KubeDown(p)
  <2>1. me.pc = "down" /\ me.work # <<>>
    BY <1>3 DEF SkipAbsent, KubeDown, At
  <2>2. ASSUME NEW it, NEW gone \in {me.present, me.present \ {w}}, w \notin gone,
               it = [me EXCEPT !.work = rest, !.present = gone]
        PROVE Ran(it, Wiped')
    <3>1. /\ it.pc = "down" /\ it.zones = me.zones /\ it.roles = me.roles
          /\ it.top = me.top /\ it.failed = me.failed /\ it.work = rest
          /\ it.present = gone /\ gone \subseteq me.present
      BY <1>1, <2>1, <2>2 DEF Local
    <3>2. WorkLeft(me) \subseteq WorkLeft(it) \union {w}
      <4>1. WorkLeft(it) = WorkLeft([me EXCEPT !.work = rest])
        BY <1>1, <3>1 DEF WorkLeft, Local
      <4> QED
        BY <1>1, <2>1, <4>1, WorkBefore
    <3>3. ~me.failed => ZonesTaken(me)
      BY <2>1 DEF Ran, Took
    <3> HIDE DEF rest, w
    <3>4. ZonesTaken(me) => ZonesTaken(it)
      BY <2>2, <3>1, <3>2 DEF ZonesTaken
    <3> QED
      BY <3>1, <3>3, <3>4 DEF Ran, Took, UpLabels
  <2>3. CASE SkipAbsent(p)
    <3>1. [me EXCEPT !.work = rest] = [me EXCEPT !.work = rest, !.present = me.present]
      BY <1>1 DEF Local
    <3>2. w \notin me.present
      BY <2>3 DEF SkipAbsent
    <3> QED
      BY <2>2, <2>3, <3>1, <3>2 DEF SkipAbsent, LocalStep, RunsTo
  <2>4. CASE KubeDown(p)
    <3> DEFINE left == [me EXCEPT !.work = rest, !.failed = TRUE, !.kept = TRUE]
    <3>1. left.pc = "down" /\ left.failed
      BY <1>1, <2>1 DEF Local
    <3>2. Ran(left, Wiped')
      BY <3>1 DEF Ran, Took, UpLabels
    <3>3. Ran([me EXCEPT !.work = rest, !.present = @ \ {w}], Wiped')
      BY <2>2
    <3> QED
      BY <2>4, <3>2, <3>3, CallBecomes, EndRan DEF KubeDown, DownFails, PodmanCall, RunsTo
  <2> QED
    BY <1>3, <2>3, <2>4
<1> QED
  BY <1>2, <1>3

\* Leaving a zone.
LEMMA NetworkRan ==
  ASSUME TypeOK, NEW p \in Proc, Ran(proc[p], Wiped),
         KeepNetwork(p) \/ FindOldNetwork(p) \/ RemoveNetwork(p)
  PROVE \E it : RunsTo(p, it)
<1> DEFINE me == proc[p]
           failed == [me EXCEPT !.failed = TRUE]
           rmnet == [me EXCEPT !.pc = "rmnet"]
<1>1. me \in Local
  BY DEF TypeOK
<1>2. me.pc \in {"down", "rmnet"} /\ me.work = <<>>
  BY DEF KeepNetwork, FindOldNetwork, RemoveNetwork, AtNetwork, At, Ran, Took
<1>3. ~me.failed => ZonesTaken(me)
  BY <1>2 DEF Ran, Took
<1>4. Ran(NetworkDone(me), Wiped')
  BY <1>1, <1>2, <1>3, NextZoneTaken
<1>5. Ran(NetworkDone(failed), Wiped')
  <2>1. failed \in Local /\ failed.failed /\ failed.work = <<>>
    BY <1>1, <1>2 DEF Local
  <2> QED
    BY <2>1, NextZoneTaken
<1>6. Ran(rmnet, Wiped')
  <2>1. /\ rmnet.pc = "rmnet" /\ rmnet.work = <<>> /\ rmnet.failed = me.failed
        /\ rmnet.zones = me.zones /\ rmnet.roles = me.roles /\ rmnet.top = me.top
        /\ rmnet.present = me.present
    BY <1>1, <1>2 DEF Local
  <2>2. ZonesTaken(me) => ZonesTaken(rmnet)
    BY <1>2, <2>1 DEF ZonesTaken, WorkLeft
  <2> QED
    BY <1>3, <2>1, <2>2 DEF Ran, Took, UpLabels
<1>7. \/ Become(p, NetworkDone(me)) \/ Become(p, NetworkDone(failed))
      \/ Become(p, rmnet) \/ Become(p, Idle("interrupted"))
  BY CallBecomes
     DEF KeepNetwork, FindOldNetwork, RemoveNetwork, RemoveFails, LocalStep, Query, PodmanCall
<1> QED
  BY <1>4, <1>5, <1>6, <1>7, EndRan DEF RunsTo

\* The purge, the stop, and the list of machines lead to where nothing is told.
LEMMA StopRan ==
  ASSUME TypeOK, NEW p \in Proc,
         \/ ListMachine(p) \/ KeepStore(p) \/ ListStored(p) \/ RemoveSecret(p)
         \/ RemoveVolume(p) \/ StopMachine(p) \/ Forgotten(p)
  PROVE \E it : RunsTo(p, it)
<1> DEFINE me == proc[p]
<1>1. me \in Local
  BY DEF TypeOK
<1>2. \A todo, wiped :
        /\ Ran([me EXCEPT !.pc = "pods"], wiped)
        /\ Ran([me EXCEPT !.pc = "rm"], wiped)
        /\ Ran([me EXCEPT !.pc = "purgevol"], wiped)
        /\ Ran([me EXCEPT !.pc = "purge", !.todo = todo], wiped)
        /\ Ran([me EXCEPT !.pc = "stop", !.failed = TRUE, !.todo = todo], wiped)
  BY <1>1, ElsewhereRan DEF Told, UpLabels, Local
<1>3. Ran(PurgeFails(me), Wiped')
  BY <1>2, EndRan DEF PurgeFails
<1>4. CASE ListMachine(p)
  BY <1>2, <1>4, CallBecomes, EndRan DEF ListMachine, Query, RunsTo
<1>5. CASE KeepStore(p) \/ Forgotten(p)
  BY <1>5, EndRan DEF KeepStore, Forgotten, LocalStep, RunsTo
<1>6. CASE ListStored(p) \/ RemoveSecret(p) \/ RemoveVolume(p)
  BY <1>2, <1>3, <1>6, CallBecomes
     DEF ListStored, RemoveSecret, RemoveVolume, Query, PodmanCall, RunsTo
<1>7. CASE StopMachine(p)
  BY <1>2, <1>7, CallBecomes, EndRan DEF StopMachine, PodmanCall, RunsTo
<1> QED
  BY <1>4, <1>5, <1>6, <1>7

\* destroy forgets with the machine gone.
LEMMA ForgetRan ==
  ASSUME TypeOK, NEW p \in Proc, Ran(proc[p], Wiped),
         RemoveMachine(p) \/ FindMinted(p) \/ DeleteMinted(p)
  PROVE \E it : RunsTo(p, it)
<1> DEFINE me == proc[p]
<1>1. me \in Local
  BY DEF TypeOK
<1>2. CASE RemoveMachine(p)
  <2> DEFINE it == [me EXCEPT !.pc = "forget", !.todo = ToForget(me.top)]
  <2>1. it.pc = "forget"
    BY <1>1 DEF Local
  <2>2. \/ DoRemove /\ Become(p, it)
        \/ Become(p, ReturnError(me))
    BY <1>2 DEF RemoveMachine, PodmanCall, Call
  <2> HIDE DEF it
  <2>3. CASE DoRemove /\ Become(p, it)
    <3>1. Wiped'
      BY <2>3 DEF DoRemove, Wiped, Running, ListSecrets
    <3>2. Ran(it, Wiped')
      BY <2>1, <3>1 DEF Ran, Took, UpLabels
    <3> QED
      BY <2>3, <3>2 DEF RunsTo
  <2>4. CASE Become(p, ReturnError(me))
    BY <2>4, EndRan DEF RunsTo
  <2> QED
    BY <2>2, <2>3, <2>4
<1>3. CASE FindMinted(p) \/ DeleteMinted(p)
  <2>1. me.pc \in {"forget", "delitem"}
    BY <1>3 DEF FindMinted, DeleteMinted, At
  <2>2. Wiped'
    <3>1. UNCHANGED podmanVars
      BY <1>3 DEF FindMinted, DeleteMinted, Query, KeychainCall, Call
    <3> QED
      BY <2>1, <3>1 DEF Ran, Wiped, Running, ListSecrets, podmanVars
  <2>3. PICK s \in me.todo :
          \/ Become(p, [me EXCEPT !.pc = "delitem"])
          \/ Become(p, [me EXCEPT !.todo = @ \ {s}])
          \/ Become(p, [me EXCEPT !.todo = @ \ {s}, !.failed = TRUE])
          \/ Become(p, [me EXCEPT !.pc = "forget", !.todo = @ \ {s}])
          \/ Become(p, [me EXCEPT !.pc = "forget", !.todo = @ \ {s}, !.failed = TRUE])
    BY <1>3, CallBecomes DEF FindMinted, DeleteMinted, Query, KeychainCall
  <2>4. /\ [me EXCEPT !.pc = "delitem"].pc = "delitem"
        /\ [me EXCEPT !.todo = @ \ {s}].pc = me.pc
        /\ [me EXCEPT !.todo = @ \ {s}, !.failed = TRUE].pc = me.pc
        /\ [me EXCEPT !.pc = "forget", !.todo = @ \ {s}].pc = "forget"
        /\ [me EXCEPT !.pc = "forget", !.todo = @ \ {s}, !.failed = TRUE].pc = "forget"
    BY <1>1 DEF Local
  <2>5. \E it : Become(p, it) /\ it.pc \in {"forget", "delitem"}
    BY <2>1, <2>3, <2>4
  <2> QED
    BY <2>2, <2>5 DEF RunsTo, Ran, Took, UpLabels
<1> QED
  BY <1>2, <1>3

-----------------------------------------------------------------------------
(* One command at a time                                                   *)

\* Each step of a process leads to what Ran says.
LEMMA ProcessRan ==
  ASSUME TypeOK, NEW p \in Proc, Ran(proc[p], Wiped),
         Start(p) \/ Step(p) \/ Interrupt(p) \/ Crash(p)
  PROVE \E it : RunsTo(p, it)
<1> DEFINE me == proc[p]
<1>1. me \in Local
  BY DEF TypeOK
<1>2. CASE Refuse(p) \/ SeesInterrupt(p) \/ Crash(p)
  BY <1>2, EndRan DEF Refuse, SeesInterrupt, Crash, LocalStep, RunsTo
<1>3. CASE StartUp(p)
  <2>1. PICK job \in Jobs, t \in Topologies :
          /\ job.cmd = "up" /\ Valid(t)
          /\ Become(p, [Loaded(job, t) EXCEPT !.pc = "users", !.todo = UserSecrets(t, job.roles)])
    BY <1>3 DEF StartUp, LocalStep
  <2> DEFINE it == [Loaded(job, t) EXCEPT !.pc = "users", !.todo = UserSecrets(t, job.roles)]
  <2>2. it.pc = "users" /\ it.cmd = job.cmd /\ it.top = t
    BY DEF Loaded, Idle
  <2>3. Ran(it, Wiped')
    BY <2>1, <2>2 DEF Ran, Took
  <2> QED
    BY <2>1, <2>3 DEF RunsTo
<1>4. CASE StartDown(p)
  <2>1. PICK job \in Jobs, t \in Topologies :
          Become(p, [Loaded(job, t) EXCEPT !.pc = "list"])
    BY <1>4 DEF StartDown, LocalStep
  <2>2. [Loaded(job, t) EXCEPT !.pc = "list"].pc = "list"
    BY DEF Loaded, Idle
  <2> QED
    BY <2>1, <2>2, ElsewhereRan DEF RunsTo, Told, UpLabels
<1>5. CASE DescribeUser(p)
  <2>1. PICK s \in me.todo :
          \/ Become(p, [me EXCEPT !.todo = @ \ {s}, !.failed = @ \/ ~IsSet(s)])
          \/ Become(p, ReturnError(me))
    BY <1>5, CallBecomes DEF DescribeUser, Query
  <2> DEFINE it == [me EXCEPT !.todo = @ \ {s}, !.failed = @ \/ ~IsSet(s)]
  <2>2. it.pc = "users" /\ me.pc = "users" /\ it.cmd = me.cmd /\ it.top = me.top
    BY <1>1, <1>5 DEF DescribeUser, At, Local
  <2>3. Ran(it, Wiped')
    BY <2>2 DEF Ran, Took, UpLabels
  <2> QED
    BY <2>1, <2>3, EndRan DEF RunsTo
<1>6. CASE UpStep(p) /\ ~DescribeUser(p)
  <2>1. JobStep(p) /\ me.cmd = "up" /\ Valid(me.top)
    BY <1>6, UpSameJob, UpPlaces DEF Ran
  <2>2. Ran(proc'[p], Wiped')
    BY <2>1 DEF JobStep, SameJob, Past, UpLabels, Ran, Took
  <2> QED
    BY <2>1, <2>2 DEF JobStep, Alone, RunsTo
<1>7. CASE DownStep(p)
  BY <1>7, PodsRan, NetworkRan, StopRan, ForgetRan DEF DownStep
<1>8. CASE Interrupt(p)
  <2> DEFINE it == [me EXCEPT !.cancelled = TRUE]
  <2>1. /\ it.pc = me.pc /\ it.cmd = me.cmd /\ it.roles = me.roles /\ it.top = me.top
        /\ it.zones = me.zones /\ it.work = me.work /\ it.present = me.present
        /\ it.failed = me.failed
    BY <1>1 DEF Local
  <2>2. Wiped' = Wiped
    BY <1>8 DEF Interrupt, podmanVars, Wiped, Running, ListSecrets
  <2>3. Ran(it, Wiped')
    BY <2>1, <2>2 DEF Ran, Took, ZonesTaken, WorkLeft
  <2> QED
    BY <1>8, <2>3 DEF Interrupt, RunsTo
<1> QED
  BY <1>2, <1>3, <1>4, <1>5, <1>6, <1>7, <1>8 DEF Start, Step

\* No step breaks RanOK.
LEMMA StepRan ==
  ASSUME NEW only, Proc = {only}, TypeOK, RanOK, [Next]_vars
  PROVE RanOK'
<1>1. CASE UNCHANGED vars
  BY <1>1 DEF vars, podmanVars, RanOK, Wiped, Running, ListSecrets
<1>2. CASE Reboot
  <2>1. proc'[only].pc = "idle"
    BY <1>2 DEF Reboot, Busy, Idle
  <2> QED
    BY <2>1, ElsewhereRan DEF RanOK, Told, UpLabels
<1>3. ASSUME NEW p \in Proc, NEW ACTION it, RunsTo(p, it)
      PROVE RanOK'
  <2>1. proc'[only] = it /\ Ran(it, Wiped')
    BY <1>3, BecomeAlone DEF RunsTo
  <2> QED
    BY <2>1 DEF RanOK
<1> QED
  BY <1>1, <1>2, <1>3, ProcessRan DEF Next, RanOK

\* RanOK holds at the start and is kept.
LEMMA RanInvariance ==
  ASSUME NEW only, Proc = {only}
  PROVE Spec => []RanOK
<1>1. Init => RanOK
  BY ElsewhereRan DEF Init, CommandInit, Idle, RanOK, Told, UpLabels
<1>2. TypeOK /\ RanOK /\ [Next]_vars => RanOK'
  BY StepRan
<1> QED
  BY <1>1, <1>2, Invariance, PTL DEF Spec

-----------------------------------------------------------------------------
(* The end of a down                                                       *)

\* A down ends with "ok" in four places only.
LEMMA EndsWhere ==
  ASSUME TypeOK, NEW p \in Proc, DownStep(p), proc'[p].pc = "idle", proc'[p].exit = "ok"
  PROVE \/ ~Running
        \/ ZonesDown(proc[p]) /\ ~proc[p].failed
        \/ proc[p].pc \in {"purge", "stop"}
        \/ proc[p].pc = "forget"
<1> DEFINE me == proc[p]
<1>1. me \in Local
  BY DEF TypeOK
<1>2. \A it : Become(p, it) => proc'[p] = it
  BY DEF TypeOK, Become
<1>3. /\ \A c : Idle(c).exit = c
      /\ ReturnError(me).exit # "ok"
      /\ Report(me).exit = "ok" => ~me.failed
  BY DEF Idle, ReturnError, Report
<1>4. \A it \in Local : \A zones : EnterDown(it, zones).pc = "down"
  BY DEF EnterDown, Local
<1>5. CASE ListMachine(p)
  <2>1. [me EXCEPT !.pc = "pods"].pc = "pods"
    BY <1>1 DEF Local
  <2> QED
    BY <1>2, <1>3, <1>5, <2>1, CallBecomes DEF ListMachine, Query
<1>6. CASE SnapshotPods(p)
  <2>1. [me EXCEPT !.present = Listed(me.top)] \in Local
    BY <1>1 DEF Listed, ListPods, Local
  <2> QED
    BY <1>2, <1>3, <1>4, <1>6, <2>1, CallBecomes DEF SnapshotPods, Query
<1>7. CASE SkipAbsent(p) \/ KubeDown(p)
  <2>1. me.pc = "down"
    BY <1>7 DEF SkipAbsent, KubeDown, At
  <2>2. /\ [me EXCEPT !.work = WithoutLast(me)].pc = "down"
        /\ [me EXCEPT !.work = WithoutLast(me), !.present = @ \ {LastWork(me)}].pc = "down"
        /\ [me EXCEPT !.work = WithoutLast(me), !.failed = TRUE, !.kept = TRUE].pc = "down"
    BY <1>1, <2>1 DEF Local
  <2>3. \/ proc'[p] = [me EXCEPT !.work = WithoutLast(me)]
        \/ proc'[p] = [me EXCEPT !.work = WithoutLast(me), !.present = @ \ {LastWork(me)}]
        \/ proc'[p] = DownFails(me)
    BY <1>2, <1>7, CallBecomes DEF SkipAbsent, KubeDown, LocalStep, PodmanCall
  <2> QED
    BY <1>3, <2>2, <2>3 DEF DownFails
<1>8. CASE KeepNetwork(p) \/ FindOldNetwork(p) \/ RemoveNetwork(p)
  <2> DEFINE failed == [me EXCEPT !.failed = TRUE]
  <2>1. failed \in Local /\ [me EXCEPT !.pc = "rmnet"].pc = "rmnet"
    BY <1>1 DEF Local
  <2>2. NetworkDone(me).pc = "down" /\ NetworkDone(failed).pc = "down"
    BY <1>1, <1>4, <2>1 DEF NetworkDone
  <2>3. \/ proc'[p] = NetworkDone(me) \/ proc'[p] = NetworkDone(failed)
        \/ proc'[p] = [me EXCEPT !.pc = "rmnet"] \/ proc'[p] = Idle("interrupted")
    BY <1>2, <1>8, CallBecomes
       DEF KeepNetwork, FindOldNetwork, RemoveNetwork, RemoveFails, LocalStep, Query, PodmanCall
  <2> QED
    BY <1>3, <2>1, <2>2, <2>3
<1>9. CASE KeepStore(p)
  BY <1>2, <1>3, <1>9 DEF KeepStore, LocalStep
<1>10. CASE ListStored(p) \/ RemoveVolume(p)
  <2>1. \A todo : /\ [me EXCEPT !.pc = "purge", !.todo = todo].pc = "purge"
                  /\ [me EXCEPT !.pc = "stop", !.failed = TRUE, !.todo = todo].pc = "stop"
    BY <1>1 DEF Local
  <2>2. \/ \E todo : proc'[p] = [me EXCEPT !.pc = "purge", !.todo = todo]
        \/ proc'[p] = PurgeFails(me)
    BY <1>2, <1>10, CallBecomes DEF ListStored, RemoveVolume, Query, PodmanCall
  <2> QED
    BY <1>3, <2>1, <2>2 DEF PurgeFails
<1>11. CASE RemoveSecret(p) \/ StopMachine(p) \/ Forgotten(p)
  BY <1>11 DEF RemoveSecret, StopMachine, Stopping, Forgotten, At
<1>12. CASE RemoveMachine(p)
  <2>1. [me EXCEPT !.pc = "forget", !.todo = ToForget(me.top)].pc = "forget"
    BY <1>1 DEF Local
  <2> QED
    BY <1>2, <1>3, <1>12, <2>1, CallBecomes DEF RemoveMachine, PodmanCall
<1>13. CASE FindMinted(p)
  BY <1>13 DEF FindMinted, At
<1>14. CASE DeleteMinted(p)
  <2>1. PICK s \in me.todo :
          \/ proc'[p] = [me EXCEPT !.pc = "forget", !.todo = @ \ {s}]
          \/ proc'[p] = [me EXCEPT !.pc = "forget", !.todo = @ \ {s}, !.failed = TRUE]
    BY <1>2, <1>14, CallBecomes DEF DeleteMinted, KeychainCall
  <2>2. /\ [me EXCEPT !.pc = "forget", !.todo = @ \ {s}].pc = "forget"
        /\ [me EXCEPT !.pc = "forget", !.todo = @ \ {s}, !.failed = TRUE].pc = "forget"
    BY <1>1 DEF Local
  <2> QED
    BY <2>1, <2>2
<1> QED
  BY <1>5, <1>6, <1>7, <1>8, <1>9, <1>10, <1>11, <1>12, <1>13, <1>14 DEF DownStep

\* Where it does, no pod of its zones is left on a running machine.
LEMMA PodsGone ==
  ASSUME TypeOK, Covered, RanOK, NEW p \in Proc, NEW r \in proc[p].roles,
         NEW w \in WorkloadsOf(proc[p].top, r), Running,
         \/ ZonesDown(proc[p]) /\ ~proc[p].failed
         \/ proc[p].pc \in {"purge", "stop"}
         \/ proc[p].pc = "forget"
  PROVE pods[w] = None
<1> DEFINE me == proc[p]
<1>1. me \in Local /\ me.top \in Topologies /\ r \in Role
  BY DEF TypeOK, Local
<1>2. w \in Workload
  BY <1>1, ZoneTypes DEF WorkloadsOf
<1>3. w \notin ListPods
  <2>1. CASE ZonesDown(me) /\ ~me.failed
    <3>1. ListPods \subseteq me.present
      BY <2>1 DEF ZonesDown, Covered, Covers, PodsCovered
    <3>2. ZonesTaken(me) /\ me.zones = {}
      BY <2>1 DEF ZonesDown, RanOK, Ran, Took
    <3> QED
      BY <3>1, <3>2 DEF ZonesTaken
  <2>2. CASE me.pc \in {"purge", "stop"}
    BY <2>2 DEF Covered, Covers, PodsCovered
  <2>3. CASE me.pc = "forget"
    BY <2>3 DEF RanOK, Ran, Wiped
  <2> QED
    BY <2>1, <2>2, <2>3
<1> QED
  BY <1>2, <1>3 DEF ListPods

\* No step of a down that exits 0 leaves a pod of its zones.
LEMMA EndLeavesNoPod ==
  ASSUME NEW only, Proc = {only}, TypeOK, Covered, RanOK, [Next]_vars
  PROVE [\A p \in Proc : EndsOk(p, "down") =>
           \A r \in proc[p].roles : \A w \in WorkloadsOf(proc[p].top, r) :
             Running => pods[w] = None]_vars
<1> SUFFICES ASSUME NEW p \in Proc, EndsOk(p, "down"), ~UNCHANGED vars
             PROVE \A r \in proc[p].roles : \A w \in WorkloadsOf(proc[p].top, r) :
                     Running => pods[w] = None
  OBVIOUS
<1> DEFINE me == proc[p]
<1>1. /\ me \in Local /\ me.pc # "idle" /\ me.cmd = "down"
      /\ proc'[p].pc = "idle" /\ proc'[p].exit = "ok"
  BY DEF TypeOK, EndsOk, Busy
<1>2. \A it : Become(p, it) => proc'[p] = it
  BY DEF TypeOK, Become
<1>3. ~Start(p)
  BY <1>1 DEF Start, Refuse, StartUp, StartDown, At
<1>4. ~UpStep(p)
  BY <1>1, UpPlaces DEF RanOK, Ran
<1>5. ~SeesInterrupt(p) /\ ~Crash(p) /\ ~Interrupt(p)
  <2>1. [me EXCEPT !.cancelled = TRUE].pc # "idle"
    BY <1>1 DEF Local
  <2>2. ~Interrupt(p)
    BY <1>1, <1>2, <2>1 DEF Interrupt
  <2>3. Idle("interrupted").exit # "ok" /\ Idle("crashed").exit # "ok"
    BY DEF Idle
  <2> QED
    BY <1>1, <1>2, <2>2, <2>3 DEF SeesInterrupt, Crash, LocalStep
<1>6. ~Reboot
  BY <1>1 DEF Reboot, Busy, Idle
<1>7. DownStep(p)
  BY <1>3, <1>4, <1>5, <1>6 DEF Next, Step
<1> QED
  BY <1>1, <1>7, EndsWhere, PodsGone

\* Where one command runs at a time, a down that exits 0 leaves no pod of the
\* zones it was given, as the lclaw.toml it read names them, whatever was there
\* when it began and whatever fails or restarts on the way.
THEOREM DownHasLeftNoPod ==
  ASSUME NEW only, Proc = {only}
  PROVE Spec => DownLeavesNoPod
<1>1. TypeOK /\ Covered /\ RanOK /\ [Next]_vars =>
        [\A p \in Proc : EndsOk(p, "down") =>
           \A r \in proc[p].roles : \A w \in WorkloadsOf(proc[p].top, r) :
             Running => pods[w] = None]_vars
  BY EndLeavesNoPod
<1> QED
  BY <1>1, CoverInvariance, RanInvariance, Invariance, PTL DEF Spec, DownLeavesNoPod

=============================================================================
