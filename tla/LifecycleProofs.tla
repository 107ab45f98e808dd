-------------------------- MODULE LifecycleProofs ---------------------------
(***************************************************************************)
(* Proofs about Lifecycle, for every topology, any number of processes and *)
(* every disturbance.                                                      *)
(*                                                                         *)
(* TypeOK is not inductive alone: Head(work), First(zones) and the Put of  *)
(* fresh have a type only where the code has something left to do, which   *)
(* PlaceOK says. The order is                                              *)
(*   1. the two together are kept by every step       -> TypeCorrect       *)
(*   2. who writes the keychain, and what             -> KeychainKept      *)
(*   3. where each copy of a secret comes from        -> CopiesFromKeychain*)
(***************************************************************************)
EXTENDS LifecycleProperties, SequenceTheorems, TLAPS

-----------------------------------------------------------------------------
(* Types: the state each action leaves is of the declared kind.            *)

\* A process that resolved nothing holds no value.
LEMMA NoneGotType == NoneGot \in [Secret -> Maybe(Value)]
BY DEF NoneGot, Maybe

\* Each way to be idle is a legal state of a process.
LEMMA IdleType ==
  ASSUME NEW c \in {"none", "ok", "failed", "interrupted", "crashed"}
  PROVE Idle(c) \in Local
<1>1. (CHOOSE t \in Topologies : TRUE) \in Topologies
  BY CommandAssumption
<1> QED
  BY <1>1, NoneGotType DEF Idle, Local, Maybe

\* So is each way a command ends.
LEMMA EndTypes ==
  ASSUME NEW me \in Local
  PROVE /\ Report(me) \in Local
        /\ ReturnError(me) \in Local
        /\ ZoneFails(me) \in Local
        /\ StepFails(me) \in Local
BY IdleType DEF Report, ReturnError, ZoneFails, StepFails

\* A nonempty set of zones has a first and a last member (CHOOSE finds one).
LEMMA FirstLast ==
  ASSUME NEW zones \in SUBSET Role, zones # {}
  PROVE First(zones) \in zones /\ Last(zones) \in zones
<1>1. \A q \in zones : q = 0 \/ q = 1 \/ q = 2
  BY SMT DEF Role, Infra, Agent
<1>2. \E r \in zones : \A q \in zones : r <= q
  <2>1. CASE 0 \in zones
    BY <1>1, <2>1, SMT
  <2>2. CASE 0 \notin zones /\ 1 \in zones
    BY <1>1, <2>2, SMT
  <2>3. CASE 0 \notin zones /\ 1 \notin zones
    BY <1>1, <2>3, SMT
  <2> QED
    BY <2>1, <2>2, <2>3
<1>3. \E r \in zones : \A q \in zones : q <= r
  <2>1. CASE 2 \in zones
    BY <1>1, <2>1, SMT
  <2>2. CASE 2 \notin zones /\ 1 \in zones
    BY <1>1, <2>2, SMT
  <2>3. CASE 2 \notin zones /\ 1 \notin zones
    BY <1>1, <2>3, SMT
  <2> QED
    BY <2>1, <2>2, <2>3
<1> QED
  BY <1>2, <1>3 DEF First, Last

\* What a topology the program may load says of a zone.
LEMMA ZoneTypes ==
  ASSUME NEW t \in Topologies, NEW r \in Role
  PROVE /\ t.zone[r].workloads \in Seq(Workload)
        /\ t.zone[r].internal \in BOOLEAN
        /\ t.zone[r].bridges \in [Workload -> SUBSET Role]
BY CommandAssumption DEF Topology, Zone

\* Entering a zone of an up, with nothing but zones left to do.
LEMMA EnterZoneType ==
  ASSUME NEW me \in Local, NEW zones \in SUBSET Role, zones # {}
  PROVE EnterZone(me, zones) \in Local
<1> DEFINE r == First(zones)
<1>1. r \in Role /\ me.top \in Topologies
  BY FirstLast DEF Local
<1>2. me.top.zone[r].workloads \in Seq(Workload)
  BY <1>1, ZoneTypes
<1>3. ForZone(me.top, r) \in SUBSET Secret
  BY DEF ForZone
<1> QED
  BY <1>2, <1>3 DEF EnterZone, Local, UpLabels

\* Entering a zone of a down, or the end of its zone loop.
LEMMA EnterDownType ==
  ASSUME NEW me \in Local, NEW zones \in SUBSET Role
  PROVE EnterDown(me, zones) \in Local
<1> DEFINE work == IF zones = {} THEN <<>> ELSE me.top.zone[Last(zones)].workloads
<1>1. work \in Seq(Workload)
  <2>1. CASE zones = {}
    BY <2>1
  <2>2. CASE zones # {}
    <3>1. Last(zones) \in Role /\ me.top \in Topologies
      BY <2>2, FirstLast DEF Local
    <3> QED
      BY <2>2, <3>1, ZoneTypes
  <2> QED
    BY <2>1, <2>2
<1>2. EnterDown(me, zones) =
        [me EXCEPT !.pc = "down", !.zones = zones, !.kept = FALSE, !.work = work]
  BY DEF EnterDown
<1> HIDE DEF work
<1> QED
  BY <1>1, <1>2 DEF Local, DownLabels

\* A call keeps the types if its effect does and both continuations are legal
\* process states; the next three restate it for the three kinds of call.
LEMMA CallType ==
  ASSUME TypeOK, NEW p \in Proc,
         NEW ACTION can, NEW ACTION effect, NEW ACTION done, NEW ACTION failure,
         done \in Local, failure \in Local,
         effect => PodmanTypeOK' /\ KeychainTypeOK',
         Call(p, can, effect, done, failure)
  PROVE TypeOK'
<1>1. budget' \in 0 .. MaxFaults
  BY CommandAssumption DEF TypeOK, Call, Disturbed
<1>2. proc' \in [Proc -> Local]
  BY DEF TypeOK, Call, Become
<1>3. PodmanTypeOK' /\ KeychainTypeOK'
  BY DEF TypeOK, Call, podmanVars, keychainVars, PodmanTypeOK, KeychainTypeOK
<1> QED
  BY <1>1, <1>2, <1>3 DEF TypeOK

\* A call that only reads.
LEMMA QueryType ==
  ASSUME TypeOK, NEW p \in Proc,
         NEW ACTION can, NEW ACTION done, NEW ACTION failure,
         done \in Local, failure \in Local,
         Query(p, can, done, failure)
  PROVE TypeOK'
<1>1. UNCHANGED <<podmanVars, keychainVars>> => PodmanTypeOK' /\ KeychainTypeOK'
  BY DEF TypeOK, podmanVars, keychainVars, PodmanTypeOK, KeychainTypeOK
<1> QED
  BY <1>1, CallType DEF Query

\* A call that changes the machine.
LEMMA PodmanCallType ==
  ASSUME TypeOK, NEW p \in Proc, NEW ACTION can, NEW ACTION effect,
         NEW ACTION done, NEW ACTION failure,
         done \in Local, failure \in Local,
         effect => PodmanTypeOK',
         PodmanCall(p, can, effect, done, failure)
  PROVE TypeOK'
<1>1. effect /\ UNCHANGED keychainVars => PodmanTypeOK' /\ KeychainTypeOK'
  BY DEF TypeOK, keychainVars, KeychainTypeOK
<1> QED
  BY <1>1, CallType DEF PodmanCall

\* A call that changes the keychain.
LEMMA KeychainCallType ==
  ASSUME TypeOK, NEW p \in Proc, NEW ACTION can, NEW ACTION effect,
         NEW ACTION done, NEW ACTION failure,
         done \in Local, failure \in Local,
         effect => KeychainTypeOK',
         KeychainCall(p, can, effect, done, failure)
  PROVE TypeOK'
<1>1. effect /\ UNCHANGED podmanVars => PodmanTypeOK' /\ KeychainTypeOK'
  BY DEF TypeOK, podmanVars, PodmanTypeOK
<1> QED
  BY <1>1, CallType DEF KeychainCall

\* A step that calls nothing.
LEMMA LocalStepType ==
  ASSUME TypeOK, NEW p \in Proc, NEW ACTION me, me \in Local, LocalStep(p, me)
  PROVE TypeOK'
BY DEF TypeOK, LocalStep, Become, podmanVars, keychainVars, PodmanTypeOK, KeychainTypeOK

\* Loading lclaw.toml and starting a command, or being refused.
LEMMA StartType ==
  ASSUME TypeOK, NEW p \in Proc, Start(p)
  PROVE TypeOK'
<1>1. CASE Refuse(p)
  BY <1>1, IdleType, LocalStepType DEF Refuse
<1>2. ASSUME NEW job \in Jobs, NEW t \in Topologies
      PROVE Loaded(job, t) \in Local
  <2>1. job \in Job
    BY CommandAssumption
  <2>2. Idle("none") \in Local
    BY IdleType
  <2> QED
    BY <2>1, <2>2 DEF Loaded, Local, Job
<1>3. CASE StartUp(p)
  <2>1. PICK job \in Jobs, t \in Topologies :
          LocalStep(p, [Loaded(job, t) EXCEPT !.pc = "users", !.todo = UserSecrets(t, job.roles)])
    BY <1>3 DEF StartUp
  <2> DEFINE names == UserSecrets(t, job.roles)
             loaded == Loaded(job, t)
  <2>2. names \in SUBSET Secret /\ loaded \in Local
    BY <1>2 DEF UserSecrets, ForZone
  <2>3. LocalStep(p, [loaded EXCEPT !.pc = "users", !.todo = names])
    BY <2>1
  <2> HIDE DEF names, loaded
  <2>4. [loaded EXCEPT !.pc = "users", !.todo = names] \in Local
    BY <2>2 DEF Local, UpLabels
  <2> QED
    BY <2>3, <2>4, LocalStepType
<1>4. CASE StartDown(p)
  <2>1. PICK job \in Jobs, t \in Topologies :
          LocalStep(p, [Loaded(job, t) EXCEPT !.pc = "list"])
    BY <1>4 DEF StartDown
  <2>2. [Loaded(job, t) EXCEPT !.pc = "list"] \in Local
    BY <1>2 DEF Local, DownLabels
  <2> QED
    BY <2>1, <2>2, LocalStepType
<1> QED
  BY <1>1, <1>3, <1>4 DEF Start

\* What a command's locals say at each place, beyond their types: there is a
\* zone, a workload or a value where the code is about to use one, and what
\* destroy is about to forget was minted.
Placed(me) ==
  /\ me.pc \in UpLabels \union DownLabels => me.roles # {}
  /\ me.pc \in {"mknet", "zone", "mint", "put", "play", "rmnet"} => me.zones # {}
  /\ me.pc = "play" => me.work # <<>>
  /\ me.pc = "put" => me.fresh # None
  /\ me.pc \in {"forget", "delitem"} => me.todo \subseteq Minted

PlaceOK == \A p \in Proc : Placed(proc[p])

\* ensureMachine: find, init, start.
LEMMA MachineType ==
  ASSUME TypeOK, NEW p \in Proc,
         FindMachine(p) \/ InitMachine(p) \/ StartMachine(p)
  PROVE TypeOK'
<1> DEFINE me == proc[p]
<1>1. me \in Local
  BY DEF TypeOK
<1>2. ReturnError(me) \in Local
  BY <1>1, EndTypes
<1>3. EnterNets(me) \in Local
  BY <1>1 DEF EnterNets, Local, UpLabels
<1>4. CASE FindMachine(p)
  <2>1. [me EXCEPT !.pc = "init"] \in Local /\ [me EXCEPT !.pc = "start"] \in Local
    BY <1>1 DEF Local, UpLabels
  <2>2. EnsureMachine(me) \in Local
    BY <2>1, <1>3 DEF EnsureMachine, TypeOK, PodmanTypeOK
  <2> QED
    BY <1>4, <1>2, <2>2, QueryType DEF FindMachine
<1>5. CASE InitMachine(p)
  <2>1. [me EXCEPT !.pc = "start"] \in Local
    BY <1>1 DEF Local, UpLabels
  <2>2. DoInit => PodmanTypeOK'
    BY DEF TypeOK, DoInit, PodmanTypeOK
  <2> QED
    BY <1>5, <1>2, <2>1, <2>2, PodmanCallType DEF InitMachine
<1>6. CASE StartMachine(p)
  <2>1. DoStart => PodmanTypeOK'
    BY DEF TypeOK, DoStart, PodmanTypeOK
  <2> QED
    BY <1>6, <1>2, <1>3, <2>1, PodmanCallType DEF StartMachine
<1> QED
  BY <1>4, <1>5, <1>6

\* up's networks: the zone in hand exists because zones is not empty there.
LEMMA NetworkType ==
  ASSUME TypeOK, PlaceOK, NEW p \in Proc,
         FindNetwork(p) \/ CreateNetwork(p) \/ BeginZones(p)
  PROVE TypeOK'
<1> DEFINE me == proc[p]
<1>1. me \in Local /\ Idle("failed") \in Local
  BY IdleType DEF TypeOK
<1>2. CASE FindNetwork(p)
  <2>1. [me EXCEPT !.zones = @ \ {First(me.zones)}] \in Local
    BY <1>1 DEF Local
  <2>2. [me EXCEPT !.pc = "mknet"] \in Local
    BY <1>1 DEF Local, UpLabels
  <2> QED
    BY <1>2, <1>1, <2>1, <2>2, QueryType DEF FindNetwork
<1>3. CASE CreateNetwork(p)
  <2>1. [me EXCEPT !.pc = "nets", !.zones = @ \ {First(me.zones)}] \in Local
    BY <1>1 DEF Local, UpLabels
  <2>2. DoCreateNetwork(First(me.zones), me.top.zone[First(me.zones)].internal) => PodmanTypeOK'
    BY DEF TypeOK, DoCreateNetwork, NetworkKind, PodmanTypeOK
  <2> QED
    BY <1>3, <1>1, <2>1, <2>2, PodmanCallType DEF CreateNetwork
<1>4. CASE BeginZones(p)
  <2>1. me.roles \in SUBSET Role /\ me.roles # {}
    BY <1>4, <1>1 DEF BeginZones, At, PlaceOK, Placed, Local, UpLabels, DownLabels
  <2>2. EnterZone(me, me.roles) \in Local
    BY <1>1, <2>1, EnterZoneType
  <2> QED
    BY <1>4, <2>2, LocalStepType DEF BeginZones
<1> QED
  BY <1>2, <1>3, <1>4

\* up's first loop and its exit with a FAIL.
LEMMA UserType ==
  ASSUME TypeOK, NEW p \in Proc, DescribeUser(p) \/ UserMissing(p)
  PROVE TypeOK'
<1> DEFINE me == proc[p]
<1>1. /\ me \in Local
      /\ ReturnError(me) \in Local
      /\ Report(me) \in Local
  BY EndTypes DEF TypeOK
<1>2. CASE DescribeUser(p)
  <2>1. PICK s \in me.todo :
          Query(p, kcFile, [me EXCEPT !.todo = @ \ {s}, !.failed = @ \/ ~IsSet(s)], ReturnError(me))
    BY <1>2 DEF DescribeUser
  <2>2. [me EXCEPT !.todo = @ \ {s}, !.failed = @ \/ ~IsSet(s)] \in Local
    BY <1>1 DEF Local
  <2> QED
    BY <1>1, <2>1, <2>2, QueryType
<1>3. CASE UserMissing(p)
  BY <1>3, <1>1, LocalStepType DEF UserMissing
<1> QED
  BY <1>2, <1>3

\* Reading one secret, whatever its source.
LEMMA ResolveType ==
  ASSUME TypeOK, NEW p \in Proc, Resolve(p)
  PROVE TypeOK'
<1> DEFINE me == proc[p]
<1>1. me \in Local /\ ReturnError(me) \in Local
  BY EndTypes DEF TypeOK
<1>2. PICK s \in me.todo :
       \/ /\ IsSet(s)
          /\ Query(p, kcFile, [me EXCEPT !.todo = @ \ {s}, !.got[s] = items[s].val],
                   ReturnError(me))
       \/ Query(p, kcFile, [me EXCEPT !.todo = @ \ {s}, !.failed = TRUE], ReturnError(me))
       \/ Query(p, kcFile, [me EXCEPT !.pc = "mint"], ReturnError(me))
       \/ \E v \in Value \ KeyValue :
            Query(p, kcFile, [me EXCEPT !.pc = "put", !.fresh = v], ReturnError(me))
  BY DEF Resolve
<1>3. s \in Secret
  BY <1>1 DEF Local
<1>4. ASSUME IsSet(s)
      PROVE [me EXCEPT !.todo = @ \ {s}, !.got[s] = items[s].val] \in Local
  <2>1. items[s].val \in Value
    BY <1>3, <1>4 DEF IsSet, TypeOK, KeychainTypeOK, Maybe, Item
  <2> QED
    BY <1>1, <2>1 DEF Local, Maybe
<1>5. [me EXCEPT !.todo = @ \ {s}, !.failed = TRUE] \in Local
  BY <1>1 DEF Local
<1>6. [me EXCEPT !.pc = "mint"] \in Local
  BY <1>1 DEF Local, UpLabels
<1>7. ASSUME NEW v \in Value
      PROVE [me EXCEPT !.pc = "put", !.fresh = v] \in Local
  BY <1>1 DEF Local, UpLabels, Maybe
<1> QED
  BY <1>1, <1>2, <1>4, <1>5, <1>6, <1>7, QueryType

\* A key from LiteLLM.
LEMMA MintType ==
  ASSUME TypeOK, NEW p \in Proc, Mint(p)
  PROVE TypeOK'
<1> DEFINE me == proc[p]
<1>1. me \in Local
  BY DEF TypeOK
<1>2. PICK s \in me.todo : \E k \in KeyValue \ Held :
        PodmanCall(p, CanExec, DoMint(k), [me EXCEPT !.pc = "put", !.fresh = k],
                   [me EXCEPT !.pc = "zone", !.todo = @ \ {s}, !.failed = TRUE])
  BY DEF Mint
<1>3. PICK k \in KeyValue :
        PodmanCall(p, CanExec, DoMint(k), [me EXCEPT !.pc = "put", !.fresh = k],
                   [me EXCEPT !.pc = "zone", !.todo = @ \ {s}, !.failed = TRUE])
  BY <1>2
<1>4. [me EXCEPT !.pc = "put", !.fresh = k] \in Local
  BY <1>1, PodmanAssumption DEF Local, UpLabels, Maybe
<1>5. [me EXCEPT !.pc = "zone", !.todo = @ \ {s}, !.failed = TRUE] \in Local
  BY <1>1 DEF Local, UpLabels
<1>6. DoMint(k) => PodmanTypeOK'
  BY DEF TypeOK, DoMint, PodmanTypeOK
<1> QED
  BY <1>3, <1>4, <1>5, <1>6, PodmanCallType

\* The source of a secret is one the keychain records.
LEMMA SourceType ==
  ASSUME NEW s \in Secret
  PROVE SourceOf(s) \in {"generated", "minted", "user"}
BY SecretAssumption DEF SourceOf

\* Storing what was made: it is a value, because PlaceOK says fresh is set.
LEMMA PutType ==
  ASSUME TypeOK, PlaceOK, NEW p \in Proc, Put(p)
  PROVE TypeOK'
<1> DEFINE me == proc[p]
<1>1. me \in Local /\ ReturnError(me) \in Local
  BY EndTypes DEF TypeOK
<1>2. PICK s \in me.todo :
        KeychainCall(p, CanPut(s, PutReplaces), DoPut(s, me.fresh, SourceOf(s)),
                     [me EXCEPT !.pc = "zone", !.todo = @ \ {s},
                                !.got[s] = me.fresh, !.fresh = None],
                     ReturnError(me))
  BY DEF Put, PutFails
<1>3. s \in Secret /\ me.fresh \in Value
  BY <1>1 DEF Put, At, PlaceOK, Placed, Local, Maybe
<1>4. [me EXCEPT !.pc = "zone", !.todo = @ \ {s}, !.got[s] = me.fresh, !.fresh = None] \in Local
  BY <1>1, <1>3 DEF Local, UpLabels, Maybe
<1>5. DoPut(s, me.fresh, SourceOf(s)) => KeychainTypeOK'
  BY <1>3, SourceType DEF TypeOK, DoPut, KeychainTypeOK, Item, Maybe
<1> QED
  BY <1>1, <1>2, <1>4, <1>5, KeychainCallType

\* Storing a resolved value on the machine.
LEMMA InjectType ==
  ASSUME TypeOK, NEW p \in Proc, Inject(p)
  PROVE TypeOK'
<1> DEFINE me == proc[p]
<1>1. me \in Local /\ StepFails(me) \in Local
  BY EndTypes DEF TypeOK
<1>2. PICK s \in ToInject(me) :
        PodmanCall(p, CanStoreSecret, DoStoreSecret(s, me.got[s]),
                   [me EXCEPT !.got[s] = None], StepFails(me))
  BY DEF Inject
<1>3. s \in Secret /\ me.got[s] \in Maybe(Value)
  BY <1>1 DEF ToInject, Local
<1>4. [me EXCEPT !.got[s] = None] \in Local
  BY <1>1, <1>3 DEF Local, Maybe
<1>5. DoStoreSecret(s, me.got[s]) => PodmanTypeOK'
  BY <1>3 DEF TypeOK, DoStoreSecret, PodmanTypeOK
<1> QED
  BY <1>1, <1>2, <1>4, <1>5, PodmanCallType

\* What follows a zone that was applied.
LEMMA AppliedType ==
  ASSUME NEW me \in Local
  PROVE Applied(me) \in Local
<1> DEFINE left == me.zones \ {First(me.zones)}
<1>1. left \in SUBSET Role
  BY DEF Local
<1>2. left # {} => EnterZone(me, left) \in Local
  BY <1>1, EnterZoneType
<1> QED
  BY <1>2, IdleType, EndTypes DEF Applied

\* The ways a zone of an up begins and ends.
LEMMA ZoneEndType ==
  ASSUME TypeOK, NEW p \in Proc,
         FindingsEndZone(p) \/ EndZone(p) \/ Ready(p)
  PROVE TypeOK'
<1> DEFINE me == proc[p]
<1>1. /\ Applied(me) \in Local
      /\ ZoneFails(me) \in Local
      /\ StepFails(me) \in Local
  BY AppliedType, EndTypes DEF TypeOK
<1>2. CASE FindingsEndZone(p)
  BY <1>2, <1>1, LocalStepType DEF FindingsEndZone
<1>3. CASE EndZone(p)
  BY <1>3, <1>1, LocalStepType DEF EndZone
<1>4. CASE Ready(p)
  BY <1>4, <1>1, QueryType DEF Ready
<1> QED
  BY <1>2, <1>3, <1>4

\* Building an image changes only the place of the process.
LEMMA BuildType ==
  ASSUME TypeOK, NEW p \in Proc, Build(p)
  PROVE TypeOK'
<1> DEFINE me == proc[p]
<1>1. me \in Local /\ StepFails(me) \in Local
  BY EndTypes DEF TypeOK
<1>2. [me EXCEPT !.pc = "play"] \in Local
  BY <1>1 DEF Local, UpLabels
<1> QED
  BY <1>1, <1>2, QueryType DEF Build

\* Playing a pod: there is one to play, because PlaceOK says work is not empty.
LEMMA PlayType ==
  ASSUME TypeOK, PlaceOK, NEW p \in Proc, Play(p)
  PROVE TypeOK'
<1> DEFINE me == proc[p]
           r  == First(me.zones)
           w  == Head(me.work)
           networks == Networks(me.top, r, w)
           userns == me.top.zone[r].internal
           played == [me EXCEPT !.pc = "zone", !.work = Tail(@)]
<1>1. me \in Local /\ StepFails(me) \in Local
  BY EndTypes DEF TypeOK
<1>2. me.zones \in SUBSET Role /\ me.zones # {} /\ me.work \in Seq(Workload) /\ me.work # <<>>
  BY <1>1 DEF Play, At, PlaceOK, Placed, Local
<1>3. r \in Role /\ me.top \in Topologies
  BY <1>1, <1>2, FirstLast DEF Local
<1>4. w \in Workload /\ Tail(me.work) \in Seq(Workload)
  BY <1>2, HeadTailProperties
<1>5. networks \in SUBSET Role /\ userns \in BOOLEAN
  BY <1>3, <1>4, ZoneTypes DEF Networks
<1>6. played \in Local
  BY <1>1, <1>4 DEF Local, UpLabels
<1>7. CASE PodmanCall(p, CanPlay(w, networks), DoPlay(w, networks, userns), played, StepFails(me))
  <2>1. ASSUME DoPlay(w, networks, userns)
        PROVE PodmanTypeOK'
    <3> HIDE DEF w, networks, userns
    <3> DEFINE env == [s \in Secret |-> IF s \in Uses[w] THEN store[s] ELSE None]
    <3>1. env \in [Secret -> Maybe(Value)]
      BY DEF TypeOK, PodmanTypeOK, Maybe
    <3>2. vols' \in [Secret -> Maybe(Value)]
      BY <2>1 DEF DoPlay, TypeOK, PodmanTypeOK
    <3>3. [up |-> TRUE, nets |-> networks, userns |-> userns, env |-> env] \in Pod
      BY <1>5, <3>1 DEF Pod
    <3>4. pods' = [pods EXCEPT ![w] =
            [up |-> TRUE, nets |-> networks, userns |-> userns, env |-> env]]
      BY <2>1 DEF DoPlay
    <3> HIDE DEF env
    <3>5. pods' \in [Workload -> Maybe(Pod)]
      BY <3>3, <3>4 DEF TypeOK, PodmanTypeOK, Maybe
    <3> QED
      BY <2>1, <3>2, <3>5 DEF DoPlay, TypeOK, PodmanTypeOK
  <2> HIDE DEF w, networks, userns, played
  <2> QED
    BY <1>1, <1>6, <1>7, <2>1, PodmanCallType
<1>8. CASE /\ DoDown(w) /\ UNCHANGED keychainVars
           /\ IF CanPlay(w, networks) THEN Disturbed(me) ELSE UNCHANGED budget
           /\ Become(p, StepFails(me))
  <2>1. PodmanTypeOK' /\ KeychainTypeOK'
    BY <1>8 DEF DoDown, TypeOK, PodmanTypeOK, keychainVars, KeychainTypeOK, Maybe
  <2>2. budget' \in 0 .. MaxFaults
    BY <1>8, CommandAssumption DEF Disturbed, TypeOK
  <2>3. proc' \in [Proc -> Local]
    BY <1>8, <1>1 DEF Become, TypeOK
  <2> QED
    BY <2>1, <2>2, <2>3 DEF TypeOK
<1> QED
  BY <1>7, <1>8 DEF Play

\* Every step of an up keeps the types.
LEMMA UpType ==
  ASSUME TypeOK, PlaceOK, NEW p \in Proc, UpStep(p)
  PROVE TypeOK'
BY UserType, MachineType, NetworkType, ResolveType, MintType, PutType,
   ZoneEndType, InjectType, BuildType, PlayType DEF UpStep

\* down's look at the machine and its pods.
LEMMA ListType ==
  ASSUME TypeOK, NEW p \in Proc, ListMachine(p) \/ SnapshotPods(p)
  PROVE TypeOK'
<1> DEFINE me == proc[p]
<1>1. me \in Local /\ Report(me) \in Local /\ Idle("failed") \in Local
  BY EndTypes, IdleType DEF TypeOK
<1>2. CASE ListMachine(p)
  <2>1. [me EXCEPT !.pc = "pods"] \in Local /\ [me EXCEPT !.pc = "rm"] \in Local
    BY <1>1 DEF Local, DownLabels
  <2> QED
    BY <1>2, <1>1, <2>1, QueryType DEF ListMachine
<1>3. CASE SnapshotPods(p)
  <2> DEFINE seen == [me EXCEPT !.present = Listed(me.top)]
  <2>1. seen \in Local
    BY <1>1 DEF Listed, ListPods, Local
  <2>2. me.roles \in SUBSET Role
    BY <1>1 DEF Local
  <2>3. EnterDown(seen, me.roles) \in Local
    BY <2>1, <2>2, EnterDownType
  <2> QED
    BY <1>3, <1>1, <2>3, QueryType DEF SnapshotPods
<1> QED
  BY <1>2, <1>3

\* Dropping the last workload leaves a sequence of workloads.
LEMMA WithoutLastType ==
  ASSUME NEW me \in Local, me.work # <<>>
  PROVE WithoutLast(me) \in Seq(Workload)
<1>1. me.work \in Seq(Workload) /\ Len(me.work) \in Nat
  BY DEF Local
<1>2. \A i \in 1 .. (Len(me.work) - 1) : me.work[i] \in Workload
  BY <1>1
<1> QED
  BY <1>1, <1>2, SubSeqProperties DEF WithoutLast

\* down's loop over the workloads of a zone.
LEMMA PodsDownType ==
  ASSUME TypeOK, NEW p \in Proc, SkipAbsent(p) \/ KubeDown(p)
  PROVE TypeOK'
<1> DEFINE me == proc[p]
           rest == WithoutLast(me)
           w == LastWork(me)
<1>1. me \in Local /\ Idle("interrupted") \in Local
  BY IdleType DEF TypeOK
<1>2. rest \in Seq(Workload)
  BY <1>1, WithoutLastType DEF SkipAbsent, KubeDown
<1> HIDE DEF rest
<1>3. CASE SkipAbsent(p)
  <2>1. [me EXCEPT !.work = rest] \in Local
    BY <1>1, <1>2 DEF Local
  <2> QED
    BY <1>3, <2>1, LocalStepType DEF SkipAbsent, rest
<1>4. CASE KubeDown(p)
  <2>1. [me EXCEPT !.work = rest, !.present = @ \ {w}] \in Local
    BY <1>1, <1>2 DEF Local
  <2>2. [me EXCEPT !.work = rest, !.failed = TRUE, !.kept = TRUE] \in Local
    BY <1>1, <1>2 DEF Local
  <2>3. DownFails(me) \in Local
    BY <1>1, <2>2 DEF DownFails, rest
  <2>4. DoDown(w) => PodmanTypeOK'
    BY DEF DoDown, TypeOK, PodmanTypeOK, Maybe
  <2> QED
    BY <1>4, <2>1, <2>3, <2>4, PodmanCallType DEF KubeDown, rest
<1> QED
  BY <1>3, <1>4

\* Leaving a zone for the one before it.
LEMMA NetworkDoneType ==
  ASSUME NEW me \in Local
  PROVE NetworkDone(me) \in Local /\ NetworkDone([me EXCEPT !.failed = TRUE]) \in Local
<1>1. [me EXCEPT !.failed = TRUE] \in Local
  BY DEF Local
<1>2. ASSUME NEW it \in Local
      PROVE NetworkDone(it) \in Local
  <2>1. it.zones \ {Last(it.zones)} \in SUBSET Role
    BY DEF Local
  <2> QED
    BY <2>1, EnterDownType DEF NetworkDone
<1> QED
  BY <1>1, <1>2

\* down's network step.
LEMMA NetworkDownType ==
  ASSUME TypeOK, NEW p \in Proc,
         KeepNetwork(p) \/ FindOldNetwork(p) \/ RemoveNetwork(p)
  PROVE TypeOK'
<1> DEFINE me == proc[p]
           failed == NetworkDone([me EXCEPT !.failed = TRUE])
<1>1. /\ me \in Local
      /\ Idle("interrupted") \in Local
      /\ NetworkDone(me) \in Local
      /\ failed \in Local
  BY IdleType, NetworkDoneType DEF TypeOK
<1> HIDE DEF failed
<1>2. CASE KeepNetwork(p)
  BY <1>2, <1>1, LocalStepType DEF KeepNetwork
<1>3. CASE FindOldNetwork(p)
  <2>1. [me EXCEPT !.pc = "rmnet"] \in Local
    BY <1>1 DEF Local, DownLabels
  <2> QED
    BY <1>3, <1>1, <2>1, QueryType DEF FindOldNetwork, failed
<1>4. CASE RemoveNetwork(p)
  <2>1. DoRemoveNetwork(Last(me.zones)) => PodmanTypeOK'
    BY DEF DoRemoveNetwork, TypeOK, PodmanTypeOK
  <2> QED
    BY <1>4, <1>1, <2>1, PodmanCallType DEF RemoveNetwork, RemoveFails, failed
<1> QED
  BY <1>2, <1>3, <1>4

\* Purging, secret by secret, each with its volume.
LEMMA PurgeType ==
  ASSUME TypeOK, NEW p \in Proc,
         KeepStore(p) \/ ListStored(p) \/ RemoveSecret(p) \/ RemoveVolume(p)
  PROVE TypeOK'
<1> DEFINE me == proc[p]
<1>1. me \in Local /\ Report(me) \in Local /\ Idle("interrupted") \in Local
  BY IdleType, EndTypes DEF TypeOK
<1>2. PurgeFails(me) \in Local
  <2>1. [me EXCEPT !.pc = "stop", !.failed = TRUE, !.todo = {}] \in Local
    BY <1>1 DEF Local, DownLabels
  <2> QED
    BY <1>1, <2>1 DEF PurgeFails
<1>3. CASE KeepStore(p)
  BY <1>3, <1>1, LocalStepType DEF KeepStore
<1>4. CASE ListStored(p)
  <2>1. [me EXCEPT !.pc = "purge", !.todo = Purgeable(me.top)] \in Local
    BY <1>1 DEF Local, DownLabels, Purgeable, ListSecrets
  <2> QED
    BY <1>4, <1>2, <2>1, QueryType DEF ListStored
<1>5. CASE RemoveSecret(p)
  <2>1. PICK s \in me.todo :
          PodmanCall(p, CanRemoveSecret(s), DoRemoveSecret(s),
                     [me EXCEPT !.pc = "purgevol"], PurgeFails(me))
    BY <1>5 DEF RemoveSecret
  <2>2. [me EXCEPT !.pc = "purgevol"] \in Local
    BY <1>1 DEF Local, DownLabels
  <2>3. DoRemoveSecret(s) => PodmanTypeOK'
    BY DEF DoRemoveSecret, TypeOK, PodmanTypeOK, Maybe
  <2> QED
    BY <1>2, <2>1, <2>2, <2>3, PodmanCallType
<1>6. CASE RemoveVolume(p)
  <2>1. PICK s \in me.todo :
          PodmanCall(p, CanRemoveVolume(s), DoRemoveVolume(s),
                     [me EXCEPT !.pc = "purge", !.todo = @ \ {s}], PurgeFails(me))
    BY <1>6 DEF RemoveVolume
  <2>2. [me EXCEPT !.pc = "purge", !.todo = @ \ {s}] \in Local
    BY <1>1 DEF Local, DownLabels
  <2>3. DoRemoveVolume(s) => PodmanTypeOK'
    BY DEF DoRemoveVolume, TypeOK, PodmanTypeOK, Maybe
  <2> QED
    BY <1>2, <2>1, <2>2, <2>3, PodmanCallType
<1> QED
  BY <1>3, <1>4, <1>5, <1>6

\* Stopping the machine keeps its pods, exited.
LEMMA DoStopType ==
  ASSUME PodmanTypeOK, DoStop
  PROVE PodmanTypeOK'
<1>1. \A w \in Workload : Exited(w) \in Maybe(Pod)
  BY DEF Exited, PodmanTypeOK, Maybe, Pod
<1> QED
  BY <1>1 DEF DoStop, PodmanTypeOK

\* Stopping and removing the machine.
LEMMA StopType ==
  ASSUME TypeOK, NEW p \in Proc, StopMachine(p) \/ RemoveMachine(p)
  PROVE TypeOK'
<1> DEFINE me == proc[p]
<1>1. me \in Local /\ Report(me) \in Local /\ ReturnError(me) \in Local
  BY EndTypes DEF TypeOK
<1>2. CASE StopMachine(p)
  <2>1. [me EXCEPT !.pc = "rm"] \in Local
    BY <1>1 DEF Local, DownLabels
  <2>2. DoStop => PodmanTypeOK'
    BY DoStopType DEF TypeOK
  <2> QED
    BY <1>2, <1>1, <2>1, <2>2, PodmanCallType DEF StopMachine
<1>3. CASE RemoveMachine(p)
  <2>1. [me EXCEPT !.pc = "forget", !.todo = ToForget(me.top)] \in Local
    BY <1>1, SecretAssumption DEF Local, DownLabels, ToForget, Entries
  <2>2. DoRemove => PodmanTypeOK'
    BY DEF DoRemove, PodmanTypeOK, Maybe
  <2> QED
    BY <1>3, <1>1, <2>1, <2>2, PodmanCallType DEF RemoveMachine
<1> QED
  BY <1>2, <1>3

\* Forgetting the minted keys.
LEMMA ForgetType ==
  ASSUME TypeOK, NEW p \in Proc,
         FindMinted(p) \/ DeleteMinted(p) \/ Forgotten(p)
  PROVE TypeOK'
<1> DEFINE me == proc[p]
<1>1. me \in Local /\ Report(me) \in Local
  BY EndTypes DEF TypeOK
<1>2. CASE FindMinted(p)
  <2>1. PICK s \in me.todo :
          Query(p, kcFile,
                IF IsSet(s) THEN [me EXCEPT !.pc = "delitem"]
                            ELSE [me EXCEPT !.todo = @ \ {s}],
                [me EXCEPT !.todo = @ \ {s}, !.failed = TRUE])
    BY <1>2 DEF FindMinted
  <2>2. /\ [me EXCEPT !.pc = "delitem"] \in Local
        /\ [me EXCEPT !.todo = @ \ {s}] \in Local
        /\ [me EXCEPT !.todo = @ \ {s}, !.failed = TRUE] \in Local
    BY <1>1 DEF Local, DownLabels
  <2> QED
    BY <2>1, <2>2, QueryType
<1>3. CASE DeleteMinted(p)
  <2>1. PICK s \in me.todo :
          KeychainCall(p, CanDelete(s), DoDelete(s),
                       [me EXCEPT !.pc = "forget", !.todo = @ \ {s}],
                       [me EXCEPT !.pc = "forget", !.todo = @ \ {s}, !.failed = TRUE])
    BY <1>3 DEF DeleteMinted
  <2>2. /\ [me EXCEPT !.pc = "forget", !.todo = @ \ {s}] \in Local
        /\ [me EXCEPT !.pc = "forget", !.todo = @ \ {s}, !.failed = TRUE] \in Local
    BY <1>1 DEF Local, DownLabels
  <2>3. DoDelete(s) => KeychainTypeOK'
    BY DEF DoDelete, TypeOK, KeychainTypeOK, Maybe
  <2> QED
    BY <2>1, <2>2, <2>3, KeychainCallType
<1>4. CASE Forgotten(p)
  BY <1>4, <1>1, LocalStepType DEF Forgotten
<1> QED
  BY <1>2, <1>3, <1>4

\* Signals and crashes.
LEMMA OutsideType ==
  ASSUME TypeOK, NEW p \in Proc,
         SeesInterrupt(p) \/ Interrupt(p) \/ Crash(p)
  PROVE TypeOK'
<1>1. /\ [proc[p] EXCEPT !.cancelled = TRUE] \in Local
      /\ Idle("crashed") \in Local
      /\ Idle("interrupted") \in Local
  <2>1. proc[p] \in Local
    BY DEF TypeOK
  <2>2. [proc[p] EXCEPT !.cancelled = TRUE] \in Local
    BY <2>1 DEF Local
  <2> QED
    BY <2>2, IdleType
<1>2. CASE SeesInterrupt(p)
  BY <1>2, <1>1, LocalStepType DEF SeesInterrupt
<1>3. CASE Interrupt(p) \/ Crash(p)
  <2>1. PodmanTypeOK' /\ KeychainTypeOK'
    BY <1>3 DEF Interrupt, Crash, TypeOK, podmanVars, keychainVars, PodmanTypeOK, KeychainTypeOK
  <2>2. proc' \in [Proc -> Local]
    BY <1>3, <1>1 DEF Interrupt, Crash, Become, TypeOK
  <2>3. budget' \in 0 .. MaxFaults
    BY <1>3, CommandAssumption DEF Interrupt, Crash, Disturb, TypeOK
  <2> QED
    BY <2>1, <2>2, <2>3 DEF TypeOK
<1> QED
  BY <1>2, <1>3

\* A restart of the host.
LEMMA RebootType ==
  ASSUME TypeOK, Reboot
  PROVE TypeOK'
<1>1. PodmanTypeOK'
  BY DoStopType DEF Reboot, TypeOK
<1>2. KeychainTypeOK'
  BY DEF Reboot, TypeOK, keychainVars, KeychainTypeOK
<1>3. proc' \in [Proc -> Local]
  BY IdleType DEF Reboot, TypeOK
<1>4. budget' \in 0 .. MaxFaults
  BY CommandAssumption DEF Reboot, Disturb, TypeOK
<1> QED
  BY <1>1, <1>2, <1>3, <1>4 DEF TypeOK

\* No step breaks TypeOK, given PlaceOK.
LEMMA TypeStep ==
  ASSUME TypeOK, PlaceOK, [Next]_vars
  PROVE TypeOK'
<1>1. CASE UNCHANGED vars
  BY <1>1 DEF vars, podmanVars, keychainVars, TypeOK, PodmanTypeOK, KeychainTypeOK
<1>2. ASSUME NEW p \in Proc, DownStep(p)
      PROVE TypeOK'
  BY <1>2, ListType, PodsDownType, NetworkDownType, PurgeType, StopType, ForgetType
     DEF DownStep
<1>3. ASSUME NEW p \in Proc, Step(p)
      PROVE TypeOK'
  BY <1>2, <1>3, UpType, OutsideType DEF Step
<1> QED
  BY <1>1, <1>3, StartType, OutsideType, RebootType DEF Next

-----------------------------------------------------------------------------
(* Places: what is left to do where the code is about to do it.           *)

\* A call leaves its process at one of its two continuations.
LEMMA CallBecomes ==
  ASSUME NEW p \in Proc, NEW ACTION can, NEW ACTION effect,
         NEW ACTION done, NEW ACTION failure,
         Call(p, can, effect, done, failure)
  PROVE Become(p, done) \/ Become(p, failure)
BY DEF Call

\* PlaceOK survives a step to a place where Placed holds ...
LEMMA BecomePlaced ==
  ASSUME TypeOK, PlaceOK, NEW p \in Proc, NEW ACTION me, Placed(me), Become(p, me)
  PROVE PlaceOK'
BY DEF TypeOK, PlaceOK, Become, Placed

\* ... and so a call, both of whose continuations are such places.
LEMMA CallPlaced ==
  ASSUME TypeOK, PlaceOK, NEW p \in Proc, NEW ACTION can, NEW ACTION effect,
         NEW ACTION done, NEW ACTION failure,
         Placed(done), Placed(failure),
         Call(p, can, effect, done, failure)
  PROVE PlaceOK'
BY CallBecomes, BecomePlaced

\* Ended commands are such places.
LEMMA EndPlaced ==
  ASSUME NEW me
  PROVE /\ \A c : Placed(Idle(c))
        /\ Placed(Report(me))
        /\ Placed(ReturnError(me))
        /\ Placed(ZoneFails(me))
        /\ Placed(StepFails(me))
BY DEF Placed, Idle, Report, ReturnError, ZoneFails, StepFails, UpLabels, DownLabels

\* Every command is about at least one zone.
LEMMA JobRoles ==
  ASSUME NEW job \in Jobs
  PROVE job.roles \in SUBSET Role /\ job.roles # {}
<1>1. job \in Job
  BY CommandAssumption
<1>2. job.roles \in (SUBSET Role) \ {{}}
  BY <1>1 DEF Job
<1> QED
  BY <1>2

\* Starting a command keeps PlaceOK.
LEMMA StartPlaced ==
  ASSUME TypeOK, PlaceOK, NEW p \in Proc, Start(p)
  PROVE PlaceOK'
<1>1. CASE Refuse(p)
  BY <1>1, EndPlaced, BecomePlaced DEF Refuse, LocalStep
<1>2. CASE StartUp(p)
  <2>1. PICK job \in Jobs, t \in Topologies :
          Become(p, [Loaded(job, t) EXCEPT !.pc = "users", !.todo = UserSecrets(t, job.roles)])
    BY <1>2 DEF StartUp, LocalStep
  <2>2. Placed([Loaded(job, t) EXCEPT !.pc = "users", !.todo = UserSecrets(t, job.roles)])
    BY JobRoles DEF Placed, Loaded, Idle
  <2> QED
    BY <2>1, <2>2, BecomePlaced
<1>3. CASE StartDown(p)
  <2>1. PICK job \in Jobs, t \in Topologies :
          Become(p, [Loaded(job, t) EXCEPT !.pc = "list"])
    BY <1>3 DEF StartDown, LocalStep
  <2>2. Placed([Loaded(job, t) EXCEPT !.pc = "list"])
    BY JobRoles DEF Placed, Loaded, Idle
  <2> QED
    BY <2>1, <2>2, BecomePlaced
<1> QED
  BY <1>1, <1>2, <1>3 DEF Start

\* Entering a zone or the networks keeps Placed.
LEMMA EnterPlaced ==
  ASSUME NEW me \in Local, me.roles # {}, NEW zones \in SUBSET Role
  PROVE /\ zones # {} => Placed(EnterZone(me, zones))
        /\ Placed(EnterDown(me, zones))
        /\ Placed(EnterNets(me))
BY DEF Placed, EnterZone, EnterDown, EnterNets, Local

\* Every step of an up keeps PlaceOK.
LEMMA UpPlaced ==
  ASSUME TypeOK, PlaceOK, NEW p \in Proc, UpStep(p)
  PROVE PlaceOK'
<1> DEFINE me == proc[p]
<1>1. me \in Local /\ Placed(me)
  BY DEF TypeOK, PlaceOK
<1>2. CASE DescribeUser(p)
  <2>1. PICK s \in me.todo :
          \/ Become(p, [me EXCEPT !.todo = @ \ {s}, !.failed = @ \/ ~IsSet(s)])
          \/ Become(p, ReturnError(me))
    BY <1>2, CallBecomes DEF DescribeUser, Query
  <2>2. Placed([me EXCEPT !.todo = @ \ {s}, !.failed = @ \/ ~IsSet(s)])
    BY <1>1, <1>2 DEF DescribeUser, At, Placed, Local
  <2> QED
    BY <2>1, <2>2, BecomePlaced, EndPlaced
<1>3. CASE UserMissing(p)
  BY <1>3, BecomePlaced, EndPlaced DEF UserMissing, LocalStep
<1>4. CASE FindMachine(p)
  <2>1. Become(p, EnsureMachine(me)) \/ Become(p, ReturnError(me))
    BY <1>4, CallBecomes DEF FindMachine, Query
  <2>2. me.roles # {}
    BY <1>1, <1>4 DEF FindMachine, At, Placed, UpLabels, DownLabels
  <2>3. Placed([me EXCEPT !.pc = "init"]) /\ Placed([me EXCEPT !.pc = "start"])
    BY <1>1, <2>2 DEF Placed, Local
  <2>4. Placed(EnsureMachine(me))
    BY <1>1, <2>2, <2>3, EnterPlaced DEF EnsureMachine, TypeOK, PodmanTypeOK
  <2> QED
    BY <2>1, <2>4, BecomePlaced, EndPlaced
<1>5. CASE InitMachine(p)
  <2>1. Become(p, [me EXCEPT !.pc = "start"]) \/ Become(p, ReturnError(me))
    BY <1>5, CallBecomes DEF InitMachine, PodmanCall
  <2>2. Placed([me EXCEPT !.pc = "start"])
    BY <1>1, <1>5 DEF InitMachine, At, Placed, Local, UpLabels, DownLabels
  <2> QED
    BY <2>1, <2>2, BecomePlaced, EndPlaced
<1>6. CASE StartMachine(p)
  <2>1. Become(p, EnterNets(me)) \/ Become(p, ReturnError(me))
    BY <1>6, CallBecomes DEF StartMachine, PodmanCall
  <2>2. me.roles # {}
    BY <1>1, <1>6 DEF StartMachine, At, Placed, UpLabels, DownLabels
  <2>3. Placed(EnterNets(me))
    BY <1>1, <2>2, EnterPlaced
  <2> QED
    BY <2>1, <2>3, BecomePlaced, EndPlaced
<1>7. CASE FindNetwork(p)
  <2>1. \/ Become(p, [me EXCEPT !.zones = @ \ {First(me.zones)}])
        \/ Become(p, [me EXCEPT !.pc = "mknet"])
        \/ Become(p, Idle("failed"))
    BY <1>7, CallBecomes DEF FindNetwork, Query
  <2>2. /\ Placed([me EXCEPT !.zones = @ \ {First(me.zones)}])
        /\ Placed([me EXCEPT !.pc = "mknet"])
    BY <1>1, <1>7 DEF FindNetwork, At, Placed, Local, UpLabels, DownLabels
  <2> QED
    BY <2>1, <2>2, BecomePlaced, EndPlaced
<1>8. CASE CreateNetwork(p)
  <2>1. \/ Become(p, [me EXCEPT !.pc = "nets", !.zones = @ \ {First(me.zones)}])
        \/ Become(p, Idle("failed"))
    BY <1>8, CallBecomes DEF CreateNetwork, PodmanCall
  <2>2. Placed([me EXCEPT !.pc = "nets", !.zones = @ \ {First(me.zones)}])
    BY <1>1, <1>8 DEF CreateNetwork, At, Placed, Local, UpLabels, DownLabels
  <2> QED
    BY <2>1, <2>2, BecomePlaced, EndPlaced
<1>9. CASE BeginZones(p)
  <2>1. me.roles \in SUBSET Role /\ me.roles # {}
    BY <1>1, <1>9 DEF BeginZones, At, Placed, Local, UpLabels, DownLabels
  <2>2. Placed(EnterZone(me, me.roles))
    BY <1>1, <2>1, EnterPlaced
  <2> QED
    BY <1>9, <2>2, BecomePlaced DEF BeginZones, LocalStep
<1>10. CASE Resolve(p)
  <2>1. PICK s \in me.todo :
          \/ Become(p, ReturnError(me))
          \/ Become(p, [me EXCEPT !.todo = @ \ {s}, !.got[s] = items[s].val])
          \/ Become(p, [me EXCEPT !.todo = @ \ {s}, !.failed = TRUE])
          \/ Become(p, [me EXCEPT !.pc = "mint"])
          \/ \E v \in Value : Become(p, [me EXCEPT !.pc = "put", !.fresh = v])
    BY <1>10, CallBecomes DEF Resolve, Query
  <2>2. /\ Placed([me EXCEPT !.todo = @ \ {s}, !.got[s] = items[s].val])
        /\ Placed([me EXCEPT !.todo = @ \ {s}, !.failed = TRUE])
        /\ Placed([me EXCEPT !.pc = "mint"])
    BY <1>1, <1>10 DEF Resolve, At, Placed, Local, UpLabels, DownLabels
  <2>3. ASSUME NEW v \in Value
        PROVE Placed([me EXCEPT !.pc = "put", !.fresh = v])
    BY <1>1, <1>10, PodmanAssumption DEF Resolve, At, Placed, Local, UpLabels, DownLabels
  <2> QED
    BY <2>1, <2>2, <2>3, BecomePlaced, EndPlaced
<1>11. CASE Mint(p)
  <2>1. PICK s \in me.todo, k \in KeyValue :
          \/ Become(p, [me EXCEPT !.pc = "put", !.fresh = k])
          \/ Become(p, [me EXCEPT !.pc = "zone", !.todo = @ \ {s}, !.failed = TRUE])
    BY <1>11, CallBecomes DEF Mint, PodmanCall
  <2>2. /\ Placed([me EXCEPT !.pc = "put", !.fresh = k])
        /\ Placed([me EXCEPT !.pc = "zone", !.todo = @ \ {s}, !.failed = TRUE])
    BY <1>1, <1>11, PodmanAssumption DEF Mint, At, Placed, Local, UpLabels, DownLabels
  <2> QED
    BY <2>1, <2>2, BecomePlaced
<1>12. CASE Put(p)
  <2>1. PICK s \in me.todo :
          \/ Become(p, [me EXCEPT !.pc = "zone", !.todo = @ \ {s},
                                  !.got[s] = me.fresh, !.fresh = None])
          \/ Become(p, ReturnError(me))
    BY <1>12, CallBecomes DEF Put, PutFails, KeychainCall
  <2>2. Placed([me EXCEPT !.pc = "zone", !.todo = @ \ {s}, !.got[s] = me.fresh, !.fresh = None])
    BY <1>1, <1>12 DEF Put, At, Placed, Local, UpLabels, DownLabels
  <2> QED
    BY <2>1, <2>2, BecomePlaced, EndPlaced
<1>13. CASE FindingsEndZone(p)
  BY <1>13, BecomePlaced, EndPlaced DEF FindingsEndZone, LocalStep
<1>14. CASE Inject(p)
  <2>1. PICK s \in ToInject(me) :
          Become(p, [me EXCEPT !.got[s] = None]) \/ Become(p, StepFails(me))
    BY <1>14, CallBecomes DEF Inject, PodmanCall
  <2>2. Placed([me EXCEPT !.got[s] = None])
    BY <1>1, <1>14 DEF Inject, Resolved, Placed, Local
  <2> QED
    BY <2>1, <2>2, BecomePlaced, EndPlaced
<1>15. CASE Build(p)
  <2>1. Become(p, [me EXCEPT !.pc = "play"]) \/ Become(p, StepFails(me))
    BY <1>15, CallBecomes DEF Build, Query
  <2>2. Placed([me EXCEPT !.pc = "play"])
    BY <1>1, <1>15 DEF Build, Injected, Resolved, Placed, Local, UpLabels, DownLabels
  <2> QED
    BY <2>1, <2>2, BecomePlaced, EndPlaced
<1>16. CASE Play(p)
  <2>1. Become(p, [me EXCEPT !.pc = "zone", !.work = Tail(@)]) \/ Become(p, StepFails(me))
    BY <1>16, CallBecomes DEF Play, PodmanCall
  <2>2. Placed([me EXCEPT !.pc = "zone", !.work = Tail(@)])
    BY <1>1, <1>16 DEF Play, At, Placed, Local, UpLabels, DownLabels
  <2> QED
    BY <2>1, <2>2, BecomePlaced, EndPlaced
<1>17. CASE EndZone(p) \/ Ready(p)
  <2>1. Become(p, Applied(me)) \/ Become(p, StepFails(me))
    BY <1>17, CallBecomes DEF EndZone, Ready, LocalStep, Query
  <2>2. me.roles # {} /\ me.zones \ {First(me.zones)} \in SUBSET Role
    BY <1>1, <1>17 DEF EndZone, Ready, Injected, Resolved, Placed, Local, UpLabels, DownLabels
  <2>3. Placed(Applied(me))
    BY <1>1, <2>2, EnterPlaced, EndPlaced DEF Applied
  <2> QED
    BY <2>1, <2>3, BecomePlaced, EndPlaced
<1> QED
  BY <1>2, <1>3, <1>4, <1>5, <1>6, <1>7, <1>8, <1>9, <1>10, <1>11, <1>12, <1>13,
     <1>14, <1>15, <1>16, <1>17 DEF UpStep

\* Leaving a zone of a down keeps Placed.
LEMMA NetworkDonePlaced ==
  ASSUME NEW me \in Local, me.roles # {}
  PROVE Placed(NetworkDone(me)) /\ Placed(NetworkDone([me EXCEPT !.failed = TRUE]))
<1>1. [me EXCEPT !.failed = TRUE] \in Local /\ [me EXCEPT !.failed = TRUE].roles # {}
  BY DEF Local
<1>2. ASSUME NEW it \in Local, it.roles # {}
      PROVE Placed(NetworkDone(it))
  <2>1. it.zones \ {Last(it.zones)} \in SUBSET Role
    BY DEF Local
  <2> QED
    BY <1>2, <2>1, EnterPlaced DEF NetworkDone
<1> QED
  BY <1>1, <1>2

\* Every step of a down keeps PlaceOK: the names to forget are minted ones.
LEMMA DownPlaced ==
  ASSUME TypeOK, PlaceOK, NEW p \in Proc, DownStep(p)
  PROVE PlaceOK'
<1> DEFINE me == proc[p]
<1>1. me \in Local /\ Placed(me)
  BY DEF TypeOK, PlaceOK
<1>2. CASE ListMachine(p)
  <2>1. \/ Become(p, [me EXCEPT !.pc = "pods"])
        \/ Become(p, [me EXCEPT !.pc = "rm"])
        \/ Become(p, Report(me))
        \/ Become(p, Idle("failed"))
    BY <1>2, CallBecomes DEF ListMachine, Query
  <2>2. Placed([me EXCEPT !.pc = "pods"]) /\ Placed([me EXCEPT !.pc = "rm"])
    BY <1>1, <1>2 DEF ListMachine, At, Placed, Local, UpLabels, DownLabels
  <2> QED
    BY <2>1, <2>2, BecomePlaced, EndPlaced
<1>3. CASE SnapshotPods(p)
  <2> DEFINE seen == [me EXCEPT !.present = Listed(me.top)]
  <2>1. Become(p, EnterDown(seen, me.roles)) \/ Become(p, Idle("failed"))
    BY <1>3, CallBecomes DEF SnapshotPods, Query
  <2>2. seen \in Local /\ seen.roles # {} /\ me.roles \in SUBSET Role
    BY <1>1, <1>3 DEF SnapshotPods, At, Placed, Listed, ListPods, Local, UpLabels, DownLabels
  <2>3. Placed(EnterDown(seen, me.roles))
    BY <2>2, EnterPlaced
  <2> QED
    BY <2>1, <2>3, BecomePlaced, EndPlaced
<1>4. CASE SkipAbsent(p)
  <2>1. Placed([me EXCEPT !.work = WithoutLast(me)])
    BY <1>1, <1>4 DEF SkipAbsent, At, Placed, Local
  <2> QED
    BY <1>4, <2>1, BecomePlaced DEF SkipAbsent, LocalStep
<1>5. CASE KubeDown(p)
  <2>1. \/ Become(p, [me EXCEPT !.work = WithoutLast(me), !.present = @ \ {LastWork(me)}])
        \/ Become(p, DownFails(me))
    BY <1>5, CallBecomes DEF KubeDown, PodmanCall
  <2>2. Placed([me EXCEPT !.work = WithoutLast(me), !.present = @ \ {LastWork(me)}])
    BY <1>1, <1>5 DEF KubeDown, At, Placed, Local
  <2>3. Placed([me EXCEPT !.work = WithoutLast(me), !.failed = TRUE, !.kept = TRUE])
    BY <1>1, <1>5 DEF KubeDown, At, Placed, Local
  <2>4. Placed(DownFails(me))
    BY <2>3, EndPlaced DEF DownFails
  <2> QED
    BY <2>1, <2>2, <2>4, BecomePlaced
<1>6. CASE KeepNetwork(p) \/ FindOldNetwork(p) \/ RemoveNetwork(p)
  <2>1. \/ Become(p, NetworkDone(me))
        \/ Become(p, NetworkDone([me EXCEPT !.failed = TRUE]))
        \/ AtNetwork(me) /\ Become(p, [me EXCEPT !.pc = "rmnet"])
        \/ Become(p, Idle("interrupted"))
    BY <1>6, CallBecomes
       DEF KeepNetwork, FindOldNetwork, RemoveNetwork, RemoveFails, LocalStep, Query, PodmanCall
  <2>2. me.roles # {}
    BY <1>1, <1>6 DEF KeepNetwork, FindOldNetwork, RemoveNetwork, AtNetwork, At, Placed, UpLabels, DownLabels
  <2>3. Placed(NetworkDone(me)) /\ Placed(NetworkDone([me EXCEPT !.failed = TRUE]))
    BY <1>1, <2>2, NetworkDonePlaced
  <2>4. AtNetwork(me) => Placed([me EXCEPT !.pc = "rmnet"])
    BY <1>1 DEF AtNetwork, Placed, Local, UpLabels, DownLabels
  <2> QED
    BY <2>1, <2>3, <2>4, BecomePlaced, EndPlaced
<1>7. CASE KeepStore(p)
  BY <1>7, BecomePlaced, EndPlaced DEF KeepStore, LocalStep
<1>8. Placed(PurgeFails(me)) \/ me.roles = {}
  <2>1. me.roles # {} => Placed([me EXCEPT !.pc = "stop", !.failed = TRUE, !.todo = {}])
    BY <1>1 DEF Placed, Local
  <2> QED
    BY <2>1, EndPlaced DEF PurgeFails
<1>9. CASE ListStored(p)
  <2>1. Become(p, [me EXCEPT !.pc = "purge", !.todo = Purgeable(me.top)]) \/ Become(p, PurgeFails(me))
    BY <1>9, CallBecomes DEF ListStored, Query
  <2>2. me.roles # {} /\ Placed([me EXCEPT !.pc = "purge", !.todo = Purgeable(me.top)])
    BY <1>1, <1>9 DEF ListStored, ZonesDown, Placed, Local, UpLabels, DownLabels
  <2> QED
    BY <1>8, <2>1, <2>2, BecomePlaced
<1>10. CASE RemoveSecret(p)
  <2>1. Become(p, [me EXCEPT !.pc = "purgevol"]) \/ Become(p, PurgeFails(me))
    BY <1>10, CallBecomes DEF RemoveSecret, PodmanCall
  <2>2. me.roles # {} /\ Placed([me EXCEPT !.pc = "purgevol"])
    BY <1>1, <1>10 DEF RemoveSecret, At, Placed, Local, UpLabels, DownLabels
  <2> QED
    BY <1>8, <2>1, <2>2, BecomePlaced
<1>11. CASE RemoveVolume(p)
  <2>1. PICK s \in me.todo :
          Become(p, [me EXCEPT !.pc = "purge", !.todo = @ \ {s}]) \/ Become(p, PurgeFails(me))
    BY <1>11, CallBecomes DEF RemoveVolume, PodmanCall
  <2>2. me.roles # {} /\ Placed([me EXCEPT !.pc = "purge", !.todo = @ \ {s}])
    BY <1>1, <1>11 DEF RemoveVolume, At, Placed, Local, UpLabels, DownLabels
  <2> QED
    BY <1>8, <2>1, <2>2, BecomePlaced
<1>12. CASE StopMachine(p)
  <2>1. \/ Become(p, [me EXCEPT !.pc = "rm"])
        \/ Become(p, Report(me))
        \/ Become(p, ReturnError(me))
    BY <1>12, CallBecomes DEF StopMachine, PodmanCall
  <2>2. Placed([me EXCEPT !.pc = "rm"])
    BY <1>1, <1>12 DEF StopMachine, Stopping, Placed, Local, UpLabels, DownLabels
  <2> QED
    BY <2>1, <2>2, BecomePlaced, EndPlaced
<1>13. CASE RemoveMachine(p)
  <2>1. Become(p, [me EXCEPT !.pc = "forget", !.todo = ToForget(me.top)]) \/ Become(p, ReturnError(me))
    BY <1>13, CallBecomes DEF RemoveMachine, PodmanCall
  <2>2. ToForget(me.top) \subseteq Minted
    BY SecretAssumption DEF ToForget, Minted, Entries
  <2>3. Placed([me EXCEPT !.pc = "forget", !.todo = ToForget(me.top)])
    BY <1>1, <1>13, <2>2 DEF RemoveMachine, At, Placed, Local, UpLabels, DownLabels
  <2> QED
    BY <2>1, <2>3, BecomePlaced, EndPlaced
<1>14. CASE FindMinted(p)
  <2>1. PICK s \in me.todo :
          \/ Become(p, [me EXCEPT !.pc = "delitem"])
          \/ Become(p, [me EXCEPT !.todo = @ \ {s}])
          \/ Become(p, [me EXCEPT !.todo = @ \ {s}, !.failed = TRUE])
    BY <1>14, CallBecomes DEF FindMinted, Query
  <2>2. /\ Placed([me EXCEPT !.pc = "delitem"])
        /\ Placed([me EXCEPT !.todo = @ \ {s}])
        /\ Placed([me EXCEPT !.todo = @ \ {s}, !.failed = TRUE])
    BY <1>1, <1>14 DEF FindMinted, At, Placed, Local, UpLabels, DownLabels
  <2> QED
    BY <2>1, <2>2, BecomePlaced
<1>15. CASE DeleteMinted(p)
  <2>1. PICK s \in me.todo :
          \/ Become(p, [me EXCEPT !.pc = "forget", !.todo = @ \ {s}])
          \/ Become(p, [me EXCEPT !.pc = "forget", !.todo = @ \ {s}, !.failed = TRUE])
    BY <1>15, CallBecomes DEF DeleteMinted, KeychainCall
  <2>2. /\ Placed([me EXCEPT !.pc = "forget", !.todo = @ \ {s}])
        /\ Placed([me EXCEPT !.pc = "forget", !.todo = @ \ {s}, !.failed = TRUE])
    BY <1>1, <1>15 DEF DeleteMinted, At, Placed, Local, UpLabels, DownLabels
  <2> QED
    BY <2>1, <2>2, BecomePlaced
<1>16. CASE Forgotten(p)
  BY <1>16, BecomePlaced, EndPlaced DEF Forgotten, LocalStep
<1> QED
  BY <1>2, <1>3, <1>4, <1>5, <1>6, <1>7, <1>9, <1>10, <1>11, <1>12, <1>13, <1>14,
     <1>15, <1>16 DEF DownStep

\* No step breaks PlaceOK.
LEMMA PlaceStep ==
  ASSUME TypeOK, PlaceOK, [Next]_vars
  PROVE PlaceOK'
<1>1. CASE UNCHANGED vars
  BY <1>1 DEF vars, PlaceOK, Placed
<1>2. ASSUME NEW p \in Proc, SeesInterrupt(p) \/ Crash(p)
      PROVE PlaceOK'
  BY <1>2, BecomePlaced, EndPlaced DEF SeesInterrupt, Crash, LocalStep
<1>3. ASSUME NEW p \in Proc, Interrupt(p)
      PROVE PlaceOK'
  <2>1. Placed([proc[p] EXCEPT !.cancelled = TRUE])
    BY DEF TypeOK, PlaceOK, Placed, Local
  <2> QED
    BY <1>3, <2>1, BecomePlaced DEF Interrupt
<1>4. CASE Reboot
  BY <1>4, EndPlaced DEF Reboot, PlaceOK, Placed
<1> QED
  BY <1>1, <1>2, <1>3, <1>4, StartPlaced, UpPlaced, DownPlaced DEF Next, Step

-----------------------------------------------------------------------------
(* The inductive invariant.                                                *)

\* Both hold at the start.
LEMMA InitType == Init => TypeOK /\ PlaceOK
<1>1. ASSUME Init
      PROVE PodmanTypeOK /\ KeychainTypeOK
  <2>1. UserItem \subseteq Item
    BY DEF UserItem, Item
  <2> QED
    BY <1>1, <2>1 DEF Init, CommandInit, PodmanInit, KeychainInit, PodmanTypeOK,
                      KeychainTypeOK, Maybe
<1>2. ASSUME Init
      PROVE proc \in [Proc -> Local] /\ budget \in 0 .. MaxFaults /\ PlaceOK
  BY <1>2, IdleType, EndPlaced, CommandAssumption DEF Init, CommandInit, PlaceOK
<1> QED
  BY <1>1, <1>2 DEF TypeOK

\* Together they are inductive.
LEMMA Invariance == Spec => [](TypeOK /\ PlaceOK)
<1>1. Init => TypeOK /\ PlaceOK
  BY InitType
<1>2. TypeOK /\ PlaceOK /\ [Next]_vars => (TypeOK /\ PlaceOK)'
  BY TypeStep, PlaceStep
<1> QED
  BY <1>1, <1>2, PTL DEF Spec

\* Every reachable state has every variable in the set its declaration names,
\* however many commands run at once and whatever disturbs them.
THEOREM TypeCorrect == Spec => []TypeOK
BY Invariance, PTL

-----------------------------------------------------------------------------
(* The keychain: only Put and DeleteMinted write to it.                    *)

\* Other calls leave the items alone.
LEMMA CallsKeepItems ==
  ASSUME NEW p \in Proc, NEW ACTION can, NEW ACTION effect,
         NEW ACTION done, NEW ACTION failure
  PROVE /\ PodmanCall(p, can, effect, done, failure) => UNCHANGED items
        /\ Query(p, can, done, failure) => UNCHANGED items
        /\ LocalStep(p, done) => UNCHANGED items
BY DEF PodmanCall, Query, Call, LocalStep, keychainVars

\* Only two actions can change an item.
LEMMA StepKeepsItems ==
  ASSUME [Next]_vars
  PROVE UNCHANGED items \/ \E p \in Proc : Put(p) \/ DeleteMinted(p)
<1>1. CASE UNCHANGED vars
  BY <1>1 DEF vars, keychainVars
<1>2. ASSUME NEW p \in Proc, Start(p) \/ SeesInterrupt(p)
      PROVE UNCHANGED items
  BY <1>2, CallsKeepItems DEF Start, Refuse, StartUp, StartDown, SeesInterrupt
<1>3. ASSUME NEW p \in Proc, Interrupt(p) \/ Crash(p)
      PROVE UNCHANGED items
  BY <1>3 DEF Interrupt, Crash, keychainVars
<1>4. CASE Reboot
  BY <1>4 DEF Reboot, keychainVars
<1>5. ASSUME NEW p \in Proc, UpStep(p)
      PROVE UNCHANGED items \/ Put(p)
  <2>1. CASE Resolve(p)
    BY <2>1, CallsKeepItems DEF Resolve
  <2>2. CASE Mint(p) \/ Inject(p)
    BY <2>2, CallsKeepItems DEF Mint, Inject
  <2>3. CASE Play(p)
    BY <2>3, CallsKeepItems DEF Play, keychainVars
  <2>4. CASE DescribeUser(p) \/ UserMissing(p) \/ FindMachine(p) \/ InitMachine(p)
             \/ StartMachine(p) \/ FindNetwork(p) \/ CreateNetwork(p) \/ BeginZones(p)
    BY <2>4, CallsKeepItems
       DEF DescribeUser, UserMissing, FindMachine, InitMachine, StartMachine,
           FindNetwork, CreateNetwork, BeginZones
  <2>5. CASE FindingsEndZone(p) \/ Build(p) \/ EndZone(p) \/ Ready(p)
    BY <2>5, CallsKeepItems DEF FindingsEndZone, Build, EndZone, Ready
  <2> QED
    BY <1>5, <2>1, <2>2, <2>3, <2>4, <2>5 DEF UpStep
<1>6. ASSUME NEW p \in Proc, DownStep(p)
      PROVE UNCHANGED items \/ DeleteMinted(p)
  <2>1. CASE ListMachine(p) \/ SnapshotPods(p) \/ SkipAbsent(p) \/ KubeDown(p)
             \/ KeepNetwork(p) \/ FindOldNetwork(p) \/ RemoveNetwork(p)
    BY <2>1, CallsKeepItems
       DEF ListMachine, SnapshotPods, SkipAbsent, KubeDown, KeepNetwork,
           FindOldNetwork, RemoveNetwork
  <2>2. CASE KeepStore(p) \/ ListStored(p) \/ RemoveSecret(p) \/ RemoveVolume(p)
             \/ StopMachine(p) \/ RemoveMachine(p) \/ FindMinted(p) \/ Forgotten(p)
    BY <2>2, CallsKeepItems
       DEF KeepStore, ListStored, RemoveSecret, RemoveVolume, StopMachine,
           RemoveMachine, FindMinted, Forgotten
  <2> QED
    BY <1>6, <2>1, <2>2 DEF DownStep
<1> QED
  BY <1>1, <1>2, <1>3, <1>4, <1>5, <1>6 DEF Next, Step

\* The Put of up is refused where an item is, and destroy deletes items of
\* minted secrets only.
LEMMA DurableKept ==
  ASSUME TypeOK, PlaceOK, [Next]_vars, NEW s \in Durable, IsSet(s)
  PROVE items'[s] = items[s]
<1>1. CASE UNCHANGED items
  BY <1>1
<1>2. ASSUME NEW p \in Proc, Put(p)
      PROVE items'[s] = items[s]
  <2>1. PICK u \in proc[p].todo :
          KeychainCall(p, CanPut(u, PutReplaces), DoPut(u, proc[p].fresh, SourceOf(u)),
                       [proc[p] EXCEPT !.pc = "zone", !.todo = @ \ {u},
                                       !.got[u] = proc[p].fresh, !.fresh = None],
                       PutFails(proc[p], u))
    BY <1>2 DEF Put
  <2>2. \/ UNCHANGED items
        \/ ~IsSet(u) /\ items' = [items EXCEPT ![u] = [val |-> proc[p].fresh, src |-> SourceOf(u)]]
    BY <2>1 DEF KeychainCall, Call, CanPut, PutReplaces, DoPut, keychainVars
  <2> QED
    BY <2>2 DEF Durable, IsSet, TypeOK, KeychainTypeOK
<1>3. ASSUME NEW p \in Proc, DeleteMinted(p)
      PROVE items'[s] = items[s]
  <2>1. PICK u \in proc[p].todo :
          KeychainCall(p, CanDelete(u), DoDelete(u),
                       [proc[p] EXCEPT !.pc = "forget", !.todo = @ \ {u}],
                       [proc[p] EXCEPT !.pc = "forget", !.todo = @ \ {u}, !.failed = TRUE])
    BY <1>3 DEF DeleteMinted
  <2>2. u \in Minted
    BY <1>3 DEF DeleteMinted, At, PlaceOK, Placed
  <2>3. UNCHANGED items \/ items' = [items EXCEPT ![u] = None]
    BY <2>1 DEF KeychainCall, Call, DoDelete, keychainVars
  <2> QED
    BY <2>2, <2>3 DEF Durable, TypeOK, KeychainTypeOK
<1> QED
  BY <1>1, <1>2, <1>3, StepKeepsItems

\* No step of any number of concurrent, interrupted and restarted commands
\* replaces or removes a keychain value that was not minted.
THEOREM KeychainKept == Spec => NeverOverwritten
<1>1. TypeOK /\ PlaceOK /\ [Next]_vars
        => [\A s \in Durable : IsSet(s) => items'[s] = items[s]]_vars
  BY DurableKept
<1> QED
  BY <1>1, Invariance, PTL DEF Spec, NeverOverwritten

-----------------------------------------------------------------------------
(* Copies: each comes from the one it is made of, back to the keychain.    *)

\* Where the copies Podman holds after a step come from.
PodmanCopies ==
  /\ \A s \in Secret : \/ store'[s] \in {None, store[s]}
                       \/ \E p \in Proc : store'[s] = proc[p].got[s]
  /\ \A s \in Secret : vols'[s] \in {None, vols[s], store[s]}
  /\ \A w \in Workload, s \in Secret :
       pods'[w] # None =>
         \/ pods'[w].env[s] \in {None, store[s]}
         \/ pods[w] # None /\ pods'[w].env[s] = pods[w].env[s]

\* And those a command holds.
GotCopies ==
  \A p \in Proc, s \in Secret :
    \/ proc'[p].got[s] \in {None, proc[p].got[s]}
    \/ items'[s] # None /\ proc'[p].got[s] = items'[s].val

\* If copies come from copies, what is resolved from the keychain, and no item
\* is replaced, then the copies keep matching the keychain.
LEMMA CopiesFollow ==
  ASSUME TypeOK, TypeOK', CopiesMatchKeychain, PodmanCopies, GotCopies,
         \A s \in Durable : IsSet(s) => items'[s] = items[s]
  PROVE CopiesMatchKeychain'
<1> SUFFICES ASSUME NEW s \in Durable
             PROVE /\ FromKeychain(s, store[s])'
                   /\ FromKeychain(s, vols[s])'
                   /\ \A w \in ListPods' : FromKeychain(s, pods[w].env[s])'
                   /\ \A p \in Proc : FromKeychain(s, proc[p].got[s])'
  BY DEF CopiesMatchKeychain
<1>1. s \in Secret
  BY DEF Durable
<1>2. ASSUME NEW v, FromKeychain(s, v)
      PROVE v = None \/ (items'[s] # None /\ v = items'[s].val)
  BY <1>2 DEF FromKeychain, IsSet
<1>3. /\ FromKeychain(s, store[s])
      /\ FromKeychain(s, vols[s])
      /\ \A w \in ListPods : FromKeychain(s, pods[w].env[s])
      /\ \A p \in Proc : FromKeychain(s, proc[p].got[s])
  BY DEF CopiesMatchKeychain
<1>4. FromKeychain(s, store[s])'
  BY <1>1, <1>2, <1>3 DEF PodmanCopies, FromKeychain, IsSet
<1>5. FromKeychain(s, vols[s])'
  BY <1>1, <1>2, <1>3 DEF PodmanCopies, FromKeychain, IsSet
<1>6. ASSUME NEW w \in ListPods'
      PROVE FromKeychain(s, pods[w].env[s])'
  <2>1. w \in Workload /\ pods'[w] # None /\ (pods[w] # None => w \in ListPods)
    BY DEF ListPods
  <2> QED
    BY <1>1, <1>2, <1>3, <2>1 DEF PodmanCopies, FromKeychain, IsSet
<1>7. ASSUME NEW p \in Proc
      PROVE FromKeychain(s, proc[p].got[s])'
  BY <1>1, <1>2, <1>3 DEF GotCopies, FromKeychain, IsSet
<1> QED
  BY <1>4, <1>5, <1>6, <1>7

\* An unchanged machine holds the same copies.
LEMMA SameCopies ==
  ASSUME UNCHANGED podmanVars
  PROVE PodmanCopies
BY DEF podmanVars, PodmanCopies

\* Commands that carry no value make no copy of another origin.
LEMMA CommandCopies ==
  ASSUME TypeOK
  PROVE /\ DoInit \/ DoStart \/ DoStop \/ DoRemove => PodmanCopies
        /\ \A r : DoRemoveNetwork(r) => PodmanCopies
        /\ \A r, internal : DoCreateNetwork(r, internal) => PodmanCopies
        /\ \A s : DoRemoveSecret(s) \/ DoRemoveVolume(s) => PodmanCopies
        /\ \A k : DoMint(k) => PodmanCopies
        /\ \A w : DoDown(w) => PodmanCopies
<1>1. DoInit \/ DoStart => PodmanCopies
  BY DEF DoInit, DoStart, PodmanCopies
<1>2. DoStop => PodmanCopies
  BY DEF DoStop, Exited, PodmanCopies, TypeOK, PodmanTypeOK, Maybe, Pod
<1>3. DoRemove => PodmanCopies
  BY DEF DoRemove, PodmanCopies
<1>4. \A r : DoRemoveNetwork(r) => PodmanCopies
  BY DEF DoRemoveNetwork, PodmanCopies
<1>5. \A r, internal : DoCreateNetwork(r, internal) => PodmanCopies
  BY DEF DoCreateNetwork, PodmanCopies
<1>6. \A s : DoRemoveSecret(s) \/ DoRemoveVolume(s) => PodmanCopies
  BY DEF DoRemoveSecret, DoRemoveVolume, PodmanCopies, TypeOK, PodmanTypeOK
<1>7. \A k : DoMint(k) => PodmanCopies
  BY DEF DoMint, PodmanCopies
<1>8. \A w : DoDown(w) => PodmanCopies
  BY DEF DoDown, PodmanCopies, TypeOK, PodmanTypeOK
<1> QED
  BY <1>1, <1>2, <1>3, <1>4, <1>5, <1>6, <1>7, <1>8

\* secret create copies what the process resolved.
LEMMA StoreCopies ==
  ASSUME TypeOK, NEW p \in Proc, NEW s \in Secret, DoStoreSecret(s, proc[p].got[s])
  PROVE PodmanCopies
BY DEF DoStoreSecret, PodmanCopies, TypeOK, PodmanTypeOK

\* kube play copies from the store.
LEMMA PlayCopies ==
  ASSUME TypeOK, NEW w, NEW networks, NEW userns, DoPlay(w, networks, userns)
  PROVE PodmanCopies
<1>1. \A v \in Workload \ {w} : pods'[v] = pods[v]
  BY DEF DoPlay, TypeOK, PodmanTypeOK
<1>2. w \in Workload =>
        pods'[w].env = [s \in Secret |-> IF s \in Uses[w] THEN store[s] ELSE None]
  BY DEF DoPlay, TypeOK, PodmanTypeOK
<1>3. UNCHANGED store /\ vols' = [s \in Secret |-> IF s \in Mounts[w] THEN store[s] ELSE vols[s]]
  BY DEF DoPlay
<1> QED
  BY <1>1, <1>2, <1>3 DEF PodmanCopies

\* The kinds of call, for PodmanCopies.
LEMMA CallsCopy ==
  ASSUME NEW p \in Proc, NEW ACTION can, NEW ACTION effect,
         NEW ACTION done, NEW ACTION failure
  PROVE /\ PodmanCall(p, can, effect, done, failure) => effect \/ PodmanCopies
        /\ KeychainCall(p, can, effect, done, failure) => PodmanCopies
        /\ Query(p, can, done, failure) => PodmanCopies
        /\ LocalStep(p, done) => PodmanCopies
BY SameCopies DEF PodmanCall, KeychainCall, Query, Call, LocalStep

\* Every step of the system copies this way on the machine ...
LEMMA StepCopies ==
  ASSUME TypeOK, [Next]_vars
  PROVE PodmanCopies
<1>1. CASE UNCHANGED vars
  BY <1>1, SameCopies DEF vars
<1>2. ASSUME NEW p \in Proc, Start(p) \/ SeesInterrupt(p)
      PROVE PodmanCopies
  BY <1>2, CallsCopy DEF Start, Refuse, StartUp, StartDown, SeesInterrupt
<1>3. ASSUME NEW p \in Proc, Interrupt(p) \/ Crash(p)
      PROVE PodmanCopies
  BY <1>3, SameCopies DEF Interrupt, Crash
<1>4. CASE Reboot
  BY <1>4, CommandCopies DEF Reboot
<1>5. ASSUME NEW p \in Proc, UpStep(p)
      PROVE PodmanCopies
  <2>1. CASE Resolve(p)
    BY <2>1, CallsCopy DEF Resolve
  <2>2. CASE Mint(p)
    BY <2>2, CallsCopy, CommandCopies DEF Mint
  <2>3. CASE Put(p)
    BY <2>3, CallsCopy DEF Put
  <2>4. CASE Inject(p)
    <3>1. PICK s \in Secret :
            PodmanCall(p, CanStoreSecret, DoStoreSecret(s, proc[p].got[s]),
                       [proc[p] EXCEPT !.got[s] = None], StepFails(proc[p]))
      BY <2>4 DEF Inject, ToInject
    <3> QED
      BY <3>1, CallsCopy, StoreCopies
  <2>5. CASE Play(p)
    BY <2>5, CallsCopy, CommandCopies, PlayCopies DEF Play
  <2>6. CASE InitMachine(p) \/ StartMachine(p) \/ CreateNetwork(p)
    BY <2>6, CallsCopy, CommandCopies DEF InitMachine, StartMachine, CreateNetwork
  <2>7. CASE DescribeUser(p) \/ UserMissing(p) \/ FindMachine(p) \/ FindNetwork(p) \/ BeginZones(p)
    BY <2>7, CallsCopy DEF DescribeUser, UserMissing, FindMachine, FindNetwork, BeginZones
  <2>8. CASE FindingsEndZone(p) \/ Build(p) \/ EndZone(p) \/ Ready(p)
    BY <2>8, CallsCopy DEF FindingsEndZone, Build, EndZone, Ready
  <2> QED
    BY <1>5, <2>1, <2>2, <2>3, <2>4, <2>5, <2>6, <2>7, <2>8 DEF UpStep
<1>6. ASSUME NEW p \in Proc, DownStep(p)
      PROVE PodmanCopies
  <2>1. CASE KubeDown(p) \/ RemoveNetwork(p)
    BY <2>1, CallsCopy, CommandCopies DEF KubeDown, RemoveNetwork
  <2>2. CASE RemoveSecret(p) \/ RemoveVolume(p)
    <3>1. CASE RemoveSecret(p)
      BY <3>1, CallsCopy, CommandCopies DEF RemoveSecret
    <3>2. CASE RemoveVolume(p)
      BY <3>2, CallsCopy, CommandCopies DEF RemoveVolume
    <3> QED
      BY <2>2, <3>1, <3>2
  <2>3. CASE StopMachine(p) \/ RemoveMachine(p)
    BY <2>3, CallsCopy, CommandCopies DEF StopMachine, RemoveMachine
  <2>4. CASE ListMachine(p) \/ SnapshotPods(p) \/ SkipAbsent(p) \/ KeepNetwork(p) \/ FindOldNetwork(p)
    BY <2>4, CallsCopy DEF ListMachine, SnapshotPods, SkipAbsent, KeepNetwork, FindOldNetwork
  <2>5. CASE KeepStore(p) \/ ListStored(p) \/ FindMinted(p) \/ DeleteMinted(p) \/ Forgotten(p)
    BY <2>5, CallsCopy DEF KeepStore, ListStored, FindMinted, DeleteMinted, Forgotten
  <2> QED
    BY <1>6, <2>1, <2>2, <2>3, <2>4, <2>5 DEF DownStep
<1> QED
  BY <1>1, <1>2, <1>3, <1>4, <1>5, <1>6 DEF Next, Step

\* ... and what a process holds after its step decides GotCopies.
LEMMA BecomeGot ==
  ASSUME TypeOK, NEW p \in Proc, NEW ACTION me, Become(p, me),
         \A s \in Secret :
           \/ me.got[s] \in {None, proc[p].got[s]}
           \/ items'[s] # None /\ me.got[s] = items'[s].val
  PROVE GotCopies
BY DEF TypeOK, Become, GotCopies

\* Most steps leave what was resolved alone or forget all of it.
KeepsGot(p, me) == me.got = proc[p].got \/ me.got = NoneGot

\* Such a step makes no new value.
LEMMA BecomeKeepsGot ==
  ASSUME TypeOK, NEW p \in Proc, NEW ACTION me, Become(p, me), KeepsGot(p, me)
  PROVE GotCopies
BY BecomeGot DEF KeepsGot, NoneGot

\* A command that ends forgets all.
LEMMA EndKeepsGot ==
  ASSUME NEW p
  PROVE /\ \A c : KeepsGot(p, Idle(c))
        /\ \A me : KeepsGot(p, Report(me)) /\ KeepsGot(p, ReturnError(me))
                   /\ KeepsGot(p, ZoneFails(me)) /\ KeepsGot(p, StepFails(me))
BY DEF KeepsGot, Idle, Report, ReturnError, ZoneFails, StepFails

\* up resolves from the keychain only: Resolve reads the item, Put has stored it.
LEMMA UpGot ==
  ASSUME TypeOK, PlaceOK, NEW p \in Proc, UpStep(p)
  PROVE GotCopies
<1> DEFINE me == proc[p]
<1>1. me \in Local
  BY DEF TypeOK
<1>2. CASE DescribeUser(p)
  <2>1. PICK s \in me.todo :
          \/ Become(p, [me EXCEPT !.todo = @ \ {s}, !.failed = @ \/ ~IsSet(s)])
          \/ Become(p, ReturnError(me))
    BY <1>2, CallBecomes DEF DescribeUser, Query
  <2>2. KeepsGot(p, [me EXCEPT !.todo = @ \ {s}, !.failed = @ \/ ~IsSet(s)])
    BY <1>1 DEF KeepsGot, Local
  <2> QED
    BY <2>1, <2>2, BecomeKeepsGot, EndKeepsGot
<1>3. CASE UserMissing(p) \/ FindingsEndZone(p)
  BY <1>3, BecomeKeepsGot, EndKeepsGot DEF UserMissing, FindingsEndZone, LocalStep
<1>4. CASE FindMachine(p) \/ InitMachine(p) \/ StartMachine(p)
  <2>1. \/ Become(p, EnsureMachine(me))
        \/ Become(p, EnterNets(me))
        \/ Become(p, [me EXCEPT !.pc = "start"])
        \/ Become(p, ReturnError(me))
    BY <1>4, CallBecomes DEF FindMachine, InitMachine, StartMachine, Query, PodmanCall
  <2>2. /\ KeepsGot(p, [me EXCEPT !.pc = "start"])
        /\ KeepsGot(p, [me EXCEPT !.pc = "init"])
        /\ KeepsGot(p, EnterNets(me))
    BY <1>1 DEF KeepsGot, EnterNets, Local
  <2>3. KeepsGot(p, EnsureMachine(me))
    BY <2>2 DEF EnsureMachine, TypeOK, PodmanTypeOK
  <2> QED
    BY <2>1, <2>2, <2>3, BecomeKeepsGot, EndKeepsGot
<1>5. CASE FindNetwork(p) \/ CreateNetwork(p)
  <2>1. \/ Become(p, [me EXCEPT !.zones = @ \ {First(me.zones)}])
        \/ Become(p, [me EXCEPT !.pc = "mknet"])
        \/ Become(p, [me EXCEPT !.pc = "nets", !.zones = @ \ {First(me.zones)}])
        \/ Become(p, Idle("failed"))
    BY <1>5, CallBecomes DEF FindNetwork, CreateNetwork, Query, PodmanCall
  <2>2. /\ KeepsGot(p, [me EXCEPT !.zones = @ \ {First(me.zones)}])
        /\ KeepsGot(p, [me EXCEPT !.pc = "mknet"])
        /\ KeepsGot(p, [me EXCEPT !.pc = "nets", !.zones = @ \ {First(me.zones)}])
    BY <1>1 DEF KeepsGot, Local
  <2> QED
    BY <2>1, <2>2, BecomeKeepsGot, EndKeepsGot
<1>6. CASE BeginZones(p) \/ EndZone(p) \/ Ready(p)
  <2>1. \/ Become(p, EnterZone(me, me.roles))
        \/ Become(p, Applied(me))
        \/ Become(p, StepFails(me))
    BY <1>6, CallBecomes DEF BeginZones, EndZone, Ready, LocalStep, Query
  <2>2. \A zones : KeepsGot(p, EnterZone(me, zones))
    BY <1>1 DEF KeepsGot, EnterZone, Local
  <2>3. KeepsGot(p, Applied(me))
    BY <2>2, EndKeepsGot DEF Applied
  <2> QED
    BY <2>1, <2>2, <2>3, BecomeKeepsGot, EndKeepsGot
<1>7. CASE Resolve(p)
  <2>1. PICK s \in me.todo :
          \/ Become(p, ReturnError(me))
          \/ /\ IsSet(s) /\ UNCHANGED items
             /\ Become(p, [me EXCEPT !.todo = @ \ {s}, !.got[s] = items[s].val])
          \/ Become(p, [me EXCEPT !.todo = @ \ {s}, !.failed = TRUE])
          \/ Become(p, [me EXCEPT !.pc = "mint"])
          \/ \E v \in Value : Become(p, [me EXCEPT !.pc = "put", !.fresh = v])
    BY <1>7, CallBecomes, CallsKeepItems DEF Resolve, Query
  <2>2. /\ KeepsGot(p, [me EXCEPT !.todo = @ \ {s}, !.failed = TRUE])
        /\ KeepsGot(p, [me EXCEPT !.pc = "mint"])
        /\ \A v : KeepsGot(p, [me EXCEPT !.pc = "put", !.fresh = v])
    BY <1>1 DEF KeepsGot, Local
  <2>3. ASSUME IsSet(s), UNCHANGED items,
               Become(p, [me EXCEPT !.todo = @ \ {s}, !.got[s] = items[s].val])
        PROVE GotCopies
    <3> DEFINE next == [me EXCEPT !.todo = @ \ {s}, !.got[s] = items[s].val]
    <3>1. next.got = [me.got EXCEPT ![s] = items[s].val]
      BY <1>1 DEF Local
    <3>2. \A u \in Secret :
            \/ next.got[u] \in {None, me.got[u]}
            \/ items'[u] # None /\ next.got[u] = items'[u].val
      BY <1>1, <2>3, <3>1 DEF Local, IsSet
    <3> QED
      BY <2>3, <3>2, BecomeGot
  <2> QED
    BY <2>1, <2>2, <2>3, BecomeKeepsGot, EndKeepsGot
<1>8. CASE Mint(p)
  <2>1. PICK s \in me.todo, k \in KeyValue :
          \/ Become(p, [me EXCEPT !.pc = "put", !.fresh = k])
          \/ Become(p, [me EXCEPT !.pc = "zone", !.todo = @ \ {s}, !.failed = TRUE])
    BY <1>8, CallBecomes DEF Mint, PodmanCall
  <2>2. /\ KeepsGot(p, [me EXCEPT !.pc = "put", !.fresh = k])
        /\ KeepsGot(p, [me EXCEPT !.pc = "zone", !.todo = @ \ {s}, !.failed = TRUE])
    BY <1>1 DEF KeepsGot, Local
  <2> QED
    BY <2>1, <2>2, BecomeKeepsGot
<1>9. CASE Put(p)
  <2>1. PICK s \in me.todo :
          \/ /\ DoPut(s, me.fresh, SourceOf(s))
             /\ Become(p, [me EXCEPT !.pc = "zone", !.todo = @ \ {s},
                                     !.got[s] = me.fresh, !.fresh = None])
          \/ Become(p, ReturnError(me))
    BY <1>9 DEF Put, PutFails, KeychainCall, Call
  <2>2. ASSUME DoPut(s, me.fresh, SourceOf(s)),
               Become(p, [me EXCEPT !.pc = "zone", !.todo = @ \ {s},
                                    !.got[s] = me.fresh, !.fresh = None])
        PROVE GotCopies
    <3> DEFINE next == [me EXCEPT !.pc = "zone", !.todo = @ \ {s},
                                  !.got[s] = me.fresh, !.fresh = None]
               item == [val |-> me.fresh, src |-> SourceOf(s)]
    <3>1. next.got = [me.got EXCEPT ![s] = me.fresh]
      BY <1>1 DEF Local
    <3>2. s \in Secret /\ me.fresh \in Value
      BY <1>1, <1>9 DEF Put, At, PlaceOK, Placed, Local, Maybe
    <3>3. item \in Item
      BY <3>2, SourceType DEF Item
    <3>4. items'[s] = item /\ item # None
      BY <2>2, <3>2, <3>3, KeychainAssumption DEF DoPut, TypeOK, KeychainTypeOK
    <3>5. \A u \in Secret :
            \/ next.got[u] \in {None, me.got[u]}
            \/ items'[u] # None /\ next.got[u] = items'[u].val
      BY <1>1, <3>1, <3>2, <3>4 DEF Local
    <3> QED
      BY <2>2, <3>5, BecomeGot
  <2> QED
    BY <2>1, <2>2, BecomeKeepsGot, EndKeepsGot
<1>10. CASE Inject(p)
  <2>1. PICK s \in Secret :
          Become(p, [me EXCEPT !.got[s] = None]) \/ Become(p, StepFails(me))
    BY <1>10, CallBecomes DEF Inject, ToInject, PodmanCall
  <2>2. \A u \in Secret : [me EXCEPT !.got[s] = None].got[u] \in {None, me.got[u]}
    BY <1>1 DEF Local
  <2> QED
    BY <2>1, <2>2, BecomeGot, BecomeKeepsGot, EndKeepsGot
<1>11. CASE Build(p) \/ Play(p)
  <2>1. \/ Become(p, [me EXCEPT !.pc = "play"])
        \/ Become(p, [me EXCEPT !.pc = "zone", !.work = Tail(@)])
        \/ Become(p, StepFails(me))
    BY <1>11, CallBecomes DEF Build, Play, Query, PodmanCall
  <2>2. /\ KeepsGot(p, [me EXCEPT !.pc = "play"])
        /\ KeepsGot(p, [me EXCEPT !.pc = "zone", !.work = Tail(@)])
    BY <1>1 DEF KeepsGot, Local
  <2> QED
    BY <2>1, <2>2, BecomeKeepsGot, EndKeepsGot
<1> QED
  BY <1>2, <1>3, <1>4, <1>5, <1>6, <1>7, <1>8, <1>9, <1>10, <1>11 DEF UpStep

\* down resolves nothing.
LEMMA DownGot ==
  ASSUME TypeOK, NEW p \in Proc, DownStep(p)
  PROVE GotCopies
<1> DEFINE me == proc[p]
<1>1. me \in Local
  BY DEF TypeOK
<1>2. CASE ListMachine(p)
  <2>1. \/ Become(p, [me EXCEPT !.pc = "pods"])
        \/ Become(p, [me EXCEPT !.pc = "rm"])
        \/ Become(p, Report(me))
        \/ Become(p, Idle("failed"))
    BY <1>2, CallBecomes DEF ListMachine, Query
  <2>2. KeepsGot(p, [me EXCEPT !.pc = "pods"]) /\ KeepsGot(p, [me EXCEPT !.pc = "rm"])
    BY <1>1 DEF KeepsGot, Local
  <2> QED
    BY <2>1, <2>2, BecomeKeepsGot, EndKeepsGot
<1>3. CASE SnapshotPods(p)
  <2> DEFINE next == EnterDown([me EXCEPT !.present = Listed(me.top)], me.roles)
  <2>1. Become(p, next) \/ Become(p, Idle("failed"))
    BY <1>3, CallBecomes DEF SnapshotPods, Query
  <2>2. KeepsGot(p, next)
    BY <1>1 DEF KeepsGot, EnterDown, Local
  <2> QED
    BY <2>1, <2>2, BecomeKeepsGot, EndKeepsGot
<1>4. CASE SkipAbsent(p) \/ KubeDown(p)
  <2>1. \/ Become(p, [me EXCEPT !.work = WithoutLast(me)])
        \/ Become(p, [me EXCEPT !.work = WithoutLast(me), !.present = @ \ {LastWork(me)}])
        \/ Become(p, DownFails(me))
    BY <1>4, CallBecomes DEF SkipAbsent, KubeDown, LocalStep, PodmanCall
  <2>2. /\ KeepsGot(p, [me EXCEPT !.work = WithoutLast(me)])
        /\ KeepsGot(p, [me EXCEPT !.work = WithoutLast(me), !.present = @ \ {LastWork(me)}])
        /\ KeepsGot(p, [me EXCEPT !.work = WithoutLast(me), !.failed = TRUE, !.kept = TRUE])
    BY <1>1 DEF KeepsGot, Local
  <2>3. KeepsGot(p, DownFails(me))
    BY <2>2, EndKeepsGot DEF DownFails
  <2> QED
    BY <2>1, <2>2, <2>3, BecomeKeepsGot
<1>5. CASE KeepNetwork(p) \/ FindOldNetwork(p) \/ RemoveNetwork(p)
  <2>1. \/ Become(p, NetworkDone(me))
        \/ Become(p, NetworkDone([me EXCEPT !.failed = TRUE]))
        \/ Become(p, [me EXCEPT !.pc = "rmnet"])
        \/ Become(p, Idle("interrupted"))
    BY <1>5, CallBecomes
       DEF KeepNetwork, FindOldNetwork, RemoveNetwork, RemoveFails, LocalStep, Query, PodmanCall
  <2>2. ASSUME NEW it \in Local, it.got = me.got
        PROVE KeepsGot(p, NetworkDone(it))
    BY <2>2 DEF KeepsGot, NetworkDone, EnterDown, Local
  <2>3. [me EXCEPT !.failed = TRUE] \in Local /\ [me EXCEPT !.failed = TRUE].got = me.got
    BY <1>1 DEF Local
  <2>4. KeepsGot(p, [me EXCEPT !.pc = "rmnet"])
    BY <1>1 DEF KeepsGot, Local
  <2>5. KeepsGot(p, NetworkDone(me)) /\ KeepsGot(p, NetworkDone([me EXCEPT !.failed = TRUE]))
    BY <1>1, <2>2, <2>3
  <2> QED
    BY <2>1, <2>4, <2>5, BecomeKeepsGot, EndKeepsGot
<1>6. CASE KeepStore(p) \/ Forgotten(p)
  BY <1>6, BecomeKeepsGot, EndKeepsGot DEF KeepStore, Forgotten, LocalStep
<1>7. KeepsGot(p, PurgeFails(me))
  <2>1. KeepsGot(p, [me EXCEPT !.pc = "stop", !.failed = TRUE, !.todo = {}])
    BY <1>1 DEF KeepsGot, Local
  <2> QED
    BY <2>1, EndKeepsGot DEF PurgeFails
<1>8. CASE ListStored(p) \/ RemoveSecret(p)
  <2>1. \/ Become(p, [me EXCEPT !.pc = "purge", !.todo = Purgeable(me.top)])
        \/ Become(p, [me EXCEPT !.pc = "purgevol"])
        \/ Become(p, PurgeFails(me))
    BY <1>8, CallBecomes DEF ListStored, RemoveSecret, Query, PodmanCall
  <2>2. /\ KeepsGot(p, [me EXCEPT !.pc = "purge", !.todo = Purgeable(me.top)])
        /\ KeepsGot(p, [me EXCEPT !.pc = "purgevol"])
    BY <1>1 DEF KeepsGot, Local
  <2> QED
    BY <1>7, <2>1, <2>2, BecomeKeepsGot
<1>9. CASE RemoveVolume(p)
  <2>1. PICK s \in me.todo :
          Become(p, [me EXCEPT !.pc = "purge", !.todo = @ \ {s}]) \/ Become(p, PurgeFails(me))
    BY <1>9, CallBecomes DEF RemoveVolume, PodmanCall
  <2>2. KeepsGot(p, [me EXCEPT !.pc = "purge", !.todo = @ \ {s}])
    BY <1>1 DEF KeepsGot, Local
  <2> QED
    BY <1>7, <2>1, <2>2, BecomeKeepsGot
<1>10. CASE StopMachine(p) \/ RemoveMachine(p)
  <2>1. \/ Become(p, [me EXCEPT !.pc = "rm"])
        \/ Become(p, [me EXCEPT !.pc = "forget", !.todo = ToForget(me.top)])
        \/ Become(p, Report(me))
        \/ Become(p, ReturnError(me))
    BY <1>10, CallBecomes DEF StopMachine, RemoveMachine, PodmanCall
  <2>2. /\ KeepsGot(p, [me EXCEPT !.pc = "rm"])
        /\ KeepsGot(p, [me EXCEPT !.pc = "forget", !.todo = ToForget(me.top)])
    BY <1>1 DEF KeepsGot, Local
  <2> QED
    BY <2>1, <2>2, BecomeKeepsGot, EndKeepsGot
<1>11. CASE FindMinted(p) \/ DeleteMinted(p)
  <2>1. PICK s \in me.todo :
          \/ Become(p, [me EXCEPT !.pc = "delitem"])
          \/ Become(p, [me EXCEPT !.todo = @ \ {s}])
          \/ Become(p, [me EXCEPT !.todo = @ \ {s}, !.failed = TRUE])
          \/ Become(p, [me EXCEPT !.pc = "forget", !.todo = @ \ {s}])
          \/ Become(p, [me EXCEPT !.pc = "forget", !.todo = @ \ {s}, !.failed = TRUE])
    BY <1>11, CallBecomes DEF FindMinted, DeleteMinted, Query, KeychainCall
  <2>2. /\ KeepsGot(p, [me EXCEPT !.pc = "delitem"])
        /\ KeepsGot(p, [me EXCEPT !.todo = @ \ {s}])
        /\ KeepsGot(p, [me EXCEPT !.todo = @ \ {s}, !.failed = TRUE])
        /\ KeepsGot(p, [me EXCEPT !.pc = "forget", !.todo = @ \ {s}])
        /\ KeepsGot(p, [me EXCEPT !.pc = "forget", !.todo = @ \ {s}, !.failed = TRUE])
    BY <1>1 DEF KeepsGot, Local
  <2> QED
    BY <2>1, <2>2, BecomeKeepsGot
<1> QED
  BY <1>2, <1>3, <1>4, <1>5, <1>6, <1>8, <1>9, <1>10, <1>11 DEF DownStep

\* A command starts with nothing resolved.
LEMMA StartGot ==
  ASSUME TypeOK, NEW p \in Proc, Start(p)
  PROVE GotCopies
<1>1. CASE Refuse(p)
  BY <1>1, BecomeKeepsGot, EndKeepsGot DEF Refuse, LocalStep
<1>2. CASE StartUp(p)
  <2>1. PICK job \in Jobs, t \in Topologies :
          Become(p, [Loaded(job, t) EXCEPT !.pc = "users", !.todo = UserSecrets(t, job.roles)])
    BY <1>2 DEF StartUp, LocalStep
  <2>2. KeepsGot(p, [Loaded(job, t) EXCEPT !.pc = "users", !.todo = UserSecrets(t, job.roles)])
    BY DEF KeepsGot, Loaded, Idle
  <2> QED
    BY <2>1, <2>2, BecomeKeepsGot
<1>3. CASE StartDown(p)
  <2>1. PICK job \in Jobs, t \in Topologies :
          Become(p, [Loaded(job, t) EXCEPT !.pc = "list"])
    BY <1>3 DEF StartDown, LocalStep
  <2>2. KeepsGot(p, [Loaded(job, t) EXCEPT !.pc = "list"])
    BY DEF KeepsGot, Loaded, Idle
  <2> QED
    BY <2>1, <2>2, BecomeKeepsGot
<1> QED
  BY <1>1, <1>2, <1>3 DEF Start

\* Every step of the system keeps GotCopies.
LEMMA StepGot ==
  ASSUME TypeOK, PlaceOK, [Next]_vars
  PROVE GotCopies
<1>1. CASE UNCHANGED vars
  BY <1>1 DEF vars, GotCopies
<1>2. ASSUME NEW p \in Proc, SeesInterrupt(p) \/ Crash(p)
      PROVE GotCopies
  BY <1>2, BecomeKeepsGot, EndKeepsGot DEF SeesInterrupt, Crash, LocalStep
<1>3. ASSUME NEW p \in Proc, Interrupt(p)
      PROVE GotCopies
  <2>1. proc[p] \in Local
    BY DEF TypeOK
  <2>2. KeepsGot(p, [proc[p] EXCEPT !.cancelled = TRUE])
    BY <2>1 DEF KeepsGot, Local
  <2> QED
    BY <1>3, <2>2, BecomeKeepsGot DEF Interrupt
<1>4. CASE Reboot
  BY <1>4 DEF Reboot, GotCopies, Idle, NoneGot
<1> QED
  BY <1>1, <1>2, <1>3, <1>4, StartGot, UpGot, DownGot DEF Next, Step

\* Wherever a copy of a secret that is not minted was left, by whatever number
\* of commands and whatever disturbed them, it is the keychain's value.
THEOREM CopiesFromKeychain == Spec => []CopiesMatchKeychain
<1>1. Init => CopiesMatchKeychain
  BY DEF Init, CommandInit, PodmanInit, Idle, NoneGot, ListPods, Durable,
         CopiesMatchKeychain, FromKeychain
<1>2. TypeOK /\ PlaceOK /\ (TypeOK)' /\ CopiesMatchKeychain /\ [Next]_vars
        => CopiesMatchKeychain'
  BY StepCopies, StepGot, DurableKept, CopiesFollow
<1> QED
  BY <1>1, <1>2, Invariance, PTL DEF Spec

=============================================================================
