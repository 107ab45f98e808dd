---------------------------- MODULE InitProofs -----------------------------
(***************************************************************************)
(* Proofs about InitCmd, for any number of inits at once, any files and    *)
(* keychains, and any number of failures, interrupts and crashes.          *)
(*                                                                         *)
(* TypeOK is not inductive alone: what rename moves is a whole file only   *)
(* because fill ended. What a process has behind it is in Placed: a file   *)
(* no longer to do is there, unless the report has a failure; a keychain   *)
(* was read before one is made; a cancelled run has used up a disturbance. *)
(* The order is                                                            *)
(*   1. every step keeps types, Placed and BareOnlyBehindFault             *)
(*                        -> InitTypeCorrect, BareIsBehindFault            *)
(*   2. what a step does to the files   -> ScaffoldIsAtomic                *)
(*   3. what an exit 0 has behind it    -> InitHasDelivered                *)
(*   4. who leaves a temporary file     -> FailuresCleanUp                 *)
(***************************************************************************)
EXTENDS InitCmd, WellFoundedInduction, TLAPS

-----------------------------------------------------------------------------
(* The next file                                                           *)

\* A nonempty set of numbers has a least one.
LEMMA LeastNat ==
  ASSUME NEW T, T \subseteq Nat, T # {}
  PROVE \E m \in T : \A n \in T : m <= n
<1> DEFINE R == OpToRel(<, Nat)
<1>1. IsWellFoundedOn(R, Nat)
  BY NatLessThanWellFounded
<1>2. \A m, n \in Nat : n < m => <<n, m>> \in R
  BY DEF OpToRel
<1> HIDE DEF R
<1>3. PICK m \in T : \A n \in T : ~ (<<n, m>> \in R)
  BY <1>1, WFMin
<1>4. \A n \in T : ~ (n < m)
  BY <1>2, <1>3
<1> QED
  BY <1>4

\* The file an init does next is one it has to do.
LEMMA FirstFileTodo ==
  ASSUME NEW paths, paths \subseteq Path, paths # {}
  PROVE FirstFile(paths) \in paths
<1> DEFINE ranks == {PathRank[f] : f \in paths}
<1>1. ranks \subseteq Nat /\ ranks # {}
  BY InitAssumption
<1>2. PICK m \in ranks : \A n \in ranks : m <= n
  BY <1>1, LeastNat
<1>3. \E f \in paths : \A g \in paths : PathRank[f] <= PathRank[g]
  BY <1>2
<1> QED
  BY <1>3 DEF FirstFile

-----------------------------------------------------------------------------
(* What a process has behind it                                            *)

WriterPlaced(p) ==
  /\ write[p].stage # "none" =>
       write[p].outcome = "none" /\ write[p].path = FirstFile(run[p].todo)
  /\ write[p].stage # "none" \/ write[p].outcome # "none" => At(p, "walk") /\ run[p].todo # {}
  /\ write[p].stage = "rename" => write[p].tmp = Default
  /\ write[p].outcome \in {"written", "skipped"} => IsFile(FirstFile(run[p].todo))

RunPlaced(p) ==
  /\ run[p].pc \in {"load", "exists", "create", "settle"} => run[p].todo = {}
  /\ run[p].pc \in {"exists", "create", "settle"} => run[p].keychain \in KeyPath
  /\ ~At(p, "idle") /\ ~run[p].failed => \A f \in Path \ run[p].todo : IsFile(f)
  /\ run[p].cancelled => budget < MaxFaults
  /\ ~At(p, "idle") => run[p].exit = "none"

Placed == \A p \in Proc : WriterPlaced(p) /\ RunPlaced(p)

-----------------------------------------------------------------------------
(* Types                                                                   *)

\* No file to write is one of the ends of a write, no run one of a run.
LEMMA EndTypes ==
  /\ \A outcome \in {"none", "written", "skipped", "failed"} :
       NotWriting(outcome) \in Writer
  /\ \A exit \in {"none", "ok", "failed", "interrupted", "crashed"} : NoRun(exit) \in Run
  /\ \A me \in Run, failed \in BOOLEAN : Exits(me, failed) \in Run
<1>1. (CHOOSE f \in Path : TRUE) \in Path
  BY InitAssumption
<1> QED
  BY <1>1 DEF NotWriting, Writer, NoRun, Run, Exits, Maybe

\* A disturbance is one fewer.
LEMMA FaultType ==
  ASSUME budget \in 0 .. MaxFaults, Fault
  PROVE budget' \in 0 .. MaxFaults /\ budget' < budget /\ budget' < MaxFaults
BY DisturbancesAssumption DEF Fault

\* A write or a run replaced by one of its type.
LEMMA ReplaceTypes ==
  ASSUME TypeOK, NEW p \in Proc
  PROVE /\ \A w \in Writer : Writes(p, w) => write' \in [Proc -> Writer]
        /\ \A outcome \in {"none", "written", "skipped", "failed"} :
             Return(p, outcome) => write' \in [Proc -> Writer]
        /\ \A me \in Run : Becomes(p, me) => run' \in [Proc -> Run]
BY EndTypes DEF TypeOK, WriterTypeOK, Writes, Return, Becomes

\* A process on its way through a write is of the type.
LEMMA WriterTypes ==
  ASSUME NEW w \in Writer
  PROVE /\ \A stage \in {"temp", "discard"} : [w EXCEPT !.stage = stage] \in Writer
        /\ \A stage \in {"fill", "rename", "discard"}, tmp \in {Partial, Default} :
             [w EXCEPT !.stage = stage, !.tmp = tmp] \in Writer
BY DEF Writer

\* WriteFile
LEMMA WriteType ==
  ASSUME TypeOK, Placed, NEW p \in Proc, WriteFile(p)
  PROVE TypeOK'
<1> DEFINE w == write[p]
<1>1. w \in Writer /\ budget \in 0 .. MaxFaults
  BY DEF TypeOK, WriterTypeOK
<1>2. budget' \in 0 .. MaxFaults
  BY <1>1, FaultType
     DEF WriteFile, WriteStep, Look, CreateTemp, Fill, Rename, Discard, Fails
<1>3. write' \in [Proc -> Writer]
  <2>1. CASE Look(p)
    BY <1>1, <2>1, ReplaceTypes, WriterTypes DEF Look
  <2>2. CASE CreateTemp(p)
    BY <1>1, <2>2, ReplaceTypes, WriterTypes DEF CreateTemp
  <2>3. CASE Fill(p)
    BY <1>1, <2>3, ReplaceTypes, WriterTypes DEF Fill, FillFails
  <2>4. CASE Rename(p)
    BY <1>1, <2>4, ReplaceTypes, WriterTypes DEF Rename, RenameFails
  <2>5. CASE Discard(p)
    BY <2>5, ReplaceTypes DEF Discard
  <2> QED
    BY <2>1, <2>2, <2>3, <2>4, <2>5 DEF WriteFile, WriteStep
<1>4. files' \in [Path -> Content \union {Directory, None}]
  <2>1. CASE Rename(p)
    <3>1. w.stage = "rename" /\ w.tmp = Default
      BY <2>1 DEF Rename, Placed, WriterPlaced
    <3> QED
      BY <2>1, <3>1, FileAssumption DEF Rename, TypeOK, WriterTypeOK
  <2>2. CASE ~Rename(p)
    BY <2>2 DEF WriteFile, WriteStep, Look, CreateTemp, Fill, Discard, Fails,
                TypeOK, WriterTypeOK
  <2> QED
    BY <2>1, <2>2
<1>5. litter' \subseteq Path
  BY <1>1 DEF WriteFile, WriteStep, Look, CreateTemp, Fill, Rename, RenameFails, Discard,
              Fails, TypeOK, WriterTypeOK, Writer
<1> QED
  BY <1>2, <1>3, <1>4, <1>5 DEF WriteFile, TypeOK, WriterTypeOK

\* The walk over the files
LEMMA WalkType ==
  ASSUME TypeOK, Placed, NEW p \in Proc,
         Start(p) \/ WalkEnds(p) \/ NextFile(p) \/ FileDone(p)
  PROVE TypeOK'
<1> DEFINE me == run[p]
<1>1. me \in Run /\ write[p] \in Writer
  BY DEF TypeOK, WriterTypeOK
<1>2. CASE Start(p)
  <2>1. \A force \in BOOLEAN :
          [NoRun("none") EXCEPT !.pc = "walk", !.force = force, !.todo = Path] \in Run
    BY DEF NoRun, Run, Maybe
  <2> QED
    BY <1>2, <2>1, ReplaceTypes DEF Start, TypeOK, WriterTypeOK, writerVars
<1>3. CASE WalkEnds(p)
  <2>1. [me EXCEPT !.pc = "load"] \in Run /\ NoRun("interrupted") \in Run
    BY <1>1, EndTypes DEF Run
  <2> QED
    BY <1>3, <2>1, ReplaceTypes DEF WalkEnds, TypeOK, WriterTypeOK, writerVars
<1>4. CASE NextFile(p)
  <2>1. FirstFile(me.todo) \in Path
    BY <1>1, <1>4, FirstFileTodo DEF NextFile, Run
  <2>2. [NotWriting("none") EXCEPT !.stage = "look", !.path = FirstFile(me.todo),
                                   !.overwrite = me.force] \in Writer
    BY <1>1, <2>1 DEF NotWriting, Writer, Run
  <2> QED
    BY <1>4, <2>2, ReplaceTypes DEF NextFile, BeginWrite, TypeOK, WriterTypeOK
<1>5. CASE FileDone(p)
  <2>1. [me EXCEPT !.todo = Rest(me, write[p].outcome),
                   !.failed = @ \/ IsFailure(write[p].outcome)] \in Run
    BY <1>1 DEF Rest, IsFailure, Run
  <2> QED
    BY <1>5, <2>1, ReplaceTypes DEF FileDone, TypeOK, WriterTypeOK
<1> QED
  BY <1>2, <1>3, <1>4, <1>5

\* The keychain of a lclaw.toml, if it names one, is a keychain.
LEMMA KeychainInType == ASSUME NEW c PROVE KeychainIn(c) \in Maybe(KeyPath)
BY InitAssumption DEF KeychainIn, Maybe

\* The keychain step
LEMMA KeychainType ==
  ASSUME TypeOK, Placed, NEW p \in Proc,
         LoadTopology(p) \/ FindKeychain(p) \/ CreateKeychain(p) \/ SettleKeychain(p)
  PROVE TypeOK'
<1> DEFINE me == run[p]
<1>1. me \in Run /\ budget \in 0 .. MaxFaults
  BY DEF TypeOK
<1>6. /\ \A failed \in BOOLEAN : Exits(me, failed) \in Run
      /\ \A k \in Maybe(KeyPath) : [me EXCEPT !.pc = "exists", !.keychain = k] \in Run
      /\ \A pc \in {"create", "settle"} : [me EXCEPT !.pc = pc] \in Run
  BY <1>1, EndTypes DEF Run
<1>2. CASE LoadTopology(p)
  <2>1. KeychainIn(files[TopologyFile]) \in Maybe(KeyPath)
    BY KeychainInType
  <2> QED
    BY <1>1, <1>2, <1>6, <2>1, ReplaceTypes, FaultType
       DEF LoadTopology, TypeOK, WriterTypeOK, writerVars
<1>3. CASE FindKeychain(p)
  BY <1>1, <1>3, <1>6, ReplaceTypes, FaultType
     DEF FindKeychain, TypeOK, WriterTypeOK, writerVars
<1>4. CASE CreateKeychain(p)
  BY <1>1, <1>4, <1>6, ReplaceTypes, FaultType
     DEF CreateKeychain, DoCreate, Created, Disturbed, TypeOK, WriterTypeOK, writerVars
<1>5. CASE SettleKeychain(p)
  BY <1>1, <1>5, <1>6, ReplaceTypes, FaultType
     DEF SettleKeychain, DoSettle, Disturbed, TypeOK, WriterTypeOK, writerVars
<1> QED
  BY <1>2, <1>3, <1>4, <1>5

\* From outside
LEMMA OutsideType ==
  ASSUME TypeOK, NEW p \in Proc, Interrupt(p) \/ Crash(p)
  PROVE TypeOK'
<1>1. run[p] \in Run /\ write[p] \in Writer /\ budget \in 0 .. MaxFaults
  BY DEF TypeOK, WriterTypeOK
<1>2. CASE Interrupt(p)
  <2>1. [run[p] EXCEPT !.cancelled = TRUE] \in Run
    BY <1>1 DEF Run
  <2> QED
    BY <1>1, <1>2, <2>1, ReplaceTypes, FaultType
       DEF Interrupt, TypeOK, WriterTypeOK, writerVars
<1>3. CASE Crash(p)
  <2>1. write[p].path \in Path /\ NoRun("crashed") \in Run
    BY <1>1, EndTypes DEF Writer
  <2> QED
    BY <1>1, <1>3, <2>1, ReplaceTypes, FaultType DEF Crash, WriterDies, TypeOK, WriterTypeOK
<1> QED
  BY <1>2, <1>3

\* No step breaks TypeOK.
LEMMA TypeStep ==
  ASSUME TypeOK, Placed, [Next]_vars
  PROVE TypeOK'
<1>1. CASE UNCHANGED vars
  BY <1>1 DEF vars, writerVars, TypeOK, WriterTypeOK
<1>2. CASE Next
  BY <1>2, WriteType, WalkType, KeychainType, OutsideType DEF Next, InitStep
<1> QED
  BY <1>1, <1>2

-----------------------------------------------------------------------------
(* Placed                                                                  *)

\* A step of p.
Acts(p) == Start(p) \/ InitStep(p) \/ Interrupt(p) \/ Crash(p)

\* What a step of p leaves of p.
LEMMA OwnState ==
  ASSUME TypeOK, NEW p \in Proc
  PROVE /\ \A w : Writes(p, w) => write'[p] = w
        /\ \A outcome : Return(p, outcome) =>
             write'[p].stage = "none" /\ write'[p].outcome = outcome
        /\ \A me : Becomes(p, me) => run'[p] = me
        /\ \A me, failed : Becomes(p, Exits(me, failed)) =>
             run'[p].pc = "idle" /\ ~run'[p].cancelled
BY DEF TypeOK, WriterTypeOK, Writes, Return, NotWriting, Becomes, Exits, NoRun

\* A step of p leaves the others where they are.
LEMMA OthersStay ==
  ASSUME TypeOK, NEW p \in Proc, Acts(p), NEW q \in Proc, q # p
  PROVE write'[q] = write[q] /\ run'[q] = run[q]
<1> USE DEF TypeOK, WriterTypeOK
<1>1. CASE Start(p) \/ WalkEnds(p) \/ NextFile(p) \/ FileDone(p)
  BY <1>1 DEF Start, WalkEnds, NextFile, FileDone, BeginWrite, Return, Writes, Becomes,
              writerVars
<1>2. CASE WriteFile(p)
  BY <1>2 DEF WriteFile, WriteStep, Look, CreateTemp, Fill, FillFails, Rename, RenameFails,
              Discard, Return, Writes
<1>3. CASE LoadTopology(p) \/ FindKeychain(p) \/ CreateKeychain(p) \/ SettleKeychain(p)
  BY <1>3 DEF LoadTopology, FindKeychain, CreateKeychain, SettleKeychain, Becomes, writerVars
<1>4. CASE Interrupt(p) \/ Crash(p)
  BY <1>4 DEF Interrupt, Crash, WriterDies, Return, Writes, Becomes, writerVars
<1> QED
  BY <1>1, <1>2, <1>3, <1>4 DEF Acts, InitStep

\* A file that is there stays, and disturbances are used up.
LEMMA FilesStay ==
  ASSUME TypeOK, Placed, NEW p \in Proc, Acts(p)
  PROVE /\ \A f \in Path : IsFile(f) => IsFile(f)'
        /\ budget < MaxFaults => budget' < MaxFaults
<1>1. budget \in 0 .. MaxFaults
  BY DEF TypeOK
<1>2. \/ UNCHANGED files
      \/ \E f \in Path : files' = [files EXCEPT ![f] = Default]
  <2>1. CASE Rename(p)
    BY <2>1 DEF Rename, Placed, WriterPlaced, TypeOK, WriterTypeOK, Writer
  <2>2. CASE ~Rename(p)
    BY <2>2 DEF Acts, Start, InitStep, WalkEnds, NextFile, BeginWrite, WriteFile, WriteStep,
                Look, CreateTemp, Fill, Discard, Fails, FileDone, LoadTopology, FindKeychain,
                CreateKeychain, SettleKeychain, Interrupt, Crash, WriterDies, writerVars
  <2> QED
    BY <2>1, <2>2
<1>3. UNCHANGED budget \/ Fault
  BY DEF Acts, Start, InitStep, WalkEnds, NextFile, WriteFile, WriteStep, Look, CreateTemp,
         Fill, Rename, Discard, Fails, FileDone, LoadTopology, FindKeychain, CreateKeychain,
         SettleKeychain, Disturbed, Interrupt, Crash
<1> QED
  BY <1>1, <1>2, <1>3, FaultType, FileAssumption DEF IsFile, TypeOK, WriterTypeOK

\* WriteFile is about the file it was given, until it says what came of it.
LEMMA WritePlaced ==
  ASSUME TypeOK, Placed, NEW p \in Proc, WriteFile(p)
  PROVE WriterPlaced(p)' /\ RunPlaced(p)'
<1> DEFINE w == write[p]
           f == FirstFile(run[p].todo)
<1>1. /\ w \in Writer /\ w.stage # "none" /\ run'[p] = run[p]
      /\ WriterPlaced(p) /\ RunPlaced(p)
  BY DEF TypeOK, WriterTypeOK, Placed, WriteFile, WriteStep, Look, CreateTemp, Fill, Fails,
         Rename, Discard
<1>2. w.path = f /\ w.outcome = "none" /\ At(p, "walk") /\ run[p].todo # {} /\ f \in Path
  <2>1. run[p].todo \subseteq Path
    BY DEF TypeOK, Run
  <2> QED
    BY <1>1, <2>1, FirstFileTodo DEF WriterPlaced
<1>3. RunPlaced(p)'
  BY <1>1, FilesStay DEF RunPlaced, At, Acts, InitStep
<1>4. /\ write'[p].stage # "none" => write'[p].outcome = "none" /\ write'[p].path = f
      /\ write'[p].stage = "rename" => write'[p].tmp = Default
      /\ write'[p].outcome \in {"written", "skipped"} => IsFile(f)'
  <2>1. CASE Look(p)
    BY <1>1, <1>2, <2>1, OwnState DEF Look, Skips, IsFile, Fails, WriteFile, Writer
  <2>2. CASE CreateTemp(p)
    <3>1. CASE Return(p, "failed")
      BY <3>1, OwnState
    <3>2. CASE Writes(p, [w EXCEPT !.stage = "fill", !.tmp = Partial])
      <4>1. write'[p] = [w EXCEPT !.stage = "fill", !.tmp = Partial]
        BY <3>2, OwnState
      <4> QED
        BY <1>1, <1>2, <4>1 DEF Writer
    <3> QED
      BY <2>2, <3>1, <3>2 DEF CreateTemp, Fails
  <2>3. CASE Fill(p)
    BY <1>1, <1>2, <2>3, OwnState DEF Fill, FillFails, Fails, Writer
  <2>4. CASE Rename(p)
    <3>1. w.tmp = Default
      BY <1>1, <2>4 DEF Rename, WriterPlaced
    <3>2. CASE files' = [files EXCEPT ![w.path] = w.tmp] /\ Return(p, "written")
      <4>1. files'[f] = Default
        BY <1>2, <3>1, <3>2 DEF TypeOK, WriterTypeOK
      <4>2. Default # Directory /\ Default # None
        BY FileAssumption
      <4> QED
        BY <1>1, <3>2, <4>1, <4>2, OwnState DEF IsFile
    <3>3. CASE RenameFails(p)
      BY <1>1, <1>2, <3>3, OwnState DEF RenameFails, Writer
    <3> QED
      BY <2>4, <3>2, <3>3 DEF Rename
  <2>5. CASE Discard(p)
    BY <2>5, OwnState DEF Discard
  <2> QED
    BY <2>1, <2>2, <2>3, <2>4, <2>5 DEF WriteFile, WriteStep
<1> QED
  BY <1>1, <1>2, <1>3, <1>4 DEF WriterPlaced, At

\* The walk: a file leaves todo when it is there or the report has a failure.
LEMMA WalkPlaced ==
  ASSUME TypeOK, Placed, NEW p \in Proc,
         Start(p) \/ WalkEnds(p) \/ NextFile(p) \/ FileDone(p)
  PROVE WriterPlaced(p)' /\ RunPlaced(p)'
<1> DEFINE me == run[p]
<1>1. me \in Run /\ write[p] \in Writer /\ WriterPlaced(p) /\ RunPlaced(p)
  BY DEF TypeOK, WriterTypeOK, Placed
<1>2. \A f \in Path : IsFile(f) => IsFile(f)'
  BY FilesStay DEF Acts, InitStep
<1> USE DEF TypeOK, WriterTypeOK
<1>3. CASE Start(p)
  <2>1. write'[p] = write[p] /\ write[p].stage = "none" /\ write[p].outcome = "none"
    BY <1>1, <1>3 DEF Start, writerVars, WriterPlaced, At
  <2>2. /\ run'[p].pc = "walk" /\ run'[p].todo = Path /\ ~run'[p].cancelled
        /\ run'[p].exit = "none"
    BY <1>3 DEF Start, Becomes, NoRun
  <2> QED
    BY <2>1, <2>2 DEF WriterPlaced, RunPlaced, At
<1>4. CASE WalkEnds(p)
  <2>1. write'[p] = write[p] /\ write[p].stage = "none" /\ write[p].outcome = "none"
    BY <1>4 DEF WalkEnds, writerVars
  <2>2. CASE run'[p] = NoRun("interrupted")
    BY <2>1, <2>2 DEF WriterPlaced, RunPlaced, At, NoRun
  <2>3. CASE me.todo = {} /\ run'[p] = [me EXCEPT !.pc = "load"]
    BY <1>1, <1>2, <1>4, <2>1, <2>3 DEF WalkEnds, WriterPlaced, RunPlaced, At, Run
  <2> QED
    BY <1>4, <2>2, <2>3 DEF WalkEnds, Becomes
<1>5. CASE NextFile(p)
  <2>1. /\ run'[p] = me /\ At(p, "walk") /\ me.todo # {}
        /\ write'[p].stage = "look" /\ write'[p].outcome = "none"
        /\ write'[p].path = FirstFile(me.todo)
    BY <1>5 DEF NextFile, BeginWrite, Writes, NotWriting
  <2> QED
    BY <1>1, <1>2, <1>5, <2>1 DEF NextFile, WriterPlaced, RunPlaced, At
<1>6. CASE FileDone(p)
  <2>1. write'[p].stage = "none" /\ write'[p].outcome = "none"
    BY <1>6 DEF FileDone, Return, Writes, NotWriting
  <2>2. /\ run'[p].pc = "walk" /\ run'[p].todo = me.todo \ {FirstFile(me.todo)}
        /\ run'[p].failed = (me.failed \/ write[p].outcome = "failed")
        /\ run'[p].cancelled = me.cancelled /\ UNCHANGED budget
        /\ run'[p].exit = me.exit
    BY <1>1, <1>6 DEF FileDone, Becomes, Rest, IsFailure, At, Run
  <2>3. write[p].outcome # "failed" => IsFile(FirstFile(me.todo))
    BY <1>1, <1>6 DEF FileDone, WriterPlaced, Writer
  <2> QED
    BY <1>1, <1>2, <1>6, <2>1, <2>2, <2>3 DEF FileDone, WriterPlaced, RunPlaced, At
<1> QED
  BY <1>3, <1>4, <1>5, <1>6

\* The keychain step, and from outside
LEMMA KeychainPlaced ==
  ASSUME TypeOK, Placed, NEW p \in Proc,
         LoadTopology(p) \/ FindKeychain(p) \/ CreateKeychain(p) \/ SettleKeychain(p)
  PROVE WriterPlaced(p)' /\ RunPlaced(p)'
<1> DEFINE me == run[p]
<1>1. me \in Run /\ WriterPlaced(p) /\ RunPlaced(p)
  BY DEF TypeOK, Placed
<1>2. write'[p] = write[p] /\ write[p].stage = "none" /\ write[p].outcome = "none"
  BY <1>1 DEF LoadTopology, FindKeychain, CreateKeychain, SettleKeychain, writerVars,
              WriterPlaced, At, TypeOK, WriterTypeOK, Writer
<1>3. \A f \in Path : IsFile(f) => IsFile(f)'
  BY FilesStay DEF Acts, InitStep
<1>4. me.pc \in {"load", "exists", "create", "settle"} /\ me.todo = {}
  BY <1>1 DEF LoadTopology, FindKeychain, CreateKeychain, SettleKeychain, At, RunPlaced
<1>5. CASE run'[p].pc = "idle" /\ ~run'[p].cancelled
  BY <1>2, <1>5 DEF WriterPlaced, RunPlaced, At
<1>6. CASE /\ run'[p].pc \in {"exists", "create", "settle"} /\ run'[p].keychain \in KeyPath
           /\ run'[p].todo = {} /\ run'[p].failed = me.failed
           /\ run'[p].cancelled = me.cancelled /\ UNCHANGED budget
           /\ run'[p].exit = me.exit
  BY <1>1, <1>2, <1>3, <1>4, <1>6 DEF WriterPlaced, RunPlaced, At
<1>7. \/ run'[p].pc = "idle" /\ ~run'[p].cancelled
      \/ /\ run'[p].pc \in {"exists", "create", "settle"} /\ run'[p].keychain \in KeyPath
         /\ run'[p].todo = {} /\ run'[p].failed = me.failed
         /\ run'[p].cancelled = me.cancelled /\ UNCHANGED budget
         /\ run'[p].exit = me.exit
  <2>1. CASE LoadTopology(p)
    <3>1. KeychainIn(files[TopologyFile]) # None
            => KeychainIn(files[TopologyFile]) \in KeyPath
      BY KeychainInType DEF Maybe
    <3> QED
      BY <1>1, <1>4, <2>1, <3>1, OwnState DEF LoadTopology, Run
  <2>2. CASE FindKeychain(p)
    BY <1>1, <1>4, <2>2, OwnState DEF FindKeychain, Run, RunPlaced, At
  <2>3. CASE CreateKeychain(p)
    <3>1. me.pc = "create" /\ me.keychain \in KeyPath
      BY <1>1, <2>3 DEF CreateKeychain, RunPlaced, At
    <3>2. CASE Becomes(p, Exits(me, TRUE))
      BY <3>2, OwnState
    <3>3. CASE Becomes(p, Created(me)) /\ UNCHANGED budget
      <4>1. run'[p] = [me EXCEPT !.pc = "settle"]
        BY <3>3, OwnState DEF Created
      <4> QED
        BY <1>1, <1>4, <3>1, <3>3, <4>1 DEF Run
    <3> QED
      BY <2>3, <3>2, <3>3 DEF CreateKeychain
  <2>4. CASE SettleKeychain(p)
    BY <2>4, OwnState DEF SettleKeychain
  <2> QED
    BY <2>1, <2>2, <2>3, <2>4
<1> QED
  BY <1>5, <1>6, <1>7

\* A signal or a crash leaves a run at a place where its locals fit.
LEMMA OutsidePlaced ==
  ASSUME TypeOK, Placed, NEW p \in Proc, Interrupt(p) \/ Crash(p)
  PROVE WriterPlaced(p)' /\ RunPlaced(p)'
<1>1. run[p] \in Run /\ WriterPlaced(p) /\ RunPlaced(p)
  BY DEF TypeOK, Placed
<1>2. CASE Interrupt(p)
  <2>1. budget' < MaxFaults
    BY <1>2, FaultType DEF Interrupt, TypeOK
  <2>2. UNCHANGED <<files, write>>
        /\ run'[p] = [run[p] EXCEPT !.cancelled = TRUE]
    BY <1>2 DEF Interrupt, Becomes, writerVars, TypeOK
  <2> QED
    BY <1>1, <2>1, <2>2 DEF WriterPlaced, RunPlaced, At, IsFile, Run
<1>3. CASE Crash(p)
  BY <1>3 DEF Crash, WriterDies, Return, Writes, NotWriting, Becomes, NoRun, WriterPlaced,
              RunPlaced, At, TypeOK, WriterTypeOK
<1> QED
  BY <1>2, <1>3

\* No step breaks Placed.
LEMMA PlacedStep ==
  ASSUME TypeOK, Placed, [Next]_vars
  PROVE Placed'
<1>1. CASE UNCHANGED vars
  BY <1>1 DEF vars, writerVars, Placed, WriterPlaced, RunPlaced, At, IsFile
<1>2. ASSUME NEW p \in Proc, Acts(p)
      PROVE Placed'
  <2>1. WriterPlaced(p)' /\ RunPlaced(p)'
    BY <1>2, WritePlaced, WalkPlaced, KeychainPlaced, OutsidePlaced DEF Acts, InitStep
  <2>2. ASSUME NEW q \in Proc, q # p
        PROVE WriterPlaced(q)' /\ RunPlaced(q)'
    <3>1. WriterPlaced(q) /\ RunPlaced(q) /\ run[q] \in Run
      BY DEF Placed, TypeOK
    <3>2. \A f \in Path : IsFile(f) => IsFile(f)'
      BY <1>2, FilesStay
    <3>3. run[q].todo # {} => FirstFile(run[q].todo) \in Path
      BY <3>1, FirstFileTodo DEF Run
    <3>4. write'[q] = write[q] /\ run'[q] = run[q]
      BY <1>2, <2>2, OthersStay
    <3>5. WriterPlaced(q)'
      BY <3>1, <3>2, <3>3, <3>4 DEF WriterPlaced, At
    <3>6. RunPlaced(q)'
      BY <1>2, <3>1, <3>2, <3>4, FilesStay DEF RunPlaced, At
    <3> QED
      BY <3>5, <3>6
  <2> QED
    BY <2>1, <2>2 DEF Placed
<1> QED
  BY <1>1, <1>2 DEF Next, Acts

-----------------------------------------------------------------------------
(* Keychains without their lock settings                                   *)

\* Who makes one settles it, unless something went wrong.
LEMMA BareStep ==
  ASSUME TypeOK, Placed, BareOnlyBehindFault, [Next]_vars
  PROVE BareOnlyBehindFault'
<1> SUFFICES ASSUME NEW k \in KeyPath, keychains'[k] = "bare", ~(budget' < MaxFaults)
             PROVE \E p \in Proc : At(p, "settle")' /\ run'[p].keychain = k
  BY DEF BareOnlyBehindFault
<1>1. CASE UNCHANGED vars
  BY <1>1 DEF vars, BareOnlyBehindFault, At
<1>2. ASSUME NEW p \in Proc, Acts(p)
      PROVE \E q \in Proc : At(q, "settle")' /\ run'[q].keychain = k
  <2> DEFINE me == run[p]
  <2>1. ~(budget < MaxFaults) /\ ~me.cancelled /\ me \in Run
    BY <1>2, FilesStay DEF Placed, RunPlaced, TypeOK
  <2>2. ~Fault
    BY FaultType DEF TypeOK
  <2>3. CASE SettleKeychain(p)
    <3>1. At(p, "settle") /\ keychains' = [keychains EXCEPT ![me.keychain] = "settled"]
      BY <2>1, <2>2, <2>3 DEF SettleKeychain, Disturbed, DoSettle
    <3>2. me.keychain # k /\ keychains[k] = "bare"
      BY <3>1 DEF TypeOK
    <3>3. PICK q \in Proc : At(q, "settle") /\ run[q].keychain = k
      BY <2>1, <3>2 DEF BareOnlyBehindFault
    <3>4. run'[q] = run[q]
      BY <1>2, <3>2, <3>3, OthersStay
    <3> QED
      BY <3>3, <3>4 DEF At
  <2>4. CASE CreateKeychain(p) /\ run'[p] = Created(me) /\ DoCreate(me.keychain)
    <3>1. At(p, "settle")' /\ run'[p].keychain = me.keychain
      BY <2>1, <2>4 DEF Created, At, Run
    <3>2. CASE me.keychain = k
      BY <3>1, <3>2
    <3>3. CASE me.keychain # k
      <4>1. keychains[k] = "bare"
        BY <2>4, <3>3 DEF DoCreate, TypeOK
      <4>2. PICK q \in Proc : At(q, "settle") /\ run[q].keychain = k
        BY <2>1, <4>1 DEF BareOnlyBehindFault
      <4>3. run'[q] = run[q]
        BY <1>2, <2>4, <4>2, OthersStay DEF CreateKeychain, At
      <4> QED
        BY <4>2, <4>3 DEF At
    <3> QED
      BY <3>2, <3>3
  <2>5. CASE UNCHANGED keychains /\ ~SettleKeychain(p)
    <3>1. PICK q \in Proc : At(q, "settle") /\ run[q].keychain = k
      BY <2>1, <2>5 DEF BareOnlyBehindFault
    <3>2. ASSUME At(p, "settle")
          PROVE FALSE
      <4>1. write[p].stage = "none"
        BY <3>2 DEF Placed, WriterPlaced, At
      <4>2. ~WriteFile(p)
        BY <4>1 DEF WriteFile, WriteStep, Look, CreateTemp, Fill, Fails, Rename, Discard
      <4> QED
        BY <1>2, <2>2, <2>5, <3>2, <4>2
           DEF Acts, Start, InitStep, WalkEnds, NextFile, FileDone, LoadTopology,
               FindKeychain, CreateKeychain, Interrupt, Crash, At
    <3> QED
      BY <1>2, <3>1, <3>2, OthersStay DEF At
  <2>6. CASE CreateKeychain(p) /\ ~(run'[p] = Created(me) /\ DoCreate(me.keychain))
    BY <2>1, <2>2, <2>5, <2>6, OwnState DEF CreateKeychain, SettleKeychain, Disturbed, At
  <2>7. CASE ~CreateKeychain(p) /\ ~SettleKeychain(p)
    BY <1>2, <2>5, <2>7
       DEF Acts, Start, InitStep, WalkEnds, NextFile, WriteFile, FileDone, LoadTopology,
           FindKeychain, Interrupt, Crash
  <2> QED
    BY <2>3, <2>4, <2>6, <2>7
<1> QED
  BY <1>1, <1>2 DEF Next, Acts

-----------------------------------------------------------------------------

\* The three parts of the invariant hold at the start.
LEMMA InitStart == Init => TypeOK /\ Placed /\ BareOnlyBehindFault
<1> SUFFICES ASSUME Init
             PROVE TypeOK /\ Placed /\ BareOnlyBehindFault
  OBVIOUS
<1>1. TypeOK
  BY DisturbancesAssumption, EndTypes DEF Init, WriterInit, TypeOK, WriterTypeOK
<1>2. Placed
  BY DEF Init, WriterInit, NotWriting, NoRun, Placed, WriterPlaced, RunPlaced, At
<1>3. BareOnlyBehindFault
  BY DEF Init, BareOnlyBehindFault
<1> QED
  BY <1>1, <1>2, <1>3

\* The three are inductive together.
LEMMA InitInvariance == Spec => [](TypeOK /\ Placed /\ BareOnlyBehindFault)
<1>1. TypeOK /\ Placed /\ BareOnlyBehindFault /\ [Next]_vars
        => (TypeOK /\ Placed /\ BareOnlyBehindFault)'
  BY TypeStep, PlacedStep, BareStep
<1> QED
  BY <1>1, InitStart, PTL DEF Spec

\* Every state of any number of inits is of the declared types.
THEOREM InitTypeCorrect == Spec => []TypeOK
BY InitInvariance, PTL

\* A keychain is without its lock settings only while an init is about to make
\* them, or after a failure, an interrupt or a crash. (Create in client.go.)
THEOREM BareIsBehindFault == Spec => []BareOnlyBehindFault
BY InitInvariance, PTL

-----------------------------------------------------------------------------
(* The files change as the port says                                       *)

\* What ScaffoldAtomic takes for the write of each process.
Writing(p) ==
  IF write[p].stage = "none" THEN None
  ELSE [path |-> write[p].path, overwrite |-> write[p].overwrite,
        cleared |-> write[p].stage # "look"]

AllWriting == [p \in Proc |-> Writing(p)]

\* A write under way is one, and so not None.
LEMMA WritingIsSome ==
  ASSUME TypeOK, NEW p \in Proc, write[p].stage # "none"
  PROVE Writing(p) # None
<1>1. Writing(p) \in Files!Write
  BY DEF TypeOK, WriterTypeOK, Writer, Writing, Files!Write
<1> QED
  BY <1>1, WritingAssumption

\* A step of p changes the write of p only.
LEMMA WritingChanges ==
  ASSUME TypeOK, NEW p \in Proc, Acts(p)
  PROVE AllWriting' = [AllWriting EXCEPT ![p] = Writing(p)']
<1>1. \A q \in Proc : q # p => Writing(q)' = Writing(q)
  BY OthersStay DEF Writing
<1> QED
  BY <1>1 DEF AllWriting

\* Where a step leaves the write of p where it was, the port sees nothing.
LEMMA WritingStays ==
  ASSUME TypeOK, NEW p \in Proc, Acts(p), UNCHANGED files, Writing(p)' = Writing(p)
  PROVE UNCHANGED Files!vars
BY WritingChanges DEF Files!vars, AllWriting, Writing

\* The end of a write that wrote nothing is the port's GiveUp.
LEMMA WritingEnds ==
  ASSUME TypeOK, NEW p \in Proc, Acts(p), UNCHANGED files, write'[p].stage = "none"
  PROVE Files!GiveUp(p) \/ UNCHANGED Files!vars
<1>1. Writing(p)' = None
  BY DEF Writing
<1>2. CASE write[p].stage = "none"
  BY <1>1, <1>2, WritingStays DEF Writing
<1>3. CASE write[p].stage # "none"
  BY <1>1, <1>3, WritingIsSome, WritingChanges DEF Files!GiveUp, AllWriting, Writing
<1> QED
  BY <1>2, <1>3

\* Every step of an init is one of the port, or none.
LEMMA FilesStep ==
  ASSUME TypeOK, Placed, [Next]_vars
  PROVE [Files!Next]_(Files!vars)
<1>1. CASE UNCHANGED vars
  BY <1>1 DEF vars, writerVars, Files!vars
<1>2. ASSUME NEW p \in Proc, NextFile(p)
      PROVE \E f \in Path, overwrite \in BOOLEAN : Files!Begin(p, f, overwrite)
  <2> DEFINE me == run[p]
             f  == FirstFile(me.todo)
  <2>1. f \in Path /\ me.force \in BOOLEAN
    BY <1>2, FirstFileTodo DEF NextFile, TypeOK, Run
  <2>2. Writing(p) = None
    BY <1>2 DEF NextFile, Writing
  <2>3. Writing(p)' = [path |-> f, overwrite |-> me.force, cleared |-> FALSE]
    BY <1>2, OwnState DEF NextFile, BeginWrite, NotWriting, Writing
  <2>4. AllWriting' = [AllWriting EXCEPT ![p] = Writing(p)'] /\ UNCHANGED files
    BY <1>2, WritingChanges DEF Acts, InitStep, NextFile, BeginWrite
  <2> QED
    BY <2>1, <2>2, <2>3, <2>4 DEF Files!Begin, AllWriting, Writing
<1>3. ASSUME NEW p \in Proc, WriteFile(p)
      PROVE Files!Next \/ UNCHANGED Files!vars
  <2> DEFINE w == write[p]
  <2>1. Acts(p) /\ w \in Writer
    BY <1>3 DEF Acts, InitStep, TypeOK, WriterTypeOK
  <2>2. CASE Look(p)
    <3>1. CASE MayReplace(w) /\ w.stage = "look" /\ Writes(p, [w EXCEPT !.stage = "temp"])
      <4>1. Writing(p)' = [path |-> w.path, overwrite |-> w.overwrite, cleared |-> TRUE]
        <5>1. write'[p] = [w EXCEPT !.stage = "temp"]
          BY <3>1, OwnState
        <5> QED
          BY <2>1, <5>1 DEF Writing, Writer
      <4>2. Writing(p) = [path |-> w.path, overwrite |-> w.overwrite, cleared |-> FALSE]
        BY <3>1 DEF Writing
      <4>3. AllWriting' = [AllWriting EXCEPT ![p] = [path |-> @.path, overwrite |-> @.overwrite,
                                                     cleared |-> TRUE]]
        <5>1. AllWriting[p] = Writing(p)
          BY DEF AllWriting
        <5>2. Writing(p)' = [path |-> AllWriting[p].path, overwrite |-> AllWriting[p].overwrite,
                             cleared |-> TRUE]
          BY <4>1, <4>2, <5>1
        <5> QED
          BY <2>1, <5>2, WritingChanges
      <4>4. Writing(p) # None /\ UNCHANGED files
        BY <2>2, <3>1, WritingIsSome DEF Look, Fails
      <4>5. files[w.path] = None \/ (w.overwrite /\ files[w.path] # Directory)
        BY <2>1, <3>1 DEF MayReplace, Writer
      <4>6. AllWriting[p] = Writing(p)
        BY DEF AllWriting
      <4>7. /\ AllWriting[p] # None
            /\ LET now == files[AllWriting[p].path] IN
                 now = None \/ (AllWriting[p].overwrite /\ now # Directory)
        BY <4>2, <4>4, <4>5, <4>6
      <4>8. Files!Clear(p)
        BY <4>3, <4>4, <4>7 DEF Files!Clear, AllWriting, Writing
      <4> QED
        BY <4>8 DEF Files!Next
    <3>2. CASE Return(p, "skipped") \/ Return(p, "failed")
      <4>1. UNCHANGED files /\ write'[p].stage = "none"
        BY <2>2, <3>2, OwnState DEF Look, Fails
      <4> QED
        BY <2>1, <4>1, WritingEnds DEF Files!Next
    <3> QED
      BY <2>2, <3>1, <3>2 DEF Look
  <2>3. CASE CreateTemp(p) \/ Fill(p) \/ (Rename(p) /\ UNCHANGED files) \/ Discard(p)
    <3>1. UNCHANGED files
      BY <2>3 DEF CreateTemp, Fill, Discard, Fails
    <3>2. CASE write'[p].stage = "none"
      BY <2>1, <3>1, <3>2, WritingEnds DEF Files!Next
    <3>3. CASE write'[p].stage # "none"
      <4>1. /\ w.stage \notin {"none", "look"}
            /\ write'[p].stage # "look"
            /\ write'[p].path = w.path /\ write'[p].overwrite = w.overwrite
        BY <2>1, <2>3, <3>3, OwnState
           DEF CreateTemp, Fill, FillFails, Rename, RenameFails, Discard, Fails, Writer
      <4>2. Writing(p)' = Writing(p)
        BY <3>3, <4>1 DEF Writing
      <4> QED
        BY <2>1, <3>1, <4>2, WritingStays
    <3> QED
      BY <3>2, <3>3
  <2>4. CASE Rename(p) /\ files' # files
    <3>1. /\ w.stage = "rename" /\ w.tmp = Default
          /\ files' = [files EXCEPT ![w.path] = w.tmp] /\ Return(p, "written")
      BY <2>4 DEF Rename, Placed, WriterPlaced
    <3>2. /\ Writing(p) = [path |-> w.path, overwrite |-> w.overwrite, cleared |-> TRUE]
          /\ Writing(p) # None
      BY <3>1, WritingIsSome DEF Writing
    <3>3. Writing(p)' = None
      BY <3>1, OwnState DEF Writing
    <3> QED
      BY <2>1, <3>1, <3>2, <3>3, WritingChanges DEF Files!Next, Files!Replace, AllWriting, Writing
  <2> QED
    BY <1>3, <2>2, <2>3, <2>4 DEF WriteFile, WriteStep
<1>4. ASSUME NEW p \in Proc, FileDone(p) \/ Crash(p)
      PROVE Files!Next \/ UNCHANGED Files!vars
  <2>1. Acts(p) /\ UNCHANGED files /\ write'[p].stage = "none"
    BY <1>4, OwnState DEF Acts, InitStep, FileDone, Crash, WriterDies
  <2> QED
    BY <2>1, WritingEnds DEF Files!Next
<1>5. ASSUME NEW p \in Proc,
             \/ Start(p) \/ WalkEnds(p) \/ Interrupt(p)
             \/ LoadTopology(p) \/ FindKeychain(p) \/ CreateKeychain(p) \/ SettleKeychain(p)
      PROVE UNCHANGED Files!vars
  BY <1>5 DEF Start, WalkEnds, Interrupt, LoadTopology, FindKeychain, CreateKeychain,
              SettleKeychain, writerVars, Files!vars
<1> QED
  BY <1>1, <1>2, <1>3, <1>4, <1>5 DEF Next, InitStep, Files!Next

\* Any number of inits at once, failing and dying anywhere, change the default
\* files as the FileWriter port says. (WriteFile in osfs/system.go.)
THEOREM ScaffoldIsAtomic == Spec => ScaffoldAtomic
<1>1. Init => Files!Init
  BY DEF Init, WriterInit, NotWriting, Files!Init
<1> QED
  BY <1>1, FilesStep, InitInvariance, PTL DEF Spec, ScaffoldAtomic, Files!Spec

-----------------------------------------------------------------------------
(* What an exit 0 has behind it, and who leaves a temporary file           *)

\* A run that ends with 0 found or made each file and its keychain.
LEMMA DeliveredStep ==
  ASSUME TypeOK, Placed, [Next]_vars, NEW p \in Proc, EndsOk(p)
  PROVE /\ \A f \in Path : IsFile(f)
        /\ keychains'[run[p].keychain] # "absent"
        /\ At(p, "settle") => keychains'[run[p].keychain] = "settled"
<1> DEFINE me == run[p]
<1>1. me \in Run /\ RunPlaced(p)
  BY DEF TypeOK, Placed
<1>2. PICK q \in Proc : Acts(q)
  BY <1>1 DEF EndsOk, RunPlaced, Next, Acts, vars
<1>3. Acts(p)
  BY <1>1, <1>2, OthersStay DEF EndsOk, RunPlaced
<1>4. me.exit = "none" /\ ~WriteFile(p) /\ ~Start(p) /\ ~NextFile(p)
  BY <1>1 DEF EndsOk, RunPlaced, WriteFile, Start, NextFile, At
<1>5. /\ \A pc : [me EXCEPT !.pc = pc].exit = "none"
      /\ [me EXCEPT !.cancelled = TRUE].exit = "none"
      /\ NoRun("crashed").exit # "ok" /\ NoRun("interrupted").exit # "ok"
      /\ Exits(me, TRUE).exit # "ok"
      /\ Exits(me, FALSE).exit = "ok" => ~me.failed
  BY <1>1, <1>4 DEF Run, NoRun, Exits
<1>6. ~FileDone(p)
  <2>1. [me EXCEPT !.todo = Rest(me, write[p].outcome),
                   !.failed = @ \/ IsFailure(write[p].outcome)].exit = "none"
    BY <1>1, <1>4 DEF Run
  <2> QED
    BY <2>1, OwnState DEF EndsOk, FileDone
<1>7. ~Interrupt(p) /\ ~Crash(p) /\ ~WalkEnds(p) /\ ~LoadTopology(p)
  <2>1. ~Interrupt(p)
    BY <1>5, OwnState DEF EndsOk, Interrupt
  <2>2. ~Crash(p)
    BY <1>5, OwnState DEF EndsOk, Crash
  <2>3. ~WalkEnds(p)
    BY <1>5, OwnState DEF EndsOk, WalkEnds
  <2>4. ~LoadTopology(p)
    <3>1. [me EXCEPT !.pc = "exists",
                     !.keychain = KeychainIn(files[TopologyFile])].exit = "none"
      BY <1>1, <1>4 DEF Run
    <3> QED
      BY <1>5, <3>1, OwnState DEF EndsOk, LoadTopology
  <2> QED
    BY <2>1, <2>2, <2>3, <2>4
<1>8. FindKeychain(p) \/ CreateKeychain(p) \/ SettleKeychain(p)
  BY <1>3, <1>4, <1>6, <1>7 DEF Acts, InitStep
<1>9. ~CreateKeychain(p)
  BY <1>5, OwnState DEF EndsOk, CreateKeychain, Created
<1>10. CASE FindKeychain(p)
  <2>1. ~CanCreate(me.keychain) /\ ~me.failed /\ UNCHANGED keychains
    BY <1>5, <1>10, OwnState DEF EndsOk, FindKeychain
  <2> QED
    BY <1>1, <1>10, <2>1 DEF FindKeychain, RunPlaced, CanCreate, At
<1>11. CASE SettleKeychain(p)
  <2>1. ~me.failed /\ DoSettle(me.keychain) /\ At(p, "settle")
    BY <1>5, <1>11, OwnState DEF EndsOk, SettleKeychain
  <2> QED
    BY <1>1, <2>1 DEF RunPlaced, DoSettle, At, TypeOK
<1> QED
  BY <1>8, <1>9, <1>10, <1>11

\* An init that exits 0 has made every default file and the keychain. (Ok in
\* init.go.)
THEOREM InitHasDelivered == Spec => InitDelivers
<1>1. TypeOK /\ Placed /\ [Next]_vars
        => [\A p \in Proc : EndsOk(p) =>
              /\ \A f \in Path : IsFile(f)
              /\ keychains'[run[p].keychain] # "absent"
              /\ At(p, "settle") => keychains'[run[p].keychain] = "settled"]_vars
  BY DeliveredStep
<1> QED
  BY <1>1, InitInvariance, PTL DEF Spec, InitDelivers

\* A temporary file that stays is left by a failed removal or a crash.
LEMMA LitterStep ==
  ASSUME TypeOK, Placed, [Next]_vars, NEW f \in litter' \ litter
  PROVE \E p \in Proc : \/ write[p].stage = "discard" /\ budget' < budget
                        \/ run'[p].exit = "crashed"
<1>1. PICK p \in Proc : Acts(p)
  BY DEF Next, Acts, vars, writerVars
<1>2. CASE Discard(p)
  BY <1>2, FaultType DEF Discard, TypeOK
<1>3. CASE Crash(p)
  BY <1>3, OwnState DEF Crash, NoRun
<1>4. CASE ~Discard(p) /\ ~Crash(p)
  BY <1>1, <1>4
     DEF Acts, Start, InitStep, WalkEnds, NextFile, BeginWrite, WriteFile, WriteStep, Look,
         CreateTemp, Fill, Fails, Rename, RenameFails, FileDone, LoadTopology, FindKeychain,
         CreateKeychain, SettleKeychain, Interrupt, writerVars
<1> QED
  BY <1>2, <1>3, <1>4

\* A temporary file stays behind a crash or a removal that failed, and behind
\* nothing else. (The error paths of WriteFile.)
THEOREM FailuresCleanUp == Spec => FailureCleansUp
<1>1. TypeOK /\ Placed /\ [Next]_vars
        => [\A f \in litter' \ litter :
              \E p \in Proc : \/ write[p].stage = "discard" /\ budget' < budget
                              \/ run'[p].exit = "crashed"]_vars
  BY LitterStep
<1> QED
  BY <1>1, InitInvariance, PTL DEF Spec, FailureCleansUp

=============================================================================
