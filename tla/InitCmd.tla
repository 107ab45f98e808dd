------------------------------ MODULE InitCmd -------------------------------
(***************************************************************************)
(* `lclaw init [--force]` (src/internal/app/init.go): each default file in *)
(* lexical order through the file writer, then the keychain lclaw.toml     *)
(* names. Several may run at once. Labels of pc:                           *)
(*   walk   todo: files still to do, the first may be being written        *)
(*   load, exists, create, settle   the keychain step                      *)
(***************************************************************************)
EXTENDS FileWriter

CONSTANTS
  KeyPath,      \* keychain files
  PathRank,     \* lexical order
  TopologyFile, \* lclaw.toml
  KeychainOf    \* the keychain a lclaw.toml names; None if it cannot be read

ASSUME InitAssumption ==
  /\ TopologyFile \in Path
  /\ PathRank \in [Path -> Nat]
  /\ \A f, g \in Path : PathRank[f] = PathRank[g] => f = g
  /\ KeychainOf \in [Content -> Maybe(KeyPath)]
  /\ KeychainOf[Default] # None
  /\ None \notin KeyPath

VARIABLES
  keychains, \* each keychain file: "bare" as create-keychain leaves it,
             \* "settled" with its lock settings
  run        \* each process's init

vars == <<budget, writerVars, keychains, run>>

Run == [pc : {"idle", "walk", "load", "exists", "create", "settle"},
        force : BOOLEAN, todo : SUBSET Path,
        keychain : Maybe(KeyPath), \* the topology's
        failed : BOOLEAN,          \* a file, or the keychain step
        cancelled : BOOLEAN,
        exit : {"none", "ok", "failed", "interrupted", "crashed"}]

NoRun(exit) ==
  [pc |-> "idle", force |-> FALSE, todo |-> {}, keychain |-> None,
   failed |-> FALSE, cancelled |-> FALSE, exit |-> exit]

TypeOK ==
  /\ budget \in 0 .. MaxFaults
  /\ WriterTypeOK
  /\ keychains \in [KeyPath -> {"absent", "bare", "settled"}]
  /\ run \in [Proc -> Run]

Init ==
  /\ budget = MaxFaults
  /\ WriterInit
  /\ keychains \in [KeyPath -> {"absent", "settled"}]
  /\ run = [p \in Proc |-> NoRun("none")]

Becomes(p, me) == run' = [run EXCEPT ![p] = me]

At(p, label) == run[p].pc = label

FirstFile(paths) == CHOOSE f \in paths : \A g \in paths : PathRank[f] <= PathRank[g]

Start(p) ==
  /\ At(p, "idle")
  /\ \E force \in BOOLEAN :
       Becomes(p, [NoRun("none") EXCEPT !.pc = "walk", !.force = force, !.todo = Path])
  /\ UNCHANGED <<budget, writerVars, keychains>>

-----------------------------------------------------------------------------
(* The files                                                               *)

\* The context is looked at before each file only.
WalkEnds(p) ==
  LET me == run[p] IN
  /\ At(p, "walk") /\ write[p].stage = "none" /\ write[p].outcome = "none"
  /\ \/ me.todo # {} /\ me.cancelled /\ Becomes(p, NoRun("interrupted"))
     \/ me.todo = {} /\ Becomes(p, [me EXCEPT !.pc = "load"])
  /\ UNCHANGED <<budget, writerVars, keychains>>

NextFile(p) ==
  LET me == run[p] IN
  /\ At(p, "walk") /\ write[p].stage = "none" /\ write[p].outcome = "none"
  /\ me.todo # {} /\ ~me.cancelled
  /\ BeginWrite(p, FirstFile(me.todo), me.force)
  /\ UNCHANGED <<budget, keychains, run>>

WriteFile(p) == WriteStep(p) /\ UNCHANGED <<keychains, run>>

\* Wrong on purpose: a file that could not be written counts as skipped.
NeverFails(outcome) == FALSE
IsFailure(outcome) == outcome = "failed"

\* Wrong on purpose: a file that could not be written is tried again.
RetryFailed(me, outcome) ==
  IF outcome = "failed" THEN me.todo ELSE me.todo \ {FirstFile(me.todo)}
Rest(me, outcome) == me.todo \ {FirstFile(me.todo)}

FileDone(p) ==
  LET me == run[p] IN
  /\ At(p, "walk") /\ write[p].outcome # "none"
  /\ Becomes(p, [me EXCEPT !.todo = Rest(me, write[p].outcome),
                           !.failed = @ \/ IsFailure(write[p].outcome)])
  /\ Return(p, "none")
  /\ UNCHANGED <<files, litter, budget, keychains>>

-----------------------------------------------------------------------------
(* The keychain                                                            *)

\* The report's failures, unless the context has ended.
Exits(me, failed) ==
  NoRun(IF me.cancelled THEN "interrupted"
        ELSE IF me.failed \/ failed THEN "failed" ELSE "ok")

KeychainIn(content) == IF content \in Content THEN KeychainOf[content] ELSE None

LoadTopology(p) ==
  LET me == run[p]
      k  == KeychainIn(files[TopologyFile])
  IN
  /\ At(p, "load")
  /\ \/ /\ k # None /\ UNCHANGED budget
        /\ Becomes(p, [me EXCEPT !.pc = "exists", !.keychain = k])
     \/ /\ k = None /\ UNCHANGED budget
        /\ Becomes(p, Exits(me, TRUE))
     \/ Fault /\ Becomes(p, Exits(me, TRUE))
  /\ UNCHANGED <<writerVars, keychains>>

\* `security` refuses to create a keychain that exists.
CanCreate(k) == keychains[k] = "absent"
DoCreate(k) == keychains' = [keychains EXCEPT ![k] = "bare"]
DoSettle(k) == keychains' = [keychains EXCEPT ![k] = "settled"]

FindKeychain(p) ==
  LET me == run[p] IN
  /\ At(p, "exists")
  /\ \/ /\ CanCreate(me.keychain) /\ UNCHANGED budget
        /\ Becomes(p, [me EXCEPT !.pc = "create"])
     \/ /\ ~CanCreate(me.keychain) /\ UNCHANGED budget
        /\ Becomes(p, Exits(me, FALSE))
     \/ Fault /\ Becomes(p, Exits(me, TRUE))
  /\ UNCHANGED <<writerVars, keychains>>

\* Wrong on purpose: a keychain just made is as good as an old one.
CreatedIsDone(me) == Exits(me, FALSE)
Created(me) == [me EXCEPT !.pc = "settle"]

\* Killed with the context, or failing of its own; the effect is unknown.
Disturbed(me) == (me.cancelled /\ UNCHANGED budget) \/ (~me.cancelled /\ Fault)

CreateKeychain(p) ==
  LET me == run[p] IN
  /\ At(p, "create")
  /\ \/ /\ CanCreate(me.keychain) /\ ~me.cancelled /\ UNCHANGED budget
        /\ DoCreate(me.keychain)
        /\ Becomes(p, Created(me))
     \/ /\ ~CanCreate(me.keychain) /\ UNCHANGED <<keychains, budget>>
        /\ Becomes(p, Exits(me, TRUE))
     \/ /\ CanCreate(me.keychain) /\ Disturbed(me)
        /\ DoCreate(me.keychain) \/ UNCHANGED keychains
        /\ Becomes(p, Exits(me, TRUE))
  /\ UNCHANGED writerVars

SettleKeychain(p) ==
  LET me == run[p] IN
  /\ At(p, "settle")
  /\ \/ /\ ~me.cancelled /\ UNCHANGED budget
        /\ DoSettle(me.keychain)
        /\ Becomes(p, Exits(me, FALSE))
     \/ /\ Disturbed(me)
        /\ DoSettle(me.keychain) \/ UNCHANGED keychains
        /\ Becomes(p, Exits(me, TRUE))
  /\ UNCHANGED writerVars

-----------------------------------------------------------------------------
(* From outside                                                            *)

Interrupt(p) ==
  /\ ~At(p, "idle") /\ ~run[p].cancelled
  /\ Fault
  /\ Becomes(p, [run[p] EXCEPT !.cancelled = TRUE])
  /\ UNCHANGED <<writerVars, keychains>>

Crash(p) ==
  /\ ~At(p, "idle")
  /\ Fault
  /\ WriterDies(p)
  /\ Becomes(p, NoRun("crashed"))
  /\ UNCHANGED keychains

InitStep(p) ==
  \/ WalkEnds(p) \/ NextFile(p) \/ WriteFile(p) \/ FileDone(p)
  \/ LoadTopology(p) \/ FindKeychain(p) \/ CreateKeychain(p) \/ SettleKeychain(p)

Next ==
  \/ \E p \in Proc :
       Start(p) \/ InitStep(p) \/ Interrupt(p) \/ Crash(p)

Spec == Init /\ [][Next]_vars

\* A command is one goroutine, and its child processes end.
FairSpec == Spec /\ \A p \in Proc : WF_vars(InitStep(p))

-----------------------------------------------------------------------------
(* What is promised                                                        *)

\* Files change as the FileWriter port says, however writers meet, fail or
\* die: never half-written, never replaced unless absent or forced.
Files == INSTANCE AtomicFiles WITH
  writing <- [p \in Proc |->
    IF write[p].stage = "none" THEN None
    ELSE [path |-> write[p].path, overwrite |-> write[p].overwrite,
          cleared |-> write[p].stage # "look"]]
ScaffoldAtomic == Files!Spec

ASSUME WritingAssumption == None \notin Files!Write

\* Only a crash, or a failure to remove it, leaves a temporary file behind:
\* the first failure of a write cleans up. (WriteFile's error paths.)
FailureCleansUp ==
  [][\A f \in litter' \ litter :
       \E p \in Proc : \/ write[p].stage = "discard" /\ budget' < budget
                       \/ run'[p].exit = "crashed"]_vars

IsFile(f) == files[f] \notin {Directory, None}

\* An init broke off between the two commands that make keychain k.
Abandoned(k) ==
  keychains[k] = "bare" /\ ~\E p \in Proc : At(p, "settle") /\ run[p].keychain = k

\* What init can bring about: every file, and the keychain with its lock
\* settings, which an abandoned one never gets.
Complete ==
  /\ \A f \in Path : IsFile(f)
  /\ \E k \in KeyPath :
       /\ KeychainIn(files[TopologyFile]) = k
       /\ keychains[k] = "settled" \/ Abandoned(k)

EndsOk(p) == ~At(p, "idle") /\ run'[p].exit = "ok"

\* An init that exits 0 leaves every default file there, and the keychain that
\* the lclaw.toml it read names, locking itself if this init made it.
\* (InitReport.Ok)
InitDelivers ==
  [][\A p \in Proc : EndsOk(p) =>
       /\ \A f \in Path : IsFile(f)
       /\ keychains'[run[p].keychain] # "absent"
       /\ At(p, "settle") => keychains'[run[p].keychain] = "settled"]_vars

\* A keychain is without its lock settings only while an init is about to make
\* them, or because one failed, was interrupted or died, and said so: an init
\* that nothing disturbs never leaves one. (Create's two commands.)
BareOnlyBehindFault ==
  \A k \in KeyPath : keychains[k] = "bare" =>
    \/ budget < MaxFaults
    \/ \E p \in Proc : At(p, "settle") /\ run[p].keychain = k

\* Every init ends.
EveryInitEnds == \A p \in Proc : ~At(p, "idle") ~> At(p, "idle")

CanComplete ==
  /\ \A f \in Path : files[f] # Directory
  /\ files[TopologyFile] = None \/ KeychainIn(files[TopologyFile]) # None

\* A user who runs init again gets the files that the first one did not write
\* and the keychain that it did not create, with its lock settings. Those alone
\* it does not get where the first one created the keychain and broke off: init
\* goes by the keychain's file. (Init's exists, Create's two commands.)
InitConverges ==
  []<>(\E p \in Proc : ~At(p, "idle")) => (CanComplete ~> Complete)

=============================================================================
