----------------------------- MODULE FileWriter -----------------------------
(***************************************************************************)
(* WriteFile (src/internal/adapters/osfs/system.go), one file system call  *)
(* a step. A temporary file has a name of its own, so two writers never    *)
(* share one.                                                              *)
(***************************************************************************)
EXTENDS Disturbances

CONSTANTS
  Proc,     \* processes that may run at the same time
  Path,     \* the default files
  Content,  \* what a file may hold
  Default,  \* ... and what init writes, whatever the file
  Partial,  \* ... and what it holds before all bytes are written
  Directory \* what a path is that is not a file

ASSUME FileAssumption ==
  /\ Default \in Content
  /\ Partial \notin Content
  /\ {Directory, None} \cap (Content \union {Partial}) = {}
  /\ Directory # None

VARIABLES
  files,  \* what each path is
  litter, \* paths beside which an abandoned temporary file lies
  write   \* each process's WriteFile

writerVars == <<files, litter, write>>

Writer == [stage : {"none", "look", "temp", "fill", "rename", "discard"},
           path : Path, overwrite : BOOLEAN,
           tmp : {None, Partial, Default}, \* the temporary file
           outcome : {"none", "written", "skipped", "failed"}]

NotWriting(outcome) ==
  [stage |-> "none", path |-> CHOOSE f \in Path : TRUE, overwrite |-> FALSE,
   tmp |-> None, outcome |-> outcome]

WriterTypeOK ==
  /\ files \in [Path -> Content \union {Directory, None}]
  /\ litter \subseteq Path
  /\ write \in [Proc -> Writer]

\* The user may have made some files and directories.
WriterInit ==
  /\ files \in [Path -> (Content \ {Default}) \union {Directory, None}]
  /\ litter = {}
  /\ write = [p \in Proc |-> NotWriting("none")]

Writes(p, w) == write' = [write EXCEPT ![p] = w]
Return(p, outcome) == Writes(p, NotWriting(outcome))

BeginWrite(p, f, overwrite) ==
  /\ Writes(p, [NotWriting("none") EXCEPT !.stage = "look", !.path = f,
                                          !.overwrite = overwrite])
  /\ UNCHANGED <<files, litter>>

\* A call of p that fails.
Fails(p, stage) ==
  /\ write[p].stage = stage
  /\ Fault
  /\ UNCHANGED <<files, litter>>

\* Wrong on purpose: does not look whether the file exists.
MayReplaceFiles(w) == files[w.path] # Directory

MayReplace(w) == IF w.overwrite THEN files[w.path] # Directory ELSE files[w.path] = None

Skips(w) == ~w.overwrite /\ files[w.path] \notin {Directory, None}

Look(p) ==
  LET w == write[p] IN
  \/ /\ w.stage = "look"
     /\ CASE MayReplace(w) -> Writes(p, [w EXCEPT !.stage = "temp"])
          [] Skips(w) -> Return(p, "skipped")
          [] OTHER -> Return(p, "failed")
     /\ UNCHANGED <<files, litter, budget>>
  \/ Fails(p, "look") /\ Return(p, "failed")

\* Wrong on purpose: always the same name, so one that was left is in the way.
NameFreeUnlessLeft(w) == w.path \notin litter
NameFree(w) == TRUE

\* MkdirAll and CreateTemp, which finds a name nothing has.
CreateTemp(p) ==
  LET w == write[p] IN
  \/ /\ w.stage = "temp"
     /\ IF NameFree(w) THEN Writes(p, [w EXCEPT !.stage = "fill", !.tmp = Partial])
                       ELSE Return(p, "failed")
     /\ UNCHANGED <<files, litter, budget>>
  \/ Fails(p, "temp") /\ Return(p, "failed")

\* Wrong on purpose: an error of write, chmod or close is not looked at.
FillIgnored(p, tmp) == Writes(p, [write[p] EXCEPT !.stage = "rename", !.tmp = tmp])
FillFails(p, tmp) == Writes(p, [write[p] EXCEPT !.stage = "discard", !.tmp = tmp])

\* write, chmod, close: any of them may fail.
Fill(p) ==
  LET w == write[p] IN
  \/ /\ w.stage = "fill"
     /\ Writes(p, [w EXCEPT !.stage = "rename", !.tmp = Default])
     /\ UNCHANGED <<files, litter, budget>>
  \/ /\ Fails(p, "fill")
     /\ \E tmp \in {Partial, Default} : FillFails(p, tmp)

\* Wrong on purpose: a temporary file that could not be renamed stays.
RenameLeaves(p) == Return(p, "failed") /\ litter' = litter \union {write[p].path}
RenameFails(p) == Writes(p, [write[p] EXCEPT !.stage = "discard"]) /\ UNCHANGED litter

Rename(p) ==
  LET w == write[p] IN
  \/ /\ w.stage = "rename"
     /\ files' = [files EXCEPT ![w.path] = w.tmp]
     /\ Return(p, "written")
     /\ UNCHANGED <<litter, budget>>
  \/ /\ w.stage = "rename"
     /\ Fault
     /\ RenameFails(p)
     /\ UNCHANGED files

\* os.Remove, whose own failure nobody hears of.
Discard(p) ==
  LET w == write[p] IN
  /\ w.stage = "discard"
  /\ \/ UNCHANGED <<litter, budget>>
     \/ Fault /\ litter' = litter \union {w.path}
  /\ Return(p, "failed")
  /\ UNCHANGED files

WriteStep(p) == Look(p) \/ CreateTemp(p) \/ Fill(p) \/ Rename(p) \/ Discard(p)

\* The process dies: its temporary file stays.
WriterDies(p) ==
  /\ litter' = IF write[p].tmp = None THEN litter ELSE litter \union {write[p].path}
  /\ Return(p, "none")
  /\ UNCHANGED files

=============================================================================
