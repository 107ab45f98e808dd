---------------------------- MODULE AtomicFiles -----------------------------
(***************************************************************************)
(* What the FileWriter port promises (src/internal/app/ports.go): a file   *)
(* changes all at once, and one that exists is left alone unless asked. As *)
(* WriteFile's comment says, the check and the replacement are two steps.  *)
(***************************************************************************)
CONSTANTS Proc, Path, Content, Default, Directory, None

VARIABLES
  files,  \* what each path is: a file's content, a directory, or nothing
  writing \* each process's write: its path, and whether it may replace

vars == <<files, writing>>

Write == [path : Path, overwrite : BOOLEAN, cleared : BOOLEAN]

Init ==
  /\ files \in [Path -> Content \union {Directory, None}]
  /\ writing = [p \in Proc |-> None]

Begin(p, f, overwrite) ==
  /\ writing[p] = None
  /\ writing' = [writing EXCEPT ![p] = [path |-> f, overwrite |-> overwrite,
                                        cleared |-> FALSE]]
  /\ UNCHANGED files

\* Nothing is there, or a file that may be overwritten.
Clear(p) ==
  /\ writing[p] # None
  /\ LET now == files[writing[p].path] IN
       now = None \/ (writing[p].overwrite /\ now # Directory)
  /\ writing' = [writing EXCEPT ![p] = [path |-> @.path, overwrite |-> @.overwrite,
                                        cleared |-> TRUE]]
  /\ UNCHANGED files

Replace(p) ==
  /\ writing[p] # None
  /\ writing[p].cleared
  /\ files' = [files EXCEPT ![writing[p].path] = Default]
  /\ writing' = [writing EXCEPT ![p] = None]

\* A write that is skipped, fails or dies changes nothing.
GiveUp(p) ==
  /\ writing[p] # None
  /\ writing' = [writing EXCEPT ![p] = None]
  /\ UNCHANGED files

Next ==
  \E p \in Proc :
    \/ \E f \in Path, overwrite \in BOOLEAN : Begin(p, f, overwrite)
    \/ Clear(p) \/ Replace(p) \/ GiveUp(p)

Spec == Init /\ [][Next]_vars

=============================================================================
