---------------------------- MODULE LclawHistory ----------------------------
(***************************************************************************)
(* Lclaw with two history variables, which no command reads: what the      *)
(* keychain has ever held, and which commands have had no company.         *)
(***************************************************************************)
EXTENDS Lclaw

VARIABLES
  ever, \* for each secret the values its item has had
  alone \* processes whose command nothing has run beside so far

historyVars == <<vars, ever, alone>>

InKeychain(s) == IF IsSet(s) THEN {items[s].val} ELSE {}

Others(p) == Proc \ {p}

HistoryInit ==
  /\ Init
  /\ ever = [s \in Secret |-> InKeychain(s)]
  /\ alone = {}

HistoryNext ==
  /\ LclawNext
  /\ ever' = [s \in Secret |-> ever[s] \union InKeychain(s)']
  /\ alone' = {p \in Proc : /\ Busy(p)'
                            /\ p \in alone \/ ~Busy(p)
                            /\ \A q \in Others(p) : ~Busy(q)'}

HistorySpec == HistoryInit /\ [][HistoryNext]_historyVars

-----------------------------------------------------------------------------

\* A value a copy of s may have: none, or one the keychain has held.
OnceKept(s, v) == v = None \/ v \in ever[s]

\* Whatever commands run at once, every copy of a secret on the machine was
\* the keychain's value at some time: nothing is stored, mounted or given to
\* a pod that the keychain did not take. (Put before inject in resolve.Run;
\* Put before push in Set and Update.)
CopiesOnceInKeychain ==
  \A s \in Secret :
    /\ OnceKept(s, store[s])
    /\ OnceKept(s, vols[s])
    /\ \A w \in ListPods : OnceKept(s, pods[w].env[s])

\* After whatever commands ran at once before, an up that nothing runs beside
\* and that exits 0 leaves every pod of its zones with the keychain's values:
\* a stale store or a secret stored by a lost race does not survive it, while a
\* network stays as it was made. (push does not roll back, "the next up
\* reconciles"; inject replaces; Up's network loop goes by the name.)
LoneUpReconciles ==
  [][\A p \in alone : EndsOk(p, "up") =>
       /\ Running
       /\ \A r \in proc[p].roles : Delivered(proc[p].top, r)]_historyVars

=============================================================================
