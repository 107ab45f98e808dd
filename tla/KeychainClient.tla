--------------------------- MODULE KeychainClient ---------------------------
(***************************************************************************)
(* The client of `security` (src/internal/adapters/keychain/client.go), one *)
(* child process a step: a keychain locks itself at any time, a command    *)
(* that meets it locked exits 36, and the client unlocks it and sends the  *)
(* command once more. Get and Describe are "get": they differ in -g only.  *)
(* In a session with a display macOS asks for the password itself and the  *)
(* command goes on, as if the keychain were unlocked.                      *)
(***************************************************************************)
EXTENDS Disturbances

CONSTANTS
  Proc,    \* processes that may run at the same time
  KeyPath, \* keychain files
  Name,    \* secrets
  Value    \* their values

ASSUME ClientAssumption == None \notin Value

VARIABLES
  exists, \* which keychain files there are
  locked, \* keychains that are locked
  items,  \* what each keychain holds
  login,  \* items of ours in the user's default keychain
  asked,  \* each process's call
  seen,   \* history: processes whose call has had its keychain's file there
          \* at some time
  stage,  \* ... and how far it is
  answer  \* the answer to its last call

keychainVars == <<exists, locked, items, login>>
callVars == <<asked, seen, stage, answer>>
vars == <<budget, keychainVars, callVars>>

Port == INSTANCE KeychainPort

ASSUME RequestAssumption == None \notin Port!Request

Kinds == {"none", "ok", "not found", "already exists", "missing", "locked",
          "wrong password", "failed"}

TypeOK ==
  /\ budget \in 0 .. MaxFaults
  /\ exists \in [KeyPath -> BOOLEAN]
  /\ locked \subseteq KeyPath
  /\ items \in [KeyPath -> [Name -> Maybe(Value)]]
  /\ login \subseteq Name
  /\ asked \in [Proc -> Maybe(Port!Request)]
  /\ seen \subseteq Proc
  /\ stage \in [Proc -> {"none", "require", "first", "unlock", "second"}]
  /\ answer \in [Proc -> [kind : Kinds, val : Maybe(Value)]]

Init ==
  /\ budget = MaxFaults
  /\ Port!Init
  /\ locked = {}
  /\ login = {}
  /\ stage = [p \in Proc |-> "none"]

GoTo(p, where) ==
  /\ stage' = [stage EXCEPT ![p] = where]
  /\ UNCHANGED <<asked, seen, answer>>

Answer(p, a) ==
  /\ asked' = [asked EXCEPT ![p] = None]
  /\ seen' = seen \ {p}
  /\ answer' = [answer EXCEPT ![p] = a]
  /\ stage' = [stage EXCEPT ![p] = "none"]

Begin(p, request) ==
  /\ asked[p] = None
  /\ asked' = [asked EXCEPT ![p] = request]
  /\ seen' = IF exists[request.path] THEN seen \union {p} ELSE seen
  /\ answer' = [answer EXCEPT ![p] = Port!Reply("none")]
  /\ stage' = [stage EXCEPT ![p] = "require"]
  /\ UNCHANGED <<budget, keychainVars>>

\* Wrong on purpose: does not look for the file.
RequireNothing(p) == GoTo(p, "first")

\* Without the file `security` would write to the default keychain. Nobody
\* looks again before a command, or before the second.
RequireFile(p) ==
  IF exists[asked[p].path] THEN GoTo(p, "first") ELSE Answer(p, Port!Reply("missing"))

Require(p) ==
  /\ stage[p] = "require"
  /\ \/ RequireFile(p) /\ UNCHANGED budget
     \/ Fault /\ Answer(p, Port!Reply("failed"))
  /\ UNCHANGED keychainVars

-----------------------------------------------------------------------------
(* One `security` command: its exit status and its effect                  *)

\* Wrong on purpose: an exit status is passed on without its name.
BareStatus(r) == IF r.path \in locked THEN "exit 36" ELSE "ok"

\* In the keychain; or, without one, where a new item goes instead.
Found(r) ==
  IF exists[r.path] THEN Port!Here(r) # None ELSE r.op = "put" /\ r.name \in login

Exit(r) ==
  CASE r.path \in locked -> "locked"                                     \* 36
    [] r.path \notin locked /\ ~Found(r) /\ r.op \in {"get", "delete"} -> "not found" \* 44
    [] r.path \notin locked /\ Found(r) /\ r.op = "put" -> "already exists"  \* 45
    [] OTHER -> "ok"

Effect(r) ==
  /\ IF exists[r.path]
       THEN items' = Port!After(r) /\ UNCHANGED login
       ELSE login' = login \union {r.name} /\ UNCHANGED items
  /\ UNCHANGED <<exists, locked>>

\* The output of a command that ended, and the exit status as wrap names it.
Runs(p, r) ==
  IF Exit(r) = "ok"
    THEN /\ Effect(r)
         /\ Answer(p, [kind |-> "ok",
                       val |-> IF r.op = "get" THEN Port!Here(r) ELSE None])
    ELSE /\ UNCHANGED keychainVars
         /\ Answer(p, Port!Reply(Exit(r)))

\* Killed, or an exit status without a name; the effect is unknown.
Breaks(p, r) ==
  /\ Fault
  /\ (Exit(r) = "ok" /\ Effect(r)) \/ UNCHANGED keychainVars

\* Wrong on purpose: any failure is tried again.
FailureRetried(p) == GoTo(p, "second")
FailureFinal(p) == Answer(p, Port!Reply("failed"))

FirstAttempt(p) ==
  LET r == asked[p] IN
  /\ stage[p] = "first"
  /\ \/ Exit(r) # "locked" /\ Runs(p, r) /\ UNCHANGED budget
     \/ Exit(r) = "locked" /\ GoTo(p, "unlock") /\ UNCHANGED <<keychainVars, budget>>
     \/ Breaks(p, r) /\ FailureFinal(p)

\* unlock-keychain asks on the terminal; it knows a missing keychain (50).
Unlock(p) ==
  /\ stage[p] = "unlock"
  /\ \/ /\ exists[asked[p].path]
        /\ locked' = locked \ {asked[p].path}
        /\ GoTo(p, "second")
        /\ UNCHANGED <<exists, items, login, budget>>
     \/ /\ Answer(p, Port!Reply(IF exists[asked[p].path] THEN "wrong password" ELSE "missing"))
        /\ UNCHANGED <<keychainVars, budget>>
     \/ Fault /\ Answer(p, Port!Reply("failed")) /\ UNCHANGED keychainVars

\* Wrong on purpose: as often as it takes.
RetryAgain(p, r) ==
  IF Exit(r) = "locked" THEN GoTo(p, "unlock") /\ UNCHANGED keychainVars ELSE Runs(p, r)
RetryOnce(p, r) == Runs(p, r)

SecondAttempt(p) ==
  LET r == asked[p] IN
  /\ stage[p] = "second"
  /\ \/ RetryOnce(p, r) /\ UNCHANGED budget
     \/ Breaks(p, r) /\ FailureFinal(p)

ClientStep(p) == Require(p) \/ FirstAttempt(p) \/ Unlock(p) \/ SecondAttempt(p)

\* Sleep, or nobody used it for a while.
AutoLock(k) ==
  /\ exists[k] /\ k \notin locked
  /\ locked' = locked \union {k}
  /\ UNCHANGED <<exists, items, login, callVars, budget>>

\* Another process's `lclaw init` (Create).
MakeKeychain(k) ==
  /\ ~exists[k]
  /\ exists' = [exists EXCEPT ![k] = TRUE]
  /\ seen' = seen \union Port!Waiting(k)
  /\ UNCHANGED <<locked, items, login, asked, stage, answer, budget>>

\* Somebody deletes the file, whatever is on its way.
RemoveKeychain(k) ==
  /\ exists[k] /\ Fault
  /\ exists' = [exists EXCEPT ![k] = FALSE]
  /\ items' = [items EXCEPT ![k] = Port!Empty]
  /\ locked' = locked \ {k}
  /\ UNCHANGED <<login, callVars>>

Next ==
  \/ \E p \in Proc : ClientStep(p) \/ \E request \in Port!Request : Begin(p, request)
  \/ \E k \in KeyPath : AutoLock(k) \/ MakeKeychain(k) \/ RemoveKeychain(k)

Spec == Init /\ [][Next]_vars

\* Every child process ends; keychains lock as they like.
FairSpec == Spec /\ \A p \in Proc : WF_vars(ClientStep(p))

-----------------------------------------------------------------------------

\* However commands interleave, keychains lock, come and go, and children are
\* killed, the client answers as the port says: no call has its effect twice, a
\* put that took effect is never reported as a duplicate of itself, and "not
\* found", on which up makes a new value, is said only of an item that is not
\* there, be it that its keychain went in between. (run's unlock and second
\* attempt.)
KeychainAtomic == Port!Spec

\* An item goes to the user's default keychain only from a call whose own
\* keychain's file was there and went before the command ran: the client looks
\* for it once, before the first of them. (require)
DefaultOnlyBehindLoss ==
  [][\A s \in login' \ login :
       \E p \in seen : asked[p] # None /\ asked[p].name = s /\ Port!Lost(p)]_vars

\* Every call is answered, however often the keychain locks itself. (run)
EveryCallEnds == \A p \in Proc : asked[p] # None ~> asked[p] = None

=============================================================================
