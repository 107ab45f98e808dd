------------------------ MODULE KeychainClientProofs ------------------------
(***************************************************************************)
(* Proofs about KeychainClient, for any number of processes, keychains and *)
(* items. What a call has behind it, CallPlaced, makes TypeOK inductive    *)
(* and carries both results: past "require" the keychain's file has been   *)
(* there, so that when `security` runs either it still is, or it went      *)
(* after the client looked, and the port says what the call may answer.    *)
(***************************************************************************)
EXTENDS KeychainClient, TLAPS

\* A call on its way has a request, and past require has had a keychain.
CallPlaced ==
  \A p \in Proc :
    /\ stage[p] # "none" => asked[p] \in Port!Request
    /\ stage[p] = "none" => asked[p] = None
    /\ stage[p] # "none" /\ exists[asked[p].path] => p \in seen
    /\ stage[p] \in {"first", "unlock", "second"} => p \in seen

ClientInv == TypeOK /\ CallPlaced

-----------------------------------------------------------------------------
(* Lemmas                                                                  *)

\* What a request is.
LEMMA RequestType ==
  ASSUME NEW r \in Port!Request
  PROVE /\ r # None
        /\ r.path \in KeyPath /\ r.name \in Name /\ r.val \in Maybe(Value)
        /\ r.op \in {"put", "replace", "get", "delete"}
BY RequestAssumption DEF Port!Request, Maybe

\* What a call finds and leaves is of the type.
LEMMA AfterType ==
  ASSUME TypeOK, NEW r \in Port!Request
  PROVE /\ Port!Here(r) \in Maybe(Value)
        /\ Port!After(r) \in [KeyPath -> [Name -> Maybe(Value)]]
<1>1. Port!Here(r) \in Maybe(Value)
  BY RequestType DEF TypeOK, Port!Here
<1> DEFINE v == CASE r.op = "get" -> Port!Here(r)
                  [] r.op = "delete" -> None
                  [] OTHER -> r.val
<1>2. v \in Maybe(Value)
  BY <1>1, RequestType DEF Maybe
<1>3. Port!After(r) = [items EXCEPT ![r.path][r.name] = v]
  BY DEF Port!After
<1> HIDE DEF v
<1>4. Port!After(r) \in [KeyPath -> [Name -> Maybe(Value)]]
  BY <1>2, <1>3, RequestType DEF TypeOK
<1> QED
  BY <1>1, <1>4

\* An exit status is an answer, and on a keychain that is there and unlocked it
\* is the port's.
LEMMA ExitType ==
  ASSUME TypeOK, NEW r \in Port!Request
  PROVE /\ Exit(r) \in {"ok", "not found", "already exists", "locked"}
        /\ exists[r.path] /\ Exit(r) # "locked" => Exit(r) = Port!Verdict(r)
        /\ Exit(r) = "locked" <=> r.path \in locked
BY RequestType DEF Exit, Found, Port!Verdict, TypeOK

\* The answers a call may get.
Answers == [kind : Kinds, val : Maybe(Value)]

\* What the port may answer is an answer.
LEMMA ReplyType ==
  /\ \A kind \in Kinds : Port!Reply(kind) \in Answers
  /\ \A val \in Maybe(Value) : [kind |-> "ok", val |-> val] \in Answers
BY DEF Port!Reply, Answers, Kinds, Maybe

\* A step of the call of p.
Calls(p) == ClientStep(p) \/ \E request \in Port!Request : Begin(p, request)

\* How a call of p moves on: to another stage with the same request, or to an
\* answer.
Moves(p) ==
  \/ /\ \E where \in {"first", "unlock", "second"} : GoTo(p, where)
     /\ stage[p] # "none" /\ p \in seen /\ UNCHANGED items
  \/ \E a \in Answers : Answer(p, a)
  \/ \E request \in Port!Request : Begin(p, request)

\* A step inside a call touches the process, the locks and at most its item, or
\* one of the default keychain.
LEMMA CallsMove ==
  ASSUME ClientInv, NEW p \in Proc, Calls(p)
  PROVE /\ Moves(p)
        /\ UNCHANGED exists
        /\ login' \subseteq Name
        /\ locked' \subseteq locked
        /\ UNCHANGED items \/ \E r \in Port!Request : items' = Port!After(r)
        /\ UNCHANGED budget \/ Fault
<1> DEFINE r == asked[p]
<1>1. stage[p] # "none" => r \in Port!Request
  BY DEF ClientInv, CallPlaced
<1>2. /\ stage[p] \in {"first", "unlock", "second"} => p \in seen
      /\ stage[p] # "none" /\ exists[r.path] => p \in seen
      /\ login \subseteq Name
  BY DEF ClientInv, CallPlaced, TypeOK
<1>3. CASE Require(p)
  <2>1. Port!Reply("missing") \in Answers /\ Port!Reply("failed") \in Answers
    BY ReplyType DEF Kinds
  <2> QED
    BY <1>2, <1>3, <2>1 DEF Require, RequireFile, Moves, keychainVars
<1>4. ASSUME stage[p] \in {"first", "second"}, Runs(p, r)
      PROVE /\ \E a \in Answers : Answer(p, a)
            /\ UNCHANGED <<exists, locked>>
            /\ login' \subseteq Name
            /\ UNCHANGED items \/ items' = Port!After(r)
  <2>1. Port!Reply(Exit(r)) \in Answers
    BY <1>1, <1>4, ExitType, ReplyType DEF ClientInv, Kinds
  <2>2. (IF r.op = "get" THEN Port!Here(r) ELSE None) \in Maybe(Value)
    BY <1>1, <1>4, AfterType DEF ClientInv, Maybe
  <2>3. r.name \in Name
    BY <1>1, <1>4, RequestType
  <2> QED
    BY <1>2, <1>4, <2>1, <2>2, <2>3, ReplyType DEF Runs, Effect, keychainVars
<1>5. ASSUME stage[p] \in {"first", "second"}, Breaks(p, r), FailureFinal(p)
      PROVE /\ \E a \in Answers : Answer(p, a)
            /\ UNCHANGED <<exists, locked>>
            /\ login' \subseteq Name
            /\ UNCHANGED items \/ items' = Port!After(r)
            /\ Fault
  <2>1. Port!Reply("failed") \in Answers
    BY ReplyType DEF Kinds
  <2>2. r.name \in Name
    BY <1>1, <1>5, RequestType
  <2>3. Fault /\ (Effect(r) \/ UNCHANGED keychainVars)
    BY <1>5 DEF Breaks
  <2> QED
    BY <1>2, <1>5, <2>1, <2>2, <2>3 DEF Effect, FailureFinal, keychainVars
<1>6. CASE FirstAttempt(p)
  BY <1>1, <1>2, <1>4, <1>5, <1>6 DEF FirstAttempt, Moves, keychainVars
<1>7. CASE Unlock(p)
  <2>1. /\ Port!Reply("wrong password") \in Answers /\ Port!Reply("failed") \in Answers
        /\ Port!Reply("missing") \in Answers
    BY ReplyType DEF Kinds
  <2> QED
    BY <1>2, <1>7, <2>1 DEF Unlock, Moves, keychainVars
<1>8. CASE SecondAttempt(p)
  BY <1>1, <1>4, <1>5, <1>8 DEF SecondAttempt, RetryOnce, Moves
<1>9. CASE \E request \in Port!Request : Begin(p, request)
  BY <1>2, <1>9 DEF Begin, Moves, keychainVars
<1> QED
  BY <1>3, <1>6, <1>7, <1>8, <1>9 DEF Calls, ClientStep

-----------------------------------------------------------------------------
(* The invariant                                                           *)

\* The invariant holds at the start.
LEMMA ClientStart == Init => ClientInv
<1> SUFFICES ASSUME Init
             PROVE ClientInv
  OBVIOUS
<1>1. TypeOK
  BY DisturbancesAssumption
     DEF Init, Port!Init, Port!Reply, TypeOK, Kinds, Maybe
<1>2. CallPlaced
  BY DEF Init, Port!Init, CallPlaced
<1> QED
  BY <1>1, <1>2 DEF ClientInv

\* No step breaks the invariant.
LEMMA ClientInvStep ==
  ASSUME ClientInv, [Next]_vars
  PROVE ClientInv'
<1> USE DEF ClientInv
<1>1. CASE UNCHANGED vars
  BY <1>1 DEF vars, keychainVars, callVars, TypeOK, CallPlaced
<1>2. ASSUME NEW p \in Proc, Calls(p)
      PROVE ClientInv'
  <2>1. /\ Moves(p)
        /\ UNCHANGED exists
        /\ login' \subseteq Name
        /\ locked' \subseteq locked
        /\ UNCHANGED items \/ \E r \in Port!Request : items' = Port!After(r)
        /\ UNCHANGED budget \/ Fault
    BY <1>2, CallsMove
  <2>2. budget' \in 0 .. MaxFaults
    BY <2>1, DisturbancesAssumption DEF TypeOK, Fault
  <2>3. items' \in [KeyPath -> [Name -> Maybe(Value)]]
    BY <2>1, AfterType DEF TypeOK
  <2>4. CASE \E where \in {"first", "unlock", "second"} :
               GoTo(p, where) /\ stage[p] # "none" /\ p \in seen
    BY <2>1, <2>2, <2>3, <2>4 DEF GoTo, TypeOK, CallPlaced
  <2>5. CASE \E a \in Answers : Answer(p, a)
    BY <2>1, <2>2, <2>3, <2>5
       DEF Answer, Answers, TypeOK, CallPlaced, Maybe
  <2>6. CASE \E request \in Port!Request : Begin(p, request)
    <3>1. Port!Reply("none") \in Answers
      BY ReplyType DEF Kinds
    <3> QED
      BY <2>1, <2>2, <2>3, <2>6, <3>1
         DEF Begin, Answers, TypeOK, CallPlaced, Maybe
  <2> QED
    BY <2>1, <2>4, <2>5, <2>6 DEF Moves
<1>3. ASSUME NEW k \in KeyPath, AutoLock(k)
      PROVE ClientInv'
  BY <1>3 DEF AutoLock, TypeOK, CallPlaced, callVars
<1>4. ASSUME NEW k \in KeyPath, MakeKeychain(k)
      PROVE ClientInv'
  <2>1. /\ UNCHANGED <<locked, items, login, asked, stage, answer, budget>>
        /\ exists' = [exists EXCEPT ![k] = TRUE]
        /\ seen' = seen \union Port!Waiting(k)
    BY <1>4 DEF MakeKeychain
  <2>2. TypeOK'
    BY <2>1 DEF TypeOK, Port!Waiting
  <2>3. ASSUME NEW p \in Proc, stage[p] # "none", exists'[asked[p].path]
        PROVE p \in seen'
    <3>1. asked[p] \in Port!Request /\ asked[p] # None
      BY <2>3, RequestType DEF CallPlaced
    <3>2. CASE asked[p].path = k
      BY <2>1, <3>1, <3>2 DEF Port!Waiting
    <3>3. CASE asked[p].path # k
      BY <2>1, <2>3, <3>1, <3>3, RequestType DEF CallPlaced, TypeOK
    <3> QED
      BY <3>2, <3>3
  <2> QED
    BY <2>1, <2>2, <2>3 DEF CallPlaced
<1>5. ASSUME NEW k \in KeyPath, RemoveKeychain(k)
      PROVE ClientInv'
  <2>1. /\ UNCHANGED <<login, asked, seen, stage, answer>>
        /\ exists' = [exists EXCEPT ![k] = FALSE]
        /\ items' = [items EXCEPT ![k] = Port!Empty]
        /\ locked' \subseteq KeyPath /\ Fault
    BY <1>5 DEF RemoveKeychain, callVars, TypeOK
  <2>2. TypeOK'
    BY <2>1, DisturbancesAssumption DEF TypeOK, Port!Empty, Fault, Maybe
  <2>3. \A j \in KeyPath : exists'[j] => exists[j]
    BY <2>1 DEF TypeOK
  <2> QED
    BY <2>1, <2>2, <2>3, RequestType DEF CallPlaced
<1> QED
  BY <1>1, <1>2, <1>3, <1>4, <1>5 DEF Next, Calls

\* The invariant holds throughout.
LEMMA ClientInvariance == Spec => []ClientInv
BY ClientStart, ClientInvStep, PTL DEF Spec

\* Every state of any number of concurrent calls is of the declared types.
THEOREM ClientTypeCorrect == Spec => []TypeOK
<1>1. ClientInv => TypeOK
  BY DEF ClientInv
<1> QED
  BY <1>1, ClientInvariance, PTL

\* A command that runs writes to the default keychain if its own is gone.
LEMMA LoginLost ==
  ASSUME ClientInv, NEW p \in Proc, stage[p] \in {"first", "second"},
         Runs(p, asked[p]) \/ Breaks(p, asked[p]), NEW s \in login' \ login
  PROVE p \in seen /\ asked[p] # None /\ asked[p].name = s /\ Port!Lost(p)
<1> DEFINE r == asked[p]
<1>1. r # None /\ p \in seen
  BY RequestType DEF ClientInv, CallPlaced
<1>2. Effect(r)
  BY DEF Runs, Breaks, keychainVars
<1>3. ~exists[r.path] /\ s = r.name
  BY <1>2 DEF Effect
<1> QED
  BY <1>1, <1>3 DEF Port!Lost

\* No other step touches it.
LEMMA LoginStep ==
  ASSUME ClientInv, Next, NEW s \in login' \ login
  PROVE \E p \in seen : asked[p] # None /\ asked[p].name = s /\ Port!Lost(p)
<1>1. ASSUME NEW p \in Proc, ClientStep(p)
      PROVE stage[p] \in {"first", "second"} /\ (Runs(p, asked[p]) \/ Breaks(p, asked[p]))
  <2>1. ~Require(p) /\ ~Unlock(p)
    BY DEF Require, Unlock, keychainVars
  <2> QED
    BY <1>1, <2>1 DEF ClientStep, FirstAttempt, SecondAttempt, RetryOnce, keychainVars
<1>2. \A p \in Proc, request \in Port!Request : ~Begin(p, request)
  BY DEF Begin, keychainVars
<1>3. \A k \in KeyPath : ~AutoLock(k) /\ ~MakeKeychain(k) /\ ~RemoveKeychain(k)
  BY DEF AutoLock, MakeKeychain, RemoveKeychain
<1>4. PICK p \in Proc : ClientStep(p)
  BY <1>2, <1>3 DEF Next
<1> QED
  BY <1>1, <1>4, LoginLost

\* Whatever keychains there are and whoever makes or removes one meanwhile, an
\* item goes to the user's default keychain only from a call whose own keychain
\* was there when the client looked, or since it was asked, and went before the
\* command ran. (require in client.go.)
THEOREM DefaultIsBehindLoss == Spec => DefaultOnlyBehindLoss
<1>1. ClientInv /\ [Next]_vars
        => [\A s \in login' \ login :
              \E p \in seen : asked[p] # None /\ asked[p].name = s /\ Port!Lost(p)]_vars
  BY LoginStep
<1> QED
  BY <1>1, ClientInvariance, PTL DEF Spec, DefaultOnlyBehindLoss

-----------------------------------------------------------------------------
(* The client answers as the port says                                     *)

\* A command that ran is the port's Serve, its Locked, or without a keychain
\* its Mislead.
LEMMA RunServes ==
  ASSUME ClientInv, NEW p \in Proc, stage[p] \in {"first", "second"}, Runs(p, asked[p])
  PROVE Port!Serve(p) \/ Port!Locked(p) \/ Port!Mislead(p)
<1> DEFINE r == asked[p]
<1>1. r \in Port!Request /\ r # None /\ p \in seen /\ TypeOK
  BY RequestType DEF ClientInv, CallPlaced
<1>2. UNCHANGED exists
  BY DEF Runs, Effect, keychainVars
<1>3. CASE Exit(r) = "locked"
  BY <1>1, <1>2, <1>3 DEF Runs, keychainVars, Answer, Port!Locked, Port!Done
<1>4. CASE Exit(r) # "locked" /\ exists[r.path]
  <2>1. Exit(r) = Port!Verdict(r)
    BY <1>1, <1>4, ExitType
  <2> QED
    BY <1>1, <1>2, <1>4, <2>1
       DEF Runs, Effect, keychainVars, Answer, Port!Serve, Port!Done
<1>5. CASE Exit(r) # "locked" /\ ~exists[r.path]
  <2>1. /\ r.op \in {"get", "delete"} => Exit(r) = "not found"
        /\ r.op \notin {"get", "delete"} => Exit(r) \in {"ok", "already exists"}
    BY <1>1, <1>5, RequestType DEF Exit, Found
  <2>2. Port!Lost(p) /\ items' = items
    BY <1>1, <1>5 DEF Port!Lost, Runs, Effect, keychainVars
  <2>3. \/ Answer(p, Port!Reply(Exit(r)))
        \/ Exit(r) = "ok" /\ Answer(p, Port!Reply("ok"))
    BY <1>1, <2>1, RequestType DEF Runs, Port!Reply
  <2>4. Answer(p, Port!Reply(Exit(r)))
    BY <2>3
  <2>5. Port!Done(p, Port!Reply(Exit(r)))
    BY <1>2, <2>4 DEF Answer, Port!Done
  <2> QED
    BY <1>1, <2>1, <2>2, <2>5 DEF Port!Mislead
<1> QED
  BY <1>3, <1>4, <1>5

\* A command that broke is the port's Fail, whatever it had done.
LEMMA BreakFails ==
  ASSUME ClientInv, NEW p \in Proc, stage[p] \in {"first", "second"},
         Breaks(p, asked[p]), FailureFinal(p)
  PROVE Port!Fail(p)
<1> DEFINE r == asked[p]
<1>1. r \in Port!Request /\ r # None /\ TypeOK
  BY RequestType DEF ClientInv, CallPlaced
<1>2. exists[r.path] /\ Exit(r) = "ok" => Port!Verdict(r) = "ok"
  BY <1>1, ExitType
<1>3. /\ UNCHANGED exists
      /\ items' = items \/ (exists[r.path] /\ Exit(r) = "ok" /\ items' = Port!After(r))
  BY <1>1 DEF Breaks, Effect, keychainVars
<1> QED
  BY <1>1, <1>2, <1>3 DEF FailureFinal, Answer, Port!Fail, Port!Done

\* Every step of a call is one of the port, or none.
LEMMA PortStep ==
  ASSUME ClientInv, [Next]_vars
  PROVE [Port!Next]_(Port!vars)
<1>1. CASE UNCHANGED vars
  BY <1>1 DEF vars, keychainVars, callVars, Port!vars
<1>2. ASSUME NEW p \in Proc, ClientStep(p)
      PROVE \/ Port!Serve(p) \/ Port!Mislead(p) \/ Port!Locked(p) \/ Port!Fail(p)
            \/ UNCHANGED Port!vars
  <2> DEFINE r == asked[p]
  <2>1. r # None
    BY <1>2, RequestType
       DEF ClientInv, CallPlaced, ClientStep, Require, FirstAttempt, Unlock, SecondAttempt
  <2>2. CASE Require(p)
    <3>1. CASE RequireFile(p) /\ exists[r.path]
      BY <2>2, <3>1 DEF Require, RequireFile, GoTo, keychainVars, Port!vars
    <3>2. CASE RequireFile(p) /\ ~exists[r.path]
      BY <2>1, <2>2, <3>2
         DEF Require, RequireFile, Answer, keychainVars, Port!Serve, Port!Verdict, Port!Done
    <3>3. CASE Answer(p, Port!Reply("failed"))
      BY <2>1, <2>2, <3>3 DEF Require, Answer, keychainVars, Port!Fail, Port!Done
    <3> QED
      BY <2>2, <3>1, <3>2, <3>3 DEF Require
  <2>3. CASE FirstAttempt(p)
    BY <2>3, RunServes, BreakFails DEF FirstAttempt, GoTo, keychainVars, Port!vars
  <2>4. CASE Unlock(p)
    <3>1. CASE GoTo(p, "second")
      BY <2>4, <3>1 DEF Unlock, GoTo, keychainVars, Port!vars, Answer
    <3>2. CASE exists[r.path] /\ Answer(p, Port!Reply("wrong password"))
      BY <2>1, <2>4, <3>2 DEF Unlock, Answer, keychainVars, Port!Locked, Port!Done
    <3>4. CASE ~exists[r.path] /\ Answer(p, Port!Reply("missing"))
      BY <2>1, <2>4, <3>4
         DEF Unlock, Answer, keychainVars, Port!Serve, Port!Verdict, Port!Done
    <3>3. CASE Answer(p, Port!Reply("failed"))
      BY <2>1, <2>4, <3>3 DEF Unlock, Answer, keychainVars, Port!Fail, Port!Done
    <3> QED
      BY <2>4, <3>1, <3>2, <3>3, <3>4 DEF Unlock
  <2>5. CASE SecondAttempt(p)
    BY <2>5, RunServes, BreakFails DEF SecondAttempt, RetryOnce
  <2> QED
    BY <1>2, <2>2, <2>3, <2>4, <2>5 DEF ClientStep
<1>3. ASSUME NEW p \in Proc, NEW request \in Port!Request, Begin(p, request)
      PROVE Port!Ask(p, request)
  BY <1>3 DEF Begin, keychainVars, Port!Ask
<1>4. ASSUME NEW k \in KeyPath, AutoLock(k) \/ MakeKeychain(k) \/ RemoveKeychain(k)
      PROVE Port!Create(k) \/ Port!Remove(k) \/ UNCHANGED Port!vars
  BY <1>4 DEF AutoLock, MakeKeychain, RemoveKeychain, callVars, Port!Create, Port!Remove,
              Port!vars
<1> QED
  BY <1>1, <1>2, <1>3, <1>4 DEF Next, Port!Next

\* However calls interleave, keychains lock and children are killed, the client
\* answers as the Keychain port says. (run and wrap in client.go.)
THEOREM ClientAnswersAsPort == Spec => KeychainAtomic
<1>1. Init => Port!Init
  BY DEF Init
<1> QED
  BY <1>1, PortStep, ClientInvariance, PTL DEF Spec, KeychainAtomic, Port!Spec

=============================================================================
