---------------------------- MODULE KeychainPort ----------------------------
(***************************************************************************)
(* What the Keychain port promises (src/internal/app/ports.go): each call  *)
(* is one step on the items of one keychain, answered as the items were at *)
(* that step; a keychain that is not there is never touched. A call that   *)
(* failed may have had its effect, and no call has it twice. What is not   *)
(* promised: a call whose keychain goes while it is on its way may be      *)
(* answered as if a keychain without the item were there.                  *)
(***************************************************************************)
CONSTANTS Proc, KeyPath, Name, Value, None

VARIABLES
  exists, \* which keychains there are
  items,  \* what each holds
  asked,  \* the call each process waits for
  seen,   \* processes whose call has had its keychain there at some time
  answer  \* the answer to its last call

vars == <<exists, items, asked, seen, answer>>

Request == [op : {"put", "replace"}, path : KeyPath, name : Name, val : Value]
           \union [op : {"get", "delete"}, path : KeyPath, name : Name, val : {None}]

Reply(kind) == [kind |-> kind, val |-> None]

Empty == [s \in Name |-> None]

Init ==
  /\ exists \in [KeyPath -> BOOLEAN]
  /\ items \in [KeyPath -> [Name -> Value \union {None}]]
  /\ \A k \in KeyPath : ~exists[k] => items[k] = Empty
  /\ asked = [p \in Proc |-> None]
  /\ seen = {}
  /\ answer = [p \in Proc |-> Reply("none")]

Ask(p, request) ==
  /\ asked[p] = None
  /\ asked' = [asked EXCEPT ![p] = request]
  /\ seen' = IF exists[request.path] THEN seen \union {p} ELSE seen
  /\ answer' = [answer EXCEPT ![p] = Reply("none")]
  /\ UNCHANGED <<exists, items>>

Here(r) == items[r.path][r.name]

Verdict(r) ==
  CASE ~exists[r.path] -> "missing"
    [] exists[r.path] /\ Here(r) = None /\ r.op \in {"get", "delete"} -> "not found"
    [] exists[r.path] /\ Here(r) # None /\ r.op = "put" -> "already exists"
    [] OTHER -> "ok"

After(r) ==
  [items EXCEPT ![r.path][r.name] = CASE r.op = "get" -> Here(r)
                                      [] r.op = "delete" -> None
                                      [] OTHER -> r.val]

Done(p, a) ==
  /\ asked' = [asked EXCEPT ![p] = None]
  /\ seen' = seen \ {p}
  /\ answer' = [answer EXCEPT ![p] = a]
  /\ UNCHANGED exists

Serve(p) ==
  LET r == asked[p] IN
  /\ asked[p] # None
  /\ IF Verdict(r) = "ok"
       THEN /\ items' = After(r)
            /\ Done(p, [kind |-> "ok", val |-> IF r.op = "get" THEN Here(r) ELSE None])
       ELSE /\ UNCHANGED items
            /\ Done(p, Reply(Verdict(r)))

\* The keychain stays locked: nothing happened.
Locked(p) ==
  /\ asked[p] # None
  /\ \E kind \in {"locked", "wrong password"} : Done(p, Reply(kind))
  /\ UNCHANGED items

\* Killed, or failed for a reason the port has no name for.
Fail(p) ==
  /\ asked[p] # None
  /\ items' = items \/ (Verdict(asked[p]) = "ok" /\ items' = After(asked[p]))
  /\ Done(p, Reply("failed"))

\* The keychain was there and is gone.
Lost(p) == p \in seen /\ ~exists[asked[p].path]

\* Nothing is changed that the port speaks of, whatever the answer.
Mislead(p) ==
  /\ asked[p] # None /\ Lost(p)
  /\ \E kind \in IF asked[p].op \in {"get", "delete"} THEN {"not found"}
                                                     ELSE {"ok", "already exists"} :
       Done(p, Reply(kind))
  /\ UNCHANGED items

\* A keychain is made without items; those whose call it is for may see it.
Waiting(k) == {p \in Proc : asked[p] # None /\ asked[p].path = k}

Create(k) ==
  /\ ~exists[k]
  /\ exists' = [exists EXCEPT ![k] = TRUE]
  /\ seen' = seen \union Waiting(k)
  /\ UNCHANGED <<items, asked, answer>>

\* Its items go with it.
Remove(k) ==
  /\ exists[k]
  /\ exists' = [exists EXCEPT ![k] = FALSE]
  /\ items' = [items EXCEPT ![k] = Empty]
  /\ UNCHANGED <<asked, seen, answer>>

Next ==
  \/ \E p \in Proc :
       \/ \E request \in Request : Ask(p, request)
       \/ Serve(p) \/ Mislead(p) \/ Locked(p) \/ Fail(p)
  \/ \E k \in KeyPath : Create(k) \/ Remove(k)

Spec == Init /\ [][Next]_vars

=============================================================================
