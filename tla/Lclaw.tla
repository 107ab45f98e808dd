------------------------------- MODULE Lclaw --------------------------------
(***************************************************************************)
(* All commands that change the keychain or the machine: up, down and the  *)
(* secrets commands, one after another or at once, on the same keychain    *)
(* and the same machine.                                                   *)
(***************************************************************************)
EXTENDS LifecycleProperties, SecretsCmd

LclawNext == Next \/ \E p \in Proc : StartSecrets(p) \/ SecretsStep(p)

LclawSpec == Init /\ [][LclawNext]_vars

-----------------------------------------------------------------------------

Saves == {"set", "update", "generate"}

\* After a secrets command that exits 0 the store of a running machine agrees
\* with the keychain: it has the new value, or nothing after a delete.
\* (push, inspect, and the exit status of an Outcome whose store failed.)
StoreFollows ==
  [][\A p \in Proc, s \in Secret : s \in proc[p].todo /\ Running =>
       /\ \A cmd \in Saves : EndsOk(p, cmd) => IsSet(s) /\ store'[s] = items[s].val
       /\ EndsOk(p, "delete") => ~IsSet(s) /\ store'[s] = None]_vars

\* What a command holds on its way to the store.
Sending(me, s) == me.pc \in {"push", "send"} /\ s \in me.todo

InHand(p, s) ==
  ({proc[p].got[s]} \union IF Sending(proc[p], s) THEN {proc[p].fresh} ELSE {}) \ {None}

OnMachine(s) ==
  ({store[s], vols[s]} \union {pods[w].env[s] : w \in ListPods}) \ {None}

Holds(s) == IF IsSet(s) THEN items[s].val ELSE None

\* However commands interleave and wherever they are disturbed, a value gets to
\* the machine only in the hand of a command that took it from the keychain
\* when it was there, and no step changes both: with no command on its way,
\* what is put there next is what the keychain has by then. (resolve.Run puts
\* before it hands on; Set and Update put before push; every call is on one of
\* the two.)
Carried == INSTANCE Custody WITH
  vault  <- [s \in Secret |-> Holds(s)],
  hands  <- [p \in Proc |-> [s \in Secret |-> InHand(p, s)]],
  copies <- [s \in Secret |-> OnMachine(s)]
ValuesCarried == Carried!Spec

\* The user gave p a command that may change s.
Ordered(p, s) ==
  proc[p].cmd \in {"update", "generate", "delete"} /\ s \in proc[p].todo

\* What the user supplied stays the secret's value until a command that the
\* user gave for it updates, regenerates or deletes it: no up that found the
\* secret missing meanwhile, and no set, replaces it. (Put without replace in
\* resolve.Run and in Set. destroy, which goes by the catalogue's source,
\* forgets a minted name whoever supplied its value.)
UserValueKept ==
  [][\A s \in Durable :
       IsSet(s) /\ items[s].src = "user" /\ items'[s] # items[s] =>
         \E p \in Proc : Ordered(p, s)]_vars

=============================================================================
