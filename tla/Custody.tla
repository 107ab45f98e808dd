------------------------------ MODULE Custody -------------------------------
(***************************************************************************)
(* How secret values travel, whatever the commands are: the keychain is    *)
(* the only source, and a value reaches the machine only in the hand of a  *)
(* command that took it from there (docs/explanation/secrets-management.md *)
(* has the keychain as the source of truth and the machine's store as a    *)
(* copy of it).                                                            *)
(***************************************************************************)
CONSTANTS Proc, Secret, Value, None

VARIABLES
  vault, \* the value the keychain has of each secret, or None
  hands, \* the values of each secret each process may still bring along
  copies \* the values of each secret that are somewhere on the machine

vars == <<vault, hands, copies>>

Init ==
  /\ vault \in [Secret -> Value \union {None}]
  /\ hands = [p \in Proc |-> [s \in Secret |-> {}]]
  /\ copies = [s \in Secret |-> {}]

\* Nothing is in a hand but what was, or what the keychain now has.
HandsFollow ==
  /\ hands' \in [Proc -> [Secret -> SUBSET Value]]
  /\ \A p \in Proc, s \in Secret :
       hands'[p][s] \subseteq hands[p][s] \union ({vault'[s]} \ {None})

\* The keychain changes, and nothing on the machine does.
Keep ==
  /\ vault' \in [Secret -> Value \union {None}]
  /\ UNCHANGED copies
  /\ HandsFollow

\* The machine has what it had, or what a hand brought; or less.
Bring ==
  /\ copies' \in [Secret -> SUBSET Value]
  /\ \A s \in Secret : copies'[s] \subseteq copies[s] \union UNION {hands[p][s] : p \in Proc}
  /\ UNCHANGED vault
  /\ HandsFollow

Next == Keep \/ Bring

Spec == Init /\ [][Next]_vars

=============================================================================
