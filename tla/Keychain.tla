------------------------------ MODULE Keychain ------------------------------
(***************************************************************************)
(* The macOS keychain file as the rest of the program sees it through      *)
(* src/internal/adapters/keychain/client.go. Locking, unlocking and the    *)
(* text forms of `security` are left out: an operation that the lock       *)
(* prevents is one that failed.                                            *)
(***************************************************************************)
EXTENDS Podman

VARIABLES
  kcFile, \* the keychain file exists
  items   \* what it holds

keychainVars == <<kcFile, items>>

Item == [val : Value, src : {"generated", "minted", "user"}]

ASSUME KeychainAssumption == None \notin Item

KeychainTypeOK ==
  /\ kcFile \in BOOLEAN
  /\ items \in [Secret -> Maybe(Item)]

\* The user may have run `lclaw init` and `lclaw secrets set` for some of
\* the secrets only the user can supply.
UserItem == [val : Value \ KeyValue, src : {"user"}]

KeychainInit ==
  /\ kcFile \in BOOLEAN
  /\ items \in [Secret -> Maybe(UserItem)]
  /\ \A s \in Secret : items[s] # None => kcFile /\ SourceOf(s) = "user"

\* Get and Describe report "not found" for an absent item.
IsSet(s) == items[s] # None

\* add-generic-password without -U refuses a duplicate.
CanPut(s, replace) == kcFile /\ (replace \/ ~IsSet(s))

\* Wrong on purpose: stores the value without its source.
DoPutUnlabelled(s, v, src) ==
  /\ items' = [items EXCEPT ![s] = [val |-> v, src |-> "unlabelled"]]
  /\ UNCHANGED kcFile

DoPut(s, v, src) ==
  /\ items' = [items EXCEPT ![s] = [val |-> v, src |-> src]]
  /\ UNCHANGED kcFile

CanDelete(s) == kcFile /\ IsSet(s)
DoDelete(s) ==
  /\ items' = [items EXCEPT ![s] = None]
  /\ UNCHANGED kcFile

=============================================================================
