----------------------------- MODULE MCInitCmd ------------------------------
(***************************************************************************)
(* Instances of InitCmd for TLC: lclaw.toml and one more file, init's      *)
(* keychain and one of the user's own.                                     *)
(***************************************************************************)
EXTENDS InitCmd, TLC

CONSTANTS
  toml, pod,             \* files
  standard, mine, broken, \* contents: the default, one of the user's, no TOML
  partial, directory,
  kc, myKc,              \* keychains
  p1, p2                 \* processes

MCPathRank == [f \in Path |-> IF f = toml THEN 1 ELSE 2]

\* The user's lclaw.toml names a keychain of his own.
MCKeychainOf ==
  [c \in Content |-> IF c = standard THEN kc ELSE IF c = mine THEN myKc ELSE None]

=============================================================================
