-------------------------- MODULE MCKeychainClient --------------------------
(***************************************************************************)
(* An instance of KeychainClient for TLC: two processes, one item.         *)
(***************************************************************************)
EXTENDS KeychainClient

CONSTANTS
  kc,    \* a keychain
  salt,  \* a secret
  v1, v2, \* its values
  p1, p2  \* processes

=============================================================================
