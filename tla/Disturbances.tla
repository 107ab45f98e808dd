---------------------------- MODULE Disturbances ----------------------------
(***************************************************************************)
(* What the file writer, init, the keychain client and doctor share: a     *)
(* budget of failures, interrupts, crashes and changes by others.          *)
(***************************************************************************)
EXTENDS Naturals, FiniteSets

CONSTANTS
  None,     \* no value
  MaxFaults \* a bound of the model: disturbances in all

ASSUME DisturbancesAssumption == MaxFaults \in Nat

VARIABLE budget \* disturbances left

Maybe(S) == S \union {None}

\* Something goes wrong that the program could not foresee.
Fault == budget > 0 /\ budget' = budget - 1

=============================================================================
