------------------------------ MODULE Topology ------------------------------
(***************************************************************************)
(* What lclaw.toml says and the rules that decide whether the program will *)
(* act on it: the three zones (src/internal/domain/role.go), the topology  *)
(* and its validation (domain/topology.go) and the secret catalogue built  *)
(* from it (domain/catalogue.go, domain/secret.go).                        *)
(*                                                                         *)
(* A topology is a record                                                  *)
(*   sound : the rules about scalars and spelling hold (schema, provider,  *)
(*           sizes, volume syntax, names, required files, no zone missing, *)
(*           unknown or repeated, no name listed twice in one list)        *)
(*   zone  : for each role, whether its network is internal, its workloads *)
(*           in order, the other zones each of them bridges to, and the    *)
(*           secrets declared for it                                       *)
(* The rules that relate one part of the file to another are kept.         *)
(***************************************************************************)
EXTENDS Integers, Sequences

CONSTANTS
  Workload,      \* names of the directories under workloads/
  Secret,        \* names of secrets
  NameRank,      \* the position of each secret in name order
  Builtin,       \* the secrets every catalogue holds
  BuiltinSource, \* how each of them comes to exist
  BuiltinZones   \* the zones that consume it

Infra == 0
Services == 1
Agent == 2
Role == Infra .. Agent

ASSUME SecretAssumption ==
  /\ NameRank \in [Secret -> Int]
  /\ \A s, u \in Secret : NameRank[s] = NameRank[u] => s = u
  /\ Builtin \subseteq Secret
  /\ BuiltinSource \in [Builtin -> {"generated", "minted"}]
  /\ BuiltinZones \in [Builtin -> SUBSET Role]

Zone == [internal : BOOLEAN,
         workloads : Seq(Workload),
         bridges : [Workload -> SUBSET Role],
         secrets : SUBSET Secret]

Topology == [sound : BOOLEAN, zone : [Role -> Zone]]

-----------------------------------------------------------------------------
(* Workloads and networks                                                  *)

WorkloadsOf(t, r) == {t.zone[r].workloads[i] : i \in DOMAIN t.zone[r].workloads}

\* A role stands for its network lclaw-<role>; the order of the --network
\* flags decides nothing here.
Networks(t, r, w) == {r} \union t.zone[r].bridges[w]

ListedOnce(t) ==
  /\ \A r \in Role : \A i, j \in DOMAIN t.zone[r].workloads :
       t.zone[r].workloads[i] = t.zone[r].workloads[j] => i = j
  /\ \A r, q \in Role : r # q => WorkloadsOf(t, r) \cap WorkloadsOf(t, q) = {}

BridgesLegal(t) ==
  \A r \in Role, w \in Workload :
    t.zone[r].bridges[w] # {} =>
      /\ w \in WorkloadsOf(t, r)
      /\ ~t.zone[r].internal
      /\ r \notin t.zone[r].bridges[w]

BridgedInto(t, r) == \E q \in Role, w \in Workload : r \in t.zone[q].bridges[w]

-----------------------------------------------------------------------------
(* The catalogue                                                           *)

\* A declared name is user supplied; a declared built-in name is refused.
SourceOf(s) == IF s \in Builtin THEN BuiltinSource[s] ELSE "user"

Minted == {s \in Secret : SourceOf(s) = "minted"}

UsedBy(t, s, r) ==
  IF s \in Builtin THEN r \in BuiltinZones[s] ELSE s \in t.zone[r].secrets

\* The catalogue's names, and those of one zone.
Entries(t) == Builtin \union {s \in Secret : \E r \in Role : UsedBy(t, s, r)}

ForZone(t, r) == {s \in Secret : UsedBy(t, s, r)}

\* Every loop over names runs in name order.
IsFirst(s, names) == s \in names /\ \A u \in names : NameRank[s] <= NameRank[u]

NoCollision(t) == \A r \in Role : t.zone[r].secrets \cap Builtin = {}

-----------------------------------------------------------------------------

\* load goes on only when Validate found nothing.
Valid(t) ==
  /\ t.sound
  /\ ListedOnce(t)
  /\ BridgesLegal(t)
  /\ \A r \in Role : t.zone[r].internal => BridgedInto(t, r)
  /\ NoCollision(t)

=============================================================================
