--------------------------- MODULE Configuration ----------------------------
(***************************************************************************)
(* From lclaw.toml to the topology and the catalogue: the loader           *)
(* (src/internal/adapters/toml/loader.go), Validate (domain/topology.go)   *)
(* and NewCatalogue (domain/catalogue.go) as they go through the file, and *)
(* module Topology, which the commands are modelled on, as the definition  *)
(* of what they are to find. A file is                                     *)
(*   decodes  : it is TOML with known keys only                            *)
(*   keychain : the [keychain] path                                        *)
(*   scalars  : schema, provider, sizes and volumes are legal              *)
(*   zones    : its [zones.<name>] tables, by name                         *)
(***************************************************************************)
EXTENDS SequencesExt

CONSTANTS
  Word,         \* names of workloads
  WellFormed,   \* those that may name a directory
  Complete,     \* those whose directory has every required file
  ZoneWord,     \* names of zones
  RoleName,     \* those of the three roles, in order
  WordRank,     \* the alphabetical order of zone names
  SecretWord,   \* names of secrets
  DnsLabel,     \* those that are well formed
  NameRank, Builtin, BuiltinSource, BuiltinZones

T == INSTANCE Topology WITH Workload <- Word, Secret <- SecretWord

ASSUME ConfigurationAssumption ==
  /\ WellFormed \subseteq Word /\ Complete \subseteq Word
  /\ RoleName \in [T!Role -> ZoneWord]
  /\ \A r, q \in T!Role : RoleName[r] = RoleName[q] => r = q
  /\ WordRank \in [ZoneWord -> Nat]
  /\ \A n, m \in ZoneWord : WordRank[n] = WordRank[m] => n = m
  /\ Builtin \subseteq DnsLabel /\ DnsLabel \subseteq SecretWord
  /\ BuiltinSource \in [Builtin -> {"generated", "minted"}]
  /\ BuiltinZones \in [Builtin -> SUBSET T!Role]

RoleNames == {RoleName[r] : r \in T!Role}

\* A bridge's key may be any name; its value is a list of zone names.
IsTable(z) ==
  /\ z \in [internal : BOOLEAN, workloads : Seq(Word),
            bridges : [DOMAIN z.bridges -> Seq(ZoneWord)], secrets : Seq(SecretWord)]
  /\ DOMAIN z.bridges \subseteq Word /\ IsFiniteSet(DOMAIN z.bridges)

IsFile(f) ==
  /\ f \in [decodes : BOOLEAN, scalars : BOOLEAN, zones : {[n \in DOMAIN f.zones |-> f.zones[n]]},
            keychain : {"default", "home", "absolute", "relative"}]
  /\ DOMAIN f.zones \subseteq ZoneWord /\ IsFiniteSet(DOMAIN f.zones)
  /\ \A n \in DOMAIN f.zones : IsTable(f.zones[n])

\* A table with one entry set.
With(fcn, key, val) == [k \in DOMAIN fcn \union {key} |-> IF k = key THEN val ELSE fcn[k]]

-----------------------------------------------------------------------------
(* The loader                                                              *)

\* A relative keychain path is an error, like a file that does not decode.
Loads(f) == f.decodes /\ f.keychain # "relative"

RoleRank(n) == IF n \in RoleNames THEN CHOOSE r \in T!Role : RoleName[r] = n ELSE 3

Before(n, m) ==
  \/ RoleRank(n) < RoleRank(m)
  \/ RoleRank(n) = RoleRank(m) /\ WordRank[n] < WordRank[m]

\* Known zones in role order, then the others by name.
ZoneOrder(f) ==
  CHOOSE list \in [1 .. Cardinality(DOMAIN f.zones) -> DOMAIN f.zones] :
    \A i, j \in DOMAIN list : i < j => Before(list[i], list[j])

-----------------------------------------------------------------------------
(* Validate: one pass over the tables. seen: workloads listed so far;      *)
(* bridged: zones some bridge leads into; findings: <<table, rule>>.       *)

Report(acc, finding) == [acc EXCEPT !.findings = @ \union {finding}]

\* Wrong on purpose: forgets the table before when it comes to the next.
SeenHere(acc) == acc.own
Seen(acc) == acc.seen

\* A name that is malformed or was listed before does not belong to the zone.
ScanWorkload(n, a, w) ==
  CASE w \notin WellFormed -> Report(a, <<n, "name">>)
    [] w \in WellFormed /\ w \in Seen(a) -> Report(a, <<n, "listed twice">>)
    [] OTHER ->
         [a EXCEPT !.seen = @ \union {w}, !.own = @ \union {w},
                   !.findings = @ \union IF w \in Complete THEN {}
                                         ELSE {<<n, "missing files">>}]

ScanWorkloads(acc, n, z) ==
  FoldLeft(LAMBDA a, w : ScanWorkload(n, a, w), [acc EXCEPT !.own = {}], z.workloads)

\* The good targets of one workload's bridges, and whether there is a bad one.
ScanTarget(n, a, target) ==
  IF target \notin RoleNames \/ target = n \/ target \in a.good
    THEN [a EXCEPT !.bad = TRUE]
    ELSE [a EXCEPT !.good = @ \union {target}]

ScanTargets(n, list) ==
  FoldLeft(LAMBDA a, target : ScanTarget(n, a, target), [good |-> {}, bad |-> FALSE], list)

ScanBridge(n, z, acc, w) ==
  LET scanned == ScanTargets(n, z.bridges[w])
  IN CASE w \notin acc.own -> Report(acc, <<n, "not its workload">>)
       [] w \in acc.own /\ z.internal -> Report(acc, <<n, "internal bridges out">>)
       [] OTHER ->
            [acc EXCEPT !.bridged = @ \union scanned.good,
                        !.findings = @ \union IF scanned.bad THEN {<<n, "target">>} ELSE {}]

ScanBridges(acc, n, z) ==
  FoldLeft(LAMBDA a, w : ScanBridge(n, z, a, w), acc, SetToSeq(DOMAIN z.bridges))

ScanZone(f, acc, n) ==
  LET named == IF n \in RoleNames THEN acc ELSE Report(acc, <<n, "unknown zone">>)
  IN ScanBridges(ScanWorkloads(named, n, f.zones[n]), n, f.zones[n])

ScanZones(f) ==
  FoldLeft(LAMBDA acc, n : ScanZone(f, acc, n),
           [seen |-> {}, own |-> {}, bridged |-> {}, findings |-> {}], ZoneOrder(f))

\* A TOML table has one name, so no zone appears twice.
MissingZones(f) == {<<n, "missing">> : n \in RoleNames \ DOMAIN f.zones}

UnreachedZones(f, bridged) ==
  {<<n, "unreached">> : n \in {n \in RoleNames \cap DOMAIN f.zones :
                                 f.zones[n].internal /\ n \notin bridged}}

-----------------------------------------------------------------------------
(* NewCatalogue: entries maps a name to its source and zones.              *)

BuiltinEntries ==
  [s \in Builtin |-> [source |-> BuiltinSource[s], zones |-> BuiltinZones[s]]]

\* Wrong on purpose: an entry made for one zone is replaced by the next.
LastZoneOnly(entries, s, r) == {r}
ZonesWith(entries, s, r) == {r} \union IF s \in DOMAIN entries THEN entries[s].zones ELSE {}

AddSecret(r, a, s) ==
  IF s \notin DnsLabel \/ s \in Builtin \/ s \in a.own
    THEN Report(a, <<RoleName[r], "secret">>)
    ELSE [a EXCEPT !.own = @ \union {s},
                   !.entries = With(@, s, [source |-> "user", zones |-> ZonesWith(@, s, r)])]

\* Tables are looked up by role: other tables are not the catalogue's.
AddZone(f, acc, r) ==
  IF RoleName[r] \in DOMAIN f.zones
    THEN FoldLeft(LAMBDA a, s : AddSecret(r, a, s), [acc EXCEPT !.own = {}],
                  f.zones[RoleName[r]].secrets)
    ELSE acc

Merged(f) ==
  FoldLeft(LAMBDA acc, r : AddZone(f, acc, r),
           [entries |-> BuiltinEntries, own |-> {}, findings |-> {}],
           <<T!Infra, T!Services, T!Agent>>)

Catalogue(f) == Merged(f).entries

CatalogueFindings(f) == Merged(f).findings

-----------------------------------------------------------------------------

Findings(f) ==
  LET scanned == ScanZones(f)
  IN (IF f.scalars THEN {} ELSE {<<"machine", "scalars">>})
     \union scanned.findings \union MissingZones(f)
     \union UnreachedZones(f, scanned.bridged)
     \union CatalogueFindings(f)

-----------------------------------------------------------------------------
(* What the file says, as module Topology has it                           *)

NoRepeats(list) == \A i, j \in DOMAIN list : list[i] = list[j] => i = j

Empty == [internal |-> FALSE, workloads |-> <<>>, bridges |-> <<>>, secrets |-> <<>>]

Table(f, r) == IF RoleName[r] \in DOMAIN f.zones THEN f.zones[RoleName[r]] ELSE Empty

SoundTable(z) ==
  /\ ToSet(z.workloads) \subseteq WellFormed \cap Complete
  /\ NoRepeats(z.workloads)
  /\ DOMAIN z.bridges \subseteq ToSet(z.workloads)
  /\ z.internal => DOMAIN z.bridges = {}
  /\ \A w \in DOMAIN z.bridges : ToSet(z.bridges[w]) \subseteq RoleNames
                                 /\ NoRepeats(z.bridges[w])
  /\ ToSet(z.secrets) \subseteq DnsLabel /\ NoRepeats(z.secrets)

Means(f) ==
  [sound |-> f.scalars /\ DOMAIN f.zones = RoleNames
             /\ \A n \in DOMAIN f.zones : SoundTable(f.zones[n]),
   zone |-> [r \in T!Role |->
     LET z == Table(f, r) IN
     [internal  |-> z.internal,
      workloads |-> z.workloads,
      bridges   |-> [w \in Word |->
        {q \in T!Role : w \in DOMAIN z.bridges /\ RoleName[q] \in ToSet(z.bridges[w])}],
      secrets   |-> ToSet(z.secrets)]]]

=============================================================================
