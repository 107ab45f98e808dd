------------------------------- MODULE Doctor -------------------------------
(***************************************************************************)
(* `lclaw doctor` (src/internal/app/doctor.go): reads the host one call at *)
(* a time and reports, while the user and other commands may change what   *)
(* it has read. Labels of pc, in the fixed order:                          *)
(*   flox, podman   the tools' versions                                    *)
(*   scaffold       the directory, lclaw.toml and its findings             *)
(*   keychain       the file;     secret   todo: secrets to describe       *)
(*   machine        the list;     network  zones: networks to look for     *)
(***************************************************************************)
EXTENDS Configuration, Disturbances

CONSTANTS
  Version,   \* version numbers a tool may report
  FloxMin, PodmanMin,
  Hosts,     \* where a run of the model starts
  Files

ASSUME DoctorAssumption ==
  /\ Version \subseteq Nat \X Nat \X Nat
  /\ {FloxMin, PodmanMin} \subseteq Version
  /\ None \notin Version

VARIABLES
  host, \* flox and podman: a version, or None when missing or broken;
        \* dir: the scaffold directory; kc: the keychain file exists;
        \* set: secrets in it; machine; nets: zones with a network
  file, \* lclaw.toml, or None
  doc   \* the doctor

vars == <<budget, host, file, doc>>

Host == [flox : Maybe(Version), podman : Maybe(Version),
         dir : {"absent", "unreadable", "there"},
         kc : BOOLEAN, set : SUBSET SecretWord,
         machine : {"absent", "stopped", "running"}, nets : SUBSET T!Role]

ASSUME StartAssumption ==
  /\ Hosts \subseteq Host
  /\ \A f \in Files : f = None \/ IsFile(f)

Pass == 0
Warn == 1
Fail == 2

Run == [pc : {"idle", "flox", "podman", "scaffold", "keychain", "secret",
              "machine", "network"},
        worst : Pass .. Fail,       \* Report.Worst
        podmanFailed : BOOLEAN,
        topologyOK : BOOLEAN,
        todo : SUBSET SecretWord,   \* declared secrets to describe
        zones : SUBSET T!Role,
        cancelled : BOOLEAN,
        since : 0 .. MaxFaults,     \* history: the budget at the start
        exit : {"none", "ok", "failed", "interrupted"}]

NoDoctor == [pc |-> "idle", worst |-> Pass, podmanFailed |-> FALSE,
             topologyOK |-> FALSE, todo |-> {}, zones |-> {}, cancelled |-> FALSE,
             since |-> 0, exit |-> "none"]

TypeOK ==
  /\ budget \in 0 .. MaxFaults
  /\ host \in Host
  /\ file = None \/ IsFile(file)
  /\ doc \in Run

Init ==
  /\ budget = MaxFaults
  /\ host \in Hosts
  /\ file \in Files
  /\ doc = NoDoctor

-----------------------------------------------------------------------------
(* Verdicts (src/internal/domain/requirement.go, secret_check.go,          *)
(* status.go, report.go)                                                   *)

\* Wrong on purpose: every part has to be as large.
EachAtLeast(v, min) == v[1] >= min[1] /\ v[2] >= min[2] /\ v[3] >= min[3]

AtLeast(v, min) ==
  IF v[1] # min[1] THEN v[1] > min[1]
  ELSE IF v[2] # min[2] THEN v[2] > min[2] ELSE v[3] >= min[3]

EvaluateTool(found, min) ==
  IF found = None THEN Fail ELSE IF AtLeast(found, min) THEN Pass ELSE Fail

EvaluateKeychain(exists) == IF exists THEN Pass ELSE Fail
EvaluateSecret(isSet) == IF isSet THEN Pass ELSE Fail
EvaluateMachine(machine) == IF machine = "absent" THEN Warn ELSE Pass
EvaluateNetwork(present) == IF present THEN Pass ELSE Warn

\* Wrong on purpose: adds the statuses up.
CountedUp(me, status) == [me EXCEPT !.worst = @ + status]

Checked(me, status) == [me EXCEPT !.worst = IF status > @ THEN status ELSE @]

-----------------------------------------------------------------------------
(* Steps. One that is cut short or fails is a FAIL, unless the context has *)
(* ended: Run looks at it after each.                                      *)

Exits(me) ==
  [NoDoctor EXCEPT !.worst = me.worst, !.since = me.since,
                   !.exit = IF me.worst = Fail THEN "failed" ELSE "ok"]

Interrupted(me) == [NoDoctor EXCEPT !.since = me.since, !.exit = "interrupted"]

\* Wrong on purpose: goes on with whatever the call returned.
NeverMinds(me, next) == next

UnlessCancelled(me, next) == IF me.cancelled THEN Interrupted(me) ELSE next

Reads(ok, bad) ==
  /\ \/ doc' = UnlessCancelled(doc, ok) /\ UNCHANGED budget
     \/ ~doc.cancelled /\ Fault /\ doc' = bad
  /\ UNCHANGED <<host, file>>

Start ==
  /\ doc.pc = "idle"
  /\ doc' = [NoDoctor EXCEPT !.pc = "flox", !.since = budget]
  /\ UNCHANGED <<budget, host, file>>

FloxVersion ==
  LET to(status) == [Checked(doc, status) EXCEPT !.pc = "podman"] IN
  doc.pc = "flox" /\ Reads(to(EvaluateTool(host.flox, FloxMin)), to(Fail))

PodmanVersion ==
  LET to(status) == [Checked(doc, status) EXCEPT !.pc = "scaffold",
                                                 !.podmanFailed = status = Fail]
  IN doc.pc = "podman" /\ Reads(to(EvaluateTool(host.podman, PodmanMin)), to(Fail))

\* The secrets whose values only the user has.
UserEntries(f) == {s \in DOMAIN Catalogue(f) : Catalogue(f)[s].source = "user"}

FindingsStatus(f) == IF Findings(f) = {} THEN Pass ELSE Fail

\* A missing directory warns, an unreadable one fails, and either skips the
\* topology and all that rests on it. Findings fail, and skip nothing.
ReadScaffold ==
  LET skipped(status) == [Checked(Checked(doc, status), Warn) EXCEPT !.pc = "secret"]
      loaded == [Checked(doc, FindingsStatus(file)) EXCEPT
                   !.pc = "keychain", !.topologyOK = TRUE, !.todo = UserEntries(file)]
  IN
  /\ doc.pc = "scaffold"
  /\ doc' = CASE host.dir = "absent" -> skipped(Warn)
              [] host.dir = "unreadable" -> skipped(Fail)
              [] host.dir = "there" /\ (file = None \/ ~Loads(file)) -> skipped(Fail)
              [] OTHER -> loaded
  /\ UNCHANGED <<budget, host, file>>

\* Without the keychain its secrets are not asked for.
FindKeychain ==
  LET to(status) == [Checked(doc, status) EXCEPT
                       !.pc = "secret", !.todo = IF status = Fail THEN {} ELSE @]
  IN doc.pc = "keychain" /\ Reads(to(EvaluateKeychain(host.kc)), to(Fail))

DescribeSecret ==
  /\ doc.pc = "secret"
  /\ \E s \in doc.todo :
       LET to(status) == [Checked(doc, status) EXCEPT !.todo = @ \ {s}]
       IN Reads(to(EvaluateSecret(host.kc /\ s \in host.set)), to(Fail))

\* With podman out of order the machine is not asked for.
SecretsDone ==
  /\ doc.pc = "secret" /\ doc.todo = {}
  /\ doc' = UnlessCancelled(doc, IF doc.podmanFailed THEN Exits(Checked(doc, Warn))
                                 ELSE [doc EXCEPT !.pc = "machine"])
  /\ UNCHANGED <<budget, host, file>>

ListMachine ==
  LET found == Checked(doc, EvaluateMachine(host.machine)) IN
  /\ doc.pc = "machine"
  /\ Reads(IF host.machine = "running" /\ doc.topologyOK
             THEN [found EXCEPT !.pc = "network", !.zones = T!Role]
             ELSE Exits(found),
           Exits(Checked(doc, Fail)))

\* The first that cannot be asked ends the report.
FindNetwork ==
  /\ doc.pc = "network"
  /\ \E r \in doc.zones :
       /\ \A q \in doc.zones : r <= q
       /\ LET found == Checked(doc, EvaluateNetwork(r \in host.nets))
              next  == [found EXCEPT !.zones = @ \ {r}]
          IN Reads(CASE host.machine # "running" -> Exits(Checked(doc, Fail))
                     [] host.machine = "running" /\ next.zones # {} -> next
                     [] OTHER -> Exits(next),
                   Exits(Checked(doc, Fail)))

DoctorStep ==
  \/ FloxVersion \/ PodmanVersion \/ ReadScaffold \/ FindKeychain
  \/ DescribeSecret \/ SecretsDone \/ ListMachine \/ FindNetwork

-----------------------------------------------------------------------------
(* From outside                                                            *)

Interrupt ==
  /\ doc.pc # "idle" /\ ~doc.cancelled
  /\ Fault
  /\ doc' = [doc EXCEPT !.cancelled = TRUE]
  /\ UNCHANGED <<host, file>>

\* A different host: one thing changed, by the user or another command.
HostChanges ==
  {[host EXCEPT !.flox = v] : v \in Maybe(Version)}
  \union {[host EXCEPT !.podman = v] : v \in Maybe(Version)}
  \union {[host EXCEPT !.dir = d] : d \in {"absent", "unreadable", "there"}}
  \union {[host EXCEPT !.kc = ~@]}
  \union {[host EXCEPT !.set = (@ \ {s}) \union ({s} \ @)] : s \in SecretWord}
  \union {[host EXCEPT !.machine = m] : m \in {"absent", "stopped", "running"}}
  \union {[host EXCEPT !.nets = @ \ {r}] : r \in T!Role}

TableChanges(z) ==
  {[z EXCEPT !.internal = ~@]}
  \union {[z EXCEPT !.workloads = Append(@, w)] : w \in Word}
  \union {[z EXCEPT !.secrets = Append(@, s)] : s \in SecretWord}
  \union {[z EXCEPT !.bridges = With(@, w, <<>>)] : w \in Word}
  \union {[z EXCEPT !.bridges[w] = Append(@, n)] : w \in DOMAIN z.bridges, n \in ZoneWord}
  \union {[z EXCEPT !.bridges = [w \in DOMAIN @ \ {v} |-> @[w]]] : v \in DOMAIN z.bridges}
  \union {[z EXCEPT !.workloads = Tail(@)] : i \in (DOMAIN z.workloads) \cap {1}}

\* A different lclaw.toml: one thing changed.
FileChanges(f) ==
  {[f EXCEPT !.decodes = ~@], [f EXCEPT !.scalars = ~@]}
  \union {[f EXCEPT !.keychain = k] : k \in {"default", "home", "absolute", "relative"}}
  \union (UNION {{[f EXCEPT !.zones[n] = z] : z \in TableChanges(f.zones[n])} : n \in DOMAIN f.zones})
  \union {[f EXCEPT !.zones = With(@, n, Empty)] : n \in ZoneWord}
  \union {[f EXCEPT !.zones = [m \in DOMAIN @ \ {n} |-> @[m]]] : n \in DOMAIN f.zones}

HostChange == Fault /\ host' \in HostChanges \ {host} /\ UNCHANGED <<file, doc>>

Edit ==
  /\ file # None
  /\ Fault
  /\ file' \in {None} \union FileChanges(file)
  /\ UNCHANGED <<host, doc>>

Next == Start \/ DoctorStep \/ Interrupt \/ HostChange \/ Edit

Spec == Init /\ [][Next]_vars

-----------------------------------------------------------------------------

\* Validate accepts exactly the files that module Topology, on which up, down
\* and the secrets commands are modelled, calls valid: what it keeps while it
\* goes through the tables (names seen, zones bridged into) misses nothing,
\* whatever the order of tables and the mistakes before. (Validate.)
ValidatedAsMeant ==
  file # None => (Findings(file) = {} <=> T!Valid(Means(file)))

\* Of a file the catalogue has no finding about, valid or not otherwise, it has
\* each secret once, with its source and every zone that uses it: what up
\* injects, and what secrets accepts. (NewCatalogue.)
CatalogueAsMeant ==
  file # None /\ CatalogueFindings(file) = {} =>
    /\ DOMAIN Catalogue(file) = T!Entries(Means(file))
    /\ \A s \in DOMAIN Catalogue(file) :
         /\ Catalogue(file)[s].source = T!SourceOf(s)
         /\ Catalogue(file)[s].zones = {r \in T!Role : T!UsedBy(Means(file), s, r)}

\* The first part that differs decides.
Reaches(v, min) ==
  /\ v # None
  /\ v # min => \E i \in 1 .. 3 : v[i] > min[i] /\ \A j \in 1 .. (i - 1) : v[j] = min[j]

\* The tools doctor requires, flox among them although no command of lclaw runs
\* it, and of the scaffold, if there is one, all that up asks of it before it
\* touches anything. No scaffold is only a warning, though up needs one: doctor
\* is what one runs before init, too.
HostReady ==
  /\ Reaches(host.flox, FloxMin) /\ Reaches(host.podman, PodmanMin)
  /\ host.dir # "unreadable"
  /\ host.dir = "there" =>
       /\ file # None /\ Loads(file) /\ T!Valid(Means(file))
       /\ host.kc
       /\ \A s \in T!Entries(Means(file)) : T!SourceOf(s) = "user" => s \in host.set

EndsUndisturbed == doc.pc # "idle" /\ doc'.pc = "idle" /\ budget' = doc.since

\* A doctor during which nothing failed or changed exits 0 exactly when flox and
\* podman are there and recent enough, and the scaffold, if there is one, is one
\* up accepts: a valid lclaw.toml, its keychain, and every secret the user has
\* to supply. No check that is skipped hides a problem, and none fails for
\* another's reason. (Run.)
DoctorTellsTheTruth ==
  [][EndsUndisturbed => (doc'.exit = "ok" <=> HostReady)]_vars

\* A doctor that is interrupted while something is left to read exits 130, and
\* never reports the killed call as a failed check. (ctx.Err after each.)
InterruptIsNoFailure ==
  [][doc.cancelled /\ doc'.pc = "idle" => doc'.exit = "interrupted"]_vars

=============================================================================
