---------------------------- MODULE DoctorProofs ----------------------------
(***************************************************************************)
(* Proofs about `lclaw doctor` and about the file it reads. The loops of   *)
(* Validate and NewCatalogue are instances of FoldProofs: what each has    *)
(* after its first rounds is what the definition asks of the first items,  *)
(* so that at the end both decide what Topology quantifies over. Of a run, *)
(* SoFar says that its worst check is a FAIL exactly when one of the       *)
(* checks behind it is to fail.                                            *)
(*   -> DoctorTypes, ValidateIsRight, CatalogueIsRight, ReportIsTrue,      *)
(*      InterruptedExits                                                   *)
(***************************************************************************)
EXTENDS Doctor, FiniteSetTheorems, TLAPS

-----------------------------------------------------------------------------
(* Lists                                                                   *)

Taken(list, k) == {list[i] : i \in 1 .. k}

Distinct(list, k) == \A i, j \in 1 .. k : list[i] = list[j] => i = j

LEMMA TakeNone ==
  ASSUME NEW list
  PROVE Taken(list, 0) = {} /\ Distinct(list, 0)
BY DEF Taken, Distinct

LEMMA TakeOne ==
  ASSUME NEW X, NEW list \in Seq(X), NEW k \in 1 .. Len(list)
  PROVE /\ list[k] \in X
        /\ Taken(list, k) = Taken(list, k - 1) \union {list[k]}
        /\ Distinct(list, k) <=> Distinct(list, k - 1) /\ list[k] \notin Taken(list, k - 1)
<1>1. k \in Nat /\ Len(list) \in Nat /\ 1 .. k = (1 .. (k - 1)) \union {k} /\ k \notin 1 .. (k - 1)
  OBVIOUS
<1>2. list[k] \in X
  OBVIOUS
<1>3. Taken(list, k) = Taken(list, k - 1) \union {list[k]}
  BY <1>1 DEF Taken
<1>4. Distinct(list, k) <=> Distinct(list, k - 1) /\ list[k] \notin Taken(list, k - 1)
  BY <1>1 DEF Taken, Distinct
<1> QED
  BY <1>2, <1>3, <1>4

LEMMA TakeAll ==
  ASSUME NEW X, NEW list \in Seq(X)
  PROVE /\ Taken(list, Len(list)) = ToSet(list) /\ ToSet(list) \in SUBSET X
        /\ Distinct(list, Len(list)) <=> NoRepeats(list)
BY DEF Taken, Distinct, ToSet, NoRepeats

-----------------------------------------------------------------------------
(* The loops of Validate                                                   *)

Rule == {"name", "listed twice", "missing files", "target", "not its workload",
         "internal bridges out", "unknown zone", "secret"}

Acc == [seen : SUBSET Word, own : SUBSET Word, bridged : SUBSET ZoneWord,
        findings : SUBSET (ZoneWord \X Rule)]

LEMMA ReportFinds ==
  ASSUME NEW a \in Acc, NEW n \in ZoneWord, NEW rule \in Rule
  PROVE /\ Report(a, <<n, rule>>) \in Acc
        /\ Report(a, <<n, rule>>).findings # {}
        /\ Report(a, <<n, rule>>).seen = a.seen
        /\ Report(a, <<n, rule>>).own = a.own
        /\ Report(a, <<n, rule>>).bridged = a.bridged
<1> DEFINE found == a.findings \union {<<n, rule>>}
<1>1. <<n, rule>> \in ZoneWord \X Rule
  OBVIOUS
<1>2. found \in SUBSET (ZoneWord \X Rule) /\ found # {}
  BY <1>1 DEF Acc
<1>3. Report(a, <<n, rule>>) = [a EXCEPT !.findings = found]
  BY DEF Report
<1> HIDE DEF found
<1> QED
  BY <1>2, <1>3 DEF Acc

\* The workloads of a table.
WorkloadBody(n, q, a, w) == ScanWorkload(n, a, w)

WorkloadsSo(n, q, base, list, k, a) ==
  /\ a \in Acc
  /\ a.bridged = base.bridged
  /\ a.findings = {} <=> /\ base.findings = {}
                         /\ Taken(list, k) \subseteq (WellFormed \cap Complete) \ base.seen
                         /\ Distinct(list, k)
  /\ a.findings = {} => /\ a.own = Taken(list, k)
                        /\ a.seen = base.seen \union Taken(list, k)

WorkloadLoop == INSTANCE FoldProofs WITH Op <- WorkloadBody, Holds <- WorkloadsSo

LEMMA WorkloadsScanned ==
  ASSUME NEW acc \in Acc, NEW n \in ZoneWord, NEW z, z.workloads \in Seq(Word)
  PROVE LET a == ScanWorkloads(acc, n, z)
            listed == ToSet(z.workloads)
        IN /\ a \in Acc
           /\ a.bridged = acc.bridged
           /\ a.findings = {} <=> /\ acc.findings = {}
                                  /\ listed \subseteq (WellFormed \cap Complete) \ acc.seen
                                  /\ NoRepeats(z.workloads)
           /\ a.findings = {} => a.own = listed /\ a.seen = acc.seen \union listed
<1> DEFINE base == [acc EXCEPT !.own = {}]
           list == z.workloads
<1>1. ScanWorkloads(acc, n, z) = WorkloadLoop!Folded(n, n, base, list)
  BY DEF ScanWorkloads, FoldLeft, MapThenFoldSet, Max, WorkloadBody, WorkloadLoop!Folded,
         WorkloadLoop!FoldLeft, WorkloadLoop!MapThenFoldSet, WorkloadLoop!Max
<1>2. base \in Acc /\ base.seen = acc.seen /\ base.bridged = acc.bridged
      /\ base.findings = acc.findings /\ base.own = {}
  BY DEF Acc
<1> HIDE DEF base
<1>a. "name" \in Rule /\ "listed twice" \in Rule /\ "missing files" \in Rule
  BY DEF Rule
<1>3. WorkloadsSo(n, n, base, list, 0, base)
  BY <1>2, TakeNone DEF WorkloadsSo
<1>4. ASSUME NEW k \in 1 .. Len(list), NEW a, WorkloadsSo(n, n, base, list, k - 1, a)
      PROVE WorkloadsSo(n, n, base, list, k, WorkloadBody(n, n, a, list[k]))
  <2>1. PICK w \in Word :
          /\ w = list[k]
          /\ Taken(list, k) = Taken(list, k - 1) \union {w}
          /\ Distinct(list, k) <=> Distinct(list, k - 1) /\ w \notin Taken(list, k - 1)
    BY TakeOne
  <2>b. PICK b : b = ScanWorkload(n, a, w)
    OBVIOUS
  <2>2. a \in Acc
    BY <1>4 DEF WorkloadsSo
  <2>3. CASE w \notin WellFormed
    <3>1. b = Report(a, <<n, "name">>)
      BY <2>b, <2>3 DEF ScanWorkload
    <3>2. b \in Acc /\ b.bridged = a.bridged /\ b.findings # {}
      BY <1>a, <2>2, <3>1, ReportFinds
    <3> QED
      BY <1>4, <2>1, <2>3, <2>b, <3>2 DEF WorkloadsSo, WorkloadBody
  <2>4. CASE w \in WellFormed /\ w \in Seen(a)
    <3>1. b = Report(a, <<n, "listed twice">>)
      BY <2>b, <2>4 DEF ScanWorkload
    <3>2. b \in Acc /\ b.bridged = a.bridged /\ b.findings # {}
      BY <1>a, <2>2, <3>1, ReportFinds
    <3> QED
      BY <1>4, <2>1, <2>4, <2>b, <3>2 DEF WorkloadsSo, WorkloadBody, Seen
  <2>5. CASE w \in WellFormed /\ w \notin Seen(a)
    <3>1. b = [a EXCEPT !.seen = @ \union {w}, !.own = @ \union {w},
                        !.findings = @ \union IF w \in Complete THEN {}
                                              ELSE {<<n, "missing files">>}]
      BY <2>b, <2>5 DEF ScanWorkload
    <3> DEFINE found == IF w \in Complete THEN {} ELSE {<<n, "missing files">>}
    <3>a. found \in SUBSET (ZoneWord \X Rule) /\ (found = {} <=> w \in Complete)
      <4>1. <<n, "missing files">> \in ZoneWord \X Rule
        BY <1>a
      <4>2. CASE w \in Complete
        BY <4>2
      <4>3. CASE w \notin Complete
        BY <4>1, <4>3
      <4> QED
        BY <4>2, <4>3
    <3>b. b = [a EXCEPT !.seen = a.seen \union {w}, !.own = a.own \union {w},
                        !.findings = a.findings \union found]
      BY <3>1
    <3> HIDE DEF found
    <3>2. /\ b \in Acc /\ b.bridged = a.bridged
          /\ b.findings = {} <=> a.findings = {} /\ w \in Complete
          /\ b.own = a.own \union {w} /\ b.seen = a.seen \union {w}
      BY <2>1, <2>2, <3>a, <3>b DEF Acc
    <3> QED
      BY <1>4, <2>1, <2>5, <2>b, <3>2 DEF WorkloadsSo, WorkloadBody, Seen
  <2> QED
    BY <2>3, <2>4, <2>5
<1>5. WorkloadLoop!Round(n, n, base, list)
  BY <1>4 DEF WorkloadLoop!Round
<1>6. WorkloadsSo(n, n, base, list, Len(list), WorkloadLoop!Folded(n, n, base, list))
  BY <1>3, <1>5, WorkloadLoop!FoldInduction
<1> QED
  BY <1>1, <1>2, <1>6, TakeAll DEF WorkloadsSo

\* The targets of one workload's bridges.
Fine(n, list) == ToSet(list) \subseteq RoleNames \ {n} /\ NoRepeats(list)

TargetBody(n, q, a, target) == ScanTarget(n, a, target)

TargetsSo(n, q, base, list, k, a) ==
  /\ a \in [good : SUBSET ZoneWord, bad : BOOLEAN]
  /\ ~a.bad <=> Taken(list, k) \subseteq RoleNames \ {n} /\ Distinct(list, k)
  /\ ~a.bad => a.good = Taken(list, k)

TargetLoop == INSTANCE FoldProofs WITH Op <- TargetBody, Holds <- TargetsSo

LEMMA TargetsScanned ==
  ASSUME NEW n \in ZoneWord, NEW list \in Seq(ZoneWord)
  PROVE LET a == ScanTargets(n, list)
        IN /\ a \in [good : SUBSET ZoneWord, bad : BOOLEAN]
           /\ ~a.bad <=> Fine(n, list)
           /\ ~a.bad => a.good = ToSet(list)
<1> DEFINE base == [good |-> {}, bad |-> FALSE]
<1>1. ScanTargets(n, list) = TargetLoop!Folded(n, n, base, list)
  BY DEF ScanTargets, FoldLeft, MapThenFoldSet, Max, TargetBody, TargetLoop!Folded,
         TargetLoop!FoldLeft, TargetLoop!MapThenFoldSet, TargetLoop!Max
<1>2. base \in [good : SUBSET ZoneWord, bad : BOOLEAN] /\ base.good = {} /\ ~base.bad
  OBVIOUS
<1> HIDE DEF base
<1>3. TargetsSo(n, n, base, list, 0, base)
  BY <1>2, TakeNone DEF TargetsSo
<1>4. ASSUME NEW k \in 1 .. Len(list), NEW a, TargetsSo(n, n, base, list, k - 1, a)
      PROVE TargetsSo(n, n, base, list, k, TargetBody(n, n, a, list[k]))
  <2>1. PICK t \in ZoneWord :
          /\ t = list[k]
          /\ Taken(list, k) = Taken(list, k - 1) \union {t}
          /\ Distinct(list, k) <=> Distinct(list, k - 1) /\ t \notin Taken(list, k - 1)
    BY TakeOne
  <2>2. PICK b : b = ScanTarget(n, a, t)
    OBVIOUS
  <2>3. a \in [good : SUBSET ZoneWord, bad : BOOLEAN]
    BY <1>4 DEF TargetsSo
  <2>4. CASE t \notin RoleNames \/ t = n \/ t \in a.good
    <3>1. b = [a EXCEPT !.bad = TRUE]
      BY <2>2, <2>4 DEF ScanTarget
    <3>2. b \in [good : SUBSET ZoneWord, bad : BOOLEAN] /\ b.bad
      BY <2>3, <3>1
    <3> QED
      BY <1>4, <2>1, <2>2, <2>4, <3>2 DEF TargetsSo, TargetBody
  <2>5. CASE ~(t \notin RoleNames \/ t = n \/ t \in a.good)
    <3>1. b = [a EXCEPT !.good = @ \union {t}]
      BY <2>2, <2>5 DEF ScanTarget
    <3>2. /\ b \in [good : SUBSET ZoneWord, bad : BOOLEAN]
          /\ b.bad = a.bad /\ b.good = a.good \union {t}
      BY <2>1, <2>3, <3>1
    <3> QED
      BY <1>4, <2>1, <2>2, <2>5, <3>2 DEF TargetsSo, TargetBody
  <2> QED
    BY <2>4, <2>5
<1>5. TargetLoop!Round(n, n, base, list)
  BY <1>4 DEF TargetLoop!Round
<1>6. TargetsSo(n, n, base, list, Len(list), TargetLoop!Folded(n, n, base, list))
  BY <1>3, <1>5, TargetLoop!FoldInduction
<1> QED
  BY <1>1, <1>6, TakeAll DEF TargetsSo, Fine

\* A finite set as a list.
LEMMA SetListed ==
  ASSUME NEW S, IsFiniteSet(S)
  PROVE SetToSeq(S) \in Seq(S) /\ ToSet(SetToSeq(S)) = S
<1> DEFINE n == Cardinality(S)
           list == SetToSeq(S)
<1>1. n \in Nat /\ ExistsBijection(1 .. n, S)
  BY FS_CardinalityType
<1>2. \E g \in [1 .. n -> S] : IsInjective(g)
  BY <1>1 DEF ExistsBijection, Bijection, Injection, IsInjective
<1>3. list \in [1 .. n -> S] /\ IsInjective(list)
  BY <1>2 DEF SetToSeq
<1>4. list \in Injection(1 .. n, S)
  BY <1>3 DEF Injection, IsInjective
<1>5. Cardinality(1 .. n) = n
  BY <1>1, FS_Interval
<1>6. list \in Surjection(1 .. n, S)
  BY <1>4, <1>5, FS_Injection
<1>7. DOMAIN list = 1 .. n
  BY <1>3
<1>8. ToSet(list) = S
  BY <1>3, <1>6, <1>7 DEF Surjection, ToSet
<1>9. list \in Seq(S)
  BY <1>1, <1>3
<1> QED
  BY <1>8, <1>9

\* The bridges of a table, and the zones they lead into.
Legal(n, z, own, w) == w \in own /\ ~z.internal /\ Fine(n, z.bridges[w])

Into(z, names) == {q \in ZoneWord : \E w \in names : q \in ToSet(z.bridges[w])}

BridgeBody(n, z, a, w) == ScanBridge(n, z, a, w)

BridgesSo(n, z, base, list, k, a) ==
  /\ a \in Acc
  /\ a.own = base.own /\ a.seen = base.seen
  /\ a.findings = {} <=> /\ base.findings = {}
                         /\ \A w \in Taken(list, k) : Legal(n, z, base.own, w)
  /\ a.findings = {} => a.bridged = base.bridged \union Into(z, Taken(list, k))

BridgeLoop == INSTANCE FoldProofs WITH Op <- BridgeBody, Holds <- BridgesSo

LEMMA BridgesScanned ==
  ASSUME NEW acc \in Acc, NEW n \in ZoneWord, NEW z, IsTable(z)
  PROVE LET a == ScanBridges(acc, n, z)
        IN /\ a \in Acc
           /\ a.own = acc.own /\ a.seen = acc.seen
           /\ a.findings = {} <=> /\ acc.findings = {}
                                  /\ \A w \in DOMAIN z.bridges : Legal(n, z, acc.own, w)
           /\ a.findings = {} => a.bridged = acc.bridged \union Into(z, DOMAIN z.bridges)
<1> DEFINE names == DOMAIN z.bridges
           list == SetToSeq(names)
<1>1. ScanBridges(acc, n, z) = BridgeLoop!Folded(n, z, acc, list)
  BY DEF ScanBridges, FoldLeft, MapThenFoldSet, Max, BridgeBody, BridgeLoop!Folded,
         BridgeLoop!FoldLeft, BridgeLoop!MapThenFoldSet, BridgeLoop!Max
<1>2. list \in Seq(names) /\ ToSet(list) = names /\ names \subseteq Word
  BY SetListed DEF IsTable
<1>3. \A w \in names : z.bridges[w] \in Seq(ZoneWord)
  BY DEF IsTable
<1>4. z.internal \in BOOLEAN
  BY DEF IsTable
<1> HIDE DEF list, names
<1>5. BridgesSo(n, z, acc, list, 0, acc)
  BY TakeNone DEF BridgesSo, Into, Acc
<1>6. ASSUME NEW k \in 1 .. Len(list), NEW a, BridgesSo(n, z, acc, list, k - 1, a)
      PROVE BridgesSo(n, z, acc, list, k, BridgeBody(n, z, a, list[k]))
  <2>1. PICK w \in names : w = list[k] /\ Taken(list, k) = Taken(list, k - 1) \union {w}
    BY <1>2, TakeOne
  <2>2. PICK b : b = ScanBridge(n, z, a, w)
    OBVIOUS
  <2>3. a \in Acc /\ a.own = acc.own /\ w \in Word
    BY <1>2, <1>6 DEF BridgesSo
  <2>4. "not its workload" \in Rule /\ "internal bridges out" \in Rule /\ "target" \in Rule
    BY DEF Rule
  <2>5. PICK scanned \in [good : SUBSET ZoneWord, bad : BOOLEAN] :
          /\ scanned = ScanTargets(n, z.bridges[w])
          /\ ~scanned.bad <=> Fine(n, z.bridges[w])
          /\ ~scanned.bad => scanned.good = ToSet(z.bridges[w])
    BY <1>3, TargetsScanned
  <2>6. CASE w \notin a.own
    <3>1. b = Report(a, <<n, "not its workload">>)
      BY <2>2, <2>6 DEF ScanBridge
    <3>2. b \in Acc /\ b.own = a.own /\ b.seen = a.seen /\ b.findings # {}
      BY <2>3, <2>4, <3>1, ReportFinds
    <3> QED
      BY <1>6, <2>1, <2>2, <2>3, <2>6, <3>2 DEF BridgesSo, BridgeBody, Legal
  <2>7. CASE w \in a.own /\ z.internal
    <3>1. b = Report(a, <<n, "internal bridges out">>)
      BY <2>2, <2>7 DEF ScanBridge
    <3>2. b \in Acc /\ b.own = a.own /\ b.seen = a.seen /\ b.findings # {}
      BY <2>3, <2>4, <3>1, ReportFinds
    <3> QED
      BY <1>6, <2>1, <2>2, <2>3, <2>7, <3>2 DEF BridgesSo, BridgeBody, Legal
  <2>8. CASE w \in a.own /\ ~z.internal
    <3> DEFINE found == IF scanned.bad THEN {<<n, "target">>} ELSE {}
    <3>1. found \in SUBSET (ZoneWord \X Rule) /\ (found = {} <=> ~scanned.bad)
      <4>1. <<n, "target">> \in ZoneWord \X Rule
        BY <2>4
      <4>2. CASE scanned.bad
        BY <4>1, <4>2
      <4>3. CASE ~scanned.bad
        BY <4>3
      <4> QED
        BY <4>2, <4>3
    <3>2. b = [a EXCEPT !.bridged = a.bridged \union scanned.good,
                        !.findings = a.findings \union found]
      BY <2>2, <2>5, <2>8 DEF ScanBridge
    <3> HIDE DEF found
    <3>3. /\ b \in Acc /\ b.own = a.own /\ b.seen = a.seen
          /\ b.findings = {} <=> a.findings = {} /\ ~scanned.bad
          /\ b.bridged = a.bridged \union scanned.good
      BY <2>3, <3>1, <3>2 DEF Acc
    <3>4. ~scanned.bad => Into(z, Taken(list, k)) = Into(z, Taken(list, k - 1)) \union scanned.good
      BY <2>1, <2>5 DEF Into
    <3> QED
      BY <1>6, <2>1, <2>2, <2>3, <2>5, <2>8, <3>3, <3>4 DEF BridgesSo, BridgeBody, Legal
  <2> QED
    BY <1>4, <2>6, <2>7, <2>8
<1>7. BridgeLoop!Round(n, z, acc, list)
  BY <1>6 DEF BridgeLoop!Round
<1>8. BridgesSo(n, z, acc, list, Len(list), BridgeLoop!Folded(n, z, acc, list))
  BY <1>2, <1>5, <1>7, BridgeLoop!FoldInduction
<1>9. Taken(list, Len(list)) = names
  BY <1>2, TakeAll
<1> QED
  BY <1>1, <1>8, <1>9 DEF BridgesSo, names

\* One table: what Validate asks of it by itself.
SoundZone(f, n) ==
  LET z == f.zones[n] IN
  /\ n \in RoleNames
  /\ ToSet(z.workloads) \subseteq WellFormed \cap Complete /\ NoRepeats(z.workloads)
  /\ \A w \in DOMAIN z.bridges : Legal(n, z, ToSet(z.workloads), w)

LEMMA ZoneScanned ==
  ASSUME NEW f, IsFile(f), NEW acc \in Acc, NEW n \in DOMAIN f.zones
  PROVE LET a == ScanZone(f, acc, n)
            z == f.zones[n]
        IN /\ a \in Acc
           /\ a.findings = {} <=> /\ acc.findings = {} /\ SoundZone(f, n)
                                  /\ ToSet(z.workloads) \cap acc.seen = {}
           /\ a.findings = {} =>
                /\ a.seen = acc.seen \union ToSet(z.workloads)
                /\ a.bridged = acc.bridged \union Into(z, DOMAIN z.bridges)
<1> DEFINE z == f.zones[n]
<1>1. n \in ZoneWord /\ IsTable(z) /\ z.workloads \in Seq(Word)
  BY DEF IsFile, IsTable
<1> HIDE DEF z
<1>2. PICK named : named = IF n \in RoleNames THEN acc ELSE Report(acc, <<n, "unknown zone">>)
  OBVIOUS
<1>3. "unknown zone" \in Rule
  BY DEF Rule
<1>4. /\ named \in Acc
      /\ named.seen = acc.seen /\ named.bridged = acc.bridged
      /\ named.findings = {} <=> acc.findings = {} /\ n \in RoleNames
  BY <1>1, <1>2, <1>3, ReportFinds
<1>5. PICK a : a = ScanWorkloads(named, n, z)
  OBVIOUS
<1>6. /\ a \in Acc
      /\ a.bridged = named.bridged
      /\ a.findings = {} <=> /\ named.findings = {}
                             /\ ToSet(z.workloads) \subseteq (WellFormed \cap Complete) \ named.seen
                             /\ NoRepeats(z.workloads)
      /\ a.findings = {} => a.own = ToSet(z.workloads) /\ a.seen = named.seen \union ToSet(z.workloads)
  BY <1>1, <1>4, <1>5, WorkloadsScanned
<1>7. PICK b : b = ScanBridges(a, n, z)
  OBVIOUS
<1>8. /\ b \in Acc
      /\ b.own = a.own /\ b.seen = a.seen
      /\ b.findings = {} <=> a.findings = {} /\ \A w \in DOMAIN z.bridges : Legal(n, z, a.own, w)
      /\ b.findings = {} => b.bridged = a.bridged \union Into(z, DOMAIN z.bridges)
  BY <1>1, <1>6, <1>7, BridgesScanned
<1>9. ScanZone(f, acc, n) = b
  BY <1>2, <1>5, <1>7 DEF ScanZone, z
<1> QED
  BY <1>4, <1>6, <1>8, <1>9 DEF SoundZone, z

\* The loader's order is one: of two zones one comes before the other.
LEMMA BeforeIsOrder ==
  /\ \A n \in ZoneWord : ~Before(n, n)
  /\ \A n, m \in ZoneWord : n # m => Before(n, m) \/ Before(m, n)
  /\ \A n, m, k \in ZoneWord : Before(n, m) /\ Before(m, k) => Before(n, k)
<1>1. \A n \in ZoneWord : RoleRank(n) \in Int
  <2> TAKE n \in ZoneWord
  <2>1. CASE n \in RoleNames
    <3>1. \E r \in T!Role : RoleName[r] = n
      BY <2>1 DEF RoleNames
    <3>2. RoleRank(n) \in T!Role
      BY <2>1, <3>1 DEF RoleRank
    <3> QED
      BY <3>2 DEF T!Role, T!Infra, T!Agent
  <2>2. CASE n \notin RoleNames
    BY <2>2 DEF RoleRank
  <2> QED
    BY <2>1, <2>2
<1>2. \A n \in ZoneWord : WordRank[n] \in Int
  BY ConfigurationAssumption
<1> QED
  BY <1>1, <1>2, ConfigurationAssumption DEF Before

LEMMA Latest ==
  ASSUME NEW D \in SUBSET ZoneWord, IsFiniteSet(D), D # {}
  PROVE \E m \in D : \A x \in D : x # m => Before(x, m)
<1> DEFINE HasLatest(S) == S # {} => \E m \in S : \A x \in S : x # m => Before(x, m)
           c == Cardinality(D)
           K == {k \in 0 .. c : \A S \in SUBSET D : Cardinality(S) = k => HasLatest(S)}
<1>1. c \in Nat /\ \A S \in SUBSET D : IsFiniteSet(S)
  BY FS_CardinalityType, FS_Subset
<1>2. 0 \in K
  <2>1. \A S \in SUBSET D : Cardinality(S) = 0 => S = {}
    BY <1>1, FS_EmptySet
  <2>2. 0 \in 0 .. c
    BY <1>1
  <2> QED
    BY <2>1, <2>2
<1>3. ASSUME NEW k \in K, k < c PROVE k + 1 \in K
  <2>1. k + 1 \in 0 .. c /\ k \in Nat
    BY <1>1, <1>3
  <2>2. ASSUME NEW S \in SUBSET D, Cardinality(S) = k + 1, S # {} PROVE HasLatest(S)
    <3>1. PICK y \in S : TRUE
      BY <2>2
    <3> DEFINE R == S \ {y}
    <3>2. R \in SUBSET D /\ Cardinality(R) = k
      <4>1. Cardinality(S \ {y}) = (k + 1) - 1
        BY <1>1, <2>2, FS_RemoveElement
      <4> QED
        BY <2>1, <4>1
    <3>3. HasLatest(R)
      BY <1>3, <3>2
    <3>4. S = R \union {y} /\ y \notin R /\ S \subseteq ZoneWord
      BY <3>1
    <3>5. CASE R = {}
      BY <3>4, <3>5
    <3>6. CASE R # {}
      <4>1. PICK m \in R : \A x \in R : x # m => Before(x, m)
        BY <3>3, <3>6
      <4>2. CASE Before(y, m)
        BY <3>4, <4>1, <4>2
      <4>3. CASE Before(m, y)
        <5>1. \A x \in R : Before(x, y)
          BY <3>4, <4>1, <4>3, BeforeIsOrder
        <5> QED
          BY <3>4, <5>1
      <4> QED
        BY <3>4, <4>1, <4>2, <4>3, BeforeIsOrder
    <3> QED
      BY <3>5, <3>6
  <2> QED
    BY <2>1, <2>2
<1>4. K \in SUBSET (0 .. c)
  OBVIOUS
<1> HIDE DEF K
<1>5. K = 0 .. c
  BY <1>1, <1>2, <1>3, <1>4, WorkloadLoop!UpTo
<1>6. c \in K
  BY <1>1, <1>5
<1> QED
  BY <1>6 DEF K

Sorted(list, D) ==
  /\ list \in [1 .. Cardinality(D) -> D]
  /\ \A i, j \in 1 .. Cardinality(D) : i < j => Before(list[i], list[j])

LEMMA CanSort ==
  ASSUME NEW D \in SUBSET ZoneWord, IsFiniteSet(D)
  PROVE \E list : Sorted(list, D)
<1> DEFINE c == Cardinality(D)
           K == {k \in 0 .. c : \A S \in SUBSET D : Cardinality(S) = k => \E list : Sorted(list, S)}
<1>1. c \in Nat /\ \A S \in SUBSET D : IsFiniteSet(S)
  BY FS_CardinalityType, FS_Subset
<1>2. 0 \in K
  <2>1. ASSUME NEW S \in SUBSET D, Cardinality(S) = 0 PROVE Sorted(<<>>, S)
    BY <2>1 DEF Sorted
  <2>2. 0 \in 0 .. c
    BY <1>1
  <2> QED
    BY <2>1, <2>2
<1>3. ASSUME NEW k \in K, k < c PROVE k + 1 \in K
  <2>1. k + 1 \in 0 .. c /\ k \in Nat
    BY <1>1, <1>3
  <2>2. ASSUME NEW S \in SUBSET D, Cardinality(S) = k + 1 PROVE \E list : Sorted(list, S)
    <3>1. IsFiniteSet(S) /\ S # {} /\ S \subseteq ZoneWord
      BY <1>1, <2>1, <2>2, FS_EmptySet
    <3>2. PICK m \in S : \A x \in S : x # m => Before(x, m)
      BY <3>1, Latest
    <3> DEFINE R == S \ {m}
    <3>3. R \in SUBSET D /\ Cardinality(R) = k
      <4>1. Cardinality(S \ {m}) = (k + 1) - 1
        BY <2>2, <3>1, FS_RemoveElement
      <4> QED
        BY <2>1, <4>1
    <3>4. PICK list : Sorted(list, R)
      BY <1>3, <3>3
    <3> DEFINE longer == [i \in 1 .. (k + 1) |-> IF i = k + 1 THEN m ELSE list[i]]
    <3>a. \A i \in 1 .. (k + 1) : i # k + 1 => i \in 1 .. k
      BY <2>1
    <3>b. list \in [1 .. k -> R] /\ \A i, j \in 1 .. k : i < j => Before(list[i], list[j])
      BY <3>3, <3>4 DEF Sorted
    <3> HIDE DEF K
    <3>5. longer \in [1 .. (k + 1) -> S]
      BY <3>a, <3>b
    <3>6. ASSUME NEW i \in 1 .. (k + 1), NEW j \in 1 .. (k + 1), i < j
          PROVE Before(longer[i], longer[j])
      <4>1. i \in 1 .. k /\ i # k + 1 /\ longer[i] = list[i] /\ list[i] \in R
        <5>1. i # k + 1
          BY <2>1, <3>6
        <5> QED
          BY <3>a, <3>b, <5>1
      <4>2. CASE j = k + 1
        BY <3>2, <4>1, <4>2
      <4>3. CASE j # k + 1
        <5>1. j \in 1 .. k /\ longer[j] = list[j]
          BY <3>a, <4>3
        <5> QED
          BY <3>b, <3>6, <4>1, <5>1
      <4> QED
        BY <4>2, <4>3
    <3> HIDE DEF longer
    <3>7. Sorted(longer, S)
      BY <2>2, <3>5, <3>6 DEF Sorted
    <3> QED
      BY <3>7
  <2> QED
    BY <2>1, <2>2
<1>4. K \in SUBSET (0 .. c)
  OBVIOUS
<1> HIDE DEF K
<1>5. K = 0 .. c
  BY <1>1, <1>2, <1>3, <1>4, WorkloadLoop!UpTo
<1>6. c \in K
  BY <1>1, <1>5
<1> QED
  BY <1>6 DEF K

\* The tables, each once.
LEMMA ZonesOrdered ==
  ASSUME NEW f, IsFile(f)
  PROVE /\ ZoneOrder(f) \in Seq(DOMAIN f.zones)
        /\ ToSet(ZoneOrder(f)) = DOMAIN f.zones
        /\ NoRepeats(ZoneOrder(f))
<1> DEFINE D == DOMAIN f.zones
           n == Cardinality(D)
           list == ZoneOrder(f)
<1>1. D \in SUBSET ZoneWord /\ IsFiniteSet(D) /\ n \in Nat
  BY FS_CardinalityType DEF IsFile
<1>2. PICK sorted : Sorted(sorted, D)
  BY <1>1, CanSort
<1>3. \E it \in [1 .. n -> D] : \A i, j \in DOMAIN it : i < j => Before(it[i], it[j])
  BY <1>2 DEF Sorted
<1>4. list \in [1 .. n -> D] /\ \A i, j \in DOMAIN list : i < j => Before(list[i], list[j])
  BY <1>3 DEF ZoneOrder
<1> HIDE DEF list
<1>5. \A i, j \in 1 .. n : list[i] = list[j] => i = j
  <2> SUFFICES ASSUME NEW i \in 1 .. n, NEW j \in 1 .. n, list[i] = list[j], i < j PROVE FALSE
    BY <1>1
  <2>1. Before(list[i], list[j]) /\ list[i] \in ZoneWord
    BY <1>1, <1>4
  <2> QED
    BY <2>1, BeforeIsOrder
<1>6. list \in Injection(1 .. n, D)
  BY <1>4, <1>5 DEF Injection, IsInjective
<1>7. Cardinality(1 .. n) = n
  BY <1>1, FS_Interval
<1>8. list \in Surjection(1 .. n, D)
  BY <1>1, <1>6, <1>7, FS_Injection
<1>9. ToSet(list) = D
  BY <1>4, <1>8 DEF Surjection, ToSet
<1>10. list \in Seq(D) /\ NoRepeats(list)
  BY <1>1, <1>4, <1>5 DEF NoRepeats
<1> QED
  BY <1>9, <1>10 DEF list

\* All the tables.
Listed(f, n) == ToSet(f.zones[n].workloads)

BridgedFrom(f, names) == {q \in ZoneWord : \E n \in names : q \in Into(f.zones[n], DOMAIN f.zones[n].bridges)}

Apart(f, list, k) ==
  \A i, j \in 1 .. k : i # j => Listed(f, list[i]) \cap Listed(f, list[j]) = {}

ZoneBody(f, q, a, n) == ScanZone(f, a, n)

ZonesSo(f, q, base, list, k, a) ==
  /\ a \in Acc
  /\ a.findings = {} <=> (\A n \in Taken(list, k) : SoundZone(f, n)) /\ Apart(f, list, k)
  /\ a.findings = {} => /\ a.seen = UNION {Listed(f, n) : n \in Taken(list, k)}
                        /\ a.bridged = BridgedFrom(f, Taken(list, k))

ZoneLoop == INSTANCE FoldProofs WITH Op <- ZoneBody, Holds <- ZonesSo

LEMMA ZonesScanned ==
  ASSUME NEW f, IsFile(f)
  PROVE /\ ScanZones(f) \in Acc
        /\ ScanZones(f).findings = {} <=>
             /\ \A n \in DOMAIN f.zones : SoundZone(f, n)
             /\ \A n, m \in DOMAIN f.zones : n # m => Listed(f, n) \cap Listed(f, m) = {}
        /\ ScanZones(f).findings = {} => ScanZones(f).bridged = BridgedFrom(f, DOMAIN f.zones)
<1> DEFINE base == [seen |-> {}, own |-> {}, bridged |-> {}, findings |-> {}]
           list == ZoneOrder(f)
           D == DOMAIN f.zones
<1>1. ScanZones(f) = ZoneLoop!Folded(f, f, base, list)
  BY DEF ScanZones, FoldLeft, MapThenFoldSet, Max, ZoneBody, ZoneLoop!Folded,
         ZoneLoop!FoldLeft, ZoneLoop!MapThenFoldSet, ZoneLoop!Max
<1>2. list \in Seq(D) /\ ToSet(list) = D /\ NoRepeats(list)
  BY ZonesOrdered
<1>3. base \in Acc /\ base.seen = {} /\ base.bridged = {} /\ base.findings = {}
  BY DEF Acc
<1> HIDE DEF base, list, D
<1>4. ZonesSo(f, f, base, list, 0, base)
  <2>1. Apart(f, list, 0)
    BY DEF Apart
  <2>2. BridgedFrom(f, {}) = {}
    BY DEF BridgedFrom
  <2> QED
    BY <1>3, <2>1, <2>2, TakeNone DEF ZonesSo
<1>5. ASSUME NEW k \in 1 .. Len(list), NEW a, ZonesSo(f, f, base, list, k - 1, a)
      PROVE ZonesSo(f, f, base, list, k, ZoneBody(f, f, a, list[k]))
  <2>1. PICK n \in D : n = list[k] /\ Taken(list, k) = Taken(list, k - 1) \union {n}
    BY <1>2, TakeOne
  <2>2. PICK b : b = ScanZone(f, a, n)
    OBVIOUS
  <2>3. a \in Acc
    BY <1>5 DEF ZonesSo
  <2>4. /\ b \in Acc
        /\ b.findings = {} <=> a.findings = {} /\ SoundZone(f, n) /\ Listed(f, n) \cap a.seen = {}
        /\ b.findings = {} =>
             /\ b.seen = a.seen \union Listed(f, n)
             /\ b.bridged = a.bridged \union Into(f.zones[n], DOMAIN f.zones[n].bridges)
    BY <2>1, <2>2, <2>3, ZoneScanned DEF Listed, D
  <2>5. Apart(f, list, k) <=>
          /\ Apart(f, list, k - 1)
          /\ \A m \in Taken(list, k - 1) : Listed(f, n) \cap Listed(f, m) = {}
    <3>1. 1 .. k = (1 .. (k - 1)) \union {k} /\ k \notin 1 .. (k - 1)
      BY <1>2
    <3> DEFINE Disj(i, j) == Listed(f, list[i]) \cap Listed(f, list[j]) = {}
    <3>2. \A i, j : Disj(i, j) <=> Disj(j, i)
      OBVIOUS
    <3>3. (\A m \in Taken(list, k - 1) : Listed(f, n) \cap Listed(f, m) = {})
            <=> \A i \in 1 .. (k - 1) : Disj(k, i)
      BY <2>1 DEF Taken
    <3> HIDE DEF Disj
    <3>4. (\A i, j \in 1 .. k : i # j => Disj(i, j))
            <=> /\ \A i, j \in 1 .. (k - 1) : i # j => Disj(i, j)
                /\ \A i \in 1 .. (k - 1) : Disj(k, i)
      BY <3>1, <3>2
    <3> QED
      BY <3>3, <3>4 DEF Apart, Disj
  <2>6. a.findings = {} =>
          /\ a.seen = UNION {Listed(f, m) : m \in Taken(list, k - 1)}
          /\ a.bridged = BridgedFrom(f, Taken(list, k - 1))
    BY <1>5 DEF ZonesSo
  <2>7. a.findings = {} =>
          (Listed(f, n) \cap a.seen = {}
             <=> \A m \in Taken(list, k - 1) : Listed(f, n) \cap Listed(f, m) = {})
    BY <2>6
  <2>8. a.findings = {} => a.seen \union Listed(f, n) = UNION {Listed(f, m) : m \in Taken(list, k)}
    BY <2>1, <2>6
  <2>9. a.findings = {} => a.bridged \union Into(f.zones[n], DOMAIN f.zones[n].bridges)
                             = BridgedFrom(f, Taken(list, k))
    BY <2>1, <2>6 DEF BridgedFrom, Into
  <2> QED
    BY <1>5, <2>1, <2>2, <2>4, <2>5, <2>7, <2>8, <2>9 DEF ZonesSo, ZoneBody
<1>6. ZoneLoop!Round(f, f, base, list)
  BY <1>5 DEF ZoneLoop!Round
<1>7. ZonesSo(f, f, base, list, Len(list), ZoneLoop!Folded(f, f, base, list))
  BY <1>2, <1>4, <1>6, ZoneLoop!FoldInduction
<1>8. Taken(list, Len(list)) = D
  BY <1>2, TakeAll
<1>9. Apart(f, list, Len(list)) <=> \A n, m \in D : n # m => Listed(f, n) \cap Listed(f, m) = {}
  <2>1. DOMAIN list = 1 .. Len(list)
    BY <1>2
  <2>2. \A i \in 1 .. Len(list) : list[i] \in D
    BY <1>2
  <2>3. \A n \in D : \E i \in 1 .. Len(list) : list[i] = n
    BY <1>2, <2>1 DEF ToSet
  <2>4. \A i, j \in 1 .. Len(list) : list[i] = list[j] => i = j
    BY <1>2, <2>1 DEF NoRepeats
  <2> QED
    BY <2>2, <2>3, <2>4 DEF Apart
<1> QED
  BY <1>1, <1>7, <1>8, <1>9 DEF ZonesSo, D

-----------------------------------------------------------------------------
(* The loops of NewCatalogue                                               *)

Entry == [source : {"generated", "minted", "user"}, zones : SUBSET T!Role]

IsCatalogue(e) ==
  /\ DOMAIN e \in SUBSET SecretWord /\ e = [s \in DOMAIN e |-> e[s]]
  /\ \A s \in DOMAIN e : e[s] \in Entry

IsMerge(a) ==
  /\ a \in [entries : {a.entries}, own : SUBSET SecretWord,
            findings : SUBSET (ZoneWord \X Rule)]
  /\ IsCatalogue(a.entries)

LEMMA MergeReportFinds ==
  ASSUME NEW a, IsMerge(a), NEW n \in ZoneWord, NEW rule \in Rule
  PROVE IsMerge(Report(a, <<n, rule>>)) /\ Report(a, <<n, rule>>).findings # {}
<1> DEFINE found == a.findings \union {<<n, rule>>}
<1>1. <<n, rule>> \in ZoneWord \X Rule
  OBVIOUS
<1>2. found \in SUBSET (ZoneWord \X Rule) /\ found # {}
  BY <1>1 DEF IsMerge
<1>3. Report(a, <<n, rule>>) = [a EXCEPT !.findings = found]
  BY DEF Report
<1> HIDE DEF found
<1> QED
  BY <1>2, <1>3 DEF IsMerge

\* What the entries are once a zone's secrets are among them.
Extended(e, names, r) ==
  [s \in DOMAIN e \union names |->
     IF s \in names THEN [source |-> "user", zones |-> ZonesWith(e, s, r)] ELSE e[s]]

LEMMA ExtendOne ==
  ASSUME NEW e, IsCatalogue(e), NEW names \in SUBSET SecretWord, NEW s \in SecretWord,
         s \notin names, NEW r \in T!Role
  PROVE With(Extended(e, names, r), s,
             [source |-> "user", zones |-> ZonesWith(Extended(e, names, r), s, r)])
          = Extended(e, names \union {s}, r)
<1>1. ZonesWith(Extended(e, names, r), s, r) = ZonesWith(e, s, r)
  BY DEF ZonesWith, Extended
<1> QED
  BY <1>1 DEF With, Extended

LEMMA ExtendNone ==
  ASSUME NEW e, IsCatalogue(e), NEW r
  PROVE Extended(e, {}, r) = e
BY DEF Extended, IsCatalogue

LEMMA ZonesWithType ==
  ASSUME NEW e, IsCatalogue(e), NEW s, NEW r \in T!Role
  PROVE ZonesWith(e, s, r) \in SUBSET T!Role
BY DEF ZonesWith, IsCatalogue, Entry

LEMMA WithCatalogue ==
  ASSUME NEW e, IsCatalogue(e), NEW s \in SecretWord, NEW it \in Entry
  PROVE IsCatalogue(With(e, s, it))
BY DEF With, IsCatalogue

\* The secrets of a table.
SecretBody(r, q, a, s) == AddSecret(r, a, s)

SecretsSo(r, q, base, list, k, a) ==
  /\ IsMerge(a)
  /\ a.findings = {} <=> /\ base.findings = {}
                         /\ Taken(list, k) \subseteq DnsLabel \ Builtin
                         /\ Distinct(list, k)
  /\ a.findings = {} => /\ a.own = Taken(list, k)
                        /\ a.entries = Extended(base.entries, Taken(list, k), r)

SecretLoop == INSTANCE FoldProofs WITH Op <- SecretBody, Holds <- SecretsSo

DeclaredIn(f, r) == IF RoleName[r] \in DOMAIN f.zones THEN ToSet(f.zones[RoleName[r]].secrets) ELSE {}

SoundSecrets(f, r) ==
  RoleName[r] \in DOMAIN f.zones =>
    /\ DeclaredIn(f, r) \subseteq DnsLabel \ Builtin
    /\ NoRepeats(f.zones[RoleName[r]].secrets)

LEMMA ZoneAdded ==
  ASSUME NEW f, IsFile(f), NEW acc, IsMerge(acc), NEW r \in T!Role
  PROVE LET a == AddZone(f, acc, r)
        IN /\ IsMerge(a)
           /\ a.findings = {} <=> acc.findings = {} /\ SoundSecrets(f, r)
           /\ a.findings = {} => a.entries = Extended(acc.entries, DeclaredIn(f, r), r)
<1>1. CASE RoleName[r] \notin DOMAIN f.zones
  <2>1. AddZone(f, acc, r) = acc
    BY <1>1 DEF AddZone
  <2>2. Extended(acc.entries, {}, r) = acc.entries
    BY ExtendNone DEF IsMerge
  <2> QED
    BY <1>1, <2>1, <2>2 DEF SoundSecrets, DeclaredIn
<1>2. CASE RoleName[r] \in DOMAIN f.zones
  <2> DEFINE base == [acc EXCEPT !.own = {}]
             list == f.zones[RoleName[r]].secrets
  <2>1. AddZone(f, acc, r) = SecretLoop!Folded(r, r, base, list)
    BY <1>2 DEF AddZone, FoldLeft, MapThenFoldSet, Max, SecretBody, SecretLoop!Folded,
                SecretLoop!FoldLeft, SecretLoop!MapThenFoldSet, SecretLoop!Max
  <2>2. list \in Seq(SecretWord) /\ RoleName[r] \in ZoneWord
    BY <1>2, ConfigurationAssumption DEF IsFile, IsTable
  <2>3. IsMerge(base) /\ base.findings = acc.findings /\ base.own = {} /\ base.entries = acc.entries
    BY DEF IsMerge
  <2> HIDE DEF base, list
  <2>4. SecretsSo(r, r, base, list, 0, base)
    <3>1. Extended(base.entries, {}, r) = base.entries
      BY <2>3, ExtendNone DEF IsMerge
    <3> QED
      BY <2>3, <3>1, TakeNone DEF SecretsSo
  <2>5. ASSUME NEW k \in 1 .. Len(list), NEW a, SecretsSo(r, r, base, list, k - 1, a)
        PROVE SecretsSo(r, r, base, list, k, SecretBody(r, r, a, list[k]))
    <3>1. PICK s \in SecretWord :
            /\ s = list[k]
            /\ Taken(list, k) = Taken(list, k - 1) \union {s}
            /\ Distinct(list, k) <=> Distinct(list, k - 1) /\ s \notin Taken(list, k - 1)
      BY <2>2, TakeOne
    <3>2. PICK b : b = AddSecret(r, a, s)
      OBVIOUS
    <3>3. IsMerge(a)
      BY <2>5 DEF SecretsSo
    <3>4. CASE s \notin DnsLabel \/ s \in Builtin \/ s \in a.own
      <4>1. b = Report(a, <<RoleName[r], "secret">>)
        BY <3>2, <3>4 DEF AddSecret
      <4>2. "secret" \in Rule
        BY DEF Rule
      <4>3. IsMerge(b) /\ b.findings # {}
        BY <2>2, <3>3, <4>1, <4>2, MergeReportFinds
      <4> QED
        BY <2>5, <3>1, <3>2, <3>4, <4>3 DEF SecretsSo, SecretBody
    <3>5. CASE ~(s \notin DnsLabel \/ s \in Builtin \/ s \in a.own)
      <4> DEFINE it == [source |-> "user", zones |-> ZonesWith(a.entries, s, r)]
                 e  == With(a.entries, s, it)
      <4>1. b = [a EXCEPT !.own = a.own \union {s}, !.entries = e]
        BY <3>2, <3>5 DEF AddSecret
      <4>2. it \in Entry
        BY <3>3, ZonesWithType DEF Entry, IsMerge
      <4> HIDE DEF it
      <4>3. IsCatalogue(e)
        BY <3>1, <3>3, <4>2, WithCatalogue DEF IsMerge
      <4> HIDE DEF e
      <4>4. IsMerge(b) /\ b.findings = a.findings /\ b.own = a.own \union {s} /\ b.entries = e
        BY <3>1, <3>3, <4>1, <4>3 DEF IsMerge
      <4>5. ASSUME a.findings = {} PROVE e = Extended(base.entries, Taken(list, k), r)
        <5>1. a.own = Taken(list, k - 1) /\ a.entries = Extended(base.entries, Taken(list, k - 1), r)
          BY <2>5, <4>5 DEF SecretsSo
        <5>2. Taken(list, k - 1) \in SUBSET SecretWord
          BY <3>3, <5>1 DEF IsMerge
        <5> QED
          BY <2>3, <3>1, <3>5, <5>1, <5>2, ExtendOne DEF e, it, IsMerge
      <4> QED
        BY <2>5, <3>1, <3>2, <3>5, <4>4, <4>5 DEF SecretsSo, SecretBody
    <3> QED
      BY <3>4, <3>5
  <2>6. SecretLoop!Round(r, r, base, list)
    BY <2>5 DEF SecretLoop!Round
  <2>7. SecretsSo(r, r, base, list, Len(list), SecretLoop!Folded(r, r, base, list))
    BY <2>2, <2>4, <2>6, SecretLoop!FoldInduction
  <2> QED
    BY <1>2, <2>1, <2>2, <2>3, <2>7, TakeAll DEF SecretsSo, SoundSecrets, DeclaredIn, list
<1> QED
  BY <1>1, <1>2

\* What the entries are once the zones of some roles have been added.
DeclaredBy(f, roles) == {s \in SecretWord : \E r \in roles : s \in DeclaredIn(f, r)}

Collected(f, roles) ==
  [s \in Builtin \union DeclaredBy(f, roles) |->
     IF s \in Builtin THEN BuiltinEntries[s]
     ELSE [source |-> "user", zones |-> {r \in roles : s \in DeclaredIn(f, r)}]]

LEMMA CollectOne ==
  ASSUME NEW f, IsFile(f), NEW roles \in SUBSET T!Role, NEW r \in T!Role, SoundSecrets(f, r)
  PROVE Extended(Collected(f, roles), DeclaredIn(f, r), r) = Collected(f, roles \union {r})
<1> DEFINE names == DeclaredIn(f, r)
           e == Collected(f, roles)
           more == Collected(f, roles \union {r})
<1>1. names \in SUBSET SecretWord /\ names \cap Builtin = {}
  BY ConfigurationAssumption DEF SoundSecrets, DeclaredIn
<1>2. DeclaredBy(f, roles \union {r}) = DeclaredBy(f, roles) \union names
  BY <1>1 DEF DeclaredBy
<1>3. DOMAIN e = Builtin \union DeclaredBy(f, roles)
      /\ DOMAIN more = Builtin \union DeclaredBy(f, roles) \union names
  BY <1>2 DEF Collected
<1>4. ASSUME NEW s \in names PROVE [source |-> "user", zones |-> ZonesWith(e, s, r)] = more[s]
  <2>1. s \notin Builtin /\ s \in SecretWord /\ s \in DeclaredIn(f, r)
    BY <1>1
  <2>2. more[s] = [source |-> "user", zones |-> {q \in roles \union {r} : s \in DeclaredIn(f, q)}]
    BY <1>2, <2>1 DEF Collected
  <2>3. s \in DOMAIN e => e[s].zones = {q \in roles : s \in DeclaredIn(f, q)}
    BY <1>3, <2>1 DEF Collected
  <2>4. s \notin DOMAIN e => {q \in roles : s \in DeclaredIn(f, q)} = {}
    BY <1>3, <2>1 DEF DeclaredBy
  <2> HIDE DEF e
  <2>5. ZonesWith(e, s, r) = {q \in roles \union {r} : s \in DeclaredIn(f, q)}
    BY <2>1, <2>3, <2>4 DEF ZonesWith
  <2> QED
    BY <2>2, <2>5
<1>5. ASSUME NEW s \in DOMAIN e, s \notin names PROVE e[s] = more[s]
  <2>1. {q \in roles \union {r} : s \in DeclaredIn(f, q)} = {q \in roles : s \in DeclaredIn(f, q)}
    BY <1>5
  <2> QED
    BY <1>2, <1>5, <2>1 DEF Collected
<1>6. more = [s \in DOMAIN more |-> more[s]]
  BY DEF Collected
<1> HIDE DEF e, more, names
<1> QED
  BY <1>3, <1>4, <1>5, <1>6 DEF Extended, names, e, more

\* The tables of the three roles.
MergeBody(f, q, acc, r) == AddZone(f, acc, r)

MergeSo(f, q, base, list, k, a) ==
  /\ IsMerge(a)
  /\ a.findings = {} <=> \A r \in Taken(list, k) : SoundSecrets(f, r)
  /\ a.findings = {} => a.entries = Collected(f, Taken(list, k))

MergeLoop == INSTANCE FoldProofs WITH Op <- MergeBody, Holds <- MergeSo

LEMMA ZonesMerged ==
  ASSUME NEW f, IsFile(f)
  PROVE /\ IsMerge(Merged(f))
        /\ CatalogueFindings(f) = {} <=> \A r \in T!Role : SoundSecrets(f, r)
        /\ CatalogueFindings(f) = {} => Catalogue(f) = Collected(f, T!Role)
<1> DEFINE base == [entries |-> BuiltinEntries, own |-> {}, findings |-> {}]
           list == <<T!Infra, T!Services, T!Agent>>
<1>1. Merged(f) = MergeLoop!Folded(f, f, base, list)
  BY DEF Merged, FoldLeft, MapThenFoldSet, Max, MergeBody, MergeLoop!Folded,
         MergeLoop!FoldLeft, MergeLoop!MapThenFoldSet, MergeLoop!Max
<1>2. list \in Seq(T!Role) /\ Len(list) = 3 /\ Taken(list, 3) = T!Role
  <2>1. list = <<0, 1, 2>> /\ T!Role = {0, 1, 2}
    BY DEF T!Role, T!Infra, T!Services, T!Agent
  <2>2. 1 .. 3 = {1, 2, 3} /\ <<0, 1, 2>>[1] = 0 /\ <<0, 1, 2>>[2] = 1 /\ <<0, 1, 2>>[3] = 2
    OBVIOUS
  <2>3. Taken(<<0, 1, 2>>, 3) = {0, 1, 2}
    BY <2>2 DEF Taken
  <2> HIDE DEF list
  <2>4. <<0, 1, 2>> \in Seq({0, 1, 2}) /\ Len(<<0, 1, 2>>) = 3
    OBVIOUS
  <2> QED
    BY <2>1, <2>3, <2>4
<1>3. base.entries = BuiltinEntries /\ base.own = {} /\ base.findings = {} /\ IsMerge(base)
  <2>1. IsCatalogue(BuiltinEntries)
    BY ConfigurationAssumption DEF IsCatalogue, BuiltinEntries, Entry
  <2> QED
    BY <2>1 DEF IsMerge
<1> HIDE DEF base, list
<1>4. MergeSo(f, f, base, list, 0, base)
  <2>1. Collected(f, {}) = BuiltinEntries
    BY DEF Collected, DeclaredBy, BuiltinEntries
  <2> QED
    BY <1>3, <2>1, TakeNone DEF MergeSo
<1>5. ASSUME NEW k \in 1 .. Len(list), NEW a, MergeSo(f, f, base, list, k - 1, a)
      PROVE MergeSo(f, f, base, list, k, MergeBody(f, f, a, list[k]))
  <2>a. list[k] \in T!Role /\ Taken(list, k) = Taken(list, k - 1) \union {list[k]}
    BY <1>2, TakeOne
  <2>1. PICK r \in T!Role : r = list[k] /\ Taken(list, k) = Taken(list, k - 1) \union {r}
    BY <2>a
  <2>2. Taken(list, k - 1) \in SUBSET T!Role
    <3>1. \A i \in 1 .. (k - 1) : i \in 1 .. Len(list)
      BY <1>2
    <3> QED
      BY <1>2, <3>1 DEF Taken
  <2>3. PICK b : b = AddZone(f, a, r)
    OBVIOUS
  <2>4. /\ IsMerge(b)
        /\ b.findings = {} <=> a.findings = {} /\ SoundSecrets(f, r)
        /\ b.findings = {} => b.entries = Extended(a.entries, DeclaredIn(f, r), r)
    BY <1>5, <2>3, ZoneAdded DEF MergeSo
  <2>5. b.findings = {} => b.entries = Collected(f, Taken(list, k))
    BY <1>5, <2>1, <2>2, <2>4, CollectOne DEF MergeSo
  <2> QED
    BY <1>5, <2>1, <2>3, <2>4, <2>5 DEF MergeSo, MergeBody
<1>6. MergeLoop!Round(f, f, base, list)
  BY <1>5 DEF MergeLoop!Round
<1>7. MergeSo(f, f, base, list, Len(list), MergeLoop!Folded(f, f, base, list))
  BY <1>2, <1>4, <1>6, MergeLoop!FoldInduction
<1> QED
  BY <1>1, <1>2, <1>7 DEF MergeSo, Catalogue, CatalogueFindings

-----------------------------------------------------------------------------
(* What the file means                                                     *)

LEMMA MeansZone ==
  ASSUME NEW f, NEW r \in T!Role
  PROVE LET z == Table(f, r) t == Means(f) IN
        /\ t.zone[r].internal = z.internal
        /\ t.zone[r].workloads = z.workloads
        /\ T!WorkloadsOf(t, r) = ToSet(z.workloads)
        /\ t.zone[r].secrets = ToSet(z.secrets)
        /\ \A w \in Word : t.zone[r].bridges[w]
             = {q \in T!Role : w \in DOMAIN z.bridges /\ RoleName[q] \in ToSet(z.bridges[w])}
<1> DEFINE z == Table(f, r)
<1>1. Means(f).zone[r] =
        [internal  |-> z.internal,
         workloads |-> z.workloads,
         bridges   |-> [w \in Word |->
           {q \in T!Role : w \in DOMAIN z.bridges /\ RoleName[q] \in ToSet(z.bridges[w])}],
         secrets   |-> ToSet(z.secrets)]
  BY DEF Means
<1> HIDE DEF z
<1>2. /\ Means(f).zone[r].internal = z.internal
      /\ Means(f).zone[r].workloads = z.workloads
      /\ Means(f).zone[r].secrets = ToSet(z.secrets)
      /\ \A w \in Word : Means(f).zone[r].bridges[w]
           = {q \in T!Role : w \in DOMAIN z.bridges /\ RoleName[q] \in ToSet(z.bridges[w])}
  BY <1>1
<1>3. T!WorkloadsOf(Means(f), r) = ToSet(z.workloads)
  BY <1>2 DEF T!WorkloadsOf, ToSet
<1> QED
  BY <1>2, <1>3 DEF z

LEMMA MeansSecrets ==
  ASSUME NEW f, NEW r \in T!Role
  PROVE Means(f).zone[r].secrets = DeclaredIn(f, r)
<1>1. ToSet(Empty.secrets) = {}
  BY DEF Empty, ToSet
<1> QED
  BY <1>1, MeansZone DEF Table, DeclaredIn

\* The body of CatalogueAsMeant, for any file.
LEMMA CatalogueMeant ==
  ASSUME NEW f, IsFile(f), CatalogueFindings(f) = {}
  PROVE /\ DOMAIN Catalogue(f) = T!Entries(Means(f))
        /\ \A s \in DOMAIN Catalogue(f) :
             /\ Catalogue(f)[s].source = T!SourceOf(s)
             /\ Catalogue(f)[s].zones = {r \in T!Role : T!UsedBy(Means(f), s, r)}
<1> DEFINE t == Means(f)
<1>1. Catalogue(f) = Collected(f, T!Role)
  BY ZonesMerged
<1>2. \A s, r : r \in T!Role =>
        (T!UsedBy(t, s, r) <=> IF s \in Builtin THEN r \in BuiltinZones[s]
                               ELSE s \in DeclaredIn(f, r))
  BY MeansSecrets DEF T!UsedBy
<1> HIDE DEF t
<1>3. DOMAIN Catalogue(f) = Builtin \union DeclaredBy(f, T!Role)
  BY <1>1 DEF Collected
<1>4. T!Entries(t) = Builtin \union DeclaredBy(f, T!Role)
  BY <1>2 DEF T!Entries, DeclaredBy
<1>5. ASSUME NEW s \in DOMAIN Catalogue(f)
      PROVE /\ Catalogue(f)[s].source = T!SourceOf(s)
            /\ Catalogue(f)[s].zones = {r \in T!Role : T!UsedBy(t, s, r)}
  <2>1. CASE s \in Builtin
    <3>1. Catalogue(f)[s] = [source |-> BuiltinSource[s], zones |-> BuiltinZones[s]]
      BY <1>1, <1>3, <2>1 DEF Collected, BuiltinEntries
    <3>2. BuiltinZones[s] \in SUBSET T!Role
      BY <2>1, ConfigurationAssumption
    <3> QED
      BY <1>2, <2>1, <3>1, <3>2 DEF T!SourceOf
  <2>2. CASE s \notin Builtin
    <3>1. Catalogue(f)[s] = [source |-> "user", zones |-> {r \in T!Role : s \in DeclaredIn(f, r)}]
      BY <1>1, <1>3, <2>2 DEF Collected
    <3> QED
      BY <1>2, <2>2, <3>1 DEF T!SourceOf
  <2> QED
    BY <2>1, <2>2
<1> QED
  BY <1>3, <1>4, <1>5 DEF t

\* A table that is sound as a whole, read by Validate and by NewCatalogue.
LEMMA TableMeant ==
  ASSUME NEW f, IsFile(f), DOMAIN f.zones = RoleNames, NEW r \in T!Role
  PROVE LET n == RoleName[r] z == f.zones[n] IN
        /\ n \in RoleNames /\ Table(f, r) = z /\ IsTable(z)
        /\ SoundZone(f, n) /\ SoundSecrets(f, r) <=>
             /\ SoundTable(z)
             /\ \A w \in DOMAIN z.bridges : n \notin ToSet(z.bridges[w])
             /\ ToSet(z.secrets) \cap Builtin = {}
<1> DEFINE n == RoleName[r]
           z == f.zones[n]
<1>1. n \in RoleNames /\ Table(f, r) = z /\ IsTable(z)
  BY DEF RoleNames, Table, IsFile
<1>2. SoundZone(f, n) <=>
        /\ ToSet(z.workloads) \subseteq WellFormed \cap Complete /\ NoRepeats(z.workloads)
        /\ \A w \in DOMAIN z.bridges :
             /\ w \in ToSet(z.workloads) /\ ~z.internal
             /\ ToSet(z.bridges[w]) \subseteq RoleNames \ {n} /\ NoRepeats(z.bridges[w])
  BY <1>1 DEF SoundZone, Legal, Fine
<1>3. SoundSecrets(f, r) <=> ToSet(z.secrets) \subseteq DnsLabel \ Builtin /\ NoRepeats(z.secrets)
  BY <1>1 DEF SoundSecrets, DeclaredIn
<1>4. z.internal \in BOOLEAN
  BY <1>1 DEF IsTable
<1>5. SoundZone(f, n) /\ SoundSecrets(f, r) <=>
        /\ SoundTable(z)
        /\ \A w \in DOMAIN z.bridges : n \notin ToSet(z.bridges[w])
        /\ ToSet(z.secrets) \cap Builtin = {}
  <2> HIDE DEF n, z
  <2> QED
    BY <1>2, <1>3, <1>4 DEF SoundTable
<1> QED
  BY <1>1, <1>5

\* Two zones share no workload, no bridge leads back, and an internal zone is
\* led into: as Validate finds it, and as the topology says it.
LEMMA ZonesMeant ==
  ASSUME NEW f, IsFile(f), DOMAIN f.zones = RoleNames,
         \A r \in T!Role : SoundTable(f.zones[RoleName[r]])
  PROVE LET t == Means(f) IN
        /\ T!ListedOnce(t) <=>
             \A n, m \in RoleNames : n # m => Listed(f, n) \cap Listed(f, m) = {}
        /\ T!BridgesLegal(t) <=>
             \A r \in T!Role : LET z == f.zones[RoleName[r]] IN
               \A w \in DOMAIN z.bridges : RoleName[r] \notin ToSet(z.bridges[w])
        /\ \A r \in T!Role : T!BridgedInto(t, r) <=> RoleName[r] \in BridgedFrom(f, RoleNames)
        /\ T!NoCollision(t) <=>
             \A r \in T!Role : ToSet(f.zones[RoleName[r]].secrets) \cap Builtin = {}
<1> DEFINE t == Means(f)
           z(r) == f.zones[RoleName[r]]
<1>1. ASSUME NEW r \in T!Role
      PROVE /\ t.zone[r].internal = z(r).internal
            /\ t.zone[r].workloads = z(r).workloads
            /\ T!WorkloadsOf(t, r) = ToSet(z(r).workloads)
            /\ t.zone[r].secrets = ToSet(z(r).secrets)
            /\ \A w \in Word : t.zone[r].bridges[w]
                 = {q \in T!Role : w \in DOMAIN z(r).bridges
                                   /\ RoleName[q] \in ToSet(z(r).bridges[w])}
  BY TableMeant, MeansZone
<1>2. ASSUME NEW r \in T!Role
      PROVE /\ RoleName[r] \in ZoneWord /\ DOMAIN z(r).bridges \subseteq Word
            /\ NoRepeats(z(r).workloads)
            /\ DOMAIN z(r).bridges \subseteq ToSet(z(r).workloads)
            /\ z(r).internal => DOMAIN z(r).bridges = {}
            /\ \A w \in DOMAIN z(r).bridges : ToSet(z(r).bridges[w]) \subseteq RoleNames
  BY TableMeant, ConfigurationAssumption DEF SoundTable, IsTable
<1>3. \A n : n \in RoleNames <=> \E r \in T!Role : n = RoleName[r]
  BY DEF RoleNames
<1>4. \A r, q \in T!Role : RoleName[r] = RoleName[q] <=> r = q
  BY ConfigurationAssumption
<1> HIDE DEF t
<1>5. T!ListedOnce(t) <=>
        \A n, m \in RoleNames : n # m => Listed(f, n) \cap Listed(f, m) = {}
  <2>1. ASSUME NEW r \in T!Role
        PROVE \A i, j \in DOMAIN t.zone[r].workloads :
                t.zone[r].workloads[i] = t.zone[r].workloads[j] => i = j
    <3>1. \A i, j \in DOMAIN z(r).workloads : z(r).workloads[i] = z(r).workloads[j] => i = j
      BY <1>2 DEF NoRepeats
    <3>2. t.zone[r].workloads = z(r).workloads
      BY <1>1
    <3> QED
      BY <3>1, <3>2
  <2>2. T!ListedOnce(t) <=>
          \A r, q \in T!Role : r # q => T!WorkloadsOf(t, r) \cap T!WorkloadsOf(t, q) = {}
    BY <2>1 DEF T!ListedOnce
  <2>3. \A r \in T!Role : T!WorkloadsOf(t, r) = Listed(f, RoleName[r])
    BY <1>1 DEF Listed
  <2> QED
    BY <1>3, <1>4, <2>2, <2>3
<1>6. T!BridgesLegal(t) <=>
        \A r \in T!Role : \A w \in DOMAIN z(r).bridges : RoleName[r] \notin ToSet(z(r).bridges[w])
  <2>1. ASSUME NEW r \in T!Role, NEW w \in Word
        PROVE t.zone[r].bridges[w] # {} => w \in T!WorkloadsOf(t, r) /\ ~t.zone[r].internal
    <3>1. t.zone[r].bridges[w] # {} => w \in DOMAIN z(r).bridges
      BY <1>1
    <3> QED
      BY <1>1, <1>2, <3>1
  <2>2. ASSUME NEW r \in T!Role, NEW w \in Word
        PROVE r \in t.zone[r].bridges[w] <=>
                w \in DOMAIN z(r).bridges /\ RoleName[r] \in ToSet(z(r).bridges[w])
    BY <1>1
  <2>3. T!BridgesLegal(t) <=> \A r \in T!Role, w \in Word : r \notin t.zone[r].bridges[w]
    BY <2>1 DEF T!BridgesLegal
  <2> QED
    BY <1>2, <2>2, <2>3
<1>7. ASSUME NEW r \in T!Role
      PROVE T!BridgedInto(t, r) <=> RoleName[r] \in BridgedFrom(f, RoleNames)
  <2>1. \A q \in T!Role, w \in Word : r \in t.zone[q].bridges[w] <=>
          w \in DOMAIN z(q).bridges /\ RoleName[r] \in ToSet(z(q).bridges[w])
    BY <1>1
  <2>2. T!BridgedInto(t, r) <=>
          \E q \in T!Role : \E w \in DOMAIN z(q).bridges : RoleName[r] \in ToSet(z(q).bridges[w])
    BY <1>2, <2>1 DEF T!BridgedInto
  <2>3. RoleName[r] \in ZoneWord
    BY <1>2
  <2> QED
    BY <1>3, <2>2, <2>3 DEF BridgedFrom, Into
<1>8. T!NoCollision(t) <=> \A r \in T!Role : ToSet(z(r).secrets) \cap Builtin = {}
  BY <1>1 DEF T!NoCollision
<1> QED
  BY <1>5, <1>6, <1>7, <1>8 DEF t

\* The body of ValidatedAsMeant, for any file.
LEMMA ValidatedMeant ==
  ASSUME NEW f, IsFile(f)
  PROVE Findings(f) = {} <=> T!Valid(Means(f))
<1> DEFINE D == DOMAIN f.zones
           scanned == ScanZones(f)
<1>1. Findings(f) = {} <=>
        /\ f.scalars /\ scanned.findings = {} /\ CatalogueFindings(f) = {}
        /\ RoleNames \subseteq D
        /\ \A n \in RoleNames \cap D : f.zones[n].internal => n \in scanned.bridged
  <2>1. MissingZones(f) = {} <=> RoleNames \subseteq D
    BY DEF MissingZones
  <2>2. UnreachedZones(f, scanned.bridged) = {} <=>
          \A n \in RoleNames \cap D : f.zones[n].internal => n \in scanned.bridged
    BY DEF UnreachedZones
  <2>3. Findings(f) = {} <=>
          /\ f.scalars /\ scanned.findings = {} /\ MissingZones(f) = {}
          /\ UnreachedZones(f, scanned.bridged) = {} /\ CatalogueFindings(f) = {}
    <3>1. <<"machine", "scalars">> \in {<<"machine", "scalars">>}
      OBVIOUS
    <3> HIDE DEF scanned
    <3> QED
      BY <3>1 DEF Findings, scanned
  <2> QED
    BY <2>1, <2>2, <2>3
<1>2. /\ scanned.findings = {} <=>
           /\ \A n \in D : SoundZone(f, n)
           /\ \A n, m \in D : n # m => Listed(f, n) \cap Listed(f, m) = {}
      /\ scanned.findings = {} => scanned.bridged = BridgedFrom(f, D)
  BY ZonesScanned
<1>3. CatalogueFindings(f) = {} <=> \A r \in T!Role : SoundSecrets(f, r)
  BY ZonesMerged
<1>4. Means(f).sound <=> f.scalars /\ D = RoleNames /\ \A n \in D : SoundTable(f.zones[n])
  BY DEF Means
<1>5. CASE D # RoleNames
  <2>1. scanned.findings = {} => D \subseteq RoleNames
    BY <1>2 DEF SoundZone
  <2> QED
    BY <1>1, <1>4, <1>5, <2>1 DEF T!Valid
<1>6. CASE D = RoleNames
  <2> HIDE DEF scanned
  <2>1. \A n : n \in RoleNames <=> \E r \in T!Role : n = RoleName[r]
    BY DEF RoleNames
  <2> DEFINE AllSound == \A r \in T!Role : SoundTable(f.zones[RoleName[r]])
             NoLoops == \A r \in T!Role : LET z == f.zones[RoleName[r]] IN
                          \A w \in DOMAIN z.bridges : RoleName[r] \notin ToSet(z.bridges[w])
             NoneBuiltin == \A r \in T!Role : ToSet(f.zones[RoleName[r]].secrets) \cap Builtin = {}
             Disjoint == \A n, m \in RoleNames : n # m => Listed(f, n) \cap Listed(f, m) = {}
             Reached == \A r \in T!Role : f.zones[RoleName[r]].internal
                                            => RoleName[r] \in BridgedFrom(f, RoleNames)
  <2>2. (\A n \in D : SoundZone(f, n)) /\ (\A r \in T!Role : SoundSecrets(f, r))
          <=> AllSound /\ NoLoops /\ NoneBuiltin
    BY <1>6, <2>1, TableMeant
  <2>3. Means(f).sound <=> f.scalars /\ AllSound
    BY <1>4, <1>6, <2>1
  <2>4. Findings(f) = {} <=>
          f.scalars /\ AllSound /\ NoLoops /\ NoneBuiltin /\ Disjoint /\ Reached
    BY <1>1, <1>2, <1>3, <1>6, <2>1, <2>2
  <2>5. ASSUME AllSound
        PROVE /\ T!ListedOnce(Means(f)) <=> Disjoint
              /\ T!BridgesLegal(Means(f)) <=> NoLoops
              /\ T!NoCollision(Means(f)) <=> NoneBuiltin
              /\ (\A r \in T!Role : Means(f).zone[r].internal => T!BridgedInto(Means(f), r))
                   <=> Reached
    <3>1. \A r \in T!Role : Means(f).zone[r].internal = f.zones[RoleName[r]].internal
      BY <1>6, TableMeant, MeansZone
    <3> QED
      BY <1>6, <2>5, <3>1, ZonesMeant
  <2> HIDE DEF AllSound, NoLoops, NoneBuiltin, Disjoint, Reached
  <2> QED
    BY <2>3, <2>4, <2>5 DEF T!Valid
<1> QED
  BY <1>5, <1>6

-----------------------------------------------------------------------------
(* Types                                                                   *)

LEMMA TableChanged ==
  ASSUME NEW z, IsTable(z), NEW y \in TableChanges(z)
  PROVE IsTable(y)
<1> DEFINE keys == DOMAIN z.bridges
<1>1. /\ z.internal \in BOOLEAN /\ z.workloads \in Seq(Word) /\ z.secrets \in Seq(SecretWord)
      /\ z.bridges \in [keys -> Seq(ZoneWord)] /\ keys \subseteq Word /\ IsFiniteSet(keys)
      /\ z = [internal |-> z.internal, workloads |-> z.workloads,
              bridges |-> z.bridges, secrets |-> z.secrets]
  BY DEF IsTable
<1>2. CASE y = [z EXCEPT !.internal = ~@]
  BY <1>1, <1>2 DEF IsTable
<1>3. ASSUME NEW w \in Word, y = [z EXCEPT !.workloads = Append(@, w)] PROVE IsTable(y)
  <2>1. Append(z.workloads, w) \in Seq(Word)
    BY <1>1
  <2> QED
    BY <1>1, <1>3, <2>1 DEF IsTable
<1>4. ASSUME NEW s \in SecretWord, y = [z EXCEPT !.secrets = Append(@, s)] PROVE IsTable(y)
  <2>1. Append(z.secrets, s) \in Seq(SecretWord)
    BY <1>1
  <2> QED
    BY <1>1, <1>4, <2>1 DEF IsTable
<1>5. ASSUME NEW b, NEW K \in SUBSET Word, IsFiniteSet(K), b \in [K -> Seq(ZoneWord)],
             y = [z EXCEPT !.bridges = b]
      PROVE IsTable(y)
  BY <1>1, <1>5 DEF IsTable
<1>6. ASSUME NEW w \in Word, y = [z EXCEPT !.bridges = With(@, w, <<>>)] PROVE IsTable(y)
  <2> DEFINE b == With(z.bridges, w, <<>>)
             K == keys \union {w}
  <2>1. <<>> \in Seq(ZoneWord)
    OBVIOUS
  <2>2. b \in [K -> Seq(ZoneWord)]
    BY <1>1, <2>1 DEF With
  <2>3. K \in SUBSET Word /\ IsFiniteSet(K)
    BY <1>1, FS_AddElement
  <2>4. y = [z EXCEPT !.bridges = b]
    BY <1>6
  <2> HIDE DEF b, K
  <2> QED
    BY <1>5, <2>2, <2>3, <2>4
<1>7. ASSUME NEW w \in keys, NEW n \in ZoneWord, y = [z EXCEPT !.bridges[w] = Append(@, n)]
      PROVE IsTable(y)
  <2> DEFINE b == [z.bridges EXCEPT ![w] = Append(z.bridges[w], n)]
  <2>1. Append(z.bridges[w], n) \in Seq(ZoneWord)
    BY <1>1
  <2>2. b \in [keys -> Seq(ZoneWord)]
    BY <1>1, <2>1
  <2>3. y = [z EXCEPT !.bridges = b]
    BY <1>7
  <2> HIDE DEF b
  <2> QED
    BY <1>1, <1>5, <2>2, <2>3
<1>8. ASSUME NEW v \in keys, y = [z EXCEPT !.bridges = [w \in DOMAIN @ \ {v} |-> @[w]]]
      PROVE IsTable(y)
  <2> DEFINE b == [w \in keys \ {v} |-> z.bridges[w]]
             K == keys \ {v}
  <2>1. b \in [K -> Seq(ZoneWord)] /\ K \in SUBSET Word
    BY <1>1
  <2>2. IsFiniteSet(K)
    BY <1>1, FS_RemoveElement
  <2>3. y = [z EXCEPT !.bridges = b]
    BY <1>8
  <2> HIDE DEF b, K
  <2> QED
    BY <1>5, <2>1, <2>2, <2>3
<1>9. ASSUME NEW i \in (DOMAIN z.workloads) \cap {1}, y = [z EXCEPT !.workloads = Tail(@)]
      PROVE IsTable(y)
  <2>1. Tail(z.workloads) \in Seq(Word)
    BY <1>1
  <2> QED
    BY <1>1, <1>9, <2>1 DEF IsTable
<1> DEFINE c2(w) == [z EXCEPT !.workloads = Append(@, w)]
           c3(s) == [z EXCEPT !.secrets = Append(@, s)]
           c4(w) == [z EXCEPT !.bridges = With(@, w, <<>>)]
           c5(w, n) == [z EXCEPT !.bridges[w] = Append(@, n)]
           c6(v) == [z EXCEPT !.bridges = [w \in DOMAIN @ \ {v} |-> @[w]]]
           c7 == [z EXCEPT !.workloads = Tail(@)]
<1>10. TableChanges(z) =
         {[z EXCEPT !.internal = ~@]} \union {c2(w) : w \in Word}
         \union {c3(s) : s \in SecretWord} \union {c4(w) : w \in Word}
         \union {c5(w, n) : w \in keys, n \in ZoneWord} \union {c6(v) : v \in keys}
         \union {c7 : i \in (DOMAIN z.workloads) \cap {1}}
  BY DEF TableChanges
<1>11. /\ \A w \in Word : y = c2(w) \/ y = c4(w) => IsTable(y)
       /\ \A s \in SecretWord : y = c3(s) => IsTable(y)
       /\ \A w \in keys, n \in ZoneWord : y = c5(w, n) => IsTable(y)
       /\ \A v \in keys : y = c6(v) => IsTable(y)
       /\ \A i \in (DOMAIN z.workloads) \cap {1} : y = c7 => IsTable(y)
  BY <1>3, <1>4, <1>6, <1>7, <1>8, <1>9
<1> HIDE DEF c2, c3, c4, c5, c6, c7, keys
<1> QED
  BY <1>2, <1>10, <1>11

LEMMA FileChanged ==
  ASSUME NEW f, IsFile(f), NEW g \in FileChanges(f)
  PROVE IsFile(g)
<1> DEFINE names == DOMAIN f.zones
           Kind == {"default", "home", "absolute", "relative"}
<1>1. /\ f.decodes \in BOOLEAN /\ f.scalars \in BOOLEAN /\ f.keychain \in Kind
      /\ names \subseteq ZoneWord /\ IsFiniteSet(names)
      /\ f.zones = [n \in names |-> f.zones[n]] /\ \A n \in names : IsTable(f.zones[n])
      /\ f = [decodes |-> f.decodes, scalars |-> f.scalars, zones |-> f.zones,
              keychain |-> f.keychain]
  BY DEF IsFile
<1>2. CASE g = [f EXCEPT !.decodes = ~@] \/ g = [f EXCEPT !.scalars = ~@]
  BY <1>1, <1>2 DEF IsFile
<1>3. ASSUME NEW k \in Kind, g = [f EXCEPT !.keychain = k] PROVE IsFile(g)
  BY <1>1, <1>3 DEF IsFile
<1>4. ASSUME NEW zs, zs = [n \in DOMAIN zs |-> zs[n]], DOMAIN zs \subseteq ZoneWord,
             IsFiniteSet(DOMAIN zs), \A n \in DOMAIN zs : IsTable(zs[n]),
             g = [f EXCEPT !.zones = zs]
      PROVE IsFile(g)
  BY <1>1, <1>4 DEF IsFile
<1>5. ASSUME NEW n \in names, NEW z \in TableChanges(f.zones[n]), g = [f EXCEPT !.zones[n] = z]
      PROVE IsFile(g)
  <2> DEFINE zs == [f.zones EXCEPT ![n] = z]
  <2>1. IsTable(z)
    BY <1>1, TableChanged
  <2>2. zs = [m \in DOMAIN zs |-> zs[m]] /\ DOMAIN zs = names /\ \A m \in names : IsTable(zs[m])
    BY <1>1, <2>1
  <2>3. g = [f EXCEPT !.zones = zs]
    BY <1>5
  <2> HIDE DEF zs
  <2> QED
    BY <1>1, <1>4, <2>2, <2>3
<1>6. ASSUME NEW n \in ZoneWord, g = [f EXCEPT !.zones = With(@, n, Empty)] PROVE IsFile(g)
  <2> DEFINE zs == With(f.zones, n, Empty)
  <2>1. IsTable(Empty)
    <3>1. IsFiniteSet({}) /\ DOMAIN <<>> = {} /\ <<>> \in [{} -> Seq(ZoneWord)]
      BY FS_EmptySet
    <3> QED
      BY <3>1 DEF IsTable, Empty
  <2>2. zs = [m \in DOMAIN zs |-> zs[m]] /\ DOMAIN zs = names \union {n}
        /\ \A m \in names \union {n} : IsTable(zs[m])
    BY <1>1, <2>1 DEF With
  <2>3. names \union {n} \subseteq ZoneWord /\ IsFiniteSet(names \union {n})
    BY <1>1, FS_AddElement
  <2>4. g = [f EXCEPT !.zones = zs]
    BY <1>6
  <2> HIDE DEF zs
  <2> QED
    BY <1>4, <2>2, <2>3, <2>4
<1>7. ASSUME NEW n \in names, g = [f EXCEPT !.zones = [m \in DOMAIN @ \ {n} |-> @[m]]]
      PROVE IsFile(g)
  <2> DEFINE zs == [m \in names \ {n} |-> f.zones[m]]
  <2>1. zs = [m \in DOMAIN zs |-> zs[m]] /\ DOMAIN zs = names \ {n}
        /\ \A m \in names \ {n} : IsTable(zs[m])
    BY <1>1
  <2>2. names \ {n} \subseteq ZoneWord /\ IsFiniteSet(names \ {n})
    BY <1>1, FS_RemoveElement
  <2>3. g = [f EXCEPT !.zones = zs]
    BY <1>7
  <2> HIDE DEF zs
  <2> QED
    BY <1>4, <2>1, <2>2, <2>3
<1> DEFINE c3(k) == [f EXCEPT !.keychain = k]
           c5(n, z) == [f EXCEPT !.zones[n] = z]
           c6(n) == [f EXCEPT !.zones = With(@, n, Empty)]
           c7(n) == [f EXCEPT !.zones = [m \in DOMAIN @ \ {n} |-> @[m]]]
<1>8. FileChanges(f) =
        {[f EXCEPT !.decodes = ~@], [f EXCEPT !.scalars = ~@]} \union {c3(k) : k \in Kind}
        \union (UNION {{c5(n, z) : z \in TableChanges(f.zones[n])} : n \in names})
        \union {c6(n) : n \in ZoneWord} \union {c7(n) : n \in names}
  BY DEF FileChanges
<1>9. /\ \A k \in Kind : g = c3(k) => IsFile(g)
      /\ \A n \in names : \A z \in TableChanges(f.zones[n]) : g = c5(n, z) => IsFile(g)
      /\ \A n \in ZoneWord : g = c6(n) => IsFile(g)
      /\ \A n \in names : g = c7(n) => IsFile(g)
  BY <1>3, <1>5, <1>6, <1>7
<1> HIDE DEF c3, c5, c6, c7, names, Kind
<1> QED
  BY <1>2, <1>8, <1>9

Status == {Pass, Warn, Fail}

LEMMA StatusRange ==
  /\ Status = Pass .. Fail /\ Pass # Fail /\ Warn # Fail
  /\ \A found, min : EvaluateTool(found, min) \in {Pass, Fail}
  /\ \A f : FindingsStatus(f) \in {Pass, Fail}
  /\ \A b \in BOOLEAN : /\ EvaluateKeychain(b) \in {Pass, Fail}
                        /\ EvaluateSecret(b) \in {Pass, Fail}
                        /\ EvaluateNetwork(b) \in {Pass, Warn}
  /\ \A m : EvaluateMachine(m) \in {Pass, Warn}
BY DEF Status, Pass, Warn, Fail, EvaluateTool, FindingsStatus, EvaluateKeychain, EvaluateSecret,
       EvaluateNetwork, EvaluateMachine

\* A verdict changes the worst so far, and only to a worse one.
LEMMA CheckedRun ==
  ASSUME NEW me \in Run, NEW status \in Status
  PROVE LET c == Checked(me, status) IN
        /\ c \in Run
        /\ c = [me EXCEPT !.worst = c.worst]
        /\ c.worst = Fail <=> me.worst = Fail \/ status = Fail
<1>1. me.worst \in Status /\ me.worst \in Pass .. Fail
  BY StatusRange DEF Run
<1> DEFINE w == IF status > me.worst THEN status ELSE me.worst
<1>2. w \in Pass .. Fail /\ (w = Fail <=> me.worst = Fail \/ status = Fail)
  BY <1>1 DEF Status, Pass, Warn, Fail
<1>3. Checked(me, status) = [me EXCEPT !.worst = w]
  BY DEF Checked
<1> HIDE DEF w
<1> QED
  BY <1>2, <1>3 DEF Run

LEMMA ExitsRun ==
  ASSUME NEW me \in Run
  PROVE /\ Exits(me) \in Run /\ Exits(me).pc = "idle" /\ ~Exits(me).cancelled
        /\ Exits(me).since = me.since
        /\ Exits(me).exit = "ok" <=> me.worst # Fail
        /\ Interrupted(me) \in Run /\ Interrupted(me).pc = "idle" /\ ~Interrupted(me).cancelled
        /\ Interrupted(me).since = me.since /\ Interrupted(me).exit = "interrupted"
<1>1. me.worst \in Pass .. Fail /\ me.since \in 0 .. MaxFaults
  BY DEF Run
<1>2. NoDoctor \in Run
  BY DisturbancesAssumption DEF NoDoctor, Run, Pass, Fail
<1>3. Interrupted(me) = [NoDoctor EXCEPT !.since = me.since, !.exit = "interrupted"]
  BY DEF Interrupted
<1>4. Exits(me) = [NoDoctor EXCEPT !.worst = me.worst, !.since = me.since,
                                   !.exit = IF me.worst = Fail THEN "failed" ELSE "ok"]
  BY DEF Exits
<1>5. NoDoctor.pc = "idle" /\ ~NoDoctor.cancelled
  BY DEF NoDoctor
<1>6. Interrupted(me) \in Run /\ Interrupted(me).pc = "idle" /\ ~Interrupted(me).cancelled
      /\ Interrupted(me).since = me.since /\ Interrupted(me).exit = "interrupted"
  BY <1>1, <1>2, <1>3, <1>5 DEF Run
<1>7. Exits(me) \in Run /\ Exits(me).pc = "idle" /\ ~Exits(me).cancelled
      /\ Exits(me).since = me.since /\ (Exits(me).exit = "ok" <=> me.worst # Fail)
  BY <1>1, <1>2, <1>4, <1>5 DEF Run
<1> QED
  BY <1>6, <1>7

LEMMA UserEntriesType ==
  ASSUME NEW f, IsFile(f)
  PROVE UserEntries(f) \in SUBSET SecretWord
<1>1. IsMerge(Merged(f))
  BY ZonesMerged
<1> QED
  BY <1>1 DEF UserEntries, Catalogue, IsMerge, IsCatalogue

\* What a step does to the doctor, whatever its outcome is.
LEMMA ReadsType ==
  ASSUME TypeOK, NEW ok \in Run, NEW bad \in Run, Reads(ok, bad)
  PROVE TypeOK'
<1>1. doc' \in Run
  BY ExitsRun DEF Reads, UnlessCancelled, TypeOK
<1>2. budget' \in 0 .. MaxFaults
  BY DisturbancesAssumption DEF Reads, TypeOK, Fault
<1> QED
  BY <1>1, <1>2 DEF Reads, TypeOK

LEMMA InitType ==
  Init => TypeOK
<1> SUFFICES ASSUME Init PROVE TypeOK
  OBVIOUS
<1>1. NoDoctor \in Run
  BY DisturbancesAssumption DEF NoDoctor, Run, Pass, Fail
<1>2. budget \in 0 .. MaxFaults
  BY DisturbancesAssumption DEF Init
<1> QED
  BY <1>1, <1>2, StartAssumption DEF Init, TypeOK

LEMMA ToolsType ==
  ASSUME TypeOK, FloxVersion \/ PodmanVersion
  PROVE TypeOK'
<1>1. doc \in Run /\ \A s \in Status : Checked(doc, s) \in Run
  BY CheckedRun DEF TypeOK
<1>2. CASE FloxVersion
  <2> DEFINE to(status) == [Checked(doc, status) EXCEPT !.pc = "podman"]
  <2>1. \A s \in Status : to(s) \in Run
    BY <1>1 DEF Run
  <2>2. EvaluateTool(host.flox, FloxMin) \in Status /\ Fail \in Status
    BY StatusRange DEF Status
  <2>3. Reads(to(EvaluateTool(host.flox, FloxMin)), to(Fail))
    BY <1>2 DEF FloxVersion
  <2> HIDE DEF to
  <2> QED
    BY <2>1, <2>2, <2>3, ReadsType
<1>3. CASE PodmanVersion
  <2> DEFINE to(status) == [Checked(doc, status) EXCEPT !.pc = "scaffold",
                                                        !.podmanFailed = status = Fail]
  <2>1. \A s \in Status : to(s) \in Run
    BY <1>1 DEF Run
  <2>2. EvaluateTool(host.podman, PodmanMin) \in Status /\ Fail \in Status
    BY StatusRange DEF Status
  <2>3. Reads(to(EvaluateTool(host.podman, PodmanMin)), to(Fail))
    BY <1>3 DEF PodmanVersion
  <2> HIDE DEF to
  <2> QED
    BY <2>1, <2>2, <2>3, ReadsType
<1> QED
  BY <1>2, <1>3

LEMMA ScaffoldType ==
  ASSUME TypeOK, ReadScaffold
  PROVE TypeOK'
<1> DEFINE skipped(status) == [Checked(Checked(doc, status), Warn) EXCEPT !.pc = "secret"]
           loaded == [Checked(doc, FindingsStatus(file)) EXCEPT
                        !.pc = "keychain", !.topologyOK = TRUE, !.todo = UserEntries(file)]
<1>1. doc \in Run /\ Warn \in Status /\ Fail \in Status /\ FindingsStatus(file) \in Status
  BY StatusRange DEF TypeOK, Status
<1>2. \A s \in Status : skipped(s) \in Run
  <2> TAKE s \in Status
  <2>1. Checked(Checked(doc, s), Warn) \in Run
    BY <1>1, CheckedRun
  <2> QED
    BY <2>1 DEF Run
<1>3. file # None => loaded \in Run
  <2>1. Checked(doc, FindingsStatus(file)) \in Run
    BY <1>1, CheckedRun
  <2>2. file # None => UserEntries(file) \in SUBSET SecretWord
    BY UserEntriesType DEF TypeOK
  <2> QED
    BY <2>1, <2>2 DEF Run
<1>4. \/ doc' = skipped(Warn) \/ doc' = skipped(Fail)
      \/ doc' = loaded /\ file # None
  <2>1. host.dir \in {"absent", "unreadable", "there"}
    BY DEF TypeOK, Host
  <2> HIDE DEF skipped, loaded
  <2>2. doc' = CASE host.dir = "absent" -> skipped(Warn)
                 [] host.dir = "unreadable" -> skipped(Fail)
                 [] host.dir = "there" /\ (file = None \/ ~Loads(file)) -> skipped(Fail)
                 [] OTHER -> loaded
    BY DEF ReadScaffold, skipped, loaded
  <2> QED
    BY <2>1, <2>2
<1> HIDE DEF skipped, loaded
<1>5. doc' \in Run
  BY <1>1, <1>2, <1>3, <1>4
<1> QED
  BY <1>5 DEF ReadScaffold, TypeOK

LEMMA SecretsType ==
  ASSUME TypeOK, FindKeychain \/ DescribeSecret \/ SecretsDone
  PROVE TypeOK'
<1>1. doc \in Run /\ (\A s \in Status : Checked(doc, s) \in Run) /\ doc.todo \in SUBSET SecretWord
  BY CheckedRun DEF TypeOK, Run
<1>2. Pass \in Status /\ Warn \in Status /\ Fail \in Status /\ host.kc \in BOOLEAN
  BY DEF Status, TypeOK, Host
<1>3. CASE FindKeychain
  <2> DEFINE to(status) == [Checked(doc, status) EXCEPT
                              !.pc = "secret", !.todo = IF status = Fail THEN {} ELSE @]
  <2>1. \A s \in Status : to(s) \in Run
    BY <1>1 DEF Run
  <2>2. EvaluateKeychain(host.kc) \in Status
    BY <1>2, StatusRange
  <2>3. Reads(to(EvaluateKeychain(host.kc)), to(Fail))
    BY <1>3 DEF FindKeychain
  <2> HIDE DEF to
  <2> QED
    BY <1>2, <2>1, <2>2, <2>3, ReadsType
<1>4. CASE DescribeSecret
  <2>1. PICK s \in doc.todo :
          LET to(status) == [Checked(doc, status) EXCEPT !.todo = @ \ {s}]
          IN Reads(to(EvaluateSecret(host.kc /\ s \in host.set)), to(Fail))
    BY <1>4 DEF DescribeSecret
  <2> DEFINE to(status) == [Checked(doc, status) EXCEPT !.todo = @ \ {s}]
  <2>2. \A u \in Status : to(u) \in Run
    BY <1>1 DEF Run
  <2>3. EvaluateSecret(host.kc /\ s \in host.set) \in Status
    BY <1>2, StatusRange
  <2>4. Reads(to(EvaluateSecret(host.kc /\ s \in host.set)), to(Fail))
    BY <2>1
  <2> HIDE DEF to
  <2> QED
    BY <1>2, <2>2, <2>3, <2>4, ReadsType
<1>5. CASE SecretsDone
  <2>1. Exits(Checked(doc, Warn)) \in Run /\ [doc EXCEPT !.pc = "machine"] \in Run
    BY <1>1, <1>2, ExitsRun DEF Run
  <2>2. Interrupted(doc) \in Run
    BY <1>1, ExitsRun
  <2>3. doc' \in Run
    BY <1>5, <2>1, <2>2 DEF SecretsDone, UnlessCancelled
  <2> QED
    BY <1>5, <2>3 DEF SecretsDone, TypeOK
<1> QED
  BY <1>3, <1>4, <1>5

LEMMA MachineType ==
  ASSUME TypeOK, ListMachine \/ FindNetwork
  PROVE TypeOK'
<1>1. doc \in Run /\ (\A s \in Status : Checked(doc, s) \in Run) /\ doc.zones \in SUBSET T!Role
  BY CheckedRun DEF TypeOK, Run
<1>2. Pass \in Status /\ Warn \in Status /\ Fail \in Status
  BY DEF Status
<1>3. CASE ListMachine
  <2> DEFINE found == Checked(doc, EvaluateMachine(host.machine))
             next == [found EXCEPT !.pc = "network", !.zones = T!Role]
  <2>1. EvaluateMachine(host.machine) \in Status
    BY <1>2, StatusRange
  <2>2. found \in Run
    BY <1>1, <2>1
  <2>3. next \in Run /\ Exits(found) \in Run /\ Exits(Checked(doc, Fail)) \in Run
    BY <1>1, <1>2, <2>2, ExitsRun DEF Run
  <2>4. Reads(IF host.machine = "running" /\ doc.topologyOK THEN next ELSE Exits(found),
              Exits(Checked(doc, Fail)))
    BY <1>3 DEF ListMachine
  <2> HIDE DEF found, next
  <2> QED
    BY <2>3, <2>4, ReadsType
<1>4. CASE FindNetwork
  <2>1. PICK r \in doc.zones :
          LET found == Checked(doc, EvaluateNetwork(r \in host.nets))
              next  == [found EXCEPT !.zones = @ \ {r}]
          IN Reads(CASE host.machine # "running" -> Exits(Checked(doc, Fail))
                     [] host.machine = "running" /\ next.zones # {} -> next
                     [] OTHER -> Exits(next),
                   Exits(Checked(doc, Fail)))
    BY <1>4 DEF FindNetwork
  <2> DEFINE found == Checked(doc, EvaluateNetwork(r \in host.nets))
             next  == [found EXCEPT !.zones = @ \ {r}]
             ok == CASE host.machine # "running" -> Exits(Checked(doc, Fail))
                     [] host.machine = "running" /\ next.zones # {} -> next
                     [] OTHER -> Exits(next)
  <2>2. EvaluateNetwork(r \in host.nets) \in Status
    BY <1>2 DEF EvaluateNetwork
  <2>3. found \in Run
    BY <1>1, <2>2
  <2>4. next \in Run
    BY <2>3 DEF Run
  <2>5. Exits(next) \in Run /\ Exits(Checked(doc, Fail)) \in Run
    BY <1>1, <1>2, <2>4, ExitsRun
  <2>6. Reads(ok, Exits(Checked(doc, Fail)))
    BY <2>1
  <2> HIDE DEF next
  <2>7. ok \in Run
    BY <2>4, <2>5
  <2> HIDE DEF ok
  <2> QED
    BY <2>5, <2>6, <2>7, ReadsType
<1> QED
  BY <1>3, <1>4

LEMMA OutsideType ==
  ASSUME TypeOK, Start \/ Interrupt \/ HostChange \/ Edit
  PROVE TypeOK'
<1>1. doc \in Run /\ budget \in 0 .. MaxFaults
  BY DEF TypeOK
<1>2. Fault => budget' \in 0 .. MaxFaults
  BY <1>1, DisturbancesAssumption DEF Fault
<1>3. CASE Start
  <2>1. NoDoctor \in Run
    BY DisturbancesAssumption DEF NoDoctor, Run, Pass, Fail
  <2>2. doc' \in Run
    BY <1>1, <1>3, <2>1 DEF Start, Run
  <2> QED
    BY <1>3, <2>2 DEF Start, TypeOK
<1>4. CASE Interrupt
  <2>1. doc' \in Run
    BY <1>1, <1>4 DEF Interrupt, Run
  <2> QED
    BY <1>2, <1>4, <2>1 DEF Interrupt, TypeOK
<1>5. CASE HostChange
  <2>1. host \in Host /\ host' \in HostChanges
    BY <1>5 DEF HostChange, TypeOK
  <2> DEFINE c1(v) == [host EXCEPT !.flox = v]
             c2(v) == [host EXCEPT !.podman = v]
             c3(d) == [host EXCEPT !.dir = d]
             c4 == [host EXCEPT !.kc = ~@]
             c5(s) == [host EXCEPT !.set = (@ \ {s}) \union ({s} \ @)]
             c6(m) == [host EXCEPT !.machine = m]
             c7(r) == [host EXCEPT !.nets = @ \ {r}]
             Dirs == {"absent", "unreadable", "there"}
             Machines == {"absent", "stopped", "running"}
  <2>a. HostChanges =
          {c1(v) : v \in Maybe(Version)} \union {c2(v) : v \in Maybe(Version)}
          \union {c3(d) : d \in Dirs} \union {c4} \union {c5(s) : s \in SecretWord}
          \union {c6(m) : m \in Machines} \union {c7(r) : r \in T!Role}
    BY DEF HostChanges
  <2>b. \A v \in Maybe(Version) : c1(v) \in Host /\ c2(v) \in Host
    BY <2>1 DEF Host
  <2>c. (\A d \in Dirs : c3(d) \in Host) /\ c4 \in Host /\ (\A m \in Machines : c6(m) \in Host)
    BY <2>1 DEF Host
  <2>d. \A s \in SecretWord : c5(s) \in Host
    <3>1. \A s \in SecretWord : (host.set \ {s}) \union ({s} \ host.set) \in SUBSET SecretWord
      BY <2>1 DEF Host
    <3> QED
      BY <2>1, <3>1 DEF Host
  <2>e. \A r \in T!Role : c7(r) \in Host
    <3>1. \A r \in T!Role : host.nets \ {r} \in SUBSET T!Role
      BY <2>1 DEF Host
    <3> QED
      BY <2>1, <3>1 DEF Host
  <2> HIDE DEF c1, c2, c3, c4, c5, c6, c7, Dirs, Machines
  <2>2. host' \in Host
    BY <2>1, <2>a, <2>b, <2>c, <2>d, <2>e
  <2> QED
    BY <1>2, <1>5, <2>2 DEF HostChange, TypeOK
<1>6. CASE Edit
  <2>1. file' = None \/ IsFile(file')
    BY <1>6, FileChanged DEF Edit, TypeOK
  <2> QED
    BY <1>2, <1>6, <2>1 DEF Edit, TypeOK
<1> QED
  BY <1>3, <1>4, <1>5, <1>6

\* What the doctor reads and keeps has the type it is meant to have, whatever
\* is edited. (Run, file, host.)
THEOREM DoctorTypes == Spec => []TypeOK
<1>1. TypeOK /\ [Next]_vars => TypeOK'
  <2> SUFFICES ASSUME TypeOK, [Next]_vars PROVE TypeOK'
    OBVIOUS
  <2>1. CASE UNCHANGED vars
    BY <2>1 DEF vars, TypeOK
  <2>2. CASE Next
    BY <2>2, ToolsType, ScaffoldType, SecretsType, MachineType, OutsideType DEF Next, DoctorStep
  <2> QED
    BY <2>1, <2>2
<1> QED
  BY InitType, <1>1, PTL DEF Spec

\* Whatever is in the file, Validate finds nothing exactly when the topology
\* it means is valid: the one pass over the tables, with what it has seen and
\* where bridges lead, decides what the definition quantifies over. (Validate.)
THEOREM ValidateIsRight == Spec => []ValidatedAsMeant
<1>1. TypeOK => ValidatedAsMeant
  BY ValidatedMeant DEF TypeOK, ValidatedAsMeant
<1> QED
  BY DoctorTypes, <1>1, PTL

\* Whatever is in the file, a catalogue without findings lists exactly the
\* secrets the topology uses, each with its source and all its zones.
\* (NewCatalogue.)
THEOREM CatalogueIsRight == Spec => []CatalogueAsMeant
<1>1. TypeOK => CatalogueAsMeant
  BY CatalogueMeant DEF TypeOK, CatalogueAsMeant
<1> QED
  BY DoctorTypes, <1>1, PTL

-----------------------------------------------------------------------------
(* A doctor during which nothing failed or changed: what its worst verdict *)
(* says of the host and the file, at every label.                          *)

FloxFails == EvaluateTool(host.flox, FloxMin) = Fail
PodmanFails == EvaluateTool(host.podman, PodmanMin) = Fail

\* The file is there and decodes.
CanRead == host.dir = "there" /\ file # None /\ Loads(file)

ScaffoldFails ==
  \/ host.dir = "unreadable"
  \/ host.dir = "there" /\ ~CanRead
  \/ CanRead /\ Findings(file) # {}

Unset(asked) == \E s \in asked : s \notin host.set

\* todo: secrets that are still to be asked for.
KeychainFails(todo) == CanRead /\ (~host.kc \/ Unset(UserEntries(file) \ todo))

Failing(me) ==
  \/ me.pc \notin {"flox"} /\ FloxFails
  \/ me.pc \notin {"flox", "podman"} /\ PodmanFails
  \/ me.pc \notin {"flox", "podman", "scaffold"} /\ ScaffoldFails
  \/ me.pc \notin {"flox", "podman", "scaffold", "keychain"} /\ KeychainFails(me.todo)

ToAsk(me) ==
  /\ me.pc \in {"flox", "podman", "scaffold", "machine", "network"} => me.todo = {}
  /\ me.pc = "keychain" => CanRead /\ me.todo = UserEntries(file)
  /\ me.pc = "secret" =>
       /\ ~CanRead \/ ~host.kc => me.todo = {}
       /\ CanRead => me.todo \subseteq UserEntries(file)

SoFar(me) ==
  /\ ~me.cancelled
  /\ me.worst = Fail <=> Failing(me)
  /\ me.podmanFailed <=> PodmanFails /\ me.pc \notin {"flox", "podman"}
  /\ ToAsk(me)
  /\ me.pc \in {"machine", "network"} => ~PodmanFails
  /\ me.pc = "network" => host.machine = "running"

\* Every disturbance is taken from the budget, so that an equal budget means
\* there was none.
RunOK ==
  /\ doc.pc = "idle" => ~doc.cancelled
  /\ doc.pc # "idle" => budget <= doc.since
  /\ doc.pc # "idle" /\ budget = doc.since => SoFar(doc)

\* A version is compared part by part.
LEMMA ToolMeant ==
  ASSUME NEW found \in Maybe(Version), NEW min \in Version
  PROVE EvaluateTool(found, min) = Fail <=> ~Reaches(found, min)
<1>1. CASE found = None
  BY <1>1 DEF EvaluateTool, Reaches
<1>2. CASE found # None
  <2>1. found \in Nat \X Nat \X Nat /\ min \in Nat \X Nat \X Nat
    BY <1>2, DoctorAssumption DEF Maybe
  <2>2. EvaluateTool(found, min) = Fail <=> ~AtLeast(found, min)
    BY <1>2 DEF EvaluateTool, Pass, Fail
  <2>3. 1 .. 3 = {1, 2, 3} /\ 1 .. (1 - 1) = {} /\ 1 .. (2 - 1) = {1} /\ 1 .. (3 - 1) = {1, 2}
    OBVIOUS
  <2>4. (\E i \in 1 .. 3 : found[i] > min[i] /\ \A j \in 1 .. (i - 1) : found[j] = min[j]) <=>
          \/ found[1] > min[1]
          \/ found[1] = min[1] /\ found[2] > min[2]
          \/ found[1] = min[1] /\ found[2] = min[2] /\ found[3] > min[3]
    BY <2>3
  <2>5. found = min <=> found[1] = min[1] /\ found[2] = min[2] /\ found[3] = min[3]
    BY <2>1
  <2>6. AtLeast(found, min) <=>
          \/ found[1] > min[1]
          \/ found[1] = min[1] /\ found[2] > min[2]
          \/ found[1] = min[1] /\ found[2] = min[2] /\ found[3] >= min[3]
    BY <2>1 DEF AtLeast
  <2>7. found[3] >= min[3] <=> found[3] > min[3] \/ found[3] = min[3]
    BY <2>1
  <2> QED
    BY <1>2, <2>2, <2>4, <2>5, <2>6, <2>7 DEF Reaches
<1> QED
  BY <1>1, <1>2

\* The host is ready exactly when none of the checks fails.
LEMMA ReadyMeant ==
  ASSUME TypeOK
  PROVE HostReady <=> ~FloxFails /\ ~PodmanFails /\ ~ScaffoldFails /\ ~KeychainFails({})
<1>1. Reaches(host.flox, FloxMin) <=> ~FloxFails
  BY ToolMeant, DoctorAssumption DEF TypeOK, Host, FloxFails
<1>2. Reaches(host.podman, PodmanMin) <=> ~PodmanFails
  BY ToolMeant, DoctorAssumption DEF TypeOK, Host, PodmanFails
<1>3. CASE ~CanRead
  BY <1>1, <1>2, <1>3 DEF HostReady, ScaffoldFails, KeychainFails, CanRead
<1>4. CASE CanRead
  <2>1. IsFile(file)
    BY <1>4 DEF CanRead, TypeOK
  <2>2. Findings(file) = {} <=> T!Valid(Means(file))
    BY <2>1, ValidatedMeant
  <2>3. ASSUME Findings(file) = {}
        PROVE UserEntries(file) = {s \in T!Entries(Means(file)) : T!SourceOf(s) = "user"}
    <3>1. CatalogueFindings(file) = {}
      BY <2>3 DEF Findings
    <3> QED
      BY <2>1, <3>1, CatalogueMeant DEF UserEntries
  <2> QED
    BY <1>1, <1>2, <1>4, <2>2, <2>3
    DEF HostReady, ScaffoldFails, KeychainFails, Unset, CanRead
<1> QED
  BY <1>3, <1>4

\* Where a report may end: the worst verdict is the host's.
LEMMA AllAsked ==
  ASSUME TypeOK, NEW me, SoFar(me), me.pc \in {"secret", "machine", "network"}, me.todo = {}
  PROVE me.worst # Fail <=> HostReady
BY ReadyMeant DEF SoFar, Failing

\* What a step of an undisturbed doctor leads to: a report that tells the
\* truth, or a label further on.
Good(me) == IF me.pc = "idle" THEN me.exit = "ok" <=> HostReady ELSE SoFar(me)

\* The run a step belongs to, and its context.
Follows(me) == me.since = doc.since /\ (me.cancelled => doc.cancelled /\ me.pc # "idle")

\* What is to be proved of every step.
Kept ==
  /\ RunOK'
  /\ EndsUndisturbed => (doc'.exit = "ok" <=> HostReady)
  /\ doc.cancelled /\ doc'.pc = "idle" => doc'.exit = "interrupted"

\* A step that reads, whatever becomes of the call.
LEMMA ReadsKept ==
  ASSUME TypeOK, RunOK, doc.pc # "idle", NEW ok, NEW bad, Follows(ok), Follows(bad),
         budget = doc.since => Good(ok), Reads(ok, bad)
  PROVE Kept
<1>1. doc \in Run /\ budget \in Nat /\ doc.since \in Nat /\ budget <= doc.since
  BY DisturbancesAssumption DEF TypeOK, Run, RunOK
<1>2. host' = host /\ file' = file
  BY DEF Reads
<1>3. CASE Fault /\ ~doc.cancelled /\ doc' = bad
  <2>1. budget' < doc.since
    BY <1>1, <1>3 DEF Fault
  <2>2. doc'.since = doc.since /\ ~doc'.cancelled /\ budget' \in Int
    BY <1>1, <1>3 DEF Follows, Fault
  <2> QED
    BY <1>1, <1>3, <2>1, <2>2 DEF Kept, RunOK, EndsUndisturbed
<1>4. CASE UNCHANGED budget /\ doc.cancelled /\ doc' = Interrupted(doc)
  <2>1. budget # doc.since
    BY <1>4 DEF RunOK, SoFar
  <2>2. doc'.pc = "idle" /\ ~doc'.cancelled /\ doc'.exit = "interrupted"
    BY <1>1, <1>4, ExitsRun
  <2> QED
    BY <1>4, <2>1, <2>2 DEF Kept, RunOK, EndsUndisturbed
<1>5. CASE UNCHANGED budget /\ ~doc.cancelled /\ doc' = ok
  <2>1. doc'.since = doc.since /\ ~doc'.cancelled
    BY <1>5 DEF Follows
  <2>2. budget = doc.since /\ doc'.pc # "idle" => SoFar(doc)'
    <3>1. SoFar(ok) => SoFar(doc)'
      BY <1>2, <1>5 DEF SoFar, Failing, ToAsk, FloxFails, PodmanFails, CanRead, ScaffoldFails,
                        Unset, KeychainFails
    <3> QED
      BY <1>5, <3>1 DEF Good
  <2>3. budget = doc.since /\ doc'.pc = "idle" => (doc'.exit = "ok" <=> HostReady)
    BY <1>5 DEF Good
  <2> QED
    BY <1>1, <1>5, <2>1, <2>2, <2>3 DEF Kept, RunOK, EndsUndisturbed
<1> QED
  BY <1>3, <1>4, <1>5 DEF Reads, UnlessCancelled

\* A verdict only changes the worst.
LEMMA CheckedFollows ==
  ASSUME TypeOK, NEW status \in Status
  PROVE LET c == Checked(doc, status) IN
        /\ c \in Run /\ c.pc = doc.pc /\ c.since = doc.since /\ c.cancelled = doc.cancelled
        /\ c.podmanFailed = doc.podmanFailed /\ c.topologyOK = doc.topologyOK
        /\ c.todo = doc.todo /\ c.zones = doc.zones /\ c.exit = doc.exit
        /\ c.worst = Fail <=> doc.worst = Fail \/ status = Fail
<1>1. doc \in Run
  BY DEF TypeOK
<1> DEFINE c == Checked(doc, status)
<1>2. c \in Run /\ c = [doc EXCEPT !.worst = c.worst]
      /\ (c.worst = Fail <=> doc.worst = Fail \/ status = Fail)
  BY <1>1, CheckedRun
<1> HIDE DEF c
<1>3. /\ c.pc = doc.pc /\ c.since = doc.since /\ c.cancelled = doc.cancelled
      /\ c.podmanFailed = doc.podmanFailed /\ c.topologyOK = doc.topologyOK
      /\ c.todo = doc.todo /\ c.zones = doc.zones /\ c.exit = doc.exit
  BY <1>1, <1>2 DEF Run
<1> QED
  BY <1>2, <1>3 DEF c

\* A report that ends with one more verdict.
LEMMA EndsFollows ==
  ASSUME TypeOK, NEW status \in Status
  PROVE LET e == Exits(Checked(doc, status)) IN
        /\ e.pc = "idle" /\ ~e.cancelled /\ e.since = doc.since
        /\ e.exit = "ok" <=> doc.worst # Fail /\ status # Fail
<1> DEFINE c == Checked(doc, status)
<1>1. c \in Run /\ c.since = doc.since /\ (c.worst = Fail <=> doc.worst = Fail \/ status = Fail)
  BY CheckedFollows
<1> HIDE DEF c
<1>2. /\ Exits(c).pc = "idle" /\ ~Exits(c).cancelled /\ Exits(c).since = c.since
      /\ Exits(c).exit = "ok" <=> c.worst # Fail
  BY <1>1, ExitsRun
<1> QED
  BY <1>1, <1>2 DEF c

LEMMA FloxKept ==
  ASSUME TypeOK, RunOK, FloxVersion
  PROVE Kept
<1> DEFINE to(status) == [Checked(doc, status) EXCEPT !.pc = "podman"]
           found == EvaluateTool(host.flox, FloxMin)
<1>1. doc.pc = "flox" /\ Reads(to(found), to(Fail))
  BY DEF FloxVersion
<1>2. found \in Status /\ Fail \in Status
  BY StatusRange DEF Status
<1>3. ASSUME NEW s \in Status
      PROVE /\ to(s).pc = "podman" /\ to(s).since = doc.since /\ to(s).cancelled = doc.cancelled
            /\ to(s).podmanFailed = doc.podmanFailed /\ to(s).todo = doc.todo
            /\ to(s).worst = Fail <=> doc.worst = Fail \/ s = Fail
  BY CheckedFollows DEF Run
<1>4. found = Fail <=> FloxFails
  BY DEF FloxFails
<1> HIDE DEF to, found
<1>5. budget = doc.since => Good(to(found))
  BY <1>1, <1>2, <1>3, <1>4 DEF RunOK, Good, SoFar, Failing, ToAsk
<1> QED
  BY <1>1, <1>2, <1>3, <1>5, ReadsKept DEF Follows

LEMMA PodmanKept ==
  ASSUME TypeOK, RunOK, PodmanVersion
  PROVE Kept
<1> DEFINE to(status) == [Checked(doc, status) EXCEPT !.pc = "scaffold",
                                                      !.podmanFailed = status = Fail]
           found == EvaluateTool(host.podman, PodmanMin)
<1>1. doc.pc = "podman" /\ Reads(to(found), to(Fail))
  BY DEF PodmanVersion
<1>2. found \in Status /\ Fail \in Status
  BY StatusRange DEF Status
<1>3. ASSUME NEW s \in Status
      PROVE /\ to(s).pc = "scaffold" /\ to(s).since = doc.since
            /\ to(s).cancelled = doc.cancelled
            /\ to(s).podmanFailed = (s = Fail) /\ to(s).todo = doc.todo
            /\ to(s).worst = Fail <=> doc.worst = Fail \/ s = Fail
  BY CheckedFollows DEF Run
<1>4. found = Fail <=> PodmanFails
  BY DEF PodmanFails
<1> HIDE DEF to, found
<1>5. budget = doc.since => Good(to(found))
  BY <1>1, <1>2, <1>3, <1>4 DEF RunOK, Good, SoFar, Failing, ToAsk
<1> QED
  BY <1>1, <1>2, <1>3, <1>5, ReadsKept DEF Follows

LEMMA ScaffoldKept ==
  ASSUME TypeOK, RunOK, ReadScaffold
  PROVE Kept
<1> DEFINE skipped(status) == [Checked(Checked(doc, status), Warn) EXCEPT !.pc = "secret"]
           loaded == [Checked(doc, FindingsStatus(file)) EXCEPT
                        !.pc = "keychain", !.topologyOK = TRUE, !.todo = UserEntries(file)]
<1>1. doc \in Run /\ doc.pc = "scaffold" /\ UNCHANGED <<budget, host, file>>
      /\ host.dir \in {"absent", "unreadable", "there"}
  BY DEF ReadScaffold, TypeOK, Host
<1>2. Warn \in Status /\ Fail \in Status /\ FindingsStatus(file) \in Status /\ Warn # Fail
  BY StatusRange DEF Status
<1>3. ASSUME NEW s \in Status
      PROVE /\ skipped(s).pc = "secret" /\ skipped(s).since = doc.since
            /\ skipped(s).cancelled = doc.cancelled
            /\ skipped(s).podmanFailed = doc.podmanFailed /\ skipped(s).todo = doc.todo
            /\ skipped(s).worst = Fail <=> doc.worst = Fail \/ s = Fail
  <2> DEFINE a == Checked(doc, s)
             c == Checked(a, Warn)
  <2>1. a \in Run /\ a.since = doc.since /\ a.cancelled = doc.cancelled
        /\ a.podmanFailed = doc.podmanFailed /\ a.todo = doc.todo
        /\ (a.worst = Fail <=> doc.worst = Fail \/ s = Fail)
    BY CheckedFollows
  <2> HIDE DEF a
  <2>2. c \in Run /\ c = [a EXCEPT !.worst = c.worst] /\ (c.worst = Fail <=> a.worst = Fail)
    BY <1>2, <2>1, CheckedRun
  <2>3. skipped(s) = [c EXCEPT !.pc = "secret"]
    BY DEF a
  <2> HIDE DEF c, skipped
  <2> QED
    BY <2>1, <2>2, <2>3 DEF Run
<1>4. /\ loaded.pc = "keychain" /\ loaded.since = doc.since
      /\ loaded.cancelled = doc.cancelled
      /\ loaded.podmanFailed = doc.podmanFailed /\ loaded.todo = UserEntries(file)
      /\ loaded.worst = Fail <=> doc.worst = Fail \/ Findings(file) # {}
  <2>1. FindingsStatus(file) = Fail <=> Findings(file) # {}
    BY DEF FindingsStatus, Pass, Fail
  <2> QED
    BY <1>2, <2>1, CheckedFollows DEF Run
<1>5. \/ host.dir = "absent" /\ doc' = skipped(Warn)
      \/ (host.dir = "unreadable" \/ (host.dir = "there" /\ ~CanRead)) /\ doc' = skipped(Fail)
      \/ CanRead /\ doc' = loaded
  <2> HIDE DEF skipped, loaded
  <2>1. doc' = CASE host.dir = "absent" -> skipped(Warn)
                 [] host.dir = "unreadable" -> skipped(Fail)
                 [] host.dir = "there" /\ (file = None \/ ~Loads(file)) -> skipped(Fail)
                 [] OTHER -> loaded
    BY DEF ReadScaffold, skipped, loaded
  <2> QED
    BY <1>1, <2>1 DEF CanRead
<1> HIDE DEF skipped, loaded
<1>6. doc'.pc # "idle" /\ doc'.since = doc.since
  BY <1>2, <1>3, <1>4, <1>5
<1>7. ASSUME budget = doc.since PROVE SoFar(doc')
  <2>1. SoFar(doc)
    BY <1>1, <1>7 DEF RunOK
  <2>2. CASE host.dir = "absent" /\ doc' = skipped(Warn)
    BY <1>1, <1>2, <1>3, <2>1, <2>2
    DEF SoFar, Failing, ToAsk, ScaffoldFails, KeychainFails, CanRead
  <2>3. CASE (host.dir = "unreadable" \/ (host.dir = "there" /\ ~CanRead)) /\ doc' = skipped(Fail)
    BY <1>1, <1>2, <1>3, <2>1, <2>3
    DEF SoFar, Failing, ToAsk, ScaffoldFails, KeychainFails, CanRead
  <2>4. CASE CanRead /\ doc' = loaded
    BY <1>1, <1>4, <2>1, <2>4 DEF SoFar, Failing, ToAsk, ScaffoldFails, CanRead
  <2> QED
    BY <1>5, <2>2, <2>3, <2>4
<1>8. SoFar(doc') => SoFar(doc)'
  BY <1>1 DEF SoFar, Failing, ToAsk, FloxFails, PodmanFails, CanRead, ScaffoldFails, Unset,
              KeychainFails
<1>9. budget <= doc.since
  BY <1>1 DEF RunOK
<1> QED
  BY <1>1, <1>6, <1>7, <1>8, <1>9 DEF Kept, RunOK, EndsUndisturbed

LEMMA KeychainKept ==
  ASSUME TypeOK, RunOK, FindKeychain
  PROVE Kept
<1> DEFINE to(status) == [Checked(doc, status) EXCEPT
                            !.pc = "secret", !.todo = IF status = Fail THEN {} ELSE @]
           found == EvaluateKeychain(host.kc)
<1>1. doc.pc = "keychain" /\ Reads(to(found), to(Fail)) /\ host.kc \in BOOLEAN
  BY DEF FindKeychain, TypeOK, Host
<1>2. found \in Status /\ Fail \in Status /\ (found = Fail <=> ~host.kc)
  BY <1>1 DEF EvaluateKeychain, Status, Pass, Fail
<1>3. ASSUME NEW s \in Status
      PROVE /\ to(s).pc = "secret" /\ to(s).since = doc.since /\ to(s).cancelled = doc.cancelled
            /\ to(s).podmanFailed = doc.podmanFailed
            /\ to(s).todo = IF s = Fail THEN {} ELSE doc.todo
            /\ to(s).worst = Fail <=> doc.worst = Fail \/ s = Fail
  BY CheckedFollows DEF Run
<1> HIDE DEF to, found
<1>4. ASSUME budget = doc.since PROVE Good(to(found))
  <2>1. SoFar(doc) /\ CanRead /\ doc.todo = UserEntries(file)
    BY <1>1, <1>4 DEF RunOK, SoFar, ToAsk
  <2>2. to(found).todo = IF host.kc THEN UserEntries(file) ELSE {}
    BY <1>2, <1>3, <2>1
  <2>3. KeychainFails(to(found).todo) <=> ~host.kc
    BY <2>1, <2>2 DEF KeychainFails, Unset
  <2> QED
    BY <1>1, <1>2, <1>3, <2>1, <2>2, <2>3 DEF Good, SoFar, Failing, ToAsk
<1> QED
  BY <1>1, <1>2, <1>3, <1>4, ReadsKept DEF Follows

LEMMA SecretKept ==
  ASSUME TypeOK, RunOK, DescribeSecret
  PROVE Kept
<1>1. PICK s \in doc.todo :
        LET to(status) == [Checked(doc, status) EXCEPT !.todo = @ \ {s}]
        IN Reads(to(EvaluateSecret(host.kc /\ s \in host.set)), to(Fail))
  BY DEF DescribeSecret
<1> DEFINE to(status) == [Checked(doc, status) EXCEPT !.todo = @ \ {s}]
           found == EvaluateSecret(host.kc /\ s \in host.set)
<1>2. doc.pc = "secret" /\ Reads(to(found), to(Fail)) /\ host.kc \in BOOLEAN
  BY <1>1 DEF DescribeSecret, TypeOK, Host
<1>3. found \in Status /\ Fail \in Status /\ (found = Fail <=> ~(host.kc /\ s \in host.set))
  BY <1>2 DEF EvaluateSecret, Status, Pass, Fail
<1>4. ASSUME NEW u \in Status
      PROVE /\ to(u).pc = "secret" /\ to(u).since = doc.since /\ to(u).cancelled = doc.cancelled
            /\ to(u).podmanFailed = doc.podmanFailed
            /\ to(u).todo = doc.todo \ {s}
            /\ to(u).worst = Fail <=> doc.worst = Fail \/ u = Fail
  BY <1>2, CheckedFollows DEF Run
<1> HIDE DEF to, found
<1>5. ASSUME budget = doc.since PROVE Good(to(found))
  <2>1. SoFar(doc) /\ CanRead /\ host.kc /\ doc.todo \subseteq UserEntries(file)
    BY <1>2, <1>5 DEF RunOK, SoFar, ToAsk
  <2>2. UserEntries(file) \ (doc.todo \ {s}) = (UserEntries(file) \ doc.todo) \union {s}
    BY <2>1
  <2>3. KeychainFails(to(found).todo) <=> KeychainFails(doc.todo) \/ s \notin host.set
    BY <1>3, <1>4, <2>1, <2>2 DEF KeychainFails, Unset
  <2>4. to(found).todo \subseteq UserEntries(file)
    BY <1>3, <1>4, <2>1
  <2> QED
    BY <1>2, <1>3, <1>4, <2>1, <2>3, <2>4 DEF Good, SoFar, Failing, ToAsk
<1> QED
  BY <1>2, <1>3, <1>4, <1>5, ReadsKept DEF Follows

LEMMA DoneKept ==
  ASSUME TypeOK, RunOK, SecretsDone
  PROVE Kept
<1> DEFINE ends == Exits(Checked(doc, Warn))
           goes == [doc EXCEPT !.pc = "machine"]
           ok == IF doc.podmanFailed THEN ends ELSE goes
<1>1. doc \in Run /\ doc.pc = "secret" /\ doc.todo = {} /\ Warn \in Status /\ Warn # Fail
  BY StatusRange DEF SecretsDone, TypeOK, Status
<1>2. /\ ends.pc = "idle" /\ ~ends.cancelled /\ ends.since = doc.since
      /\ ends.exit = "ok" <=> doc.worst # Fail
  BY <1>1, EndsFollows
<1>3. /\ goes.pc = "machine" /\ goes.since = doc.since /\ goes.cancelled = doc.cancelled
      /\ goes.podmanFailed = doc.podmanFailed /\ goes.todo = {} /\ goes.worst = doc.worst
  BY <1>1 DEF Run
<1>4. Reads(ok, ok)
  BY DEF SecretsDone, Reads
<1> HIDE DEF ends, goes
<1>5. ASSUME budget = doc.since PROVE Good(ok)
  <2>1. SoFar(doc)
    BY <1>1, <1>5 DEF RunOK
  <2>2. CASE doc.podmanFailed
    BY <1>1, <1>2, <2>1, <2>2, AllAsked DEF Good
  <2>3. CASE ~doc.podmanFailed
    BY <1>1, <1>3, <2>1, <2>3 DEF Good, SoFar, Failing, ToAsk
  <2> QED
    BY <2>2, <2>3
<1>6. Follows(ok)
  BY <1>2, <1>3 DEF Follows
<1> HIDE DEF ok
<1> QED
  BY <1>1, <1>4, <1>5, <1>6, ReadsKept

LEMMA MachineKept ==
  ASSUME TypeOK, RunOK, ListMachine
  PROVE Kept
<1> DEFINE found == Checked(doc, EvaluateMachine(host.machine))
           next == [found EXCEPT !.pc = "network", !.zones = T!Role]
           ok == IF host.machine = "running" /\ doc.topologyOK THEN next ELSE Exits(found)
           bad == Exits(Checked(doc, Fail))
<1>1. doc.pc = "machine" /\ Reads(ok, bad)
  BY DEF ListMachine
<1>2. EvaluateMachine(host.machine) \in Status \ {Fail} /\ Fail \in Status
  BY StatusRange DEF Status
<1>3. /\ found \in Run /\ found.since = doc.since /\ found.cancelled = doc.cancelled
      /\ found.podmanFailed = doc.podmanFailed /\ found.todo = doc.todo
      /\ found.worst = Fail <=> doc.worst = Fail
  BY <1>2, CheckedFollows
<1>4. Follows(bad)
  BY <1>2, EndsFollows DEF Follows
<1> HIDE DEF found, bad
<1>5. /\ next.pc = "network" /\ next.since = doc.since /\ next.cancelled = doc.cancelled
      /\ next.podmanFailed = doc.podmanFailed /\ next.todo = doc.todo
      /\ next.worst = Fail <=> doc.worst = Fail
  BY <1>3 DEF Run
<1>6. /\ Exits(found).pc = "idle" /\ ~Exits(found).cancelled /\ Exits(found).since = doc.since
      /\ Exits(found).exit = "ok" <=> doc.worst # Fail
  BY <1>3, ExitsRun
<1> HIDE DEF next
<1>7. Follows(ok)
  BY <1>5, <1>6 DEF Follows
<1>8. ASSUME budget = doc.since PROVE Good(ok)
  <2>1. SoFar(doc) /\ doc.todo = {}
    BY <1>1, <1>8 DEF RunOK, SoFar, ToAsk
  <2>2. CASE host.machine = "running" /\ doc.topologyOK
    BY <1>1, <1>5, <2>1, <2>2 DEF Good, SoFar, Failing, ToAsk
  <2>3. CASE ~(host.machine = "running" /\ doc.topologyOK)
    BY <1>1, <1>6, <2>1, <2>3, AllAsked DEF Good
  <2> QED
    BY <2>2, <2>3
<1> HIDE DEF ok
<1> QED
  BY <1>1, <1>4, <1>7, <1>8, ReadsKept

LEMMA NetworkKept ==
  ASSUME TypeOK, RunOK, FindNetwork
  PROVE Kept
<1>1. PICK r \in doc.zones :
        LET found == Checked(doc, EvaluateNetwork(r \in host.nets))
            next  == [found EXCEPT !.zones = @ \ {r}]
        IN Reads(CASE host.machine # "running" -> Exits(Checked(doc, Fail))
                   [] host.machine = "running" /\ next.zones # {} -> next
                   [] OTHER -> Exits(next),
                 Exits(Checked(doc, Fail)))
  BY DEF FindNetwork
<1> DEFINE found == Checked(doc, EvaluateNetwork(r \in host.nets))
           next  == [found EXCEPT !.zones = @ \ {r}]
           bad == Exits(Checked(doc, Fail))
           ok == CASE host.machine # "running" -> bad
                   [] host.machine = "running" /\ next.zones # {} -> next
                   [] OTHER -> Exits(next)
<1>2. doc.pc = "network" /\ Reads(ok, bad)
  BY <1>1 DEF FindNetwork
<1>3. EvaluateNetwork(r \in host.nets) \in Status \ {Fail} /\ Fail \in Status
  BY DEF EvaluateNetwork, Status, Pass, Warn, Fail
<1>4. /\ found \in Run /\ found.since = doc.since /\ found.cancelled = doc.cancelled
      /\ found.podmanFailed = doc.podmanFailed /\ found.todo = doc.todo /\ found.pc = doc.pc
      /\ found.worst = Fail <=> doc.worst = Fail
  BY <1>3, CheckedFollows
<1>5. Follows(bad)
  BY <1>3, EndsFollows DEF Follows
<1> HIDE DEF found, bad
<1>6. /\ next \in Run /\ next.pc = "network" /\ next.since = doc.since
      /\ next.cancelled = doc.cancelled
      /\ next.podmanFailed = doc.podmanFailed /\ next.todo = doc.todo
      /\ next.worst = Fail <=> doc.worst = Fail
  BY <1>2, <1>4 DEF Run
<1> HIDE DEF next
<1>7. /\ Exits(next).pc = "idle" /\ ~Exits(next).cancelled /\ Exits(next).since = doc.since
      /\ Exits(next).exit = "ok" <=> doc.worst # Fail
  BY <1>6, ExitsRun
<1>8. Follows(ok)
  BY <1>5, <1>6, <1>7 DEF Follows
<1>9. ASSUME budget = doc.since PROVE Good(ok)
  <2>1. SoFar(doc) /\ doc.todo = {} /\ host.machine = "running"
    BY <1>2, <1>9 DEF RunOK, SoFar, ToAsk
  <2>2. CASE next.zones # {}
    <3>1. ok = next
      BY <2>1, <2>2
    <3> QED
      BY <1>2, <1>6, <2>1, <3>1 DEF Good, SoFar, Failing, ToAsk
  <2>3. CASE next.zones = {}
    <3>1. ok = Exits(next)
      BY <2>1, <2>3
    <3> QED
      BY <1>2, <1>7, <2>1, <3>1, AllAsked DEF Good
  <2> QED
    BY <2>2, <2>3
<1> HIDE DEF ok
<1> QED
  BY <1>2, <1>5, <1>8, <1>9, ReadsKept

LEMMA OutsideKept ==
  ASSUME TypeOK, RunOK, Start \/ Interrupt \/ HostChange \/ Edit \/ UNCHANGED vars
  PROVE Kept
<1>1. doc \in Run /\ budget \in Nat /\ doc.since \in Nat
  BY DisturbancesAssumption DEF TypeOK, Run
<1>2. CASE Start
  <2>1. /\ doc'.pc = "flox" /\ doc'.since = budget /\ ~doc'.cancelled /\ doc'.worst = Pass
        /\ ~doc'.podmanFailed /\ doc'.todo = {}
    BY <1>2 DEF Start, NoDoctor
  <2>2. SoFar(doc)'
    BY <2>1, StatusRange DEF SoFar, Failing, ToAsk
  <2> QED
    BY <1>1, <1>2, <2>1, <2>2 DEF Kept, RunOK, EndsUndisturbed, Start
<1>3. CASE Interrupt
  <2>1. doc'.pc = doc.pc /\ doc'.since = doc.since /\ doc.pc # "idle" /\ budget' < budget
    BY <1>1, <1>3 DEF Interrupt, Fault, Run
  <2>2. budget' \in Int
    BY <1>1, <1>3 DEF Interrupt, Fault
  <2> QED
    BY <1>1, <2>1, <2>2 DEF Kept, RunOK, EndsUndisturbed
<1>4. CASE HostChange \/ Edit
  <2>1. doc' = doc /\ budget' < budget /\ budget' \in Int
    BY <1>1, <1>4 DEF HostChange, Edit, Fault
  <2> QED
    BY <1>1, <2>1 DEF Kept, RunOK, EndsUndisturbed
<1>5. CASE UNCHANGED vars
  <2>1. SoFar(doc) => SoFar(doc)'
    BY <1>5 DEF vars, SoFar, Failing, ToAsk, FloxFails, PodmanFails, CanRead, ScaffoldFails,
                Unset, KeychainFails
  <2> QED
    BY <1>5, <2>1 DEF vars, Kept, RunOK, EndsUndisturbed
<1> QED
  BY <1>2, <1>3, <1>4, <1>5

LEMMA StepKept ==
  TypeOK /\ RunOK /\ [Next]_vars => Kept
BY FloxKept, PodmanKept, ScaffoldKept, KeychainKept, SecretKept, DoneKept, MachineKept,
   NetworkKept, OutsideKept DEF Next, DoctorStep

LEMMA RunHolds == Spec => []RunOK
<1>1. Init => RunOK
  BY DEF Init, NoDoctor, RunOK
<1>2. TypeOK /\ RunOK /\ [Next]_vars => RunOK'
  BY StepKept DEF Kept
<1> QED
  BY DoctorTypes, <1>1, <1>2, PTL DEF Spec

\* A doctor during which nothing failed or changed exits 0 exactly when flox and
\* podman are recent enough and the scaffold, if there is one, is one up accepts,
\* with its keychain and the user's secrets there: for every host and every file,
\* no check that is skipped hides a problem, and none fails for another's
\* reason. (Run.)
THEOREM ReportIsTrue == Spec => DoctorTellsTheTruth
<1>1. TypeOK /\ RunOK /\ [Next]_vars => (EndsUndisturbed => (doc'.exit = "ok" <=> HostReady))
  BY StepKept DEF Kept
<1> QED
  BY DoctorTypes, RunHolds, <1>1, PTL DEF Spec, DoctorTellsTheTruth

\* A doctor that is interrupted while something is left to read exits 130, at
\* every label and for every number of secrets and zones. (ctx.Err after each.)
THEOREM InterruptedExits == Spec => InterruptIsNoFailure
<1>1. TypeOK /\ RunOK /\ [Next]_vars
        => (doc.cancelled /\ doc'.pc = "idle" => doc'.exit = "interrupted")
  BY StepKept DEF Kept
<1> QED
  BY DoctorTypes, RunHolds, <1>1, PTL DEF Spec, InterruptIsNoFailure

=============================================================================
