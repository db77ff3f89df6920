------------------------- MODULE HwStagingProofs -------------------------
(* What the hardware run says of its pools' configuration, proved for every  *)
(* set of pools, branches and texts of pools.yml and any number of changes.  *)
EXTENDS HwStagingInv, FiniteSetTheorems, WellFoundedInduction, TLAPS

\* The branches keep what they have held.
LEMMA HadGrows ==
  ASSUME HeadIsHad, [Next]_vars
  PROVE  HeadIsHad' /\ \A r \in Refs : had[r] \subseteq had'[r]
<1>1. ASSUME NEW r \in Refs, NEW f \in Texts, Lands(r, f)
      PROVE  HeadIsHad' /\ \A x \in Refs : had[x] \subseteq had'[x]
  BY <1>1 DEF Lands, HeadIsHad
<1>2. CASE UNCHANGED file
  BY <1>2 DEF file, HeadIsHad
<1>3. Script => UNCHANGED file
  BY DEF Script, Resolve, FetchFirst, DeploymentRecords, Preflight, Pass, Trigger,
         StopsThere, Wait, Waited, FetchSecond, ReportDrift, Report
<1> QED
  BY <1>1, <1>2, <1>3 DEF Next, vars, file

\* What the job checked out and was asked for stay as they are.
LEMMA InputsStay ==
  ASSUME [Next]_vars PROVE request' = request /\ disk' = disk
BY DEF Next, Script, Resolve, FetchFirst, DeploymentRecords, Preflight, Pass, Trigger,
       StopsThere, Wait, Waited, FetchSecond, ReportDrift, Report, Lands, vars, file

\* A ref in a snapshot is one of the branches.
Read == DOMAIN before \subseteq Refs /\ DOMAIN after \subseteq Refs

\* One more ref read from its present head leaves the snapshot true.
LEMMA OneMoreIsTrue ==
  ASSUME HeadIsHad, [Next]_vars, NEW s, TrueOf(s), DOMAIN s \subseteq Refs,
         NEW r \in Refs, Readable(head[r])
  PROVE  /\ DOMAIN With(s, r) \subseteq Refs
         /\ \A x \in DOMAIN With(s, r) :
              \E f \in had'[x] : Readable(f) /\ With(s, r)[x] = PerPool(f)
<1>1. DOMAIN With(s, r) = DOMAIN s \union {r}
  BY DEF With
<1>2. ASSUME NEW x \in DOMAIN With(s, r)
      PROVE  \E f \in had'[x] : Readable(f) /\ With(s, r)[x] = PerPool(f)
  <2>1. x \in Refs /\ had[x] \subseteq had'[x]
    BY <1>1, <1>2, HadGrows
  <2>2. CASE x = r
    BY <2>1, <2>2, <1>1 DEF With, HeadIsHad
  <2>3. CASE x # r
    BY <2>1, <2>3, <1>1 DEF With, TrueOf
  <2> QED BY <2>2, <2>3
<1> QED BY <1>1, <1>2

\* What was true of a snapshot stays true of it.
LEMMA SnapshotStaysTrue ==
  ASSUME HeadIsHad, [Next]_vars, NEW s, TrueOf(s), DOMAIN s \subseteq Refs
  PROVE  \A x \in DOMAIN s : \E f \in had'[x] : Readable(f) /\ s[x] = PerPool(f)
BY HadGrows DEF TrueOf

LEMMA ReadingsStep ==
  ASSUME HeadIsHad, Read, ReadingsTrue, [Next]_vars
  PROVE  Read' /\ ReadingsTrue'
<1>1. \/ before' = before
      \/ \E r \in Refs : Readable(head[r]) /\ before' = With(before, r)
  BY DEF Next, Script, Resolve, FetchFirst, DeploymentRecords, Preflight, Pass, Trigger,
         StopsThere, Wait, Waited, FetchSecond, ReportDrift, Report, Lands, vars, readings
<1>2. \/ after' = after
      \/ \E r \in Refs : Readable(head[r]) /\ after' = With(after, r)
  BY DEF Next, Script, Resolve, FetchFirst, DeploymentRecords, Preflight, Pass, Trigger,
         StopsThere, Wait, Waited, FetchSecond, ReportDrift, Report, Lands, vars, readings
<1>3. \A f : PerPool(f)' = PerPool(f)
  BY InputsStay DEF PerPool, State, Entry, Pools, Named
<1>4. DOMAIN before' \subseteq Refs /\ TrueOf(before)'
  <2>1. CASE before' = before
    BY <2>1, <1>3, SnapshotStaysTrue DEF Read, ReadingsTrue, TrueOf
  <2>2. ASSUME NEW r \in Refs, Readable(head[r]), before' = With(before, r)
        PROVE  DOMAIN before' \subseteq Refs /\ TrueOf(before)'
    BY <2>2, <1>3, OneMoreIsTrue DEF Read, ReadingsTrue, TrueOf
  <2> QED BY <1>1, <2>1, <2>2
<1>5. DOMAIN after' \subseteq Refs /\ TrueOf(after)'
  <2>1. CASE after' = after
    BY <2>1, <1>3, SnapshotStaysTrue DEF Read, ReadingsTrue, TrueOf
  <2>2. ASSUME NEW r \in Refs, Readable(head[r]), after' = With(after, r)
        PROVE  DOMAIN after' \subseteq Refs /\ TrueOf(after)'
    BY <2>2, <1>3, OneMoreIsTrue DEF Read, ReadingsTrue, TrueOf
  <2> QED BY <1>2, <2>1, <2>2
<1> QED
  BY <1>4, <1>5 DEF Read, ReadingsTrue

-----------------------------------------------------------------------------

LEMMA RecordsStep ==
  ASSUME RecordsFit, [Next]_vars PROVE RecordsFit'
<1>a. \A p : Entry(disk, p)' = Entry(disk, p)
  BY InputsStay DEF Entry, Named
<1>b. ASSUME before' = before PROVE \A p : Record(p)' = Record(p)
  BY <1>a, <1>b DEF Record
<1>1. CASE \E r \in Refs : FetchFirst(r)
  BY <1>1 DEF FetchFirst, RecordsFit, Nothing, file
<1>2. CASE DeploymentRecords
  BY <1>2, <1>b, InputsStay DEF DeploymentRecords, RecordsFit
<1>3. CASE Resolve
  BY <1>3 DEF Resolve, Exits, Raises, RecordsFit, Nothing, readings
<1>4. CASE /\ phase \notin {"start", "before"} \/ phase' = phase
           /\ phase' \notin {"start", "before"} \/ phase' = phase
           /\ UNCHANGED <<before, records>>
  BY <1>4, <1>b, InputsStay DEF RecordsFit
<1>5. \/ \E r \in Refs : FetchFirst(r)
      \/ DeploymentRecords \/ Resolve
      \/ /\ phase \notin {"start", "before"} \/ phase' = phase
         /\ phase' \notin {"start", "before"} \/ phase' = phase
         /\ UNCHANGED <<before, records>>
  BY DEF Next, Script, Preflight, Pass, Trigger, StopsThere, Wait, Waited, FetchSecond,
         ReportDrift, Report, Lands, Exits, Raises, vars, readings
<1> QED
  BY <1>1, <1>2, <1>3, <1>4, <1>5

LEMMA DriftStep ==
  ASSUME DriftFits, [Next]_vars PROVE DriftFits'
<1> DEFINE Early == {"start", "before", "preflight", "trigger", "wait"}
<1>1. after = Nothing => Compare = {}
  BY DEF Compare, Nothing
<1>2. CASE \E r \in Refs : FetchFirst(r)
  BY <1>2 DEF FetchFirst, Raises, DriftFits
<1>3. CASE \E r \in Refs : FetchSecond(r)
  BY <1>3 DEF FetchSecond, Raises, DriftFits
<1>4. CASE ReportDrift
  BY <1>4 DEF ReportDrift, DriftFits, Compare
<1>5. CASE UNCHANGED <<before, after, drift>> /\ ~ReportDrift
           /\ phase = "report" /\ phase' = "finished"
  BY <1>5 DEF DriftFits, Compare
<1>6. CASE /\ UNCHANGED <<before, after, drift>>
           /\ phase \in Early /\ phase' \in Early \union {"after", "finished", "crashed"}
  BY <1>6, <1>1 DEF DriftFits, Compare
<1>7. CASE UNCHANGED <<before, after, drift, phase>>
  BY <1>7 DEF DriftFits, Compare
<1>8. \/ \E r \in Refs : FetchFirst(r) \/ FetchSecond(r)
      \/ ReportDrift
      \/ UNCHANGED <<before, after, drift>> /\ phase = "report" /\ phase' = "finished"
      \/ /\ UNCHANGED <<before, after, drift>>
         /\ phase \in Early /\ phase' \in Early \union {"after", "finished", "crashed"}
      \/ UNCHANGED <<before, after, drift, phase>>
  BY DEF Next, Script, Resolve, DeploymentRecords, Preflight, Pass, Trigger,
         StopsThere, Wait, Waited, Report, Lands, Exits, Raises, vars, readings
<1> QED
  BY <1>2, <1>3, <1>4, <1>5, <1>6, <1>7, <1>8 DEF ReportDrift

\* A worker that counts is one that claims.
LEMMA ActiveClaims ==
  ASSUME NEW w \in [Nodes -> WorkerStates], Cardinality(Active(w)) >= MinHealthy
  PROVE  /\ Cardinality(Claiming(w)) >= MinHealthy
         /\ MinHealthy > 0 => Active(w) # {}
         /\ Active(w) \subseteq Claiming(w)
<1>1. Active(w) \subseteq Claiming(w) /\ Claiming(w) \subseteq Nodes
  BY DEF Active, Claiming, Seen, WorkerStates
<1>2. IsFiniteSet(Claiming(w)) /\ MinHealthy \in Nat
  BY <1>1, FS_Subset, HwStagingAssumption
<1>3. /\ Cardinality(Active(w)) <= Cardinality(Claiming(w))
      /\ Cardinality(Active(w)) \in Nat /\ Cardinality(Claiming(w)) \in Nat
  BY <1>1, <1>2, FS_Subset, FS_CardinalityType
<1>4. Active(w) = {} => Cardinality(Active(w)) = 0
  BY FS_EmptySet
<1> QED
  BY <1>1, <1>2, <1>3, <1>4

LEMMA GateStep ==
  ASSUME GateFits, [Next]_vars PROVE GateFits'
<1>1. Resolves(disk, request)' = Resolves(disk, request)
  BY InputsStay DEF Resolves, Pools, Named, is_production
<1> USE DEF GateFits, Exits, Raises, gate
<1>2. CASE Resolve
  BY <1>1, <1>2 DEF Resolve
<1>3. CASE DeploymentRecords
  BY <1>1, <1>3 DEF DeploymentRecords
<1>4. CASE \E p \in Names : Preflight(p)
  <2> PICK p \in Names : Preflight(p)
    BY <1>4
  <2>1. CASE UNCHANGED <<ok, told, alive, own>>
    BY <1>1, <2>1 DEF Preflight
  <2>2. ASSUME NEW w \in [Nodes -> WorkerStates],
               ok' = Mark(ok, p, Cardinality(Active(w)) >= MinHealthy),
               told' = Mark(told, p, Active(w) \ HealthyNodes(disk, p) # {}),
               alive' = Mark(alive, p, Cardinality(Claiming(w)) >= MinHealthy),
               own' = Mark(own, p, Claiming(w) \intersect HealthyNodes(disk, p) # {}),
               phase' = phase
        PROVE  GateFits'
    <3>1. ok' \subseteq alive'
      BY <2>2, ActiveClaims DEF Mark
    <3>2. ASSUME MinHealthy > 0 PROVE ok' \subseteq own' \union told'
      <4>1. own \subseteq own' /\ told \subseteq told'
        BY <2>2 DEF Mark
      <4>2. ASSUME Cardinality(Active(w)) >= MinHealthy PROVE p \in own' \union told'
        <5>1. Active(w) # {} /\ Active(w) \subseteq Claiming(w)
          BY <3>2, <4>2, ActiveClaims
        <5>2. \/ Active(w) \ HealthyNodes(disk, p) # {}
              \/ Claiming(w) \intersect HealthyNodes(disk, p) # {}
          BY <5>1
        <5> QED BY <2>2, <5>2 DEF Mark
      <4> QED BY <2>2, <3>2, <4>1, <4>2 DEF Mark
    <3> QED BY <1>1, <2>2, <3>1, <3>2 DEF Preflight
  <2> QED BY <2>1, <2>2 DEF Preflight
<1>5. CASE Pass
  BY <1>1, <1>5 DEF Pass
<1>6. CASE \E p \in Names : Trigger(p)
  BY <1>1, <1>6 DEF Trigger
<1>7. CASE StopsThere \/ Wait \/ Waited \/ ReportDrift \/ Report
  BY <1>1, <1>7 DEF StopsThere, Wait, Waited, ReportDrift, Report
<1>8. CASE \E r \in Refs : FetchFirst(r) \/ FetchSecond(r)
  BY <1>1, <1>8 DEF FetchFirst, FetchSecond
<1>9. CASE UNCHANGED vars \/ \E r \in Refs, f \in Texts : Lands(r, f)
  BY <1>1, <1>9 DEF Lands, vars
<1> QED
  BY <1>2, <1>3, <1>4, <1>5, <1>6, <1>7, <1>8, <1>9 DEF Next, Script

-----------------------------------------------------------------------------

LEMMA InitIInv ==
  ASSUME Init PROVE IInv /\ Read
<1>1. disk \in Texts /\ head \in [Refs -> Texts]
  BY HwStagingAssumption DEF Init
<1>2. Compare = {}
  BY DEF Init, Nothing, Compare
<1> QED
  BY <1>1, <1>2 DEF Init, Nothing, IInv, Read, HeadIsHad, ReadingsTrue, TrueOf, RecordsFit,
                    DriftFits, GateFits

\* What the run knows of the branches was true of them, and what it has done
\* follows from what it knew: the invariant of the whole run.
THEOREM Invariance == Spec => [](IInv /\ Read)
<1>1. Init => IInv /\ Read
  BY InitIInv
<1>2. (IInv /\ Read) /\ [Next]_vars => (IInv /\ Read)'
  BY HadGrows, ReadingsStep, RecordsStep, DriftStep, GateStep DEF IInv
<1> QED
  BY <1>1, <1>2, PTL DEF Spec

\* preflight, resolve: one pool that will not do stops all of them.
THEOREM FiredTogether == Spec => []AllOrNone
<1>1. IInv => AllOrNone
  BY DEF IInv, GateFits, AllOrNone
<1> QED
  BY <1>1, Invariance, PTL

\* The two ways a record is made.
LEMMA RecordIs ==
  ASSUME NEW p, Read
  PROVE  LET r == Record(p)  d == Entry(disk, p).dev IN
           /\ r.dev = d
           /\ \/ r.source = Checkout /\ r.config = Entry(disk, p).config
              \/ /\ r.source = d /\ d \in DOMAIN before /\ d \in Refs
                 /\ p \in DOMAIN before[d]
                 /\ r.config = before[d][p].config
BY DEF Record, Read

\* deployment_records: a result is attributed to what the branch it names held
\* while the run was on, or to the checkout's entry under the checkout's name.
THEOREM AttributionIsTrue == Spec => []RecordWasTrue
<1>1. ASSUME IInv, Read, NEW p \in DOMAIN records
      PROVE  LET r == records[p] IN
               /\ r.dev = Entry(disk, p).dev
               /\ \/ r.source = Checkout /\ r.config = Entry(disk, p).config
                  \/ /\ r.source = r.dev
                     /\ \E f \in had[r.source] :
                          Readable(f) /\ p \in Pools(f) /\ Entry(f, p).config = r.config
  <2> DEFINE d == Entry(disk, p).dev
  <2>1. records[p] = Record(p)
    BY <1>1 DEF IInv, RecordsFit
  <2>2. ASSUME d \in DOMAIN before, p \in DOMAIN before[d]
        PROVE  \E f \in had[d] : /\ Readable(f) /\ p \in Pools(f)
                                 /\ Entry(f, p).config = before[d][p].config
    <3>1. PICK f \in had[d] : Readable(f) /\ before[d] = PerPool(f)
      BY <1>1, <2>2 DEF IInv, ReadingsTrue, TrueOf
    <3>2. p \in Pools(f) /\ before[d][p] = State(f, p)
      BY <2>2, <3>1 DEF PerPool
    <3> QED BY <3>1, <3>2 DEF State
  <2> HIDE DEF d
  <2> QED
    BY <1>1, <2>1, <2>2, RecordIs DEF d
<1>2. IInv /\ Read => RecordWasTrue
  BY <1>1 DEF RecordWasTrue
<1> QED
  BY <1>2, Invariance, PTL

\* compare_deployments: a change reported is a change that landed on that
\* branch while the run was on.
THEOREM ReportedIsReal == Spec => []DriftIsReal
<1>1. ASSUME IInv, NEW c \in drift PROVE \E f, g \in had[c.ref] : Differ(f, g, c)
  <2>1. c \in Compare
    BY <1>1 DEF IInv, DriftFits
  <2>2. PICK f \in had[c.ref] : Readable(f) /\ before[c.ref] = PerPool(f)
    BY <1>1, <2>1 DEF Compare, IInv, ReadingsTrue, TrueOf
  <2>3. PICK g \in had[c.ref] : Readable(g) /\ after[c.ref] = PerPool(g)
    BY <1>1, <2>1 DEF Compare, IInv, ReadingsTrue, TrueOf
  <2>4. c.pool \in request /\ c.pool \in Pools(f)
    BY <2>1, <2>2 DEF Compare, PerPool
  <2>5. before[c.ref][c.pool] = State(f, c.pool)
    BY <2>2, <2>4 DEF PerPool
  <2>6. c.pool \in DOMAIN after[c.ref] <=> c.pool \in Pools(g)
    BY <2>3, <2>4 DEF PerPool
  <2>7. c.pool \in Pools(g) => after[c.ref][c.pool] = State(g, c.pool)
    BY <2>3, <2>4 DEF PerPool
  <2>8. Differ(f, g, c)
    BY <2>1, <2>2, <2>3, <2>4, <2>5, <2>6, <2>7 DEF Compare, Differ
  <2> QED BY <2>8
<1>2. IInv => DriftIsReal
  BY <1>1 DEF DriftIsReal
<1> QED
  BY <1>2, Invariance, PTL

\* What compare_deployments finds of one pool on one ref.
LEMMA Compares ==
  ASSUME Read, NEW r \in DOMAIN before \intersect DOMAIN after,
         NEW p \in DOMAIN before[r], p \in Names
  PROVE  /\ p \notin DOMAIN after[r] => [ref |-> r, pool |-> p, field |-> "pool"] \in Compare
         /\ p \in DOMAIN after[r] =>
              /\ after[r][p].config # before[r][p].config =>
                   [ref |-> r, pool |-> p, field |-> "config"] \in Compare
              /\ after[r][p].dev # before[r][p].dev =>
                   [ref |-> r, pool |-> p, field |-> "dev_branch"] \in Compare
              /\ after[r][p].nodes # before[r][p].nodes =>
                   [ref |-> r, pool |-> p, field |-> "nodes"] \in Compare
<1>1. r \in Refs
  BY DEF Read
<1>2. \A f \in {"pool", "config", "dev_branch", "nodes"} :
        [ref |-> r, pool |-> p, field |-> f] \in Changes
  BY <1>1 DEF Changes
<1> QED
  BY <1>2 DEF Compare, Value

\* report_drift: what the branch of a record says at the end is what the record
\* says, or the pool is in the report, or it could not be read again.
THEOREM ChangesAreReported == Spec => []DriftIsNotMissed
<1>1. ASSUME IInv, Read, request \subseteq Names, phase \in {"report", "finished"},
             NEW p \in DOMAIN records
      PROVE  /\ /\ records[p].source \in DOMAIN after
                /\ records[p].source = Checkout => Fresh(p)
                /\ Outdated(p)
                => \E c \in drift : c.pool = p /\ c.ref = records[p].source
             /\ /\ Checkout \in DOMAIN after /\ p \in DOMAIN after[Checkout] /\ Fresh(p)
                /\ after[Checkout][p].nodes # Entry(disk, p).nodes
                => [ref |-> Checkout, pool |-> p, field |-> "nodes"] \in drift
  <2> DEFINE d == Entry(disk, p).dev
             src == records[p].source
  <2>1. records[p] = Record(p) /\ p \in Names /\ drift = Compare
    BY <1>1 DEF IInv, RecordsFit, DriftFits
  <2>2. Fresh(p) => /\ Checkout \in DOMAIN before /\ p \in DOMAIN before[Checkout]
                    /\ before[Checkout][p].config = Entry(disk, p).config
                    /\ before[Checkout][p].dev = d
                    /\ before[Checkout][p].nodes = Entry(disk, p).nodes
    BY DEF Fresh, State
  <2>3. \/ src = Checkout /\ records[p].config = Entry(disk, p).config /\ records[p].dev = d
        \/ /\ src = d /\ d \in DOMAIN before /\ p \in DOMAIN before[d]
           /\ records[p].config = before[d][p].config /\ records[p].dev = d
    BY <1>1, <2>1, RecordIs
  <2> HIDE DEF d, src
  <2>4. ASSUME src \in DOMAIN after, src = Checkout => Fresh(p),
               \/ p \notin DOMAIN after[src]
               \/ after[src][p].config # records[p].config
               \/ src = Checkout /\ after[Checkout][p].dev # records[p].dev
        PROVE  \E c \in Compare : c.pool = p /\ c.ref = src
    <3>1. src \in DOMAIN before /\ p \in DOMAIN before[src]
      BY <2>2, <2>3, <2>4
    <3>2. before[src][p].config = records[p].config
      BY <2>2, <2>3, <2>4
    <3>3. src = Checkout => before[src][p].dev = records[p].dev
      BY <2>2, <2>3, <2>4
    <3>4. CASE p \notin DOMAIN after[src]
      <4>1. [ref |-> src, pool |-> p, field |-> "pool"] \in Compare
        BY <1>1, <2>1, <2>4, <3>1, <3>4, Compares
      <4> QED BY <4>1
    <3>5. CASE p \in DOMAIN after[src] /\ after[src][p].config # before[src][p].config
      <4>1. [ref |-> src, pool |-> p, field |-> "config"] \in Compare
        BY <1>1, <2>1, <2>4, <3>1, <3>5, Compares
      <4> QED BY <4>1
    <3>6. CASE p \in DOMAIN after[src] /\ after[src][p].dev # before[src][p].dev
      <4>1. [ref |-> src, pool |-> p, field |-> "dev_branch"] \in Compare
        BY <1>1, <2>1, <2>4, <3>1, <3>6, Compares
      <4> QED BY <4>1
    <3> QED BY <2>4, <3>2, <3>3, <3>4, <3>5, <3>6
  <2>5. ASSUME Checkout \in DOMAIN after, p \in DOMAIN after[Checkout], Fresh(p),
               after[Checkout][p].nodes # Entry(disk, p).nodes
        PROVE  [ref |-> Checkout, pool |-> p, field |-> "nodes"] \in Compare
    BY <1>1, <2>1, <2>2, <2>5, Compares
  <2> QED
    BY <2>1, <2>4, <2>5 DEF Outdated, src
<1>2. IInv /\ Read /\ request \subseteq Names => DriftIsNotMissed
  BY <1>1 DEF DriftIsNotMissed
<1>3. Spec => [](request \subseteq Names)
  <2>1. Init => request \subseteq Names
    BY HwStagingAssumption DEF Init
  <2>2. request \subseteq Names /\ [Next]_vars => (request \subseteq Names)'
    BY InputsStay
  <2> QED BY <2>1, <2>2, PTL DEF Spec
<1> QED
  BY <1>2, <1>3, Invariance, PTL

-----------------------------------------------------------------------------
(* The type invariant.                                                       *)

\* Of some positions in a sequence one is the last.
LEMMA LastOne ==
  ASSUME NEW n \in Nat, NEW T, T \subseteq 1..n, T # {}
  PROVE  \E x \in T : \A y \in T : y <= x
<1> DEFINE M == {n - i : i \in T}
<1>a. \A i \in T : n - i \in Nat
  OBVIOUS
<1>1. M \subseteq Nat /\ M # {}
  BY <1>a
<1>2. PICK m \in M : \A k \in M : ~(<<k, m>> \in OpToRel(<, Nat))
  BY <1>1, WFMin, NatLessThanWellFounded
<1>3. PICK x \in T : m = n - x
  OBVIOUS
<1>4. ASSUME NEW y \in T PROVE y <= x
  <2>1. n - y \in Nat /\ m \in Nat /\ n - y \in M
    BY <1>1
  <2>2. ~(n - y < m)
    BY <1>2, <2>1 DEF OpToRel
  <2> QED BY <1>3, <2>1, <2>2
<1> QED BY <1>4

\* parse_registry: a pool it knows has an entry of the text.
LEMMA EntryType ==
  ASSUME NEW f \in Texts, NEW p \in Pools(f)
  PROVE  Entry(f, p) \in Entries /\ Entry(f, p).name = p /\ p \in Names
<1>1. f.entries \in Seq(Entries)
  BY HwStagingAssumption
<1> DEFINE T == {i \in Named(f) : f.entries[i].name = p}
<1>2. T # {} /\ T \subseteq 1..Len(f.entries) /\ Len(f.entries) \in Nat
  BY <1>1 DEF Pools, Named
<1>3. \E i \in T : \A j \in T : j <= i
  BY <1>2, LastOne
<1>4. \E i \in Named(f) : /\ f.entries[i].name = p
                          /\ \A j \in Named(f) : f.entries[j].name = p => j <= i
  BY <1>3
<1>5. PICK i \in Named(f) : Entry(f, p) = f.entries[i] /\ f.entries[i].name = p
  BY <1>4 DEF Entry
<1>6. i \in DOMAIN f.entries /\ f.entries[i].name # NoName
  BY DEF Named
<1>7. f.entries[i] \in Entries
  BY <1>1, <1>6
<1> QED
  BY <1>5, <1>6, <1>7 DEF Entries

LEMMA StateType ==
  ASSUME NEW f \in Texts, NEW p \in Pools(f) PROVE State(f, p) \in States
BY EntryType DEF State, States, Entries

LEMMA WithType ==
  ASSUME NEW s, IsSnapshot(s), NEW r \in Refs, head[r] \in Texts, request \subseteq Names
  PROVE  IsSnapshot(With(s, r))
<1>1. /\ DOMAIN PerPool(head[r]) \subseteq Names
      /\ PerPool(head[r]) \in [DOMAIN PerPool(head[r]) -> States]
  BY StateType DEF PerPool
<1>2. DOMAIN With(s, r) = DOMAIN s \union {r}
  BY DEF With
<1>3. ASSUME NEW x \in DOMAIN With(s, r)
      PROVE  /\ DOMAIN With(s, r)[x] \subseteq Names
             /\ With(s, r)[x] \in [DOMAIN With(s, r)[x] -> States]
  <2>1. CASE x = r
    BY <1>1, <1>2, <2>1 DEF With
  <2>2. CASE x # r
    BY <1>2, <2>2 DEF With, IsSnapshot
  <2> QED BY <2>1, <2>2
<1> QED
  BY <1>2, <1>3 DEF IsSnapshot

LEMMA RecordType ==
  ASSUME TypeOK, NEW p \in Pools(disk) PROVE Record(p) \in Records
<1>1. Entry(disk, p) \in Entries
  BY EntryType DEF TypeOK
<1>2. ASSUME NEW d \in DOMAIN before, p \in DOMAIN before[d], d = Entry(disk, p).dev
      PROVE  d \in Refs /\ before[d][p] \in States
  BY <1>2 DEF TypeOK, IsSnapshot
<1> QED
  BY <1>1, <1>2 DEF Record, Records, Entries, States, Refs

LEMMA TypeInit == ASSUME Init PROVE TypeOK
<1>1. disk \in Texts /\ head \in [Refs -> Texts] /\ request \subseteq Names /\ MaxEdits \in Nat
  BY HwStagingAssumption DEF Init
<1>2. IsSnapshot(before) /\ IsSnapshot(after)
  BY DEF Init, IsSnapshot, Nothing
<1>3. records \in [DOMAIN records -> Records] /\ DOMAIN records \subseteq Names
  BY DEF Init, Nothing
<1>4. had \in [Refs -> SUBSET Texts] /\ edits \in 0..MaxEdits
  BY <1>1 DEF Init
<1>5. /\ phase = "start" /\ toRead = {} /\ todo = {} /\ drift = {} /\ checked = FALSE
      /\ {ok, told, alive, own, fired} = {{}} /\ exit = -1
  BY DEF Init
<1> QED
  BY <1>1, <1>2, <1>3, <1>4, <1>5 DEF TypeOK

LEMMA TypeStep ==
  ASSUME TypeOK, GateFits, [Next]_vars PROVE TypeOK'
<1>1. /\ head' \in [Refs -> Texts] /\ disk' \in Texts /\ request' \subseteq Names
      /\ had' \in [Refs -> SUBSET Texts] /\ edits' \in 0..MaxEdits
  <2>1. ASSUME NEW r \in Refs, NEW f \in Texts, Lands(r, f)
        PROVE  /\ head' \in [Refs -> Texts] /\ had' \in [Refs -> SUBSET Texts]
               /\ edits' \in 0..MaxEdits
    BY <2>1, HwStagingAssumption DEF Lands, TypeOK
  <2>2. Script \/ UNCHANGED vars => UNCHANGED file
    BY DEF Script, Resolve, FetchFirst, DeploymentRecords, Preflight, Pass, Trigger,
           StopsThere, Wait, Waited, FetchSecond, ReportDrift, Report, vars, file
  <2>3. UNCHANGED file =>
          /\ head' \in [Refs -> Texts] /\ had' \in [Refs -> SUBSET Texts]
          /\ edits' \in 0..MaxEdits
    BY DEF TypeOK, file
  <2> QED BY <2>1, <2>2, <2>3, InputsStay DEF Next, TypeOK
<1>2. phase' \in {"start", "before", "preflight", "trigger", "wait", "after", "report",
                  "finished", "crashed"} /\ exit' \in {-1, 0, 1, 2}
  BY DEF TypeOK, Next, Script, Resolve, FetchFirst, DeploymentRecords, Preflight, Pass, Trigger,
         StopsThere, Wait, Waited, FetchSecond, ReportDrift, Report, Lands, vars, Exits, Raises
<1>3. toRead' \subseteq Refs
  <2>1. (phase = "start" /\ Resolves(disk, request)) \/ phase = "wait"
          => Resolves(disk, request)
    BY DEF GateFits
  <2>2. Resolves(disk, request) => deployment_refs(request) \subseteq Refs
    <3>1. \A p \in Pools(disk) : Entry(disk, p).dev \in Branches \union {NoBranch}
      BY EntryType DEF TypeOK, Entries
    <3> QED BY <3>1 DEF Resolves, deployment_refs, Refs
  <2> QED
    BY <2>1, <2>2 DEF TypeOK, Next, Script, Resolve, FetchFirst, DeploymentRecords, Preflight,
         Pass, Trigger, StopsThere, Wait, Waited, FetchSecond, ReportDrift, Report, Lands, vars
<1>4. /\ todo' \subseteq Names /\ checked' \in BOOLEAN /\ fired' \subseteq Names
      /\ ok' \subseteq Names /\ told' \subseteq Names /\ alive' \subseteq Names
      /\ own' \subseteq Names
  <2>1. CASE \E p \in Names : Preflight(p)
    BY <2>1 DEF TypeOK, Preflight, Mark
  <2>2. CASE \E p \in Names : Trigger(p)
    BY <2>2 DEF TypeOK, Trigger, gate
  <2>3. CASE DeploymentRecords \/ Pass
    BY <2>3 DEF TypeOK, DeploymentRecords, Pass, gate
  <2>4. UNCHANGED <<todo, gate, fired>> =>
          /\ todo' \subseteq Names /\ checked' \in BOOLEAN /\ fired' \subseteq Names
          /\ ok' \subseteq Names /\ told' \subseteq Names /\ alive' \subseteq Names
          /\ own' \subseteq Names
    BY DEF TypeOK, gate
  <2>5. \/ \E p \in Names : Preflight(p) \/ Trigger(p)
        \/ DeploymentRecords \/ Pass
        \/ UNCHANGED <<todo, gate, fired>>
    BY DEF Next, Script, Resolve, FetchFirst, StopsThere, Wait, Waited, FetchSecond,
           ReportDrift, Report, Lands, vars, gate
  <2> QED BY <2>1, <2>2, <2>3, <2>4, <2>5
<1>5. IsSnapshot(before') /\ IsSnapshot(after')
  <2>1. \A r \in Refs : head[r] \in Texts /\ request \subseteq Names
    BY DEF TypeOK
  <2>2. before' = before \/ \E r \in Refs : before' = With(before, r)
    BY DEF Next, Script, Resolve, FetchFirst, DeploymentRecords, Preflight, Pass, Trigger,
         StopsThere, Wait, Waited, FetchSecond, ReportDrift, Report, Lands, vars, readings
  <2>3. after' = after \/ \E r \in Refs : after' = With(after, r)
    BY DEF Next, Script, Resolve, FetchFirst, DeploymentRecords, Preflight, Pass, Trigger,
         StopsThere, Wait, Waited, FetchSecond, ReportDrift, Report, Lands, vars, readings
  <2> QED BY <2>1, <2>2, <2>3, WithType DEF TypeOK
<1>6. DOMAIN records' \subseteq Names /\ records' \in [DOMAIN records' -> Records]
  <2>1. CASE DeploymentRecords
    <3>1. request \subseteq Pools(disk) /\ request \subseteq Names
      BY <2>1 DEF DeploymentRecords, GateFits, Resolves, TypeOK
    <3>2. \A p \in request : Record(p) \in Records
      BY <3>1, RecordType
    <3> QED BY <2>1, <3>1, <3>2 DEF DeploymentRecords
  <2>2. DeploymentRecords \/ records' = records
    BY DEF Next, Script, Resolve, FetchFirst, Preflight, Pass, Trigger,
         StopsThere, Wait, Waited, FetchSecond, ReportDrift, Report, Lands, vars, readings
  <2> QED BY <2>1, <2>2 DEF TypeOK
<1>7. drift' \subseteq Changes
  BY DEF TypeOK, Compare, Next, Script, Resolve, FetchFirst, DeploymentRecords, Preflight, Pass,
         Trigger, StopsThere, Wait, Waited, FetchSecond, ReportDrift, Report, Lands, vars, readings
<1> QED
  BY <1>1, <1>2, <1>3, <1>4, <1>5, <1>6, <1>7 DEF TypeOK, IsSnapshot

\* Every variable stays in its set.
THEOREM TypeCorrect == Spec => []TypeOK
<1>1. TypeOK /\ IInv /\ [Next]_vars => TypeOK'
  BY TypeStep DEF IInv
<1> QED
  BY <1>1, TypeInit, Invariance, PTL DEF Spec
=============================================================================
