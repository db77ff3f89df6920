-------------------------- MODULE HwReportProofs --------------------------
(* What the hardware run reports, proved for every set of pools, tasks and   *)
(* blobs, whatever is read and in whatever order.                            *)
EXTENDS HwReportInv, FiniteSetTheorems, NaturalsInduction, WellFoundedInduction, TLAPS

\* The least of some numbers.
LEMMA LeastOf ==
  ASSUME NEW S, S \subseteq Nat, S # {} PROVE \E x \in S : \A y \in S : x <= y
<1>1. PICK x \in S : \A y \in S : ~ (<<y, x>> \in OpToRel(<, Nat))
  BY WFMin, NatLessThanWellFounded
<1>2. ASSUME NEW y \in S PROVE x <= y
  <2>1. SUFFICES ASSUME ~(x <= y) PROVE FALSE
    OBVIOUS
  <2>2. x \in Nat /\ y \in Nat /\ y < x
    BY <2>1
  <2> QED BY <1>1, <2>2 DEF OpToRel
<1> QED BY <1>2

\* The least of some indices of a blob's suites.
LEMMA LeastIndex == ASSUME NEW S, S \subseteq Nat, S # {} PROVE Min(S) \in S
  BY LeastOf DEF Min

\* setdefault and append: filing a blob adds its numbers under their own keys
\* and leaves the other samples where they are.
LEMMA Filing ==
  ASSUME NEW s, NEW t, NEW b \in Blobs
  PROVE  /\ DOMAIN Filed(s, t, b) = DOMAIN s \union {score_key(b, i) : i \in Usable(b)}
         /\ \A k \in DOMAIN Filed(s, t, b) :
              /\ Filed(s, t, b)[k].samples =
                   {<<t, i>> : i \in {j \in Usable(b) : score_key(b, j) = k}}
                     \union (IF k \in DOMAIN s THEN s[k].samples ELSE {})
              /\ (k \in DOMAIN s => s[k].first \in s[k].samples)
                   => Filed(s, t, b)[k].first \in Filed(s, t, b)[k].samples
<1> DEFINE keys == {score_key(b, i) : i \in Usable(b)}
           new(k) == {j \in Usable(b) : score_key(b, j) = k}
           f == Filed(s, t, b)
<1>1. /\ DOMAIN f = DOMAIN s \union keys
      /\ \A k \in DOMAIN f :
           /\ f[k].first = IF k \in DOMAIN s THEN s[k].first ELSE <<t, Min(new(k))>>
           /\ f[k].samples = {<<t, i>> : i \in new(k)}
                               \union (IF k \in DOMAIN s THEN s[k].samples ELSE {})
  BY DEF Filed
<1>2. Usable(b) \subseteq Nat
  BY HwReportAssumption DEF Usable
<1>3. ASSUME NEW k \in DOMAIN f, k \in DOMAIN s => s[k].first \in s[k].samples
      PROVE  f[k].first \in f[k].samples
  <2>1. CASE k \in DOMAIN s
    BY <1>1, <1>3, <2>1
  <2>2. CASE k \notin DOMAIN s
    <3>1. new(k) # {} /\ new(k) \subseteq Nat
      BY <1>1, <1>2, <2>2
    <3>2. Min(new(k)) \in new(k)
      BY <3>1, LeastIndex
    <3> HIDE DEF new, f
    <3> QED BY <1>1, <2>2, <3>2
  <2> QED BY <2>1, <2>2
<1> QED BY <1>1, <1>3

\* Of all the steps of main only the visit of a task touches the numbers, and
\* none what was asked for and listed.
LEMMA NumbersStay ==
  ASSUME [Next]_vars
  PROVE  /\ listing' = listing /\ mode' = mode
         /\ (\E t \in Tasks : Collect(t)) \/ UNCHANGED numbers
BY DEF Next, Collect, Collected, Crash, Describe, Described, Perfherder, Counterpart,
       Against, Compare, Conclude, vars, numbers

\* A task that is visited has not been read before.
LEMMA Reading ==
  ASSUME TypeOK, NEW t \in Tasks, Collect(t)
  PROVE  /\ t \in Completed(listing) /\ t \notin DOMAIN blob
         /\ \/ UNCHANGED numbers
            \/ \E b \in Blobs :
                 /\ DOMAIN blob' = DOMAIN blob \union {t} /\ blob'[t] = b
                 /\ \A u \in DOMAIN blob : blob'[u] = blob[u]
                 /\ DOMAIN scores' = Pools
                 /\ scores'[PoolOf[t]] = Filed(scores[PoolOf[t]], t, b)
                 /\ \A p \in Pools \ {PoolOf[t]} : scores'[p] = scores[p]
<1>1. t \in Completed(listing) /\ t \notin DOMAIN blob
  BY DEF Collect, TypeOK
<1>2. PoolOf[t] \in Pools
  BY HwReportAssumption
<1> QED BY <1>1, <1>2 DEF Collect, TypeOK

\* A sample stays the sample it is.
LEMMA SamplesStay ==
  ASSUME TypeOK, [Next]_vars, NEW s, IsSample(s)
  PROVE  IsSample(s)' /\ blob'[s[1]] = blob[s[1]]
<1>1. CASE UNCHANGED numbers
  BY <1>1 DEF IsSample, numbers
<1>2. ASSUME NEW t \in Tasks, Collect(t)
      PROVE  IsSample(s)' /\ blob'[s[1]] = blob[s[1]]
  BY <1>2, Reading DEF IsSample, numbers
<1> QED BY <1>1, <1>2, NumbersStay

LEMMA KeyedStep == ASSUME TypeOK, Keyed, [Next]_vars PROVE Keyed'
<1>1. CASE UNCHANGED numbers
  BY <1>1 DEF Keyed, IsSample, numbers
<1>2. ASSUME NEW t \in Tasks, Collect(t), ~ UNCHANGED numbers PROVE Keyed'
  <2>1. PICK b \in Blobs :
          /\ DOMAIN blob' = DOMAIN blob \union {t} /\ blob'[t] = b
          /\ scores'[PoolOf[t]] = Filed(scores[PoolOf[t]], t, b)
          /\ \A p \in Pools \ {PoolOf[t]} : scores'[p] = scores[p]
    BY <1>2, Reading
  <2>2. ASSUME NEW p \in Pools, NEW k \in DOMAIN scores[p], NEW s \in scores[p][k].samples
        PROVE  IsSample(s)' /\ PoolOf[s[1]] = p /\ score_key(blob'[s[1]], s[2]) = k
    BY <2>2, SamplesStay DEF Keyed
  <2>3. ASSUME NEW p \in Pools, p # PoolOf[t], NEW k \in DOMAIN scores'[p]
        PROVE  /\ scores'[p][k].first \in scores'[p][k].samples
               /\ \A s \in scores'[p][k].samples :
                    IsSample(s)' /\ PoolOf[s[1]] = p /\ score_key(blob'[s[1]], s[2]) = k
    BY <2>1, <2>2, <2>3 DEF Keyed
  <2>4. ASSUME NEW k \in DOMAIN scores'[PoolOf[t]]
        PROVE  /\ scores'[PoolOf[t]][k].first \in scores'[PoolOf[t]][k].samples
               /\ \A s \in scores'[PoolOf[t]][k].samples :
                    /\ IsSample(s)' /\ PoolOf[s[1]] = PoolOf[t]
                    /\ score_key(blob'[s[1]], s[2]) = k
    <3> DEFINE old == scores[PoolOf[t]]  new == scores'[PoolOf[t]]
    <3>1. PoolOf[t] \in Pools
      BY HwReportAssumption
    <3>2. /\ DOMAIN new = DOMAIN old \union {score_key(b, i) : i \in Usable(b)}
          /\ new[k].samples = {<<t, i>> : i \in {j \in Usable(b) : score_key(b, j) = k}}
                                \union (IF k \in DOMAIN old THEN old[k].samples ELSE {})
          /\ (k \in DOMAIN old => old[k].first \in old[k].samples)
               => new[k].first \in new[k].samples
      <4> HIDE DEF old, new
      <4>1. new = Filed(old, t, b)
        BY <2>1 DEF old, new
      <4>2. k \in DOMAIN new
        BY <2>4 DEF new
      <4>3. /\ DOMAIN Filed(old, t, b) = DOMAIN old \union {score_key(b, i) : i \in Usable(b)}
            /\ \A x \in DOMAIN Filed(old, t, b) :
                 /\ Filed(old, t, b)[x].samples =
                      {<<t, i>> : i \in {j \in Usable(b) : score_key(b, j) = x}}
                        \union (IF x \in DOMAIN old THEN old[x].samples ELSE {})
                 /\ (x \in DOMAIN old => old[x].first \in old[x].samples)
                      => Filed(old, t, b)[x].first \in Filed(old, t, b)[x].samples
        BY Filing
      <4> QED BY ONLY <4>1, <4>2, <4>3, Zenon
    <3>3. new[k].first \in new[k].samples
      BY <3>1, <3>2 DEF Keyed
    <3>4. ASSUME NEW i \in Usable(b), score_key(b, i) = k
          PROVE  /\ IsSample(<<t, i>>)' /\ PoolOf[<<t, i>>[1]] = PoolOf[t]
                 /\ score_key(blob'[<<t, i>>[1]], <<t, i>>[2]) = k
      BY <2>1, <3>4 DEF IsSample
    <3>5. ASSUME NEW s \in new[k].samples
          PROVE  /\ IsSample(s)' /\ PoolOf[s[1]] = PoolOf[t]
                 /\ score_key(blob'[s[1]], s[2]) = k
      <4>1. CASE k \in DOMAIN old /\ s \in old[k].samples
        BY <3>1, <4>1, <2>2
      <4>2. CASE \E i \in Usable(b) : score_key(b, i) = k /\ s = <<t, i>>
        BY <4>2, <3>4
      <4> HIDE DEF old, new
      <4> QED BY <3>2, <3>5, <4>1, <4>2
    <3> QED BY <3>3, <3>5
  <2>5. PoolOf[t] \in Pools
    BY HwReportAssumption
  <2> QED BY <2>3, <2>4, <2>5 DEF Keyed
<1> QED BY <1>1, <1>2, NumbersStay

LEMMA EverySampleCountsStep ==
  ASSUME TypeOK, Keyed, EverySampleCounts, [Next]_vars PROVE EverySampleCounts'
<1>1. CASE UNCHANGED numbers
  BY <1>1 DEF EverySampleCounts, numbers
<1>2. ASSUME NEW t \in Tasks, Collect(t), ~ UNCHANGED numbers PROVE EverySampleCounts'
  <2>1. PICK b \in Blobs :
          /\ DOMAIN blob' = DOMAIN blob \union {t} /\ blob'[t] = b
          /\ \A u \in DOMAIN blob : blob'[u] = blob[u]
          /\ scores'[PoolOf[t]] = Filed(scores[PoolOf[t]], t, b)
          /\ \A p \in Pools \ {PoolOf[t]} : scores'[p] = scores[p]
    BY <1>2, Reading
  <2> DEFINE old == scores[PoolOf[t]]  new == scores'[PoolOf[t]]
  <2>2. /\ DOMAIN new = DOMAIN old \union {score_key(b, i) : i \in Usable(b)}
        /\ \A k \in DOMAIN new :
             new[k].samples = {<<t, i>> : i \in {j \in Usable(b) : score_key(b, j) = k}}
                                \union (IF k \in DOMAIN old THEN old[k].samples ELSE {})
    <3> HIDE DEF old, new
    <3>1. new = Filed(old, t, b)
      BY <2>1 DEF old, new
    <3>2. /\ DOMAIN Filed(old, t, b) = DOMAIN old \union {score_key(b, i) : i \in Usable(b)}
          /\ \A k \in DOMAIN Filed(old, t, b) :
               /\ Filed(old, t, b)[k].samples =
                    {<<t, i>> : i \in {j \in Usable(b) : score_key(b, j) = k}}
                      \union (IF k \in DOMAIN old THEN old[k].samples ELSE {})
               /\ (k \in DOMAIN old => old[k].first \in old[k].samples)
                    => Filed(old, t, b)[k].first \in Filed(old, t, b)[k].samples
      BY Filing
    <3> QED BY ONLY <3>1, <3>2, Zenon
  <2>3. ASSUME NEW u \in DOMAIN blob', NEW i \in Usable(blob'[u])
        PROVE  \E k \in DOMAIN scores'[PoolOf[u]] : <<u, i>> \in scores'[PoolOf[u]][k].samples
    <3>1. CASE u = t
      <4>1. score_key(b, i) \in DOMAIN new /\ <<t, i>> \in new[score_key(b, i)].samples
        BY <2>1, <2>2, <2>3, <3>1
      <4> QED BY <3>1, <4>1
    <3>2. CASE u # t
      <4>1. u \in DOMAIN blob /\ i \in Usable(blob[u])
        BY <2>1, <2>3, <3>2
      <4>2. PICK k \in DOMAIN scores[PoolOf[u]] : <<u, i>> \in scores[PoolOf[u]][k].samples
        BY <4>1 DEF EverySampleCounts
      <4>3. PoolOf[u] \in Pools
        BY <4>1, HwReportAssumption DEF TypeOK, Completed
      <4>4. CASE PoolOf[u] = PoolOf[t]
        BY <2>2, <4>2, <4>4
      <4>5. CASE PoolOf[u] # PoolOf[t]
        BY <2>1, <4>2, <4>3, <4>5
      <4> QED BY <4>4, <4>5
    <3> QED BY <3>1, <3>2
  <2> QED BY <2>3 DEF EverySampleCounts
<1> QED BY <1>1, <1>2, NumbersStay

\* What is known of a build is not asked for again.
LEMMA FromKnownStep == ASSUME TypeOK, FromKnown, [Next]_vars PROVE FromKnown'
<1>1. CASE UNCHANGED built
  BY <1>1 DEF FromKnown, built
<1>2. ASSUME NEW p \in Pools, Describe(p) PROVE FromKnown'
  <2> DEFINE asked == {AskedFor(b) : b \in builds_under_test(p)}
  <2>1. /\ DOMAIN known' = DOMAIN known \union asked
        /\ \A k \in DOMAIN known : known'[k] = known[k]
    BY <1>2 DEF Describe
  <2>2. /\ DOMAIN builds'[p] = builds_under_test(p)
        /\ \A b \in builds_under_test(p) : builds'[p][b].metadata = known'[AskedFor(b)]
        /\ \A q \in Pools \ {p} : builds'[q] = builds[q]
    BY <1>2 DEF Describe, TypeOK
  <2>3. ASSUME NEW q \in Pools, NEW b \in DOMAIN builds'[q]
        PROVE  AskedFor(b) \in DOMAIN known' /\ builds'[q][b].metadata = known'[AskedFor(b)]
    <3>1. CASE q = p
      BY <2>1, <2>2, <2>3, <3>1
    <3>2. CASE q # p
      BY <2>1, <2>2, <2>3, <3>2 DEF FromKnown
    <3> QED BY <3>1, <3>2
  <2> QED BY <2>3 DEF FromKnown
<1>3. (\E p \in Pools : Describe(p)) \/ UNCHANGED built
  BY DEF Next, Collect, Collected, Crash, Describe, Described, Perfherder, Counterpart,
         Against, Compare, Conclude, vars, built
<1> QED BY <1>1, <1>2, <1>3

\* An entry is known by the browser and the suite of the sample that made it.
LEMMA FirstIsKey ==
  ASSUME Keyed, NEW e \in Entered
  PROVE  /\ e[1] \in Pools
         /\ e[2] = <<blob[Entry(e).first[1]].application, Suite(Entry(e).first).suite>>
<1>1. PICK p \in Pools : e \in {p} \X DOMAIN scores[p]
  BY DEF Entered
<1>2. e[1] \in Pools /\ e[2] \in DOMAIN scores[e[1]]
  BY <1>1
<1> QED BY <1>2 DEF Keyed, Entry, Suite, score_key

LEMMA ComparedIsSound ==
  ASSUME NEW e, NEW series, NEW stats,
         series # None => /\ series.platform = Platform[e[1]]
                          /\ <<series.application, series.suite>> = e[2]
  PROVE  LET c == compare(e, series, stats) IN
         /\ c.series = series /\ c.stats = stats
         /\ c.comparable => c.stats.n >= MinPoints /\ c.stats.stdev > 0
         /\ c.flag => c.comparable
BY DEF compare

\* Only a visited entry gets a number of production's.
LEMMA AllSoundStep == ASSUME TypeOK, Keyed, AllSound, [Next]_vars PROVE AllSound'
<1>1. CASE baseline' = baseline
  BY <1>1 DEF AllSound, Sound
<1>2. ASSUME NEW e \in Entered, NEW series, NEW stats, Compared(e, series, stats),
             series # None => Wanted(e, series)
      PROVE  AllSound'
  <2>1. series # None => /\ series.platform = Platform[e[1]]
                         /\ <<series.application, series.suite>> = e[2]
    BY <1>2, FirstIsKey DEF Wanted
  <2>2. /\ DOMAIN baseline' = DOMAIN baseline \union {e}
        /\ baseline'[e] = compare(e, series, stats)
        /\ \A f \in DOMAIN baseline : f # e => baseline'[f] = baseline[f]
    BY <1>2 DEF Compared
  <2>3. Sound(e)'
    BY <2>1, <2>2, ComparedIsSound DEF Sound
  <2>4. ASSUME NEW f \in DOMAIN baseline', f # e PROVE Sound(f)'
    BY <2>2, <2>4 DEF AllSound, Sound
  <2> QED BY <2>3, <2>4 DEF AllSound
<1>3. ASSUME NEW e \in Entered, Perfherder(e) PROVE AllSound'
  BY <1>1, <1>2, <1>3 DEF Perfherder
<1>4. ASSUME NEW e \in Entered, Counterpart(e) PROVE AllSound'
  BY <1>1, <1>2, <1>4 DEF Counterpart
<1>5. (\E e \in Entered : Perfherder(e) \/ Counterpart(e)) \/ baseline' = baseline
  BY DEF Next, Collect, Collected, Crash, Describe, Described, Perfherder, Counterpart,
         Against, Compare, Conclude, vars, production
<1> QED BY <1>1, <1>3, <1>4, <1>5

\* The rows are written once the baselines are in, and the warnings from them.
LEMMA RowsStep ==
  ASSUME TypeOK, RowsAreStatuses, [Next]_vars PROVE RowsAreStatuses'
<1> USE DEF RowsAreStatuses, TypeOK, Phases
<1>1. CASE UNCHANGED <<phase, mode, scores, baseline, rows, warned>>
  BY <1>1 DEF Status, Flagged, Entered
<1>2. CASE phase' # "finished" /\ phase' # "summary" /\ UNCHANGED <<rows, warned>>
           /\ phase # "finished" /\ phase # "summary"
  BY <1>2
<1>3. CASE Compare
  <2>1. \A e : Status(e)' = Status(e)
    BY <1>3 DEF Compare, production, Status
  <2>2. Entered' = Entered
    BY <1>3 DEF Compare, numbers, Entered
  <2> QED BY <1>3, <2>1, <2>2 DEF Compare
<1>4. CASE Conclude
  <2>1. (\A e : Status(e)' = Status(e)) /\ Flagged' = Flagged
    BY <1>4 DEF Conclude, production, Status, Flagged
  <2>2. Entered' = Entered
    BY <1>4 DEF Conclude, numbers, Entered
  <2> QED BY <1>4, <2>1, <2>2 DEF Conclude
<1>5. ASSUME NEW t \in Tasks, Collect(t) PROVE RowsAreStatuses'
  BY <1>2, <1>5 DEF Collect, said
<1>6. ASSUME NEW p \in Pools, Describe(p) PROVE RowsAreStatuses'
  BY <1>2, <1>6 DEF Describe, said
<1>7. ASSUME NEW e \in Entered, Perfherder(e) \/ Counterpart(e) PROVE RowsAreStatuses'
  BY <1>2, <1>7 DEF Perfherder, Counterpart, said
<1>8. CASE Collected \/ Described \/ Against \/ Crash
  BY <1>2, <1>8 DEF Collected, Described, Against, Crash, said
<1>9. CASE UNCHANGED vars
  BY <1>1, <1>9 DEF vars, numbers, production, said
<1> QED BY <1>3, <1>4, <1>5, <1>6, <1>7, <1>8, <1>9 DEF Next

-----------------------------------------------------------------------------
(* Sums of samples                                                           *)

One(s) == CHOOSE x \in s : TRUE

\* A total of v over s is that over the rest and one element's value.
StepOf(f, s, v) == IF s = {} THEN 0 ELSE v[One(s)] + f[s \ {One(s)}]
IsTotal(f, S, v) == f = [s \in SUBSET S |-> StepOf(f, s, v)]

LEMMA OneLess ==
  ASSUME NEW s, IsFiniteSet(s), s # {}
  PROVE  /\ One(s) \in s /\ IsFiniteSet(s \ {One(s)})
         /\ Cardinality(s) \in Nat /\ Cardinality(s \ {One(s)}) = Cardinality(s) - 1
  BY FS_RemoveElement, FS_CardinalityType DEF One

\* The function that totals v over the subsets of a finite set exists.
LEMMA TotalExists ==
  ASSUME NEW S, IsFiniteSet(S), NEW v
  PROVE  \E f : IsTotal(f, S, v)
<1> DEFINE Small(n) == {s \in SUBSET S : Cardinality(s) <= n}
           Total(f, n) == f = [s \in Small(n) |-> StepOf(f, s, v)]
           Bad == {n \in Nat : ~ \E f : Total(f, n)}
<1>1. \A s \in SUBSET S : IsFiniteSet(s) /\ Cardinality(s) \in Nat
  BY FS_Subset, FS_CardinalityType
<1>2. Bad = {}
  <2>1. SUFFICES ASSUME Bad # {} PROVE FALSE
    OBVIOUS
  <2>2. PICK n \in Bad : \A m \in Bad : n <= m
    BY <2>1, LeastOf
  <2>3. CASE n = 0
    <3>1. \A s \in SUBSET S : Cardinality(s) <= 0 => s = {}
      BY <1>1, FS_EmptySet
    <3>2. \A f : \A s \in Small(0) : StepOf(f, s, v) = 0
      BY <3>1 DEF StepOf
    <3>3. Total([s \in Small(0) |-> 0], 0)
      BY <3>2
    <3> QED BY <2>2, <2>3, <3>3
  <2>4. CASE n # 0
    <3>1. n \in Nat /\ n - 1 \in Nat /\ ~(n <= n - 1)
      BY <2>4
    <3>2. n - 1 \notin Bad
      BY <2>2, <3>1
    <3>3. PICK f : Total(f, n - 1)
      BY <3>1, <3>2
    <3> DEFINE g == [s \in Small(n) |-> StepOf(f, s, v)]
    <3>4. ASSUME NEW s \in Small(n), s # {}
          PROVE  s \ {One(s)} \in Small(n - 1) /\ s \ {One(s)} \in Small(n)
      BY <1>1, <3>1, <3>4, OneLess
    <3>5. ASSUME NEW s \in Small(n - 1) PROVE s \in Small(n) /\ g[s] = f[s]
      <4>1. s \in Small(n)
        BY <1>1, <3>1
      <4>2. f[s] = StepOf(f, s, v)
        BY <3>3
      <4> QED BY <4>1, <4>2
    <3>6. ASSUME NEW s \in Small(n) PROVE StepOf(f, s, v) = StepOf(g, s, v)
      BY <3>4, <3>5 DEF StepOf
    <3>7. Total(g, n)
      BY <3>6
    <3> QED BY <2>2, <3>7
  <2> QED BY <2>3, <2>4
<1>3. Cardinality(S) \in Nat /\ Small(Cardinality(S)) = SUBSET S
  BY <1>1, FS_Subset
<1>4. PICK f : Total(f, Cardinality(S))
  BY <1>2, <1>3
<1> QED BY <1>3, <1>4 DEF IsTotal

\* The total of whole numbers is a whole number.
LEMMA TotalIsInt ==
  ASSUME NEW S, IsFiniteSet(S), NEW v, \A x \in S : v[x] \in Int,
         NEW f, IsTotal(f, S, v)
  PROVE  f[S] \in Int
<1> DEFINE Bad == {n \in Nat : \E s \in SUBSET S : Cardinality(s) = n /\ f[s] \notin Int}
<1>1. \A s \in SUBSET S : IsFiniteSet(s) /\ Cardinality(s) \in Nat
  BY FS_Subset, FS_CardinalityType
<1>2. SUFFICES ASSUME Bad # {} PROVE FALSE
  BY <1>1
<1>3. PICK n \in Bad : \A m \in Bad : n <= m
  BY <1>2, LeastOf
<1>4. PICK s \in SUBSET S : Cardinality(s) = n /\ f[s] \notin Int
  BY <1>3
<1>5. f[s] = StepOf(f, s, v)
  BY DEF IsTotal
<1>6. s # {}
  BY <1>4, <1>5 DEF StepOf
<1>7. /\ One(s) \in S /\ s \ {One(s)} \in SUBSET S
      /\ n \in Nat /\ Cardinality(s \ {One(s)}) = n - 1
  BY <1>1, <1>4, <1>6, OneLess
<1>8. f[s \ {One(s)}] \in Int
  BY <1>1, <1>3, <1>7
<1> QED BY <1>4, <1>5, <1>6, <1>7, <1>8 DEF StepOf

LEMMA SumIsInt ==
  ASSUME NEW e, IsFiniteSet(Entry(e).samples), \A s \in Entry(e).samples : Suite(s).value \in Int
  PROVE  Sum(e) \in Int
<1> DEFINE S == Entry(e).samples
           v == [s \in S |-> Suite(s).value]
           total[s \in SUBSET S] == IF s = {} THEN 0 ELSE Suite(One(s)).value + total[s \ {One(s)}]
<1>1. Sum(e) = total[S]
  BY DEF Sum, MapThenSumSet, MapThenFoldSet, One
<1>2. ASSUME NEW f, NEW s \in SUBSET S
      PROVE  (IF s = {} THEN 0 ELSE Suite(One(s)).value + f[s \ {One(s)}]) = StepOf(f, s, v)
  BY DEF StepOf, One
<1>3. \E f : IsTotal(f, S, v)
  <2>1. IsFiniteSet(S)
    OBVIOUS
  <2> HIDE DEF S, v
  <2> QED BY <2>1, TotalExists
<1>4. \E f : f = [s \in SUBSET S |-> IF s = {} THEN 0 ELSE Suite(One(s)).value + f[s \ {One(s)}]]
  BY <1>2, <1>3 DEF IsTotal
<1>5. total = [s \in SUBSET S |-> IF s = {} THEN 0 ELSE Suite(One(s)).value + total[s \ {One(s)}]]
  BY <1>4
<1> HIDE DEF total
<1>6. IsTotal(total, S, v)
  BY <1>2, <1>5 DEF IsTotal
<1>7. IsFiniteSet(S) /\ \A s \in S : v[s] \in Int
  OBVIOUS
<1>8. total[S] \in Int
  <2> HIDE DEF S, v
  <2> QED BY <1>6, <1>7, TotalIsInt
<1> QED BY <1>1, <1>8

\* Where the numbers are not touched, neither are the sums of them.
SumOf(read, samples) ==
  MapThenSumSet(LAMBDA s : read[s[1]].suites[s[2]].value, samples)

LEMMA SumStays == ASSUME NEW e, UNCHANGED numbers PROVE Sum(e)' = Sum(e)
<1>1. Sum(e) = SumOf(blob, Entry(e).samples)
  BY DEF Sum, SumOf, Suite
<1>2. Sum(e)' = SumOf(blob', Entry(e)'.samples)
  BY DEF Sum, SumOf, Suite, MapThenSumSet, MapThenFoldSet
<1>3. Entry(e)' = Entry(e) /\ blob' = blob
  BY DEF Entry, numbers
<1> QED BY <1>1, <1>2, <1>3

\* A comparison with the entry as it was is one with the entry as it is.
LEMMA ComparisonStays ==
  ASSUME NEW e, UNCHANGED numbers,
         baseline'[e] = compare(e, baseline'[e].series, baseline'[e].stats)
  PROVE  IsComparison(e)'
<1>1. Sum(e)' = Sum(e)
  BY SumStays
<1>2. Entry(e)' = Entry(e) /\ blob' = blob
  BY DEF Entry, numbers
<1> QED BY <1>1, <1>2 DEF IsComparison, compare, Suite

\* The samples of an entry once a blob is filed.
LEMMA FiledSamples ==
  ASSUME NEW s, NEW t, NEW b, NEW k \in DOMAIN Filed(s, t, b)
  PROVE  Filed(s, t, b)[k].samples =
           {<<t, i>> : i \in {j \in Usable(b) : score_key(b, j) = k}}
             \union (IF k \in DOMAIN s THEN s[k].samples ELSE {})
  BY DEF Filed

\* A blob has finitely many numbers, so an entry has finitely many samples.
LEMMA FiniteSamplesStep == ASSUME TypeOK, FiniteSamples, [Next]_vars PROVE FiniteSamples'
<1>1. CASE UNCHANGED numbers
  BY <1>1 DEF FiniteSamples, numbers
<1>2. ASSUME NEW t \in Tasks, Collect(t), ~ UNCHANGED numbers PROVE FiniteSamples'
  <2>1. PICK b \in Blobs :
          /\ scores'[PoolOf[t]] = Filed(scores[PoolOf[t]], t, b)
          /\ \A p \in Pools \ {PoolOf[t]} : scores'[p] = scores[p]
    BY <1>2, Reading
  <2>2. IsFiniteSet(DOMAIN b.suites)
    <3>1. PICK n \in Nat : DOMAIN b.suites = 1..n
      BY HwReportAssumption
    <3> QED BY <3>1, FS_Interval
  <2>3. ASSUME NEW k  PROVE IsFiniteSet({<<t, i>> : i \in {j \in Usable(b) : score_key(b, j) = k}})
    <3>1. IsFiniteSet({j \in Usable(b) : score_key(b, j) = k})
      BY <2>2, FS_Subset DEF Usable
    <3> DEFINE I == {j \in Usable(b) : score_key(b, j) = k}
               pairs == {<<t, i>> : i \in I}
               f == [i \in I |-> <<t, i>>]
    <3>2. f \in [I -> pairs] /\ \A x \in pairs : \E i \in I : f[i] = x
      OBVIOUS
    <3>3. f \in Surjection(I, pairs)
      BY <3>2 DEF Surjection
    <3> QED BY <3>1, <3>3, FS_Surjection
  <2>4. ASSUME NEW k \in DOMAIN scores'[PoolOf[t]]
        PROVE  IsFiniteSet(scores'[PoolOf[t]][k].samples)
    <3> DEFINE old == scores[PoolOf[t]]
               new == {<<t, i>> : i \in {j \in Usable(b) : score_key(b, j) = k}}
    <3>1. scores'[PoolOf[t]][k].samples = new \union (IF k \in DOMAIN old THEN old[k].samples ELSE {})
      <4>1. Filed(old, t, b) = scores'[PoolOf[t]] /\ k \in DOMAIN Filed(old, t, b)
        BY <2>1, <2>4
      <4> HIDE DEF old
      <4> QED BY <4>1, FiledSamples
    <3>2. PoolOf[t] \in Pools
      BY HwReportAssumption
    <3>3. IsFiniteSet(IF k \in DOMAIN old THEN old[k].samples ELSE {})
      BY <3>2, FS_EmptySet DEF FiniteSamples
    <3>4. IsFiniteSet(new)
      BY <2>3
    <3> HIDE DEF old, new
    <3> QED BY <3>1, <3>3, <3>4, FS_Union
  <2> QED BY <2>1, <2>4 DEF FiniteSamples
<1> QED BY <1>1, <1>2, NumbersStay

\* A number that is not missing is a whole one.
LEMMA UsableIsInt ==
  ASSUME NEW b \in Blobs, NEW i \in Usable(b) PROVE b.suites[i].value \in Int
<1> DEFINE R == [suite : STRING, value : Int \union {NoValue},
                 lower_is_better : BOOLEAN, extra_options : SUBSET STRING]
<1>1. b.suites \in Seq(R)
  BY HwReportAssumption
<1>2. i \in DOMAIN b.suites /\ b.suites[i].value # NoValue
  BY DEF Usable
<1>3. \A r \in R : r.value \in Int \union {NoValue}
  OBVIOUS
<1> HIDE DEF R
<1>4. b.suites[i] \in R
  BY <1>1, <1>2
<1> QED BY <1>2, <1>3, <1>4

\* Production's number is compared with the entry as it stands, and no number
\* is read any more by then.
LEMMA BaselinesStep ==
  ASSUME TypeOK, BaselinesAreComparisons, [Next]_vars PROVE BaselinesAreComparisons'
<1>1. CASE UNCHANGED <<numbers, baseline>> /\ (phase' = "scores" => phase = "scores")
  BY <1>1, ComparisonStays DEF BaselinesAreComparisons, IsComparison
<1>2. ASSUME NEW t \in Tasks, Collect(t) PROVE BaselinesAreComparisons'
  <2>1. phase = "scores" /\ baseline' = baseline
    BY <1>2 DEF Collect, production
  <2> QED BY <2>1 DEF BaselinesAreComparisons
<1>3. ASSUME NEW e \in Entered, NEW series, NEW stats \in [n : Nat, mean : Int, stdev : Nat],
             Compared(e, series, stats), UNCHANGED numbers, phase' # "scores"
      PROVE  BaselinesAreComparisons'
  <2>1. /\ DOMAIN baseline' = DOMAIN baseline \union {e}
        /\ baseline'[e] = compare(e, series, stats)
        /\ \A f \in DOMAIN baseline : f # e => baseline'[f] = baseline[f]
    BY <1>3 DEF Compared
  <2>2. baseline'[e].series = series /\ baseline'[e].stats = stats
    BY <2>1 DEF compare
  <2>3. IsComparison(e)' /\ baseline'[e].stats \in [n : Nat, mean : Int, stdev : Nat]
    BY <1>3, <2>1, <2>2, ComparisonStays
  <2>4. ASSUME NEW f \in DOMAIN baseline', f # e
        PROVE  IsComparison(f)' /\ baseline'[f].stats \in [n : Nat, mean : Int, stdev : Nat]
    BY <1>3, <2>1, <2>4, ComparisonStays DEF BaselinesAreComparisons, IsComparison
  <2> QED BY <1>3, <2>3, <2>4 DEF BaselinesAreComparisons
<1>4. ASSUME NEW e \in Entered, Perfherder(e) PROVE BaselinesAreComparisons'
  <2>1. phase' # "scores" /\ UNCHANGED numbers
    BY <1>4 DEF Perfherder
  <2> QED BY <1>1, <1>3, <1>4, <2>1, HwReportAssumption DEF Perfherder
<1>5. ASSUME NEW e \in Entered, Counterpart(e) PROVE BaselinesAreComparisons'
  <2>1. phase' # "scores" /\ UNCHANGED numbers
    BY <1>5 DEF Counterpart
  <2>2. ASSUME NEW b \in Blobs, NEW S, S \subseteq Usable(b), S # {}
        PROVE  [n |-> 1, mean |-> b.suites[Min(S)].value, stdev |-> 0]
                 \in [n : Nat, mean : Int, stdev : Nat]
    <3>1. Min(S) \in Usable(b)
      BY <2>2, LeastIndex, HwReportAssumption, SMTT(30) DEF Usable
    <3>2. b.suites[Min(S)].value \in Int
      BY <3>1, UsableIsInt
    <3> QED BY <3>2
  <2>3. CASE UNCHANGED baseline
    BY <1>1, <2>1, <2>3
  <2>4. CASE \E b \in Blobs : \E S \in SUBSET Usable(b) :
               S # {} /\ Compared(e, None, [n |-> 1, mean |-> b.suites[Min(S)].value, stdev |-> 0])
    BY <1>3, <2>1, <2>2, <2>4
  <2> QED BY <1>5, <2>3, <2>4 DEF Counterpart
<1>6. CASE Collected \/ Described \/ Against \/ Compare \/ Conclude \/ Crash
           \/ \E p \in Pools : Describe(p)
  <2>1. UNCHANGED <<numbers, baseline>> /\ phase' # "scores"
    BY <1>6 DEF Collected, Described, Against, Compare, Conclude, Crash, Describe, production
  <2> QED BY <1>1, <2>1
<1>7. CASE UNCHANGED vars
  BY <1>1, <1>7 DEF vars, production
<1> QED BY <1>2, <1>4, <1>5, <1>6, <1>7 DEF Next

\* The numbers, the builds and what is said keep their shape.
LEMMA ShapeStep == ASSUME TypeOK, [Next]_vars PROVE TypeOK'
<1> USE DEF TypeOK
<1>1. /\ listing' \in Listings /\ mode' \in Modes
      /\ phase' \in Phases /\ exit' \in {-1, 0, 1}
      /\ ids' \in {"unread", "treeherder", "built-in"} /\ red' \subseteq Pools
  BY DEF Phases, Next, Collect, Collected, Crash, Describe, Described, Perfherder,
         Counterpart, Against, Compare, Conclude, vars, production, said
<1>2. /\ DOMAIN blob' \subseteq Completed(listing') /\ \A t \in DOMAIN blob' : blob'[t] \in Blobs
      /\ DOMAIN scores' = Pools /\ Entered \subseteq Entered'
  <2>1. CASE UNCHANGED numbers
    BY <2>1, NumbersStay DEF numbers, Entered, Completed
  <2>2. ASSUME NEW t \in Tasks, Collect(t), ~ UNCHANGED numbers
        PROVE  /\ DOMAIN blob' \subseteq Completed(listing') /\ \A u \in DOMAIN blob' : blob'[u] \in Blobs
               /\ DOMAIN scores' = Pools /\ Entered \subseteq Entered'
    <3>1. PICK b \in Blobs :
            /\ DOMAIN blob' = DOMAIN blob \union {t} /\ blob'[t] = b
            /\ \A u \in DOMAIN blob : blob'[u] = blob[u]
            /\ DOMAIN scores' = Pools
            /\ scores'[PoolOf[t]] = Filed(scores[PoolOf[t]], t, b)
            /\ \A p \in Pools \ {PoolOf[t]} : scores'[p] = scores[p]
      BY <2>2, Reading
    <3>2. t \in Completed(listing) /\ listing' = listing
      BY <2>2, Reading, NumbersStay
    <3>3. \A p \in Pools : DOMAIN scores[p] \subseteq DOMAIN scores'[p]
      BY <3>1 DEF Filed
    <3> QED BY <3>1, <3>2, <3>3 DEF Entered
  <2> QED BY <2>1, <2>2, NumbersStay
<1>3. /\ phase' = "scores" => todo' \subseteq Completed(listing') \ DOMAIN blob'
      /\ phase' = "builds" => todo' \subseteq Pools
      /\ phase' = "baselines" => todo' \subseteq Entered'
  <2>1. CASE UNCHANGED <<listing, phase, todo, numbers>>
    BY <2>1 DEF numbers, Entered, Completed
  <2>2. ASSUME NEW t \in Tasks, Collect(t) PROVE <1>3
    BY <2>2, Reading DEF Collect, Completed, numbers
  <2>3. ASSUME NEW p \in Pools, Describe(p) PROVE <1>3
    BY <2>3 DEF Describe
  <2>4. ASSUME NEW e \in Entered, Perfherder(e) \/ Counterpart(e) PROVE <1>3
    BY <2>4 DEF Perfherder, Counterpart, numbers, Entered
  <2>5. CASE Described
    BY <2>5 DEF Described, numbers, Entered
  <2>6. CASE Collected \/ Against \/ Compare \/ Conclude \/ Crash
    BY <2>6 DEF Collected, Against, Compare, Conclude, Crash
  <2> QED BY <2>1, <2>2, <2>3, <2>4, <2>5, <2>6 DEF Next, vars
<1>4. DOMAIN builds' = Pools /\ \A k \in DOMAIN known' : known'[k] \in Metadata
  <2>1. ASSUME NEW p \in Pools, Describe(p)
        PROVE  DOMAIN builds' = Pools /\ \A k \in DOMAIN known' : known'[k] \in Metadata
    BY <2>1, SMTT(30) DEF Describe
  <2>2. (\E p \in Pools : Describe(p)) \/ UNCHANGED built
    BY DEF Next, Collect, Collected, Crash, Describe, Described, Perfherder, Counterpart,
           Against, Compare, Conclude, vars, built
  <2> QED BY <2>1, <2>2 DEF built
<1>5. DOMAIN baseline \subseteq DOMAIN baseline' /\ DOMAIN baseline' \subseteq Entered'
  <2>1. \/ baseline' = baseline
        \/ \E e \in Entered : DOMAIN baseline' = DOMAIN baseline \union {e}
    BY DEF Next, Collect, Collected, Crash, Describe, Described, Perfherder, Counterpart,
           Against, Compare, Conclude, Compared, vars, production
  <2> QED BY <1>2, <2>1
<1>6. DOMAIN rows' \subseteq Entered'
  <2>1. rows' = rows \/ DOMAIN rows' \subseteq Entered
    BY DEF Next, Collect, Collected, Crash, Describe, Described, Perfherder, Counterpart,
           Against, Compare, Conclude, vars, said
  <2> QED BY <1>2, <2>1
<1>7. warned' \subseteq DOMAIN baseline'
  <2>1. warned' = warned \/ warned' \subseteq DOMAIN baseline
    BY DEF Next, Collect, Collected, Crash, Describe, Described, Perfherder, Counterpart,
           Against, Compare, Conclude, Flagged, vars, said
  <2> QED BY <1>5, <2>1
<1>8. DOMAIN silent' = Pools /\ \A p \in Pools : silent'[p] \subseteq Nodes[p]
  <2>1. silent' = silent \/ silent' = [p \in Pools |-> idle_note(p)]
    BY DEF Next, Collect, Collected, Crash, Describe, Described, Perfherder, Counterpart,
           Against, Compare, Conclude, vars, said
  <2> QED BY <2>1 DEF idle_note, idle_nodes
<1> QED BY <1>1, <1>2, <1>3, <1>4, <1>5, <1>6, <1>7, <1>8

LEMMA Start == Init => IInv
<1> SUFFICES ASSUME Init PROVE IInv
  OBVIOUS
<1> USE DEF Init
<1>1. Entered = {} /\ Flagged = {}
  BY DEF Entered, Flagged
<1>2. TypeOK
  BY <1>1 DEF TypeOK, Phases
<1>3. Keyed /\ EverySampleCounts /\ FiniteSamples /\ BaselinesAreComparisons
  BY DEF Keyed, EverySampleCounts, FiniteSamples, BaselinesAreComparisons
<1>5. FromKnown /\ AllSound
  BY DEF FromKnown, AllSound
<1>4. RowsAreStatuses
  BY <1>1 DEF RowsAreStatuses
<1> QED BY <1>2, <1>3, <1>4, <1>5 DEF IInv

\* What every step of the report leaves true.
THEOREM Invariance == Spec => []IInv
<1>1. Init => IInv
  BY Start
<1>2. IInv /\ [Next]_vars => IInv'
  BY ShapeStep, KeyedStep, EverySampleCountsStep, FiniteSamplesStep, BaselinesStep,
     FromKnownStep, AllSoundStep, RowsStep DEF IInv
<1> QED BY <1>1, <1>2, PTL DEF Spec

\* The types of the report's variables.
THEOREM TypeCorrect == Spec => []TypeOK
<1>1. IInv => TypeOK
  BY DEF IInv
<1> QED BY <1>1, Invariance, PTL

\* collect_scores loses no number it has read.
THEOREM NothingIsDropped == Spec => []EverySampleCounts
<1>1. IInv => EverySampleCounts
  BY DEF IInv
<1> QED BY <1>1, Invariance, PTL

\* score_key keeps the numbers of two browsers, and of two suites, apart.
THEOREM BrowsersStayApart == Spec => []OneBrowserPerEntry
<1>1. IInv => OneBrowserPerEntry
  <2>1. SUFFICES ASSUME IInv, NEW e \in Entered, NEW s \in Entry(e).samples
                 PROVE  /\ s[1] \in Completed(listing) /\ PoolOf[s[1]] = e[1]
                        /\ blob[s[1]].application = blob[Entry(e).first[1]].application
                        /\ Suite(s).suite = Suite(Entry(e).first).suite
    BY DEF OneBrowserPerEntry
  <2>2. PICK p \in Pools : e \in {p} \X DOMAIN scores[p]
    BY <2>1 DEF Entered
  <2>3. e[1] \in Pools /\ e[2] \in DOMAIN scores[e[1]]
    BY <2>2
  <2>4. /\ IsSample(s) /\ PoolOf[s[1]] = e[1]
        /\ <<blob[s[1]].application, Suite(s).suite>> = e[2]
    BY <2>1, <2>3 DEF IInv, Keyed, Entry, Suite, score_key
  <2>5. e[2] = <<blob[Entry(e).first[1]].application, Suite(Entry(e).first).suite>>
    BY <2>1, FirstIsKey DEF IInv
  <2> QED BY <2>1, <2>4, <2>5 DEF IsSample, IInv, TypeOK
<1> QED BY <1>1, Invariance, PTL

\* collect_builds: one build is described in one way.
THEOREM BuildsAgree == Spec => []OneBuildOneName
<1>1. IInv => OneBuildOneName
  BY DEF IInv, FromKnown, OneBuildOneName
<1> QED BY <1>1, Invariance, PTL

\* What the script takes for comparable is, for every sample of the entry.
LEMMA ComparableIs ==
  ASSUME IInv, NEW e \in DOMAIN baseline, baseline[e].comparable
  PROVE  Comparable(e)
<1>1. e \in Entered /\ Sound(e)
  BY DEF IInv, TypeOK, AllSound
<1>2. PICK p \in Pools : e \in {p} \X DOMAIN scores[p]
  BY <1>1 DEF Entered
<1>3. e[1] \in Pools /\ e[2] \in DOMAIN scores[e[1]]
  BY <1>2
<1>4. \A s \in Entry(e).samples : <<blob[s[1]].application, Suite(s).suite>> = e[2]
  BY <1>3 DEF IInv, Keyed, Entry, Suite, score_key
<1> QED BY <1>1, <1>4 DEF Comparable, Sound

\* hw_score_summary: a tick is about a comparison with enough of production's
\* own scatter, for every sample of the entry, and the table and the block of
\* warnings say the same.
THEOREM TicksAreEarned == Spec => []TickIsEarned
<1>1. ASSUME IInv, NEW e \in DOMAIN baseline, baseline[e].comparable PROVE Comparable(e)
  BY <1>1, ComparableIs
<1>2. ASSUME IInv, NEW e \in DOMAIN rows, rows[e] \in Ticks PROVE Comparable(e)
  <2>1. rows[e] = Status(e)
    BY <1>2 DEF IInv, RowsAreStatuses
  <2>2. e \in DOMAIN baseline /\ baseline[e].comparable
    BY <1>2, <2>1 DEF Status, Ticks
  <2> QED BY <1>1, <1>2, <2>2
<1>3. ASSUME IInv, phase = "finished", NEW e \in DOMAIN rows
      PROVE  rows[e] = "possible regression" <=> e \in warned
  BY <1>3 DEF IInv, RowsAreStatuses, AllSound, Sound, Status, Flagged
<1>4. IInv => TickIsEarned
  BY <1>2, <1>3 DEF TickIsEarned, IInv, RowsAreStatuses
<1> QED BY <1>4, Invariance, PTL

\* The samples of an entry are whole numbers, and so is their sum.
LEMMA EntryIsSummed ==
  ASSUME IInv, NEW e \in Entered
  PROVE  Sum(e) \in Int /\ Cardinality(Entry(e).samples) \in Nat
<1>1. PICK p \in Pools : e \in {p} \X DOMAIN scores[p]
  BY DEF Entered
<1>2. e[1] \in Pools /\ e[2] \in DOMAIN scores[e[1]]
  BY <1>1
<1>3. IsFiniteSet(Entry(e).samples)
  BY <1>2 DEF IInv, FiniteSamples, Entry
<1>4. ASSUME NEW s \in Entry(e).samples PROVE Suite(s).value \in Int
  <2>1. IsSample(s)
    BY <1>2, <1>4 DEF IInv, Keyed, Entry
  <2>2. blob[s[1]] \in Blobs /\ s[2] \in Usable(blob[s[1]])
    BY <2>1 DEF IsSample, IInv, TypeOK
  <2> QED BY <2>2, UsableIsInt DEF Suite
<1> QED BY <1>3, <1>4, SumIsInt, FS_CardinalityType

\* What compare flags is off by Sigmas deviations, in the worse direction.
LEMMA FlagMeans ==
  ASSUME NEW e, NEW series, NEW stats, compare(e, series, stats).flag
  PROVE  LET n == Cardinality(Entry(e).samples)
             delta == Sum(e) - n * stats.mean
         IN  /\ IF Suite(Entry(e).first).lower_is_better THEN delta > 0 ELSE delta < 0
             /\ Abs(delta) >= Sigmas * n * stats.stdev
<1> DEFINE n == Cardinality(Entry(e).samples)
           delta == Sum(e) - n * stats.mean
           worse == IF Suite(Entry(e).first).lower_is_better THEN delta > 0 ELSE delta < 0
           comparable == stats.stdev > 0 /\ stats.n >= MinPoints
           far == Abs(delta) >= Sigmas * n * stats.stdev
<1>1. compare(e, series, stats).flag = (worse /\ comparable /\ far)
  BY DEF compare
<1> HIDE DEF worse, comparable, far
<1>2. worse /\ far
  BY <1>1
<1> QED BY <1>2 DEF worse, far

\* compare and regression_lines: every entry of the block of warnings has a
\* mean that is worse than production's, in the suite's own direction, by
\* Sigmas of production's standard deviations or more, and production's
\* number is one it can be compared with.
THEOREM WarningsAreSlower == Spec => []WarnedIsSlower
<1>1. ASSUME IInv, NEW e \in warned
      PROVE  LET n == Cardinality(Entry(e).samples)
                 c == baseline[e].stats
             IN  /\ Comparable(e)
                 /\ IF Suite(Entry(e).first).lower_is_better
                    THEN Sum(e) >= n * (c.mean + Sigmas * c.stdev)
                    ELSE Sum(e) <= n * (c.mean - Sigmas * c.stdev)
  <2> DEFINE n == Cardinality(Entry(e).samples)
             c == baseline[e].stats
             delta == Sum(e) - n * c.mean
             spread == Sigmas * n * c.stdev
  <2>1. e \in DOMAIN baseline /\ baseline[e].flag
    BY <1>1 DEF IInv, RowsAreStatuses, Flagged
  <2>2. e \in Entered /\ Sound(e) /\ IsComparison(e)
        /\ c \in [n : Nat, mean : Int, stdev : Nat]
    BY <1>1, <2>1 DEF IInv, TypeOK, AllSound, BaselinesAreComparisons
  <2>3. Comparable(e)
    BY <1>1, <2>1, <2>2, ComparableIs DEF Sound
  <2>4. Sum(e) \in Int /\ n \in Nat /\ c.mean \in Int /\ c.stdev \in Nat /\ Sigmas \in Nat
    BY <1>1, <2>2, EntryIsSummed, HwReportAssumption
  <2>5. /\ IF Suite(Entry(e).first).lower_is_better THEN delta > 0 ELSE delta < 0
        /\ Abs(delta) >= spread
    <3>1. compare(e, baseline[e].series, c).flag
      BY <2>1, <2>2 DEF IsComparison
    <3> QED BY <3>1, FlagMeans
  <2> HIDE DEF n, c
  <2>6. /\ n * (c.mean + Sigmas * c.stdev) = n * c.mean + spread
        /\ n * (c.mean - Sigmas * c.stdev) = n * c.mean - spread
        /\ n * c.mean \in Int /\ spread \in Int
    BY <2>4
  <2>7. delta \in Int
    BY <2>4, <2>6
  <2>8. IF Suite(Entry(e).first).lower_is_better THEN delta >= spread ELSE -delta >= spread
    BY <2>5, <2>6, <2>7 DEF Abs
  <2> HIDE DEF spread
  <2>9. IF Suite(Entry(e).first).lower_is_better
        THEN Sum(e) >= n * c.mean + spread ELSE Sum(e) <= n * c.mean - spread
    BY <2>4, <2>6, <2>8
  <2> QED BY <2>3, <2>6, <2>9 DEF n, c
<1>2. IInv => WarnedIsSlower
  BY <1>1 DEF WarnedIsSlower
<1> QED BY <1>2, Invariance, PTL
=============================================================================
