---------------------------- MODULE HwReportInv ----------------------------
(* What must be true of what the hardware run reports, and the inductive     *)
(* invariant it follows from.                                                *)
EXTENDS HwReport

\* collect_scores: every number of every blob that was read is a sample of its
\* pool, whatever was read before and after it.
EverySampleCounts ==
  \A t \in DOMAIN blob : \A i \in Usable(blob[t]) :
    \E k \in DOMAIN scores[PoolOf[t]] : <<t, i>> \in scores[PoolOf[t]][k].samples

\* score_key: an entry holds the numbers of completed tasks of its pool, and
\* never those of two browsers or of two suites.
OneBrowserPerEntry ==
  \A e \in Entered : \A s \in Entry(e).samples :
    /\ s[1] \in Completed(listing) /\ PoolOf[s[1]] = e[1]
    /\ blob[s[1]].application = blob[Entry(e).first[1]].application
    /\ Suite(s).suite = Suite(Entry(e).first).suite

\* collect_builds: two pools that installed one build never describe it
\* differently, whatever the queue answered in between.
OneBuildOneName ==
  \A p, q \in Pools : \A b \in DOMAIN builds[p], c \in DOMAIN builds[q] :
    AskedFor(b) = AskedFor(c) => builds[p][b].metadata = builds[q][c].metadata

\* Production's number of the entry is of its platform, browser and suite, and
\* of enough points with enough scatter to be compared with.
Comparable(e) ==
  LET c == baseline[e] IN
  /\ e \in DOMAIN baseline
  /\ c.stats.n >= MinPoints /\ c.stats.stdev > 0
  /\ c.series # None =>
       /\ c.series.platform = Platform[e[1]]
       /\ \A s \in Entry(e).samples :
            /\ c.series.application = blob[s[1]].application
            /\ c.series.suite = Suite(s).suite

\* compare and regression_lines: a warning is about a mean that is worse, in the
\* suite's own direction, by three of production's standard deviations or more.
WarnedIsSlower ==
  \A e \in warned :
    LET n == Cardinality(Entry(e).samples)
        c == baseline[e].stats
    IN  /\ Comparable(e)
        /\ IF Suite(Entry(e).first).lower_is_better
           THEN Sum(e) >= n * (c.mean + Sigmas * c.stdev)
           ELSE Sum(e) <= n * (c.mean - Sigmas * c.stdev)

Ticks == {"within production spread", "matches production", "faster than production"}

\* hw_score_summary: every score has its row, a tick is never given without a
\* comparable baseline, and the row says regression exactly when the block of
\* warnings has the entry.
TickIsEarned ==
  /\ phase \in {"summary", "finished"} /\ mode = "perfherder" => DOMAIN rows = Entered
  /\ \A e \in DOMAIN rows : rows[e] \in Ticks => Comparable(e)
  /\ phase = "finished" =>
       \A e \in DOMAIN rows : rows[e] = "possible regression" <=> e \in warned

-----------------------------------------------------------------------------
Phases == {"scores", "builds", "baselines", "comparison", "summary", "finished", "crashed"}

\* A sample is a number of a blob that was read, of a completed task.
IsSample(s) == s[1] \in DOMAIN blob /\ s[2] \in Usable(blob[s[1]])

TypeOK ==
  /\ listing \in Listings /\ mode \in Modes /\ phase \in Phases /\ exit \in {-1, 0, 1}
  /\ phase = "scores" => todo \subseteq Completed(listing) \ DOMAIN blob
  /\ phase = "builds" => todo \subseteq Pools
  /\ phase = "baselines" => todo \subseteq Entered
  /\ DOMAIN blob \subseteq Completed(listing) /\ \A t \in DOMAIN blob : blob[t] \in Blobs
  /\ DOMAIN scores = Pools
  /\ DOMAIN builds = Pools /\ \A k \in DOMAIN known : known[k] \in Metadata
  /\ ids \in {"unread", "treeherder", "built-in"}
  /\ DOMAIN baseline \subseteq Entered /\ DOMAIN rows \subseteq Entered
  /\ warned \subseteq DOMAIN baseline /\ red \subseteq Pools
  /\ DOMAIN silent = Pools /\ \A p \in Pools : silent[p] \subseteq Nodes[p]

\* Every sample is filed under the key of its own blob and suite, the one that
\* made the entry too.
Keyed ==
  \A p \in Pools : \A k \in DOMAIN scores[p] :
    /\ scores[p][k].first \in scores[p][k].samples
    /\ \A s \in scores[p][k].samples :
         /\ IsSample(s) /\ PoolOf[s[1]] = p
         /\ score_key(blob[s[1]], s[2]) = k

\* What a pool says of a build is what is known of its task.
FromKnown ==
  \A p \in Pools : \A b \in DOMAIN builds[p] :
    AskedFor(b) \in DOMAIN known /\ builds[p][b].metadata = known[AskedFor(b)]

\* A comparison is of the entry's own platform, browser and suite; it says
\* "comparable" of a series that is, and flags no other.
Sound(e) ==
  LET c == baseline[e] IN
  /\ c.comparable => c.stats.n >= MinPoints /\ c.stats.stdev > 0
  /\ c.flag => c.comparable
  /\ c.series # None => /\ c.series.platform = Platform[e[1]]
                         /\ <<c.series.application, c.series.suite>> = e[2]

AllSound == \A e \in DOMAIN baseline : Sound(e)

FiniteSamples == \A p \in Pools : \A k \in DOMAIN scores[p] : IsFiniteSet(scores[p][k].samples)

\* What production's number was compared with is what the entry still holds:
\* no score is filed once the baselines are asked for.
IsComparison(e) == baseline[e] = compare(e, baseline[e].series, baseline[e].stats)

BaselinesAreComparisons ==
  /\ phase = "scores" => DOMAIN baseline = {}
  /\ \A e \in DOMAIN baseline :
       /\ IsComparison(e)
       /\ baseline[e].stats \in [n : Nat, mean : Int, stdev : Nat]

RowsAreStatuses ==
  /\ phase \in {"summary", "finished"} =>
       /\ \A e \in DOMAIN rows : rows[e] = Status(e)
       /\ mode = "perfherder" => DOMAIN rows = Entered
  /\ phase \notin {"summary", "finished"} => DOMAIN rows = {}
  /\ warned = IF phase = "finished" THEN Flagged ELSE {}

IInv ==
  /\ TypeOK /\ Keyed /\ EverySampleCounts /\ FiniteSamples
  /\ BaselinesAreComparisons /\ FromKnown /\ AllSound /\ RowsAreStatuses
=============================================================================
