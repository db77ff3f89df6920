------------------------------ MODULE HwReport ------------------------------
(* What ci/run-hw-os-integration.py makes of the results when the wait is    *)
(* over: the scores of the completed tasks, the builds they installed, what  *)
(* production scores for the same suites (ci/hw_baseline.py), how the two    *)
(* compare (ci/hw_score_summary.py), the verdicts and the exit code.  Every  *)
(* request can be answered, fail, or -- for the Taskcluster client and for a *)
(* body that breaks off -- raise what the caller does not catch.             *)
EXTENDS Integers, FiniteSets, FiniteSetsExt, Sequences

CONSTANTS
  Pools,      \* the pools with a task group
  Tasks,      \* their replicated tasks
  PoolOf,     \* the pool of each
  Platform,   \* the gecko platform of a pool's tasks
  Nodes,      \* the nodes pools.yml gives a pool
  Listings,   \* what the last listing of the task groups can say
  Blobs,      \* what a task's perfherder-data.json can hold
  NoValue,    \* a suite without a number
  Series,     \* the series Perfherder has
  Stats,      \* what a series can say of itself
  Treeherder, \* the frameworks Treeherder lists
  Builtin,    \* _FRAMEWORK_IDS
  NoBuild,    \* a task whose environment names no build
  Modes,      \* --baseline
  MinPoints,  \* MIN_BASELINE_POINTS
  Sigmas      \* REGRESSION_SIGMAS

States == {"failed", "exception", "pending", "running", "unscheduled", "completed"}
Metadata == [name : BOOLEAN, built : BOOLEAN, expires : BOOLEAN]

ASSUME HwReportAssumption ==
  /\ IsFiniteSet(Tasks) /\ PoolOf \in [Tasks -> Pools]
  /\ DOMAIN Platform = Pools /\ DOMAIN Nodes = Pools
  /\ \A p \in Pools : IsFiniteSet(Nodes[p])
  /\ \A b \in Blobs : b.suites \in Seq([suite : STRING, value : Int \union {NoValue},
                                        lower_is_better : BOOLEAN, extra_options : SUBSET STRING])
  /\ NoValue \notin Int
  /\ Stats \subseteq [n : Nat, mean : Int, stdev : Nat]
  /\ \A l \in Listings : /\ DOMAIN l.task = Tasks /\ l.late \subseteq Pools
                         /\ \A t \in Tasks : l.task[t].state \in States
  /\ Modes \subseteq {"perfherder", "counterpart", "none"}
  /\ MinPoints \in Nat /\ Sigmas \in Nat

VARIABLES
  listing,  \* each task's state, last worker, build and source, and which
            \* pools reached no verdict for want of time or of a decision
  mode,     \* args.baseline
  phase,    \* where main() is
  todo,     \* what the current loop has yet to visit
  blob,     \* what was read of the tasks' blobs
  scores,   \* scores[p][key]: the sample that made the entry, and all samples
  known,    \* collect_builds: what is known of each build
  builds,   \* builds[p]: the builds of a pool, each with its tasks
  ids,      \* framework_id: where the numeric frameworks are from
  tables,   \* _signature: the platforms and frameworks whose list is read
  baseline, \* production's number for an entry
  rows,     \* the Perfherder comparison
  warned,   \* the entries of the block of regressions
  silent,   \* silent[p]: the nodes named as having produced nothing
  red,      \* the pools whose verdict is a failure
  exit      \* the exit code, -1 while running

numbers == <<blob, scores>>
built == <<known, builds>>
production == <<ids, tables, baseline>>
said == <<rows, warned, silent, red>>
vars == <<listing, mode, phase, todo, numbers, built, production, said, exit>>

None == <<>>
-----------------------------------------------------------------------------
(* Scores                                                                    *)

Completed(l) == {t \in Tasks : l.task[t].state = "completed"}

Usable(b) == {i \in DOMAIN b.suites : b.suites[i].value # NoValue}

\* Application and suite; a blob that names no application has "".
score_key(b, i) == <<b.application, b.suites[i].suite>>

\* Mutant: every blob starts its entries anew.
FiledAnew(s, t, b) ==
  LET keys == {score_key(b, i) : i \in Usable(b)}
      new(k) == {i \in Usable(b) : score_key(b, i) = k}
  IN [k \in DOMAIN s \union keys |->
        IF k \in keys THEN [first |-> <<t, Min(new(k))>>, samples |-> {<<t, i>> : i \in new(k)}]
        ELSE s[k]]

\* setdefault: the first sample of an entry decides what the entry says of
\* itself, the later ones are appended.
Filed(s, t, b) ==
  LET keys == {score_key(b, i) : i \in Usable(b)}
      new(k) == {i \in Usable(b) : score_key(b, i) = k}
  IN [k \in DOMAIN s \union keys |->
        [first   |-> IF k \in DOMAIN s THEN s[k].first ELSE <<t, Min(new(k))>>,
         samples |-> {<<t, i>> : i \in new(k)}
                       \union (IF k \in DOMAIN s THEN s[k].samples ELSE {})]]

Entered == UNION {{p} \X DOMAIN scores[p] : p \in Pools}
Entry(e) == scores[e[1]][e[2]]
Suite(s) == blob[s[1]].suites[s[2]]

\* collect_scores, one completed task: its blob is read or it is not.
Collect(t) ==
  /\ phase = "scores" /\ t \in todo
  /\ todo' = todo \ {t}
  /\ \/ UNCHANGED numbers
     \/ \E b \in Blobs :
          /\ blob' = [u \in DOMAIN blob \union {t} |-> IF u = t THEN b ELSE blob[u]]
          /\ scores' = [scores EXCEPT ![PoolOf[t]] = Filed(@, t, b)]
  /\ UNCHANGED <<listing, mode, phase, built, production, said, exit>>

\* The tasks are all visited, in whatever order the group lists them.
Collected ==
  /\ phase = "scores" /\ todo = {}
  /\ phase' = "builds" /\ todo' = Pools
  /\ UNCHANGED <<listing, mode, numbers, built, production, said, exit>>

\* A connection that cannot be made, or breaks: nothing on the way to main
\* catches it.
Crash ==
  /\ exit' = 1 /\ phase' = "crashed"
  /\ \/ phase = "scores" /\ todo # {}
     \/ phase = "baselines" /\ todo # {} /\ mode # "none"
  /\ UNCHANGED <<listing, mode, todo, numbers, built, production, said>>
-----------------------------------------------------------------------------
(* Builds                                                                    *)

\* builds_under_test: the builds of a pool's tasks, whatever became of them.
builds_under_test(p) ==
  {listing.task[t].build : t \in {u \in Tasks : PoolOf[u] = p}} \ {NoBuild}

Installed(p, b) == {t \in Tasks : PoolOf[t] = p /\ listing.task[t].build = b}

\* collect_builds, one pool: a build not met before is asked after -- its name,
\* its date and its expiry each on its own -- and remembered by its task and
\* its artifact.
AskedFor(b) == <<b.task, b.artifact>>
Describe(p) ==
  LET asked == {AskedFor(b) : b \in builds_under_test(p)} IN
  /\ phase = "builds" /\ p \in todo
  /\ todo' = todo \ {p}
  /\ \E answers \in [asked \ DOMAIN known -> Metadata] :
       known' = [k \in DOMAIN known \union asked |->
                   IF k \in DOMAIN known THEN known[k] ELSE answers[k]]
  /\ builds' = [builds EXCEPT ![p] =
       [b \in builds_under_test(p) |->
          [tasks |-> Cardinality(Installed(p, b)), metadata |-> known'[AskedFor(b)]]]]
  /\ UNCHANGED <<listing, mode, phase, numbers, production, said, exit>>

Described ==
  /\ phase = "builds" /\ todo = {}
  /\ phase' = "baselines" /\ todo' = IF mode = "none" THEN {} ELSE Entered
  /\ UNCHANGED <<listing, mode, numbers, built, production, said, exit>>
-----------------------------------------------------------------------------
(* ci/hw_baseline.py                                                         *)

Sum(e) == MapThenSumSet(LAMBDA s : Suite(s).value, Entry(e).samples)
Abs(n) == IF n < 0 THEN -n ELSE n

\* Mutant: higher is better, whatever the suite says.
OneDirection(e, series, stats) ==
  LET n == Cardinality(Entry(e).samples)
      delta == Sum(e) - n * stats.mean
      worse == delta < 0
      comparable == stats.stdev > 0 /\ stats.n >= MinPoints
  IN [series |-> series, stats |-> stats, worse |-> worse, comparable |-> comparable,
      level |-> delta = 0 \/ stats.mean = 0,
      flag |-> worse /\ comparable /\ Abs(delta) >= Sigmas * n * stats.stdev]

\* compare, with both sides times the number of samples: integers, not means.
compare(e, series, stats) ==
  LET n == Cardinality(Entry(e).samples)
      delta == Sum(e) - n * stats.mean
      worse == IF Suite(Entry(e).first).lower_is_better THEN delta > 0 ELSE delta < 0
      comparable == stats.stdev > 0 /\ stats.n >= MinPoints
  IN [series |-> series, stats |-> stats, worse |-> worse, comparable |-> comparable,
      level |-> delta = 0 \/ stats.mean = 0,
      flag |-> worse /\ comparable /\ Abs(delta) >= Sigmas * n * stats.stdev]

Compared(e, series, stats) ==
  baseline' = [f \in DOMAIN baseline \union {e} |->
                 IF f = e THEN compare(e, series, stats) ELSE baseline[f]]

\* framework_id: the list of Treeherder is asked for once; when that fails the
\* built-in one stands for the rest of the run.
Knows(source, framework) ==
  framework \in Builtin \/ (source = "treeherder" /\ framework \in Treeherder)

\* production_platform drops the build type, so Platform has none.
Wanted(e, s) ==
  /\ s.platform = Platform[e[1]]
  /\ s.framework = blob[Entry(e).first[1]].framework
  /\ s.suite = Suite(Entry(e).first).suite
  /\ s.application = blob[Entry(e).first[1]].application
  /\ s.extra_options = Suite(Entry(e).first).extra_options

\* collect_baselines with --baseline perfherder, one entry: the first request
\* that fails, or has no such framework or series, leaves it without.  A list
\* of series that was read is kept, one that could not be is asked for again.
Perfherder(e) ==
  LET framework == blob[Entry(e).first[1]].framework
      table == <<Platform[e[1]], framework>>
  IN
  /\ phase = "baselines" /\ mode = "perfherder" /\ e \in todo
  /\ todo' = todo \ {e}
  /\ ids' \in IF ids = "unread" THEN {"treeherder", "built-in"} ELSE {ids}
  /\ \/ ~Knows(ids', framework) /\ UNCHANGED <<tables, baseline>>
     \/ /\ Knows(ids', framework) /\ table \notin tables
        /\ UNCHANGED <<tables, baseline>>
     \/ /\ Knows(ids', framework)
        /\ tables' = tables \union {table}
        /\ \/ UNCHANGED baseline
           \/ \E s \in Series, stats \in Stats :
                Wanted(e, s) /\ stats.n > 0 /\ Compared(e, s, stats)
  /\ UNCHANGED <<listing, mode, phase, numbers, built, said, exit>>

\* With --baseline counterpart: the number of the one task the first sample's
\* was copied from, if its blob can be read, is the same application's and has
\* the suite.
Counterpart(e) ==
  LET first == Entry(e).first
      same(b) == {i \in Usable(b) : b.suites[i].suite = Suite(first).suite}
  IN
  /\ phase = "baselines" /\ mode = "counterpart" /\ e \in todo
  /\ todo' = todo \ {e}
  /\ \/ UNCHANGED baseline
     \/ /\ listing.task[first[1]].source
        /\ \E b \in Blobs :
             /\ b.application = blob[first[1]].application /\ same(b) # {}
             /\ Compared(e, None, [n |-> 1, mean |-> b.suites[Min(same(b))].value, stdev |-> 0])
  /\ UNCHANGED <<listing, mode, phase, numbers, built, ids, tables, said, exit>>

Against ==
  /\ phase = "baselines" /\ todo = {}
  /\ phase' = "comparison"
  /\ UNCHANGED <<listing, mode, todo, numbers, built, production, said, exit>>
-----------------------------------------------------------------------------
(* What is said of it                                                        *)

\* Mutant: any baseline will do for a tick.
StatusOfAny(e) ==
  IF e \notin DOMAIN baseline THEN "inconclusive"
  ELSE IF baseline[e].flag THEN "possible regression"
  ELSE IF baseline[e].worse THEN "within production spread"
  ELSE IF baseline[e].level THEN "matches production"
  ELSE "faster than production"

\* hw_score_summary.comparisons: the status of one entry.
Status(e) ==
  IF e \in DOMAIN baseline /\ baseline[e].comparable
  THEN IF baseline[e].flag THEN "possible regression"
       ELSE IF baseline[e].worse THEN "within production spread"
       ELSE IF baseline[e].level THEN "matches production"
       ELSE "faster than production"
  ELSE "inconclusive"

\* hw_score_summary.build, for Perfherder's baselines only.
Compare ==
  /\ phase = "comparison" /\ phase' = "summary"
  /\ rows' = [e \in IF mode = "perfherder" THEN Entered ELSE {} |-> Status(e)]
  /\ UNCHANGED <<listing, mode, todo, numbers, built, production, warned, silent, red, exit>>

Worker(s) == listing.task[s[1]].worker
Samples(p) == UNION {scores[p][k].samples : k \in DOMAIN scores[p]}

idle_nodes(p) == Nodes[p] \ {Worker(s) : s \in Samples(p)}

\* idle_note: the nodes are named only when there were results for all.
idle_note(p) == IF Cardinality(Samples(p)) < Cardinality(Nodes[p]) THEN {} ELSE idle_nodes(p)

\* regression_lines and production_cell
Flagged == {e \in DOMAIN baseline : baseline[e].flag}

\* classify_run of a pool with a task group; late are those it leaves
\* undecided before it looks at their tasks.
Failed(p) ==
  /\ p \notin listing.late
  /\ \E t \in Tasks : PoolOf[t] = p /\ listing.task[t].state \in {"failed", "exception"}

\* The verdicts, the summary and the exit code.
Conclude ==
  /\ phase = "summary" /\ phase' = "finished"
  /\ red' = {p \in Pools : Failed(p)}
  /\ warned' = Flagged
  /\ silent' = [p \in Pools |-> idle_note(p)]
  /\ exit' = IF red' # {} THEN 1 ELSE 0
  /\ UNCHANGED <<listing, mode, todo, numbers, built, production, rows>>

Init ==
  /\ listing \in Listings /\ mode \in Modes
  /\ phase = "scores" /\ todo = Completed(listing)
  /\ blob = [t \in {} |-> None] /\ scores = [p \in Pools |-> [k \in {} |-> None]]
  /\ known = [k \in {} |-> None] /\ builds = [p \in Pools |-> [b \in {} |-> None]]
  /\ ids = "unread" /\ tables = {} /\ baseline = [e \in {} |-> None]
  /\ rows = [e \in {} |-> None] /\ warned = {} /\ silent = [p \in Pools |-> {}]
  /\ red = {} /\ exit = -1

Next ==
  \/ \E t \in Tasks : Collect(t)
  \/ \E p \in Pools : Describe(p)
  \/ \E e \in Entered : Perfherder(e) \/ Counterpart(e)
  \/ Collected \/ Described \/ Against \/ Compare \/ Conclude \/ Crash

Spec == Init /\ [][Next]_vars
=============================================================================
