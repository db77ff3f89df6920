---------------------------- MODULE HwReplicate ----------------------------
(* The decision that copies mozilla-central's hardware tests onto one pool:  *)
(* taskcluster/worker_images_taskgraph/transforms/hw_integration_test.py.    *)
(* It takes the tests of the pool's counterpart from a curated graph or from *)
(* the newest push, moves fetches whose artifact is about to expire to a     *)
(* live copy, drops the tests an upstream that died can never let start, and *)
(* falls back to an earlier push when that leaves nothing. The upstream      *)
(* tasks run, finish and age between any two of its requests.                *)
EXTENDS Integers, FiniteSets, Sequences

CONSTANTS
  Newest,       \* the newest push; a push is 1..Newest
  Tests,        \* the tests a graph can schedule for the counterpart
  Artifacts,    \* what they fetch or mount, by the label that builds it
  Upstreams,    \* the tasks that build them
  Supplier,     \* Supplier[g][a]: the task graph g's tests take a from
  Carries,      \* Carries[g]: the labels that are tasks of g itself
  Fetches,      \* Fetches[t]: what MOZ_FETCHES of test t names
  Mounts,       \* Mounts[t]: what the rest of t's payload names
  Ordered,      \* Ordered[t]: what t depends on and names nowhere
  RepairGraphs, \* fetch-repair-targets
  DroppedKinds, \* the tests of a kind in fallback-drop-kinds
  Curated,      \* fallback-tests for the counterpart, empty when unset
  Filter,       \* the tests hw_tests asks for, empty when unset
  Walkback,     \* blocked-walkback
  ScanMultiplier, \* _WALKBACK_SCAN_MULTIPLIER
  Margin,       \* FETCH_EXPIRY_MARGIN, in hours
  Life,         \* how long an artifact lives
  LastHour,     \* bound: the hours the model lets pass
  Worlds        \* the situations a decision may start in

Pushes == 1..Newest
Cron == Newest + 1          \* the graph of decision-os-integration
Graphs == 0..Cron           \* 0 is a graph read for repairs only

UpstreamStates == {"unscheduled", "running", "completed", "dead"}

(* Which graph schedules what, which pushes the index knows, which repair    *)
(* graphs can be read, and how far each upstream is.                         *)
WorldType ==
  [schedules : [Graphs -> SUBSET Tests], indexed : SUBSET Pushes,
   readable : SUBSET Graphs, state : [Upstreams -> UpstreamStates],
   expires : [Upstreams -> Nat]]

ASSUME HwReplicateAssumption ==
  /\ Newest \in Nat \ {0}
  /\ {Walkback, Margin, LastHour} \subseteq Nat
  /\ ScanMultiplier \in Nat \ {0}
  /\ Life \in Nat /\ Life > Margin
  /\ Supplier \in [Graphs -> [Artifacts -> Upstreams]]
  /\ Carries \in [Graphs -> SUBSET Artifacts]
  /\ {Fetches, Mounts, Ordered} \subseteq [Tests -> SUBSET Artifacts]
  /\ RepairGraphs \in Seq(Graphs)
  /\ {DroppedKinds, Curated, Filter} \subseteq SUBSET Tests
  /\ Worlds \subseteq WorldType

VARIABLES
  schedules, indexed, readable, \* as in WorldType; they stay as they are
  state, expires,               \* as in WorldType; they move
  now,      \* the hour
  phase,    \* where the transform is
  source,   \* source_index: the graph the tests come from
  tried,    \* the graphs it has taken tests from
  missed,   \* history: the indexed pushes the index did not answer for
  selected, \* the tests taken from source
  asked,    \* the hour _repair_fetches began
  asking,   \* the tasks whose artifacts could not be listed
  cache,    \* what _repair_fetches has read of each task's artifact
  plan,     \* the definitions _repair_fetches leaves
  copies    \* the definitions the decision creates

world == <<schedules, indexed, readable>>
upstream == <<state, expires, now>>
repair == <<asked, asking, cache>>
vars == <<world, upstream, phase, source, tried, missed, selected, repair, plan, copies>>

(* A test's definition as far as its upstream goes: the task of each fetch   *)
(* and its dependencies.                                                     *)
Definitions ==
  [test : Tests, fetch : UNION {[S -> Upstreams] : S \in SUBSET Artifacts},
   dependencies : SUBSET Upstreams]

Outcomes == {"created", "nothing", "expired", "blocked", "failed"}

TypeOK ==
  /\ schedules \in [Graphs -> SUBSET Tests]
  /\ indexed \subseteq Pushes
  /\ readable \subseteq Graphs
  /\ state \in [Upstreams -> UpstreamStates]
  /\ expires \in [Upstreams -> Nat]
  /\ now \in 0..LastHour
  /\ phase \in {"sources", "repair", "check", "walk"} \cup Outcomes
  /\ source \in Graphs
  /\ tried \subseteq Graphs
  /\ missed \subseteq Pushes
  /\ selected \subseteq Tests
  /\ asked \in 0..LastHour
  /\ asking \subseteq Upstreams
  /\ cache \in [Upstreams -> {"unread", "unbuilt", "live", "gone"}]
  /\ plan \subseteq Definitions
  /\ copies \subseteq Definitions

Unread == [u \in Upstreams |-> "unread"]

Init ==
  /\ \E w \in Worlds :
       /\ schedules = w.schedules /\ indexed = w.indexed /\ readable = w.readable
       /\ state = w.state /\ expires = w.expires
  /\ now = 0
  /\ phase = "sources" /\ source = Cron
  /\ tried = {} /\ missed = {} /\ selected = {}
  /\ asked = 0 /\ asking = {} /\ cache = Unread
  /\ plan = {} /\ copies = {}

-----------------------------------------------------------------------------
(* The upstream tasks of mozilla-central.                                    *)

RunStarts(u) ==
  /\ state[u] = "unscheduled"
  /\ state' = [state EXCEPT ![u] = "running"]
  /\ UNCHANGED <<expires, now>>

Finishes(u) ==
  /\ state[u] = "running"
  /\ state' = [state EXCEPT ![u] = "completed"]
  /\ expires' = [expires EXCEPT ![u] = now + Life]
  /\ UNCHANGED now

Dies(u) ==
  /\ state[u] \in {"unscheduled", "running"}
  /\ state' = [state EXCEPT ![u] = "dead"]
  /\ UNCHANGED <<expires, now>>

HourPasses ==
  /\ now < LastHour
  /\ now' = now + 1
  /\ UNCHANGED <<state, expires>>

Upstream ==
  /\ \/ HourPasses
     \/ \E u \in Upstreams : RunStarts(u) \/ Finishes(u) \/ Dies(u)
  /\ UNCHANGED <<world, phase, source, tried, missed, selected, repair, plan, copies>>

-----------------------------------------------------------------------------
(* Where the tests come from.                                                *)

(* _drop_uncurated_kinds and _curate; the curated graph is taken whole.      *)
Offer(g) ==
  IF g = Cron THEN schedules[g]
  ELSE (schedules[g] \ DroppedKinds)
         \intersect (IF Curated = {} THEN Tests ELSE Curated)

(* _select_tests.                                                            *)
Matching(S) == IF Filter = {} THEN S ELSE S \intersect Filter

BeginRepair ==
  /\ phase' = "repair"
  /\ asked' = now
  /\ asking' = {}
  /\ cache' = Unread

(* Nothing left by a trim or a filter is a refusal no other push can mend.   *)
TakeFrom(g) ==
  /\ source' = g
  /\ tried' = tried \cup {g}
  /\ selected' = Matching(Offer(g))
  /\ IF selected' # {} THEN BeginRepair
     ELSE phase' = "nothing" /\ UNCHANGED repair

(* _sources_for_pool: the first target that schedules anything.              *)
SourcesForPool ==
  /\ phase = "sources"
  /\ \/ /\ schedules[Cron] # {}
        /\ TakeFrom(Cron)
     \/ /\ schedules[Cron] = {} /\ schedules[Newest] # {}
        /\ TakeFrom(Newest)
     \/ /\ schedules[Cron] = {} /\ schedules[Newest] = {}
        /\ phase' = "nothing"
        /\ UNCHANGED <<source, tried, selected, repair>>
  /\ UNCHANGED <<world, upstream, missed, plan, copies>>

(* A decision artifact or an index that cannot be read ends the decision.    *)
GraphUnread ==
  /\ phase \in {"sources", "walk"}
  /\ phase' = "failed"
  /\ UNCHANGED <<world, upstream, source, tried, missed, selected, repair, plan, copies>>

-----------------------------------------------------------------------------
(* Repairing the fetches.                                                    *)

Needed == UNION {Fetches[t] : t \in selected}
Original(a) == Supplier[source][a]

(* A task that has not finished counts as live for the test that waits.      *)
Lost(a) == cache[Original(a)] = "gone"

(* _live_replacement: the readable graphs that have the label, in order.     *)
Candidates(a) ==
  IF a \in Carries[source]
  THEN {i \in DOMAIN RepairGraphs :
          RepairGraphs[i] \in readable /\ a \in Carries[RepairGraphs[i]]}
  ELSE {}
CopyIn(i, a) == Supplier[RepairGraphs[i]][a]
Before(i, a) == {j \in Candidates(a) : j < i}

(* A replacement must already exist.                                         *)
Replaces(i, a) ==
  /\ cache[CopyIn(i, a)] = "live"
  /\ \A j \in Before(i, a) : cache[CopyIn(j, a)] # "live"
Repairable(a) == \E i \in Candidates(a) : Replaces(i, a)
Replacement(a) == CopyIn(CHOOSE i \in Candidates(a) : Replaces(i, a), a)

(* What it still has to read: every task a fetch names, and a candidate once *)
(* the original is gone and no graph before it has a live one.               *)
Wanted ==
  {Original(a) : a \in Needed} \cup
  UNION {{CopyIn(i, a) :
            i \in {j \in Candidates(a) :
                     \A k \in Before(j, a) : cache[CopyIn(k, a)] \in {"unbuilt", "gone"}}} :
         a \in {b \in Needed : Lost(b)}}
ToRead == {u \in Wanted : cache[u] = "unread"}

(* Mutant: no margin.                                                        *)
FreshNow(u) == expires[u] > asked

(* _fetch_is_live: the expiry is held against the hour the repair began.     *)
Fresh(u) == expires[u] > asked + Margin

(* _artifact_expiries, the listing. A task without a run has none to list,   *)
(* one that runs has not uploaded the artifact, and any request may fail.    *)
ListArtifacts(u) ==
  /\ phase = "repair" /\ asking = {} /\ u \in ToRead
  /\ \/ /\ state[u] # "unscheduled"
        /\ cache' = [cache EXCEPT ![u] =
             IF state[u] # "running" /\ Fresh(u) THEN "live" ELSE "gone"]
        /\ UNCHANGED asking
     \/ asking' = {u} /\ UNCHANGED cache
  /\ UNCHANGED <<world, upstream, phase, source, tried, missed, selected, asked, plan, copies>>

NotYetBuilt(u) == state[u] \in {"unscheduled", "running"}

(* _artifact_expiries, after a failed listing: a second request, which may   *)
(* fail too, and which the task may have finished before.                    *)
TaskState(u) ==
  /\ phase = "repair" /\ u \in asking
  /\ asking' = {}
  /\ \/ NotYetBuilt(u) /\ cache' = [cache EXCEPT ![u] = "unbuilt"]
     \/ cache' = [cache EXCEPT ![u] = "gone"]
  /\ UNCHANGED <<world, upstream, phase, source, tried, missed, selected, asked, plan, copies>>

Dead(a) == Lost(a) /\ ~Repairable(a)
FetchedFrom(a) == IF Lost(a) THEN Replacement(a) ELSE Original(a)

(* Every task the payload names once its fetches have moved.                 *)
Named(t) == {FetchedFrom(a) : a \in Fetches[t]} \cup {Original(a) : a \in Mounts[t]}

(* The replacement becomes a dependency; the expired task stops being one,   *)
(* unless the payload still names it.                                        *)
Dependencies(t) ==
  LET first == {Original(a) : a \in Fetches[t] \cup Mounts[t] \cup Ordered[t]}
      moved == {a \in Fetches[t] : Lost(a)}
  IN  (first \cup {Replacement(a) : a \in moved})
        \ ({Original(a) : a \in moved} \ Named(t))

Repaired(t) ==
  [test |-> t, fetch |-> [a \in Fetches[t] |-> FetchedFrom(a)],
   dependencies |-> Dependencies(t)]

(* _repair_fetches, once everything it asks for is read.                     *)
RepairFetches ==
  /\ phase = "repair" /\ asking = {} /\ ToRead = {}
  /\ plan' = {Repaired(t) : t \in {s \in selected : \A a \in Fetches[s] : ~Dead(a)}}
  /\ phase' = IF plan' = {} THEN "expired" ELSE "check"
  /\ UNCHANGED <<world, upstream, source, tried, missed, selected, repair, copies>>

-----------------------------------------------------------------------------
(* Dropping what can never start, and walking back.                          *)

(* Mutant: what the repair saw of a task still stands.                       *)
DependencyOKBefore(u) == state[u] # "dead" \/ cache[u] \in {"unbuilt", "live"}

DependencyOK(u) == state[u] # "dead"
Runnable(d, known) == \A u \in d.dependencies : u \in known /\ DependencyOK(u)

(* _drop_blocked and _build_task: one batch of states, in which a task may   *)
(* be missing. An unknown state blocks as a dead one does.                   *)
DropBlocked ==
  /\ phase = "check"
  /\ \E known \in SUBSET UNION {d.dependencies : d \in plan} :
       copies' = {d \in plan : Runnable(d, known)}
  /\ phase' = IF copies' = {} THEN "walk" ELSE "created"
  /\ UNCHANGED <<world, upstream, source, tried, missed, selected, repair, plan>>

(* A push is looked for once less for each graph that was refused.           *)
Limit ==
  LET left == Walkback - (Cardinality(tried) - 1)
  IN  IF left > 0 THEN left ELSE 0

(* The ids scanned; a curated graph carries no pushlog route.                *)
Scanned ==
  IF source \in Pushes
  THEN {p \in Pushes : p < source /\ p >= source - Limit * ScanMultiplier}
  ELSE {}

(* Mutant: the oldest of those that answer.                                  *)
EarlierPushesOldest(answered) ==
  {p \in answered : Cardinality({q \in answered : q <= p}) <= Limit}

(* _earlier_pushes: the newest of those that answer, at most Limit of them.  *)
EarlierPushes(answered) ==
  {p \in answered : Cardinality({q \in answered : q >= p}) <= Limit}

Offering(answered) ==
  {p \in EarlierPushes(answered) : p \notin tried /\ schedules[p] # {}}

(* _earlier_push_source: the first that schedules anything for the pool. A   *)
(* push whose id the index does not answer for is skipped.                   *)
EarlierPushSource ==
  /\ phase = "walk"
  /\ \E answered \in SUBSET (indexed \intersect Scanned) :
       /\ missed' = missed \cup ((indexed \intersect Scanned) \ answered)
       /\ \/ \E p \in Offering(answered) :
               /\ \A q \in Offering(answered) : q <= p
               /\ TakeFrom(p)
          \/ /\ Offering(answered) = {}
             /\ phase' = "blocked"
             /\ UNCHANGED <<source, tried, selected, repair>>
  /\ UNCHANGED <<world, upstream, plan, copies>>

Decision ==
  \/ SourcesForPool
  \/ GraphUnread
  \/ \E u \in Upstreams : ListArtifacts(u) \/ TaskState(u)
  \/ RepairFetches
  \/ DropBlocked
  \/ EarlierPushSource

Next == Decision \/ Upstream

Spec == Init /\ [][Next]_vars
=============================================================================
