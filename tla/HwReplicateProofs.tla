------------------------- MODULE HwReplicateProofs -------------------------
(* The decision's promises, for every graph, every set of tests and every    *)
(* margin: the invariants of HwReplicateInv proved of the specification.     *)
EXTENDS HwReplicateInv, FiniteSetTheorems, TLAPS

LEMMA Numbers ==
  /\ Newest \in Nat /\ Newest > 0 /\ Margin \in Nat /\ LastHour \in Nat
  /\ Life \in Nat /\ Life > Margin /\ Cron \in Graphs /\ Newest \in Pushes
  /\ Pushes \subseteq Graphs /\ Cron \notin Pushes /\ Cron \in Int
  /\ Pushes \subseteq Nat
BY HwReplicateAssumption DEF Cron, Graphs, Pushes

LEMMA OriginalType ==
  ASSUME TypeOK, NEW a \in Artifacts PROVE Original(a) \in Upstreams
BY HwReplicateAssumption DEF TypeOK, Original

LEMMA ReplacementType ==
  ASSUME TypeOK, NEW a \in Artifacts, Repairable(a)
  PROVE  /\ Replacement(a) \in Upstreams
         /\ cache[Replacement(a)] = "live"
<1> DEFINE i == CHOOSE j \in Candidates(a) : Replaces(j, a)
<1>1. i \in Candidates(a) /\ Replaces(i, a)
  BY DEF Repairable
<1>2. i \in DOMAIN RepairGraphs
  BY <1>1 DEF Candidates
<1>3. RepairGraphs[i] \in Graphs
  BY <1>2, HwReplicateAssumption
<1>4. CopyIn(i, a) \in Upstreams
  BY <1>3, HwReplicateAssumption DEF CopyIn
<1> QED
  BY <1>1, <1>4 DEF Replacement, Replaces

LEMMA ChosenTests ==
  ASSUME TypeOK, NEW g \in Graphs
  PROVE  Matching(Offer(g)) \subseteq Tests
BY DEF TypeOK, Matching, Offer

-----------------------------------------------------------------------------
(* The type invariant.                                                       *)

LEMMA RepairedType ==
  ASSUME TypeOK, NEW t \in Tests, \A a \in Fetches[t] : ~Dead(a)
  PROVE  /\ Repaired(t) \in Definitions
         /\ \A a \in Fetches[t] : FetchedFrom(a) \in Upstreams
         /\ \A a \in Fetches[t] : Lost(a) => Replacement(a) \in Upstreams
<1>1. Fetches[t] \in SUBSET Artifacts /\ Mounts[t] \in SUBSET Artifacts
      /\ Ordered[t] \in SUBSET Artifacts
  BY HwReplicateAssumption
<1>2. \A a \in Fetches[t] : Lost(a) => Replacement(a) \in Upstreams
  BY <1>1, ReplacementType DEF Dead
<1>3. \A a \in Fetches[t] : FetchedFrom(a) \in Upstreams
  BY <1>1, <1>2, OriginalType DEF FetchedFrom
<1>4. \A a \in Fetches[t] \cup Mounts[t] \cup Ordered[t] : Original(a) \in Upstreams
  BY <1>1, OriginalType
<1>5. Dependencies(t) \subseteq Upstreams
  BY <1>2, <1>4 DEF Dependencies
<1>6. [a \in Fetches[t] |-> FetchedFrom(a)] \in UNION {[S -> Upstreams] : S \in SUBSET Artifacts}
  <2>1. [a \in Fetches[t] |-> FetchedFrom(a)] \in [Fetches[t] -> Upstreams]
    BY <1>3
  <2> QED BY <2>1, <1>1
<1> QED
  BY <1>2, <1>3, <1>5, <1>6 DEF Repaired, Definitions

LEMMA TakeType ==
  ASSUME TypeOK, NEW g \in Graphs, TakeFrom(g)
  PROVE  /\ source' \in Graphs /\ tried' \subseteq Graphs /\ selected' \subseteq Tests
         /\ phase' \in {"repair", "nothing"} /\ asked' \in 0..LastHour
         /\ asking' \subseteq Upstreams
         /\ cache' \in [Upstreams -> {"unread", "unbuilt", "live", "gone"}]
<1>1. selected' \subseteq Tests
  BY ChosenTests DEF TakeFrom
<1>2. CASE selected' # {}
  BY <1>1, <1>2 DEF TakeFrom, BeginRepair, Unread, TypeOK
<1>3. CASE selected' = {}
  BY <1>1, <1>3 DEF TakeFrom, repair, TypeOK
<1> QED
  BY <1>2, <1>3

LEMMA InitType == Init => TypeOK
<1> SUFFICES ASSUME Init PROVE TypeOK
  OBVIOUS
<1>1. PICK w \in Worlds :
        /\ schedules = w.schedules /\ indexed = w.indexed /\ readable = w.readable
        /\ state = w.state /\ expires = w.expires
  BY DEF Init
<1>2. w \in WorldType
  BY <1>1, HwReplicateAssumption
<1>3. /\ schedules \in [Graphs -> SUBSET Tests] /\ indexed \subseteq Pushes
      /\ readable \subseteq Graphs /\ state \in [Upstreams -> UpstreamStates]
      /\ expires \in [Upstreams -> Nat]
  BY <1>1, <1>2 DEF WorldType
<1>4. now \in 0..LastHour /\ asked \in 0..LastHour
  BY Numbers DEF Init
<1> QED
  BY <1>3, <1>4, Numbers DEF Init, TypeOK, Unread

LEMMA NextType == TypeOK /\ [Next]_vars => TypeOK'
<1> SUFFICES ASSUME TypeOK, [Next]_vars PROVE TypeOK'
  OBVIOUS
<1>1. CASE SourcesForPool
  <2>1. CASE TakeFrom(Cron)
    BY <1>1, <2>1, TakeType, Numbers DEF SourcesForPool, TypeOK, world, upstream, Outcomes
  <2>2. CASE TakeFrom(Newest)
    BY <1>1, <2>2, TakeType, Numbers DEF SourcesForPool, TypeOK, world, upstream, Outcomes
  <2>3. CASE phase' = "nothing" /\ UNCHANGED <<source, tried, selected, repair>>
    BY <1>1, <2>3 DEF SourcesForPool, TypeOK, world, upstream, repair, Outcomes
  <2> QED BY <1>1, <2>1, <2>2, <2>3 DEF SourcesForPool
<1>2. CASE GraphUnread
  BY <1>2 DEF GraphUnread, TypeOK, world, upstream, repair, Outcomes
<1>3. ASSUME NEW u \in Upstreams, ListArtifacts(u) \/ TaskState(u) PROVE TypeOK'
  BY <1>3 DEF ListArtifacts, TaskState, TypeOK, world, upstream
<1>4. CASE RepairFetches
  <2>1. plan' \subseteq Definitions
    BY <1>4, RepairedType DEF RepairFetches, TypeOK
  <2> QED BY <1>4, <2>1 DEF RepairFetches, TypeOK, world, upstream, repair, Outcomes
<1>5. CASE DropBlocked
  BY <1>5 DEF DropBlocked, TypeOK, world, upstream, repair, Outcomes
<1>6. CASE EarlierPushSource
  <2>1. PICK answered \in SUBSET (indexed \intersect Scanned) :
          /\ missed' = missed \cup ((indexed \intersect Scanned) \ answered)
          /\ \/ \E p \in Offering(answered) : TakeFrom(p)
             \/ phase' = "blocked" /\ UNCHANGED <<source, tried, selected, repair>>
    BY <1>6 DEF EarlierPushSource
  <2>2. missed' \subseteq Pushes
    BY <2>1 DEF TypeOK
  <2>3. Offering(answered) \subseteq Graphs
    BY <2>1, Numbers DEF Offering, EarlierPushes, TypeOK
  <2>4. CASE \E p \in Offering(answered) : TakeFrom(p)
    BY <1>6, <2>2, <2>3, <2>4, TakeType DEF EarlierPushSource, TypeOK, world, upstream, Outcomes
  <2>5. CASE phase' = "blocked" /\ UNCHANGED <<source, tried, selected, repair>>
    BY <1>6, <2>2, <2>5 DEF EarlierPushSource, TypeOK, world, upstream, repair, Outcomes
  <2> QED BY <2>1, <2>4, <2>5
<1>7. CASE Upstream
  <2>1. /\ state' \in [Upstreams -> UpstreamStates]
        /\ expires' \in [Upstreams -> Nat] /\ now' \in 0..LastHour
    BY <1>7, Numbers DEF Upstream, HourPasses, RunStarts, Finishes, Dies, TypeOK, UpstreamStates
  <2> QED BY <1>7, <2>1 DEF Upstream, TypeOK, world, repair
<1>8. CASE UNCHANGED vars
  BY <1>8 DEF vars, world, upstream, repair, TypeOK
<1> QED
  BY <1>1, <1>2, <1>3, <1>4, <1>5, <1>6, <1>7, <1>8 DEF Next, Decision

(* Every variable of the decision keeps its type.                            *)
THEOREM DecisionTypeCorrect == Spec => []TypeOK
BY InitType, NextType, PTL DEF Spec
-----------------------------------------------------------------------------
(* What has been read stands, though the queue moves.                        *)

LEMMA InitReadings == Init => ReadingsStand
BY DEF Init, ReadingsStand, Unread

LEMMA BeginKeepsReadings ==
  ASSUME TypeOK, ReadingsStand, NEW g \in Graphs, TakeFrom(g), UNCHANGED upstream
  PROVE  ReadingsStand'
<1>1. CASE selected' # {}
  BY <1>1 DEF TakeFrom, BeginRepair, Unread, ReadingsStand, TypeOK, upstream
<1>2. CASE selected' = {}
  BY <1>2 DEF TakeFrom, repair, ReadingsStand, NotYetBuilt, upstream
<1> QED BY <1>1, <1>2

LEMMA NextReadings == TypeOK /\ ReadingsStand /\ [Next]_vars => ReadingsStand'
<1> SUFFICES ASSUME TypeOK, ReadingsStand, [Next]_vars PROVE ReadingsStand'
  OBVIOUS
<1>1. CASE SourcesForPool
  <2>1. CASE \E g \in Graphs : TakeFrom(g)
    BY <1>1, <2>1, BeginKeepsReadings DEF SourcesForPool
  <2>2. CASE UNCHANGED repair
    BY <1>1, <2>2 DEF SourcesForPool, repair, upstream, ReadingsStand, NotYetBuilt
  <2> QED BY <1>1, <2>1, <2>2, Numbers DEF SourcesForPool
<1>2. CASE GraphUnread \/ RepairFetches \/ DropBlocked \/ UNCHANGED vars
  BY <1>2 DEF GraphUnread, RepairFetches, DropBlocked, vars, repair, upstream,
              ReadingsStand, NotYetBuilt
<1>3. ASSUME NEW u \in Upstreams, ListArtifacts(u) PROVE ReadingsStand'
  <2>1. CASE UNCHANGED cache
    BY <1>3, <2>1 DEF ListArtifacts, upstream, ReadingsStand, NotYetBuilt
  <2>2. CASE /\ state[u] # "unscheduled"
             /\ cache' = [cache EXCEPT ![u] =
                  IF state[u] # "running" /\ Fresh(u) THEN "live" ELSE "gone"]
    <3>1. /\ cache'[u] \in {"live", "gone"}
          /\ cache'[u] = "live" => state[u] # "running" /\ expires[u] > asked + Margin
      BY <2>2 DEF Fresh, TypeOK
    <3>2. \A v \in Upstreams : v # u => cache'[v] = cache[v]
      BY <2>2 DEF TypeOK
    <3>3. state' = state /\ expires' = expires /\ asked' = asked /\ now' = now
      BY <1>3 DEF ListArtifacts, upstream
    <3> QED BY <2>2, <3>1, <3>2, <3>3 DEF ReadingsStand, NotYetBuilt
  <2> QED BY <1>3, <2>1, <2>2 DEF ListArtifacts
<1>4. ASSUME NEW u \in Upstreams, TaskState(u) PROVE ReadingsStand'
  <2>1. cache'[u] = "unbuilt" => NotYetBuilt(u)
    BY <1>4 DEF TaskState, TypeOK
  <2>2. cache'[u] # "live" /\ \A v \in Upstreams : v # u => cache'[v] = cache[v]
    BY <1>4 DEF TaskState, TypeOK
  <2>3. state' = state /\ expires' = expires /\ asked' = asked /\ now' = now
    BY <1>4 DEF TaskState, upstream
  <2> QED BY <2>1, <2>2, <2>3 DEF ReadingsStand, NotYetBuilt
<1>5. CASE EarlierPushSource
  <2>1. CASE \E g \in Graphs : TakeFrom(g)
    BY <1>5, <2>1, BeginKeepsReadings DEF EarlierPushSource
  <2>2. CASE UNCHANGED repair
    BY <1>5, <2>2 DEF EarlierPushSource, repair, upstream, ReadingsStand, NotYetBuilt
  <2> QED
    BY <1>5, <2>1, <2>2, Numbers DEF EarlierPushSource, Offering, EarlierPushes, TypeOK
<1>6. CASE Upstream
  <2>1. cache' = cache /\ asked' = asked
    BY <1>6 DEF Upstream, repair
  <2>2. CASE HourPasses
    BY <2>1, <2>2 DEF HourPasses, ReadingsStand, NotYetBuilt, TypeOK
  <2>3. ASSUME NEW u \in Upstreams, RunStarts(u) \/ Dies(u) PROVE ReadingsStand'
    BY <2>1, <2>3 DEF RunStarts, Dies, ReadingsStand, NotYetBuilt, TypeOK
  <2>4. ASSUME NEW u \in Upstreams, Finishes(u) PROVE ReadingsStand'
    <3>1. expires'[u] > asked + Margin
      BY <2>4, Numbers DEF Finishes, ReadingsStand, TypeOK
    <3>2. /\ state[u] = "running" /\ now' = now
          /\ \A v \in Upstreams : v # u => state'[v] = state[v] /\ expires'[v] = expires[v]
      BY <2>4 DEF Finishes, TypeOK
    <3> QED BY <2>1, <3>1, <3>2 DEF ReadingsStand, NotYetBuilt
  <2> QED BY <1>6, <2>2, <2>3, <2>4 DEF Upstream
<1> QED
  BY <1>1, <1>2, <1>3, <1>4, <1>5, <1>6 DEF Next, Decision

-----------------------------------------------------------------------------
(* The plan the repair leaves.                                               *)

LEMMA FetchesOfRepaired ==
  ASSUME NEW t \in Tests
  PROVE  /\ FetchedBy(Repaired(t)) = {FetchedFrom(a) : a \in Fetches[t]}
         /\ NamedBy(Repaired(t)) = Named(t)
         /\ Repaired(t).test = t /\ Repaired(t).dependencies = Dependencies(t)
BY DEF Repaired, FetchedBy, NamedBy, Named

LEMMA DependenciesFit ==
  ASSUME NEW t \in Tests
  PROVE  /\ Named(t) \subseteq Dependencies(t)
         /\ Dependencies(t) \subseteq Named(t) \cup {Original(a) : a \in Ordered[t]}
BY DEF Named, Dependencies, FetchedFrom

LEMMA RepairReadsAll ==
  ASSUME TypeOK, ToRead = {}, NEW t \in selected, NEW a \in Fetches[t], ~Dead(a)
  PROVE  cache[FetchedFrom(a)] \in {"live", "unbuilt"}
<1>1. a \in Artifacts /\ a \in Needed
  BY HwReplicateAssumption DEF Needed, TypeOK
<1>2. CASE Lost(a)
  BY <1>1, <1>2, ReplacementType DEF Dead, FetchedFrom
<1>3. CASE ~Lost(a)
  <2>1. Original(a) \in Wanted
    BY <1>1 DEF Wanted
  <2>2. cache[Original(a)] # "unread"
    BY <2>1 DEF ToRead
  <2> QED BY <1>1, <1>3, <2>2, OriginalType DEF Lost, FetchedFrom, TypeOK
<1> QED BY <1>2, <1>3

LEMMA InitPlan == Init => PlanFits /\ WaitsOnWhatItNames
BY DEF Init, PlanFits, WaitsOnWhatItNames

LEMMA TakeKeepsPlan ==
  ASSUME TypeOK, PlanFits, phase # "created", NEW g \in Graphs, TakeFrom(g),
         UNCHANGED <<world, plan, copies>>
  PROVE  PlanFits' /\ WaitsOnWhatItNames'
<1>1. phase' \in {"repair", "nothing"}
  BY TakeType
<1>2. selected' = Matching(Offer(g)) /\ source' = g /\ schedules' = schedules
  BY DEF TakeFrom, world
<1>3. Matching(Offer(source))' = IF Filter = {} THEN Offer(source)'
                                 ELSE Offer(source)' \intersect Filter
  BY DEF Matching
<1> QED
  BY <1>1, <1>2 DEF PlanFits, WaitsOnWhatItNames, Matching, Offer

LEMMA NextPlan ==
  TypeOK /\ PlanFits /\ WaitsOnWhatItNames /\ [Next]_vars
    => PlanFits' /\ WaitsOnWhatItNames'
<1> SUFFICES ASSUME TypeOK, PlanFits, WaitsOnWhatItNames, [Next]_vars
             PROVE  PlanFits' /\ WaitsOnWhatItNames'
  OBVIOUS
<1>1. CASE SourcesForPool
  <2>1. CASE \E g \in Graphs : TakeFrom(g)
    BY <1>1, <2>1, TakeKeepsPlan DEF SourcesForPool
  <2>2. CASE phase' = "nothing" /\ UNCHANGED <<source, selected>>
    BY <1>1, <2>2 DEF SourcesForPool, world, PlanFits, WaitsOnWhatItNames, Matching, Offer
  <2> QED BY <1>1, <2>1, <2>2, Numbers DEF SourcesForPool
<1>2. CASE GraphUnread
  BY <1>2 DEF GraphUnread, world, PlanFits, WaitsOnWhatItNames, Matching, Offer
<1>3. ASSUME NEW u \in Upstreams, ListArtifacts(u) \/ TaskState(u)
      PROVE  PlanFits' /\ WaitsOnWhatItNames'
  <2>1. phase = "repair" /\ UNCHANGED <<world, phase, source, selected, plan, copies>>
    BY <1>3 DEF ListArtifacts, TaskState
  <2> QED BY <2>1 DEF world, PlanFits, WaitsOnWhatItNames, Matching, Offer
<1>4. CASE RepairFetches
  <2>1. \A d \in plan' : \E t \in selected :
          d = Repaired(t) /\ \A a \in Fetches[t] : ~Dead(a)
    BY <1>4 DEF RepairFetches
  <2>2. copies' = {} /\ UNCHANGED <<world, source, selected, cache>>
        /\ phase' \in {"expired", "check"}
    BY <1>4 DEF RepairFetches, repair, PlanFits
  <2>3. \A d \in plan' : d.test \in selected
    BY <2>1 DEF Repaired
  <2>4. \A d \in plan' : \A u \in FetchedBy(d) : cache[u] \in {"live", "unbuilt"}
    <3> TAKE d \in plan'
    <3>1. PICK t \in selected : d = Repaired(t) /\ \A a \in Fetches[t] : ~Dead(a)
      BY <2>1
    <3>2. FetchedBy(d) = {FetchedFrom(a) : a \in Fetches[t]}
      BY <3>1, FetchesOfRepaired DEF TypeOK
    <3> QED BY <1>4, <3>1, <3>2, RepairReadsAll DEF RepairFetches
  <2>5. \A d \in plan' :
          /\ NamedBy(d) \subseteq d.dependencies
          /\ d.dependencies \subseteq NamedBy(d) \cup {Original(a) : a \in Ordered[d.test]}
    <3> TAKE d \in plan'
    <3>1. PICK t \in selected : d = Repaired(t)
      BY <2>1
    <3> QED BY <3>1, FetchesOfRepaired, DependenciesFit DEF TypeOK
  <2>6. PlanFits'
    BY <2>2, <2>3, <2>4 DEF PlanFits, world, Matching, Offer, FetchedBy
  <2>7. WaitsOnWhatItNames'
    BY <2>2, <2>5 DEF WaitsOnWhatItNames, NamedBy, FetchedBy, Original
  <2> QED BY <2>6, <2>7
<1>5. CASE DropBlocked
  <2>1. copies' \subseteq plan /\ UNCHANGED <<world, source, selected, cache, plan>>
        /\ phase' = (IF copies' = {} THEN "walk" ELSE "created") /\ phase = "check"
    BY <1>5 DEF DropBlocked, repair
  <2> QED BY <2>1 DEF PlanFits, WaitsOnWhatItNames, world, Matching, Offer,
                      NamedBy, FetchedBy, Original
<1>6. CASE EarlierPushSource
  <2>1. CASE \E g \in Graphs : TakeFrom(g)
    BY <1>6, <2>1, TakeKeepsPlan DEF EarlierPushSource
  <2>2. CASE phase' = "blocked" /\ UNCHANGED <<source, selected>>
    BY <1>6, <2>2 DEF EarlierPushSource, world, PlanFits, WaitsOnWhatItNames, Matching, Offer
  <2> QED
    BY <1>6, <2>1, <2>2, Numbers DEF EarlierPushSource, Offering, EarlierPushes, TypeOK
<1>7. CASE Upstream \/ UNCHANGED vars
  <2>1. UNCHANGED <<world, phase, source, selected, cache, plan, copies>>
    BY <1>7 DEF Upstream, vars, repair
  <2> QED BY <2>1 DEF PlanFits, WaitsOnWhatItNames, world, Matching, Offer,
                      NamedBy, FetchedBy, Original
<1> QED
  BY <1>1, <1>2, <1>3, <1>4, <1>5, <1>6, <1>7 DEF Next, Decision
-----------------------------------------------------------------------------
(* The walk back.                                                            *)

LEMMA PushesFinite ==
  ASSUME NEW S \in SUBSET Pushes
  PROVE  IsFiniteSet(S) /\ Cardinality(S) \in Nat
<1>1. IsFiniteSet(Pushes)
  BY Numbers, FS_Interval DEF Pushes
<1>2. IsFiniteSet(S)
  BY <1>1, FS_Subset
<1> QED
  BY <1>2, FS_CardinalityType

LEMMA LimitType ==
  ASSUME tried \subseteq Pushes PROVE Limit \in Nat
BY PushesFinite, HwReplicateAssumption DEF Limit

LEMMA InitWalk == Init => WalkDescends /\ FirstThatWillDo
BY Numbers DEF Init, WalkDescends, FirstThatWillDo

(* Whatever lies between two pushes of a walk was asked for and passed over. *)
LEMMA WalkSkipsNothing ==
  ASSUME TypeOK, WalkDescends, FirstThatWillDo,
         NEW answered \in SUBSET (indexed \intersect Scanned),
         missed' = missed \cup ((indexed \intersect Scanned) \ answered),
         NEW p \in Offering(answered), \A q \in Offering(answered) : q <= p,
         TakeFrom(p), UNCHANGED world
  PROVE  WalkDescends' /\ FirstThatWillDo'
<1> USE Numbers
<1>1. p \in indexed /\ p \in Scanned /\ p \in answered /\ p \notin tried
  BY DEF Offering, EarlierPushes
<1>2. /\ source \in Pushes /\ p \in Pushes /\ p < source
      /\ p >= source - Limit * ScanMultiplier
  BY <1>1 DEF Scanned
<1>3. source \in tried /\ tried \subseteq Pushes /\ Newest \in tried
  BY <1>2 DEF WalkDescends
<1>4. source' = p /\ tried' = tried \cup {p} /\ phase' \in {"repair", "nothing"}
      /\ schedules' = schedules /\ indexed' = indexed
  BY <1>2, TakeType DEF TakeFrom, world
<1>5. WalkDescends'
  <2>1. \A q \in tried : q >= p
    BY <1>2, <1>3 DEF WalkDescends
  <2> QED BY <1>1, <1>2, <1>3, <1>4, <2>1 DEF WalkDescends
<1>6. FirstThatWillDo'
  <2> SUFFICES ASSUME NEW q \in Pushes, q > p PROVE PassedOver(q)'
    BY <1>4 DEF FirstThatWillDo
  <2>1. CASE q > source
    BY <1>2, <1>3, <1>4, <2>1 DEF FirstThatWillDo, PassedOver
  <2>2. CASE q = source
    BY <1>3, <1>4, <2>2 DEF PassedOver
  <2>3. CASE q < source
    <3> SUFFICES ASSUME q \in answered, q \notin tried, schedules[q] # {} PROVE FALSE
      <4>1. q \in Scanned
        BY <1>2, <2>3, LimitType, <1>3, HwReplicateAssumption DEF Scanned
      <4> QED BY <1>4, <4>1 DEF PassedOver
    <3> DEFINE From(r) == {x \in answered : x >= r}
    <3>1. answered \in SUBSET Pushes
      BY DEF TypeOK
    <3>2. From(q) \subseteq From(p) /\ From(p) \in SUBSET Pushes /\ From(q) \in SUBSET Pushes
      <4>1. \A x \in Pushes : x \in Int
        OBVIOUS
      <4>2. \A x \in Pushes : x >= q => x >= p
        BY <4>1, <1>2
      <4> QED BY <3>1, <4>2
    <3>3. Cardinality(From(q)) <= Cardinality(From(p))
      BY <3>2, PushesFinite, FS_Subset
    <3>4. Cardinality(From(p)) <= Limit
      BY DEF Offering, EarlierPushes
    <3>5. Cardinality(From(q)) <= Limit
      BY <3>2, <3>3, <3>4, PushesFinite, LimitType, <1>3
    <3>6. q \in Offering(answered)
      BY <3>5 DEF Offering, EarlierPushes
    <3> QED BY <3>6, <1>2
  <2> QED BY <2>1, <2>2, <2>3, <1>2
<1> QED BY <1>5, <1>6

LEMMA NextWalk ==
  TypeOK /\ WalkDescends /\ FirstThatWillDo /\ [Next]_vars
    => WalkDescends' /\ FirstThatWillDo'
<1> SUFFICES ASSUME TypeOK, WalkDescends, FirstThatWillDo, [Next]_vars
             PROVE  WalkDescends' /\ FirstThatWillDo'
  OBVIOUS
<1>1. CASE SourcesForPool
  <2>1. tried = {} /\ phase = "sources" /\ source = Cron /\ indexed' = indexed
    BY <1>1 DEF SourcesForPool, WalkDescends, world
  <2>2. CASE TakeFrom(Cron)
    <3>1. tried' = {Cron} /\ source' = Cron /\ phase' \in {"repair", "nothing"}
      BY <2>1, <2>2, TakeType, Numbers DEF TakeFrom
    <3> QED BY <3>1, Numbers DEF WalkDescends, FirstThatWillDo
  <2>3. CASE TakeFrom(Newest)
    <3>1. tried' = {Newest} /\ source' = Newest /\ phase' \in {"repair", "nothing"}
      BY <2>1, <2>3, TakeType, Numbers DEF TakeFrom
    <3>2. \A p \in Pushes : ~(p > Newest)
      BY Numbers DEF Pushes
    <3> QED BY <3>1, <3>2, Numbers DEF WalkDescends, FirstThatWillDo
  <2>4. CASE phase' = "nothing" /\ UNCHANGED <<source, tried>>
    BY <2>1, <2>4, Numbers DEF WalkDescends, FirstThatWillDo
  <2> QED BY <1>1, <2>2, <2>3, <2>4 DEF SourcesForPool
<1>2. CASE EarlierPushSource
  <2>1. PICK answered \in SUBSET (indexed \intersect Scanned) :
          /\ missed' = missed \cup ((indexed \intersect Scanned) \ answered)
          /\ \/ \E p \in Offering(answered) :
                  (\A q \in Offering(answered) : q <= p) /\ TakeFrom(p)
             \/ phase' = "blocked" /\ UNCHANGED <<source, tried>>
    BY <1>2 DEF EarlierPushSource
  <2>2. UNCHANGED world
    BY <1>2 DEF EarlierPushSource
  <2>3. CASE \E p \in Offering(answered) :
               (\A q \in Offering(answered) : q <= p) /\ TakeFrom(p)
    BY <2>1, <2>2, <2>3, WalkSkipsNothing
  <2>4. CASE phase' = "blocked" /\ UNCHANGED <<source, tried>>
    BY <2>1, <2>2, <2>4 DEF world, WalkDescends, FirstThatWillDo, PassedOver
  <2> QED BY <2>1, <2>3, <2>4
<1>3. CASE \/ GraphUnread \/ RepairFetches \/ DropBlocked \/ Upstream \/ UNCHANGED vars
           \/ \E u \in Upstreams : ListArtifacts(u) \/ TaskState(u)
  <2>1. UNCHANGED <<world, source, tried, missed>>
    BY <1>3 DEF GraphUnread, RepairFetches, DropBlocked, Upstream, vars, ListArtifacts, TaskState
  <2>2. phase' = "sources" => phase = "sources"
    BY <1>3 DEF GraphUnread, RepairFetches, DropBlocked, Upstream, vars, ListArtifacts, TaskState
  <2> QED BY <2>1, <2>2 DEF world, WalkDescends, FirstThatWillDo, PassedOver
<1> QED
  BY <1>1, <1>2, <1>3 DEF Next, Decision

(* A walk that finds nothing has asked for every push it owed an answer of.  *)
LEMMA BlockedHasLooked ==
  ASSUME TypeOK, WalkDescends, FirstThatWillDo, tried \intersect Pushes # {},
         NEW answered \in SUBSET (indexed \intersect Scanned),
         Offering(answered) = {},
         NEW p \in 1..Newest - 1,
         PushesBack(p) <= Walkback, p >= Newest - ScanMultiplier
  PROVE  PassedOver(p) \/ p \in (indexed \intersect Scanned) \ answered
<1> USE Numbers
<1> SUFFICES ASSUME p \notin tried, p \in indexed, schedules[p] # {}, p \notin missed,
                    p \notin (indexed \intersect Scanned) \ answered
             PROVE  FALSE
  BY DEF PassedOver
<1>1. /\ p \in Pushes /\ p \in Int /\ Newest \in Int /\ source \in Pushes /\ source \in Int
      /\ source <= Newest /\ p < Newest
  <2>1. source \in Pushes
    BY DEF WalkDescends
  <2> QED BY <2>1 DEF Pushes
<1>2. source \in tried /\ tried \subseteq Pushes /\ Newest \in tried
      /\ tried \ {Newest} \subseteq indexed /\ \A q \in tried : q >= source
  BY <1>1 DEF WalkDescends
<1>3. p < source
  <2>1. ~(p > source)
    BY <1>1 DEF FirstThatWillDo, PassedOver
  <2> QED BY <1>1, <1>2, <2>1
<1> DEFINE Back == {q \in indexed : p <= q /\ q < Newest}
           Below == {q \in indexed : p <= q /\ q < source}
           Fell == tried \ {Newest}
           Found == {q \in answered : q >= p}
<1>4. Back \in SUBSET Pushes /\ Below \in SUBSET Pushes /\ Fell \in SUBSET Pushes
  BY <1>2 DEF TypeOK
<1>5. Fell \cup Below \subseteq Back
  <2>1. \A q \in Fell : q \in Int /\ q <= Newest /\ q # Newest /\ q >= source
    BY <1>2 DEF Pushes
  <2>2. \A q \in Fell : p <= q /\ q < Newest
    BY <1>1, <1>3, <2>1
  <2>3. \A q \in Below : q < Newest
    BY <1>1, <1>4
  <2> QED BY <1>2, <2>2, <2>3
<1>6. Fell \cap Below = {}
  <2>1. \A q \in Fell : q \in Int /\ q >= source
    BY <1>2
  <2>2. \A q \in Below : ~(q >= source)
    <3>1. \A q \in Below : q \in Int /\ q < source
      BY <1>4
    <3> QED BY <1>1, <3>1
  <2> HIDE DEF Fell, Below
  <2> QED BY <2>1, <2>2
<1>7. /\ Cardinality(Fell) + Cardinality(Below) <= Walkback
      /\ Cardinality(Fell) \in Nat /\ Cardinality(Below) \in Nat
  <2>1. IsFiniteSet(Fell) /\ IsFiniteSet(Below) /\ IsFiniteSet(Back)
        /\ Cardinality(Fell) \in Nat /\ Cardinality(Below) \in Nat /\ Cardinality(Back) \in Nat
    BY <1>4, PushesFinite
  <2>2. Cardinality(Fell \cup Below) = Cardinality(Fell) + Cardinality(Below)
    <3> HIDE DEF Fell, Below
    <3>1. Cardinality(Fell \cap Below) = 0
      BY <1>6, FS_EmptySet
    <3>2. Cardinality(Fell \cup Below)
            = Cardinality(Fell) + Cardinality(Below) - Cardinality(Fell \cap Below)
      BY <2>1, FS_Union
    <3> QED BY <2>1, <3>1, <3>2
  <2>3. Cardinality(Fell \cup Below) <= Cardinality(Back)
    BY <1>5, <2>1, FS_Subset
  <2>4. Cardinality(Back) <= Walkback
    BY DEF PushesBack
  <2>5. Walkback \in Nat
    BY HwReplicateAssumption
  <2> HIDE DEF Fell, Below, Back
  <2> QED BY <2>1, <2>2, <2>3, <2>4, <2>5
<1>8. Cardinality(Fell) = Cardinality(tried) - 1 /\ Cardinality(tried) \in Nat
  BY <1>2, PushesFinite, FS_RemoveElement
<1>9. Cardinality(Below) >= 1
  <2>1. p \in Below
    BY <1>1, <1>3
  <2> QED BY <1>4, <1>7, <2>1, PushesFinite, FS_EmptySet
<1>10. Limit \in Nat /\ Limit >= 1 /\ Cardinality(Below) <= Limit
  <2>1. Walkback \in Nat
    BY HwReplicateAssumption
  <2> HIDE DEF Fell, Below, Back
  <2> QED BY <1>7, <1>8, <1>9, <2>1 DEF Limit
<1>11. p \in Scanned
  <2>1. ScanMultiplier \in Nat
    BY HwReplicateAssumption
  <2>2. ASSUME NEW l \in Nat, NEW m \in Nat, l >= 1 PROVE l * m >= m
    BY <2>2
  <2>3. Limit * ScanMultiplier >= ScanMultiplier /\ Limit * ScanMultiplier \in Int
    BY <1>10, <2>1, <2>2
  <2>4. p >= source - Limit * ScanMultiplier
    BY <1>1, <2>1, <2>3
  <2> QED BY <1>1, <1>3, <2>4 DEF Scanned
<1>12. p \in answered
  BY <1>11
<1>13. Cardinality(Found) <= Limit
  <2>1. Found \subseteq Below
    BY <1>1 DEF Scanned, TypeOK
  <2>2. Cardinality(Found) <= Cardinality(Below) /\ Cardinality(Found) \in Nat
    BY <1>4, <2>1, PushesFinite, FS_Subset
  <2> HIDE DEF Found, Below
  <2> QED BY <1>7, <1>10, <2>2
<1>14. p \in Offering(answered)
  BY <1>12, <1>13 DEF Offering, EarlierPushes
<1> QED BY <1>14

LEMMA NextLooks ==
  TypeOK /\ WalkDescends /\ FirstThatWillDo /\ LooksFarEnough /\ [Next]_vars
    => LooksFarEnough'
<1> SUFFICES ASSUME TypeOK, WalkDescends, FirstThatWillDo, LooksFarEnough, [Next]_vars,
                    phase' = "blocked", tried' \intersect Pushes # {},
                    NEW p \in 1..Newest - 1,
                    PushesBack(p)' <= Walkback, p >= Newest - ScanMultiplier
             PROVE  PassedOver(p)'
  BY DEF LooksFarEnough
<1>1. ASSUME NEW g \in Graphs, TakeFrom(g) PROVE FALSE
  BY <1>1, TakeType
<1>2. CASE EarlierPushSource
  <2>1. PICK answered \in SUBSET (indexed \intersect Scanned) :
          /\ missed' = missed \cup ((indexed \intersect Scanned) \ answered)
          /\ \/ \E q \in Offering(answered) : TakeFrom(q)
             \/ Offering(answered) = {} /\ UNCHANGED <<source, tried>>
    BY <1>2 DEF EarlierPushSource
  <2>2. Offering(answered) = {} /\ tried' = tried
    BY <2>1, <1>1, Numbers DEF Offering, EarlierPushes, TypeOK
  <2>3. indexed' = indexed /\ schedules' = schedules
    BY <1>2 DEF EarlierPushSource, world
  <2>4. PushesBack(p) <= Walkback
    BY <2>3 DEF PushesBack
  <2>5. PassedOver(p) \/ p \in (indexed \intersect Scanned) \ answered
    BY <2>2, <2>4, BlockedHasLooked
  <2> QED BY <2>1, <2>2, <2>3, <2>5 DEF PassedOver
<1>3. CASE Upstream \/ UNCHANGED vars
  <2>1. UNCHANGED <<world, phase, source, tried, missed>>
    BY <1>3 DEF Upstream, vars
  <2>2. PushesBack(p) <= Walkback
    BY <2>1 DEF PushesBack, world
  <2> QED BY <2>1, <2>2 DEF LooksFarEnough, PassedOver, world
<1>4. CASE \/ SourcesForPool \/ GraphUnread \/ RepairFetches \/ DropBlocked
           \/ \E u \in Upstreams : ListArtifacts(u) \/ TaskState(u)
  BY <1>1, <1>4, Numbers DEF SourcesForPool, GraphUnread, RepairFetches, DropBlocked,
                             ListArtifacts, TaskState
<1> QED
  BY <1>2, <1>3, <1>4 DEF Next, Decision

-----------------------------------------------------------------------------
(* The decision's invariant, and what follows from it.                       *)

THEOREM DecisionInvariant == Spec => []DecisionInv
<1>1. Init => DecisionInv
  BY InitType, InitReadings, InitPlan, InitWalk DEF DecisionInv
<1>2. DecisionInv /\ [Next]_vars => DecisionInv'
  BY NextType, NextReadings, NextPlan, NextWalk DEF DecisionInv
<1> QED
  BY <1>1, <1>2, PTL DEF Spec

(* A copy depends on all its payload names, after any repair.                *)
THEOREM CopiesWaitOnWhatTheyName == Spec => []WaitsOnWhatItNames
<1>1. DecisionInv => WaitsOnWhatItNames
  BY DEF DecisionInv
<1> QED
  BY <1>1, DecisionInvariant, PTL

LEMMA FetchesAreUpstreams ==
  ASSUME TypeOK, NEW d \in plan PROVE FetchedBy(d) \subseteq Upstreams
<1>1. PICK S \in SUBSET Artifacts : d.fetch \in [S -> Upstreams]
  BY DEF TypeOK, Definitions
<1> QED BY <1>1 DEF FetchedBy

(* For as long as the margin no copy meets an artifact that has gone.        *)
THEOREM CopiesFindTheirFetches == Spec => []FetchesOutliveTheWait
<1>1. DecisionInv => FetchesOutliveTheWait
  <2> SUFFICES ASSUME DecisionInv, phase = "created", now <= asked + Margin,
                      NEW d \in copies, NEW u \in FetchedBy(d), state[u] = "completed"
               PROVE  expires[u] > now
    BY DEF FetchesOutliveTheWait
  <2>1. u \in Upstreams /\ cache[u] \in {"live", "unbuilt"}
    BY FetchesAreUpstreams DEF DecisionInv, PlanFits
  <2>2. expires[u] > asked + Margin
    BY <2>1 DEF DecisionInv, ReadingsStand, NotYetBuilt
  <2> QED BY <2>1, <2>2, Numbers DEF DecisionInv, TypeOK
<1> QED
  BY <1>1, DecisionInvariant, PTL

(* Nothing is created that could not run as far as the queue stood then.     *)
THEOREM CopiesCanRun == Spec => NothingDoomed
<1>1. DecisionInv /\ [Next]_vars =>
        [phase' = "created" /\ phase # "created" => \A d \in copies' : CanRun(d)]_vars
  <2> SUFFICES ASSUME DecisionInv, Next, phase' = "created", phase # "created",
                      NEW d \in copies'
               PROVE  CanRun(d)
    BY DEF vars
  <2>1. DropBlocked
    <3>1. ASSUME NEW g \in Graphs, TakeFrom(g) PROVE FALSE
      BY <3>1, TakeType DEF DecisionInv
    <3>2. ~SourcesForPool
      BY <3>1, Numbers DEF SourcesForPool
    <3>3. ~EarlierPushSource
      BY <3>1, Numbers DEF EarlierPushSource, Offering, EarlierPushes, DecisionInv, TypeOK
    <3> QED BY <3>2, <3>3 DEF Next, Decision, GraphUnread, ListArtifacts, TaskState,
                              RepairFetches, Upstream
  <2>2. d \in plan /\ \A u \in d.dependencies : state[u] # "dead"
    BY <2>1 DEF DropBlocked, Runnable, DependencyOK
  <2>3. FetchedBy(d) \subseteq Upstreams /\ FetchedBy(d) \subseteq d.dependencies
    BY <2>1, <2>2, FetchesAreUpstreams DEF DecisionInv, DropBlocked, WaitsOnWhatItNames, NamedBy
  <2>4. \A u \in FetchedBy(d) : cache[u] \in {"live", "unbuilt"}
    BY <2>1, <2>2 DEF DecisionInv, DropBlocked, PlanFits
  <2>5. \A u \in FetchedBy(d) : NotYetBuilt(u) \/ expires[u] > asked + Margin
    BY <2>2, <2>3, <2>4 DEF DecisionInv, ReadingsStand
  <2> QED BY <2>2, <2>5 DEF CanRun
<1> QED
  BY <1>1, DecisionInvariant, PTL DEF Spec, NothingDoomed

(* The copies come from the newest push that will do.                        *)
THEOREM TakesTheFirstThatWillDo == Spec => []FirstThatWillDo
<1>1. DecisionInv => FirstThatWillDo
  BY DEF DecisionInv
<1> QED
  BY <1>1, DecisionInvariant, PTL

(* However far the walk went, only chosen tests run.                         *)
THEOREM OnlyTheChosenRun == Spec => []RunsOnlyTheChosen
<1>1. DecisionInv => RunsOnlyTheChosen
  <2> SUFFICES ASSUME DecisionInv, NEW d \in copies PROVE
        /\ d.test \in schedules[source]
        /\ Filter # {} => d.test \in Filter
        /\ source # Cron =>
             d.test \notin DroppedKinds /\ (Curated # {} => d.test \in Curated)
    BY DEF RunsOnlyTheChosen
  <2>1. d.test \in Matching(Offer(source))
    BY DEF DecisionInv, PlanFits
  <2> QED BY <2>1 DEF Matching, Offer
<1> QED
  BY <1>1, DecisionInvariant, PTL
(* A walk that gives up has asked for all the pushes it should have.         *)
THEOREM GivesUpAfterLooking == Spec => []LooksFarEnough
<1>1. Init => LooksFarEnough
  BY DEF Init, LooksFarEnough
<1>2. DecisionInv /\ LooksFarEnough /\ [Next]_vars => LooksFarEnough'
  BY NextLooks DEF DecisionInv
<1> QED
  BY <1>1, <1>2, DecisionInvariant, PTL DEF Spec
=============================================================================
