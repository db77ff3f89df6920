--------------------------- MODULE HwReplicateInv ---------------------------
(* What the decision promises of the copies it makes and of its walk back.   *)
EXTENDS HwReplicate

FetchedBy(d) == {d.fetch[a] : a \in DOMAIN d.fetch}
NamedBy(d) == FetchedBy(d) \cup {Original(a) : a \in Mounts[d.test]}

(* A task depends on all its payload names, whatever was moved: the worker   *)
(* rejects a mount from a task that is not a dependency. And it waits on     *)
(* nothing that a fetch has been moved away from (hw_integration_test.py     *)
(* L470-485).                                                                *)
WaitsOnWhatItNames ==
  phase \in {"check", "created"} =>
    \A d \in plan \cup copies :
      /\ NamedBy(d) \subseteq d.dependencies
      /\ d.dependencies \subseteq NamedBy(d) \cup {Original(a) : a \in Ordered[d.test]}

(* For the whole margin after the repair began no copy meets an artifact     *)
(* that has gone, in whichever graph it was found and even if its task was   *)
(* still to be built when it was looked at (L317-319, L375-386).             *)
FetchesOutliveTheWait ==
  phase = "created" /\ now <= asked + Margin =>
    \A d \in copies : \A u \in FetchedBy(d) :
      state[u] = "completed" => expires[u] > now

(* The moment the copies are made, each of them can still run: no upstream   *)
(* of it is dead, the replacements included, and what it fetches is there or *)
(* still to come, though the queue has moved since each was read (L507-516). *)
CanRun(d) ==
  /\ \A u \in d.dependencies : state[u] # "dead"
  /\ \A u \in FetchedBy(d) : NotYetBuilt(u) \/ expires[u] > asked + Margin
NothingDoomed ==
  [][phase' = "created" /\ phase # "created" => \A d \in copies' : CanRun(d)]_vars

(* A push that is passed over was refused, does not answer or has no test    *)
(* for the pool: the copies come from the newest push that will do (L600-    *)
(* 631), and the walk goes back, never forward.                              *)
PassedOver(p) ==
  p \in tried \/ p \in missed \/ p \notin indexed \/ schedules[p] = {}
FirstThatWillDo ==
  tried \intersect Pushes # {} =>
    \A p \in Pushes : p > source => PassedOver(p)

(* When the walk gives up, none of the Walkback pushes before the newest was *)
(* left unasked, as far as one scan reaches (kind.yml L54-61).               *)
PushesBack(p) == Cardinality({q \in indexed : p <= q /\ q < Newest})
LooksFarEnough ==
  phase = "blocked" /\ tried \intersect Pushes # {} =>
    \A p \in 1..Newest - 1 :
      PushesBack(p) <= Walkback /\ p >= Newest - ScanMultiplier => PassedOver(p)

(* Only the curated graph is taken whole: whatever push the walk ends on,    *)
(* the copies are of the tests this repository and the caller chose.         *)
RunsOnlyTheChosen ==
  \A d \in copies :
    /\ d.test \in schedules[source]
    /\ Filter # {} => d.test \in Filter
    /\ source # Cron =>
         d.test \notin DroppedKinds /\ (Curated # {} => d.test \in Curated)

-----------------------------------------------------------------------------
(* The strengthening the proofs rest on.                                     *)

(* What the repair has read of a task still tells what will become of it.    *)
ReadingsStand ==
  /\ asked <= now
  /\ \A u \in Upstreams :
       /\ cache[u] = "live" => ~NotYetBuilt(u) /\ expires[u] > asked + Margin
       /\ cache[u] = "unbuilt" =>
            NotYetBuilt(u) \/ state[u] = "dead" \/ expires[u] > asked + Margin

(* The plan is of the tests selected, and fetches only what was seen good.   *)
PlanFits ==
  /\ selected \subseteq Matching(Offer(source))
  /\ copies \subseteq plan
  /\ phase # "created" => copies = {}
  /\ phase \in {"check", "created"} =>
       \A d \in plan :
         /\ d.test \in selected
         /\ \A u \in FetchedBy(d) : cache[u] \in {"live", "unbuilt"}

(* The pushes tried are the newest and, descending, pushes the index knows;  *)
(* the source is the last of them.                                           *)
WalkDescends ==
  /\ phase = "sources" => tried = {} /\ source = Cron
  /\ source \in Pushes => source \in tried
  /\ tried \intersect Pushes # {} =>
       /\ source \in Pushes
       /\ tried \subseteq Pushes
       /\ Newest \in tried
       /\ tried \ {Newest} \subseteq indexed
       /\ \A q \in tried : q >= source

DecisionInv ==
  TypeOK /\ ReadingsStand /\ PlanFits /\ WaitsOnWhatItNames
    /\ WalkDescends /\ FirstThatWillDo
=============================================================================
