--------------------------- MODULE CloudReplicate ---------------------------
(* The decision that copies mozilla-central's tests onto the alpha pools of  *)
(* the images that were asked for: taskcluster/worker_images_taskgraph/      *)
(* transforms/integration_test.py and optimize.py, with util/fxci.py, which  *)
(* reads the pools' images, and mozilla_taskgraph's replicate, which reads   *)
(* the tests. The transforms are generators: a copy goes through all of them *)
(* before the next one starts. The pools and the index move meanwhile.       *)
EXTENDS Integers, Sequences

CONSTANTS
  Answers,      \* what listWorkerPools may answer: [its pools -> launch configs]
  Rank,         \* the place of a pool's name in sorted order
  Images,       \* image names, as they are spelled
  Normal,       \* normalize_image_name
  Unmatched,    \* an Azure id that is no image version's
  Requests,     \* the images a decision may be asked for
  Tests,        \* the tests
  Pool,         \* Pool[t]: the <<provisionerId, workerType>> of a test
  Repository,   \* Repository[t]: its GECKO_HEAD_REPOSITORY
  Decisions,    \* the decisions the index comes to name, in order
  Replicable,   \* Replicable[d]: the tests of d that replicate copies
  Revision,     \* Revision[d][r]: the *_REV variables of r's tasks in d
  NoRevision,   \* none of them
  MaxMoves      \* bound: how often the pools are reconfigured

\* A worker type is the sequence of its parts, "b-win2022" is <<"b", "win2022">>.
Type(p) == p[2]
Provisioner(p) == p[1]

\* The keys of a launch config that may say what it boots; the first counts.
Forms == {"disks", "imageReference", "imageId"}
LaunchConfigs == UNION {[F -> Images \union {Unmatched}] : F \in SUBSET Forms}
WorkerPools == UNION {DOMAIN a : a \in Answers}
Repositories == {Repository[t] : t \in Tests}

ASSUME CloudReplicateAssumption ==
  /\ \A a \in Answers : a \in [DOMAIN a -> SUBSET LaunchConfigs]
  /\ \A p \in WorkerPools : Len(p) = 2 /\ Type(p) \in Seq(STRING) /\ Rank[p] \in Nat
  /\ \A p, q \in WorkerPools : Rank[p] = Rank[q] => p = q
  /\ Requests \subseteq SUBSET Images
  /\ \A t \in Tests : Len(Pool[t]) = 2 /\ Type(Pool[t]) \in Seq(STRING)
  /\ Decisions \in Nat \ {0}
  /\ Replicable \in [1 .. Decisions -> SUBSET Tests]
  /\ \A d \in 1 .. Decisions : DOMAIN Revision[d] = Repositories
  /\ MaxMoves \in Nat

VARIABLES
  answer,   \* what listWorkerPools answers now
  moves,    \* how often that has changed
  index,    \* the decision-os-integration the index names, 0 for none
  request,  \* the decision's images
  step,    \* where it is
  images,   \* get_worker_pool_images, as the transform has it
  source,   \* the decision the copies are of
  todo,     \* its tests that are still to be copied
  hand,     \* the copy between two transforms
  revs,     \* _fetch_gecko_revision_env, once called
  copies,   \* what the transforms yielded
  again,    \* get_worker_pool_images, as the optimisation has it
  created   \* the copies that are left

outside == <<answer, moves, index>>
copyVars == <<outside, request, step, images, source, todo, hand, revs, copies, again, created>>

-----------------------------------------------------------------------------
(* The pools and their images                                                *)

\* The disk that boots, else the gallery image, else that of the deployment; a
\* reference that is there and no image version's hides the next.
ImageOf(lc) ==
  LET first == IF "disks" \in DOMAIN lc THEN "disks"
               ELSE IF "imageReference" \in DOMAIN lc THEN "imageReference" ELSE "imageId"
  IN IF first \in DOMAIN lc THEN lc[first] ELSE Unmatched
ImagesOf(a, p) == {ImageOf(lc) : lc \in a[p]} \ {Unmatched}

\* A pool is known by an image: one without is not in the dict.
get_worker_pool_images(a) ==
  [p \in {q \in DOMAIN a : ImagesOf(a, q) # {}} |-> ImagesOf(a, p)]

Normalised(S) == {Normal[i] : i \in S}
pool_matches_images(p) ==
  request = {} \/ Normalised(images[p]) \intersect Normalised(request) # {}

\* The worker types that can stand in for one another; <<>> for none.
get_worker_pool_variant(type) ==
  CASE type \in {<<"b", "win2022">>, <<"b", "win2025">>, <<"b", "win2025", "core">>} ->
         <<"b", "win">>
    [] Len(type) = 3 /\ type[1] = "win11" /\ type[2] = "64" -> <<"win11", "64", "base">>
    [] Len(type) = 4 /\ type[1] = "win11" /\ type[2] = "64" /\ type[4] \in {"gpu", "source"} ->
         <<"win11", "64", type[4]>>
    [] Len(type) = 4 /\ type[1] = "win11" /\ type[2] = "a64" /\ type[4] \in {"tester", "builder"} ->
         <<"win11", "a64", type[4]>>
    [] OTHER -> <<>>

Staged(provisioner) == IF provisioner = "gecko-3" THEN "gecko-1" ELSE provisioner
OwnAlpha(t) == <<Staged(Provisioner(Pool[t])), Append(Type(Pool[t]), "alpha")>>

IsAlpha(type) == Len(type) > 1 /\ type[Len(type)] = "alpha"
Base(type) == SubSeq(type, 1, Len(type) - 1)

\* An alpha pool of the same kind of machine.
StandsIn(t, p) ==
  /\ IsAlpha(Type(p))
  /\ Provisioner(p) = Staged(Provisioner(Pool[t]))
  /\ get_worker_pool_variant(Type(Pool[t])) # <<>>
  /\ get_worker_pool_variant(Base(Type(p))) = get_worker_pool_variant(Type(Pool[t]))

Candidates(t) ==
  {p \in DOMAIN images : request # {} /\ StandsIn(t, p) /\ pool_matches_images(p)}
First(S) == {p \in S : \A q \in S : Rank[p] <= Rank[q]}

\* Mutant: its own alpha pool whenever it is known.
OwnFirst(t) ==
  LET own == {OwnAlpha(t)} \intersect DOMAIN images
  IN IF own # {} THEN own ELSE First(Candidates(t))

\* The pool a copy goes to, if there is one: its own alpha pool if that matches,
\* else the first other one that does, else its own whatever it has.
get_image_compatible_alpha_worker_type(t) ==
  LET own == {OwnAlpha(t)} \intersect DOMAIN images
  IN IF Candidates(t) = {} \/ \E p \in own : pool_matches_images(p)
     THEN own ELSE First(Candidates(t))

-----------------------------------------------------------------------------
(* The decision                                                              *)

Unread == NoRevision

CopyInit ==
  /\ answer \in Answers /\ moves = 0
  /\ index \in {0, 1}
  /\ request \in Requests
  /\ step = "pools"
  /\ images = <<>> /\ source = 0 /\ todo = {} /\ hand = <<>>
  /\ revs = Unread /\ copies = {} /\ again = <<>> /\ created = {}

\* change_worker_pool_to_alpha begins: the pools are read before the first test.
ReadPools ==
  /\ step = "pools"
  /\ images' = get_worker_pool_images(answer)
  /\ step' = "replicate"
  /\ UNCHANGED <<outside, request, source, todo, hand, revs, copies, again, created>>

\* mozilla_taskgraph's replicate; what it copies comes without *_REV.
Replicate ==
  /\ step = "replicate" /\ index # 0
  /\ source' = index
  /\ todo' = Replicable[index]
  /\ step' = "change"
  /\ UNCHANGED <<outside, request, images, hand, revs, copies, again, created>>

\* A test with no alpha pool is skipped.
ChangeWorkerPool(t) ==
  /\ step = "change" /\ t \in todo
  /\ todo' = todo \ {t}
  /\ \/ /\ get_image_compatible_alpha_worker_type(t) = {}
        /\ UNCHANGED <<step, hand>>
     \/ \E p \in get_image_compatible_alpha_worker_type(t) :
          /\ hand' = <<t, p>>
          /\ step' = "restore"
  /\ UNCHANGED <<outside, request, images, source, revs, copies, again, created>>

NoRevisions == [r \in Repositories |-> NoRevision]

\* _fetch_gecko_revision_env, when it is first called; any failure is cached too.
FetchRevisions ==
  /\ step = "restore" /\ revs = Unread
  /\ \/ index # 0 /\ revs' = Revision[index]
     \/ revs' = NoRevisions
  /\ UNCHANGED <<outside, request, step, images, source, todo, hand, copies, again, created>>

\* Mutant: what the index names now.
RestoredAnew(t) == Revision[index][Repository[t]]

Restored(t) == revs[Repository[t]]

RestoreRevision ==
  /\ step = "restore" /\ revs # Unread
  /\ copies' = copies \union
       {[task |-> hand[1], pool |-> hand[2], revision |-> Restored(hand[1])]}
  /\ hand' = <<>>
  /\ step' = "change"
  /\ UNCHANGED <<outside, request, images, source, todo, revs, again, created>>

\* The strategy asks for the pools again: the cache of the transform was that of
\* the process in which its kind was loaded, if that was another one.
ReadPoolsAgain ==
  /\ step = "change" /\ todo = {}
  /\ again' \in {images, get_worker_pool_images(answer)}
  /\ step' = "optimise"
  /\ UNCHANGED <<outside, request, images, source, todo, hand, revs, copies, created>>

\* Here names are compared as they are.
should_remove_task(c) ==
  (IF c.pool \in DOMAIN again THEN again[c.pool] ELSE {}) \intersect request = {}

Optimise ==
  /\ step = "optimise"
  /\ created' = {c \in copies : ~should_remove_task(c)}
  /\ step' = "done"
  /\ UNCHANGED <<outside, request, images, source, todo, hand, revs, copies, again>>

\* Everything but the revisions is read outside of any try.
Fail ==
  /\ \/ step \in {"pools", "replicate"}
     \/ step = "change" /\ todo = {}
  /\ step' = "failed"
  /\ UNCHANGED <<outside, request, images, source, todo, hand, revs, copies, again, created>>

-----------------------------------------------------------------------------
(* Meanwhile                                                                 *)

Reconfigure ==
  /\ moves < MaxMoves
  /\ moves' = moves + 1
  /\ answer' \in Answers \ {answer}
  /\ UNCHANGED index

NextDecision ==
  /\ index < Decisions
  /\ index' = index + 1
  /\ UNCHANGED <<answer, moves>>

Outside ==
  /\ Reconfigure \/ NextDecision
  /\ UNCHANGED <<request, step, images, source, todo, hand, revs, copies, again, created>>

CopyNext ==
  \/ ReadPools
  \/ Replicate
  \/ \E t \in Tests : ChangeWorkerPool(t)
  \/ FetchRevisions
  \/ RestoreRevision
  \/ ReadPoolsAgain
  \/ Optimise
  \/ Fail
  \/ Outside

CopySpec == CopyInit /\ [][CopyNext]_copyVars
=============================================================================
