-------------------------- MODULE CloudReplicateInv --------------------------
(* What the cloud decision promises of the copies it creates.                *)
EXTENDS CloudReplicate

\* The alpha pools a test may be tried on: its own, or one of its kind.
MayRun(t) == {p \in DOMAIN images : p = OwnAlpha(t) \/ StandsIn(t, p)}

\* Each image has one spelling among those that are asked for and those in use.
SpelledAlike ==
  LET names == request \union UNION {images[p] : p \in DOMAIN images}
  IN \A i, j \in names : Normal[i] = Normal[j] => i = j

\* A test is copied if and only if one of the pools it may be tried on boots an
\* image that was asked for: the choice by normalised names, with its fallbacks
\* to the test's own pool, and the optimisation by raw ones together neither lose
\* such a test nor let another one through (integration_test.py L78-112,
\* optimize.py L13-21), if the pools do not change between the two.
TestedIffItCan ==
  step = "done" /\ again = images /\ SpelledAlike =>
    \A t \in Replicable[source] :
      (\E c \in created : c.task = t) <=>
      (\E p \in MayRun(t) : images[p] \intersect request # {})

\* However the index moves and whatever cannot be read while the copies are made,
\* their revisions are those of one decision, or there is none: tests of one
\* checkout are compared with one another (integration_test.py L17-41, L153-164).
OneRevision ==
  \E env \in {Revision[d] : d \in 1 .. Decisions} \union {NoRevisions} :
    \A c \in copies : c.revision = env[Repository[c.task]]

CopyTypeOK ==
  /\ answer \in Answers /\ moves \in 0 .. MaxMoves /\ index \in 0 .. Decisions
  /\ request \in Requests
  /\ step \in {"pools", "replicate", "change", "restore", "optimise", "done", "failed"}
  /\ \A a \in {images, again} : DOMAIN a \subseteq WorkerPools /\ a \in [DOMAIN a -> SUBSET Images]
  /\ source \in 0 .. Decisions /\ todo \subseteq Tests
  /\ hand = <<>> \/ hand \in Tests \X WorkerPools
  /\ revs \in {Unread, NoRevisions} \union {Revision[d] : d \in 1 .. Decisions}
  /\ \A c \in copies : c.task \in Tests /\ c.pool \in DOMAIN images
  /\ created \subseteq copies

-----------------------------------------------------------------------------
(* What the promises rest on, step by step                                   *)

\* A decision that has begun to copy knows of which one, and its pools are read
\* once and before that.
Begun == step \in {"change", "restore", "optimise", "done"}
SourceIsKnown == Begun => source \in 1 .. Decisions
NothingYet == step = "pools" => copies = {} /\ hand = <<>>

\* A copy that is being made, or was, goes to a pool its test was given.
HandIsPlaced ==
  step = "restore" =>
    \E t \in Tests : \E p \in get_image_compatible_alpha_worker_type(t) : hand = <<t, p>>
CopiesArePlaced ==
  \A c \in copies : c.task \in Tests /\ c.pool \in get_image_compatible_alpha_worker_type(c.task)

\* A test is still to be copied, or in hand, or copied, or there is no pool for it.
NoneIsForgotten ==
  Begun => \A t \in Replicable[source] :
    \/ t \in todo
    \/ step = "restore" /\ hand[1] = t
    \/ \E c \in copies : c.task = t
    \/ get_image_compatible_alpha_worker_type(t) = {}
AllAreVisited == step \in {"optimise", "done"} => todo = {}
CreatedAreLeft == step = "done" => created = {c \in copies : ~should_remove_task(c)}

\* The revisions are read before the first copy is made, and every copy has them.
RevisionsAreRead ==
  /\ copies # {} => revs # Unread
  /\ \A c \in copies : c.revision = revs[Repository[c.task]]

CopyIInv ==
  /\ CopyTypeOK /\ SourceIsKnown /\ NothingYet /\ HandIsPlaced /\ CopiesArePlaced
  /\ NoneIsForgotten /\ AllAreVisited /\ CreatedAreLeft /\ RevisionsAreRead
=============================================================================
