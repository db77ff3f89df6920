--------------------------- MODULE HwStagingInv ---------------------------
(* What must be true of the hardware run's knowledge of its pools, and the   *)
(* inductive invariant it follows from.                                      *)
EXTENDS HwStaging

Fresh(p) == /\ Checkout \in DOMAIN before /\ p \in DOMAIN before[Checkout]
            /\ before[Checkout][p] = State(disk, p)

\* main, resolve and preflight: nothing is fired for a list of pools unless
\* every one of them is a staging pool of the checkout's pools.yml and, where
\* there is a pre-flight, had enough workers that could claim when it was
\* looked at -- with only workers of other pools it is said so.
AllOrNone ==
  fired # {} =>
    /\ Resolves(disk, request)
    /\ checked => /\ request \subseteq alive
                  /\ MinHealthy > 0 => request \subseteq own \union told

\* deployment_records: what a result is attributed to is what the branch it
\* names held at some moment of the run, under the checkout's `dev:`; or the
\* checkout's own entry, and then the record names the checkout.
RecordWasTrue ==
  \A p \in DOMAIN records :
    LET r == records[p] IN
      /\ r.dev = Entry(disk, p).dev
      /\ \/ r.source = Checkout /\ r.config = Entry(disk, p).config
         \/ /\ r.source = r.dev
            /\ \E f \in had[r.source] :
                 Readable(f) /\ p \in Pools(f) /\ Entry(f, p).config = r.config

\* Two texts of pools.yml that differ in what a change is about.
Differ(f, g, c) ==
  /\ Readable(f) /\ Readable(g)
  /\ c.pool \in Pools(f)
  /\ IF c.field = "pool" THEN c.pool \notin Pools(g)
     ELSE c.pool \in Pools(g) /\ Value(State(f, c.pool), c.field) # Value(State(g, c.pool), c.field)

\* compare_deployments: every change reported has landed on that branch while
\* the run was on -- an unreadable branch is not a change, nor is anything that
\* was there when the script started.
DriftIsReal ==
  \A c \in drift : \E f, g \in had[c.ref] : Differ(f, g, c)

\* What the source of a pool's record says of it at the end is not what the
\* record says.
Outdated(p) ==
  LET r == records[p]
  IN  \/ p \notin DOMAIN after[r.source]
      \/ after[r.source][p].config # r.config
      \/ r.source = Checkout /\ after[Checkout][p].dev # r.dev

\* report_drift: when the branch a result is attributed to could be read again
\* and says something else by then, or the checkout's gives the pool other
\* machines, the pool is in the report -- except for what the checkout was
\* already behind on when its branch was first read.
DriftIsNotMissed ==
  phase \in {"report", "finished"} =>
    \A p \in DOMAIN records :
      /\ /\ records[p].source \in DOMAIN after
         /\ records[p].source = Checkout => Fresh(p)
         /\ Outdated(p)
         => \E c \in drift : c.pool = p /\ c.ref = records[p].source
      /\ /\ Checkout \in DOMAIN after /\ p \in DOMAIN after[Checkout] /\ Fresh(p)
         /\ after[Checkout][p].nodes # Entry(disk, p).nodes
         => [ref |-> Checkout, pool |-> p, field |-> "nodes"] \in drift

-----------------------------------------------------------------------------
(* The inductive invariant.                                                  *)

\* What a branch holds, it has held.
HeadIsHad ==
  /\ head \in [Refs -> Texts] /\ had \in [Refs -> SUBSET Texts]
  /\ \A r \in Refs : head[r] \in had[r]

\* A ref in a snapshot was read whole, from a text it has had.
TrueOf(snapshot) ==
  \A r \in DOMAIN snapshot :
    \E f \in had[r] : Readable(f) /\ snapshot[r] = PerPool(f)
ReadingsTrue == TrueOf(before) /\ TrueOf(after)

\* The records are made once, when the first snapshot is complete.
RecordsFit ==
  /\ phase \in {"start", "before"} => records = Nothing
  /\ \A p \in DOMAIN records : p \in request /\ records[p] = Record(p)

\* The changes are those between the two snapshots.
DriftFits ==
  /\ phase \in {"start", "before", "preflight", "trigger", "wait"} => after = Nothing
  /\ IF phase \in {"report", "finished"} THEN drift = Compare ELSE drift = {}

\* How far the run has come, and what it took to come there.
GateFits ==
  /\ phase \in {"start", "before", "preflight"} => fired = {}
  /\ phase \in {"start", "before"} => ~checked
  /\ phase \notin {"start", "finished", "crashed"} => Resolves(disk, request)
  /\ phase \in {"trigger", "wait", "after", "report"} /\ checked => ok = request
  /\ fired # {} => Resolves(disk, request) /\ (checked => ok = request)
  /\ ok \subseteq alive
  /\ MinHealthy > 0 => ok \subseteq own \union told

IInv == HeadIsHad /\ ReadingsTrue /\ RecordsFit /\ DriftFits /\ GateFits
=============================================================================
