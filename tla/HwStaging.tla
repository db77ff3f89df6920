----------------------------- MODULE HwStaging -----------------------------
(* What the hardware run of ci/run-hw-os-integration.py knows of the pools   *)
(* it tests: it resolves the names against the pools.yml of its checkout,    *)
(* reads pools.yml again on every branch that decides a pool's configuration,*)
(* looks at the workers of each pool, fires the hooks, and when the results  *)
(* are in reads the branches once more to say what has changed.  Anyone can  *)
(* land a change of pools.yml between any two of these steps.                *)
EXTENDS Integers, FiniteSets, Sequences

CONSTANTS
  Names,       \* the names an entry of pools.yml can have
  NoName,      \* the name of an entry that has none
  Counterpart, \* source_worker_type of each name, NoName without one
  Branches,    \* the branches a `dev:` can name
  Checkout,    \* the branch the job checked out
  NoBranch,    \* no `dev:`
  Configs,     \* what an entry says of image, source and versions
  Nodes,       \* the machines
  Texts,       \* the contents pools.yml can have
  Worlds,      \* the checkout's copy and the branches' when the script starts
  Requests,    \* the lists of pools it is started with
  MinHealthy,  \* --min-healthy-nodes
  MaxEdits     \* bound: how many changes of pools.yml land

Refs == Branches \union {Checkout}

Entries == [name : Names \union {NoName}, config : Configs,
            dev : Branches \union {NoBranch}, nodes : SUBSET Nodes]

\* A text that is not YAML, or YAML of another shape, has no entries to read.
ASSUME HwStagingAssumption ==
  /\ IsFiniteSet(Nodes)
  /\ NoName \notin Names /\ NoBranch \notin Branches /\ Checkout \notin Branches
  /\ Counterpart \in [Names -> Names \union {NoName}]
  /\ Texts \subseteq [sound : BOOLEAN, entries : Seq(Entries), bad : SUBSET Nodes]
  /\ Worlds \subseteq [disk : Texts, head : [Refs -> Texts]]
  /\ Requests \subseteq SUBSET Names
  /\ MinHealthy \in Nat /\ MaxEdits \in Nat

VARIABLES
  head,    \* head[r]: pools.yml on branch r
  disk,    \* the copy the job checked out
  edits,   \* how many changes have landed
  had,     \* history: had[r], the texts r has had since the script started
  request, \* args.pools
  phase,   \* where main() is
  toRead,  \* the refs a snapshot has yet to read
  todo,    \* the pools the current loop has yet to visit
  before,  \* before[r][p]: the first snapshot, of the refs it could read
  after,   \* the second
  records, \* each pool's configuration and where it is from
  ok,      \* the pools whose pre-flight report is ok
  told,    \* those whose report names workers pools.yml assigns elsewhere
  alive,   \* history: those with enough workers that could claim when listed
  own,     \* history: those one of whose own healthy nodes could
  checked, \* whether there was a pre-flight
  fired,   \* the pools whose hook was fired
  drift,   \* the changes reported
  exit     \* the exit code, -1 while running

file == <<head, disk, edits, had>>
gate == <<ok, told, alive, own, checked>>
readings == <<before, after, records, drift>>
vars == <<file, request, phase, toRead, todo, readings, gate, fired, exit>>

-----------------------------------------------------------------------------
(* util/hw_pools.py                                                          *)

Named(f) == {i \in DOMAIN f.entries : f.entries[i].name # NoName}

\* parse_registry: the last of two entries with one name counts.
Entry(f, p) ==
  f.entries[CHOOSE i \in Named(f) :
              /\ f.entries[i].name = p
              /\ \A j \in Named(f) : f.entries[j].name = p => j <= i]

Pools(f) == {f.entries[i].name : i \in Named(f)}

\* parse_registry raises HwPoolError for a registry without pools.
Readable(f) == f.sound /\ Pools(f) # {}

HealthyNodes(f, p) == Entry(f, p).nodes \ f.bad

is_production(p) == Counterpart[p] = p

\* resolve: one name that will not do refuses them all.
Resolves(f, names) ==
  /\ names # {}
  /\ names \subseteq Pools(f)
  /\ \A p \in names : ~is_production(p) /\ Counterpart[p] # NoName

\* deployment, config_url and nodes.
State(f, p) == [config |-> Entry(f, p).config, dev |-> Entry(f, p).dev,
                nodes |-> Entry(f, p).nodes]

-----------------------------------------------------------------------------
(* Types and the initial states                                              *)

States == [config : Configs, dev : Branches \union {NoBranch}, nodes : SUBSET Nodes]
IsSnapshot(s) ==
  /\ DOMAIN s \subseteq Refs
  /\ \A r \in DOMAIN s : DOMAIN s[r] \subseteq Names /\ s[r] \in [DOMAIN s[r] -> States]
Records == [config : Configs, dev : Branches \union {NoBranch}, source : Refs]
Changes == [ref : Refs, pool : Names, field : {"pool", "config", "dev_branch", "nodes"}]

TypeOK ==
  /\ head \in [Refs -> Texts] /\ disk \in Texts
  /\ edits \in 0..MaxEdits
  /\ had \in [Refs -> SUBSET Texts]
  /\ request \in SUBSET Names
  /\ phase \in {"start", "before", "preflight", "trigger", "wait", "after", "report",
                "finished", "crashed"}
  /\ toRead \subseteq Refs
  /\ todo \subseteq Names
  /\ IsSnapshot(before) /\ IsSnapshot(after)
  /\ DOMAIN records \subseteq Names /\ records \in [DOMAIN records -> Records]
  /\ {ok, told, alive, own, fired} \subseteq SUBSET Names
  /\ checked \in BOOLEAN
  /\ drift \subseteq Changes
  /\ exit \in {-1, 0, 1, 2}

Nothing == [x \in {} |-> x]

Init ==
  /\ \E w \in Worlds : disk = w.disk /\ head = w.head
  /\ edits = 0
  /\ had = [r \in Refs |-> {head[r]}]
  /\ request \in Requests
  /\ phase = "start" /\ toRead = {} /\ todo = {}
  /\ before = Nothing /\ after = Nothing /\ records = Nothing /\ drift = {}
  /\ ok = {} /\ told = {} /\ alive = {} /\ own = {} /\ checked = FALSE
  /\ fired = {} /\ exit = -1

\* Someone lands a change of pools.yml.
Lands(r, f) ==
  /\ edits < MaxEdits /\ phase \notin {"finished", "crashed"}
  /\ f # head[r]
  /\ head' = [head EXCEPT ![r] = f]
  /\ had' = [had EXCEPT ![r] = @ \union {f}]
  /\ edits' = edits + 1
  /\ UNCHANGED <<disk, request, phase, toRead, todo, readings, gate, fired, exit>>

Exits(code) == phase' = "finished" /\ exit' = code

\* An exception that nothing catches ends the script with a traceback.
Raises == phase' = "crashed" /\ exit' = 1

-----------------------------------------------------------------------------
(* Before the tasks are fired                                                *)

\* deployment_refs: every branch that decides one of the pools' configuration.
deployment_refs(names) ==
  {Checkout} \union ({Entry(disk, p).dev : p \in names} \ {NoBranch})

\* load_registry and resolve.
Resolve ==
  /\ phase = "start"
  /\ \/ Readable(disk) /\ Resolves(disk, request)
        /\ phase' = "before" /\ toRead' = deployment_refs(request)
        /\ UNCHANGED exit
     \/ Readable(disk) /\ ~Resolves(disk, request)
        /\ Exits(2) /\ UNCHANGED toRead
     \/ ~Readable(disk) /\ Raises /\ UNCHANGED toRead
  /\ UNCHANGED <<file, request, todo, readings, gate, fired>>

\* snapshot_deployments, of one ref: the pools of the run that it has.
PerPool(f) == [p \in request \intersect Pools(f) |-> State(f, p)]
With(snapshot, r) ==
  [x \in DOMAIN snapshot \union {r} |-> IF x = r THEN PerPool(head[r]) ELSE snapshot[x]]

\* fetch_registry: a ref that cannot be fetched, or has no pools, is left out;
\* what the YAML parser raises is not among the exceptions it catches.
FetchFirst(r) ==
  /\ phase = "before" /\ r \in toRead
  /\ toRead' = toRead \ {r}
  /\ \/ Readable(head[r]) /\ before' = With(before, r) /\ UNCHANGED <<phase, exit>>
     \/ UNCHANGED <<before, phase, exit>>
     \/ ~head[r].sound /\ Raises /\ UNCHANGED before
  /\ UNCHANGED <<file, request, todo, after, records, drift, gate, fired>>

\* Mutant: the source is the branch whether it was read or not.
RecordUnread(p) ==
  LET d == Entry(disk, p).dev
  IN  IF d \in DOMAIN before /\ p \in DOMAIN before[d]
      THEN [config |-> before[d][p].config, dev |-> d, source |-> d]
      ELSE [config |-> Entry(disk, p).config, dev |-> d,
            source |-> IF d = NoBranch THEN Checkout ELSE d]

\* deployment_records: a pool with `dev:` is described by that branch, if it
\* could be read, and every other by the checkout.
Record(p) ==
  LET d == Entry(disk, p).dev
  IN  IF d \in DOMAIN before /\ p \in DOMAIN before[d]
      THEN [config |-> before[d][p].config, dev |-> d, source |-> d]
      ELSE [config |-> Entry(disk, p).config, dev |-> d, source |-> Checkout]

\* --skip-preflight goes straight to the hooks.
DeploymentRecords ==
  /\ phase = "before" /\ toRead = {}
  /\ records' = [p \in request |-> Record(p)]
  /\ todo' = request
  /\ \/ phase' = "preflight" /\ checked' = TRUE
     \/ phase' = "trigger" /\ UNCHANGED checked
  /\ UNCHANGED <<file, request, toRead, before, after, drift, ok, told, alive, own,
                 fired, exit>>

-----------------------------------------------------------------------------
(* Pre-flight                                                                *)

\* A worker listed in the pool's queue (external): one whose quarantine is
\* over still has its date, and claims.
WorkerStates == {"absent", "free", "quarantined", "lapsed"}
Seen(w) == {n \in Nodes : w[n] # "absent"}
Claiming(w) == {n \in Nodes : w[n] \in {"free", "lapsed"}}

\* Any quarantineUntil takes a worker out, one in the past too.
Active(w) == Seen(w) \ {n \in Nodes : w[n] \in {"quarantined", "lapsed"}}

Mark(set, p, holds) == IF holds THEN set \union {p} ELSE set

\* preflight: the answer of listWorkers, or its failure.
Preflight(p) ==
  /\ phase = "preflight" /\ p \in todo
  /\ todo' = todo \ {p}
  /\ \/ \E w \in [Nodes -> WorkerStates] :
          /\ ok' = Mark(ok, p, Cardinality(Active(w)) >= MinHealthy)
          /\ told' = Mark(told, p, Active(w) \ HealthyNodes(disk, p) # {})
          /\ alive' = Mark(alive, p, Cardinality(Claiming(w)) >= MinHealthy)
          /\ own' = Mark(own, p, Claiming(w) \intersect HealthyNodes(disk, p) # {})
          /\ UNCHANGED <<phase, exit>>
     \/ UNCHANGED <<ok, told, alive, own, phase, exit>>
     \/ Raises /\ UNCHANGED <<ok, told, alive, own>>
  /\ UNCHANGED <<file, request, toRead, readings, checked, fired>>

\* Mutant: the pools that are not ok are skipped, as preflight's comment says.
PassSkipping ==
  /\ phase = "preflight" /\ todo = {}
  /\ \/ ok # {} /\ phase' = "trigger" /\ todo' = ok /\ UNCHANGED exit
     \/ ok = {} /\ Exits(1) /\ UNCHANGED todo
     \/ Exits(0) /\ UNCHANGED todo
  /\ UNCHANGED <<file, request, toRead, readings, gate, fired>>

\* One pool that is not ok stops the run; --preflight-only ends it here.
Pass ==
  /\ phase = "preflight" /\ todo = {}
  /\ \/ ok = request /\ phase' = "trigger" /\ todo' = request /\ UNCHANGED exit
     \/ ok # request /\ Exits(1) /\ UNCHANGED todo
     \/ ok = request /\ Exits(0) /\ UNCHANGED todo
  /\ UNCHANGED <<file, request, toRead, readings, gate, fired>>

-----------------------------------------------------------------------------
(* Hooks, the wait, and the second look                                      *)

\* trigger: a hook that cannot be fired leaves those before it running.
Trigger(p) ==
  /\ phase = "trigger" /\ p \in todo
  /\ todo' = todo \ {p}
  /\ \/ fired' = fired \union {p} /\ UNCHANGED <<phase, exit>>
     \/ Raises /\ UNCHANGED fired
  /\ UNCHANGED <<file, request, toRead, readings, gate>>

\* No credentials, before the first hook, or --no-wait, after the last.
StopsThere ==
  /\ phase = "trigger"
  /\ \/ fired = {} /\ todo = request /\ Exits(1)
     \/ todo = {} /\ Exits(0)
  /\ UNCHANGED <<file, request, toRead, todo, readings, gate, fired>>

Wait ==
  /\ phase = "trigger" /\ todo = {}
  /\ phase' = "wait"
  /\ UNCHANGED <<file, request, toRead, todo, readings, gate, fired, exit>>

\* HwRun's part: the groups are watched to the end of the wait; without a
\* group there is nothing to watch, and a request may raise.
Waited ==
  /\ phase = "wait"
  /\ \/ phase' = "after" /\ toRead' = deployment_refs(request) /\ UNCHANGED exit
     \/ Exits(1) /\ UNCHANGED toRead
     \/ Raises /\ UNCHANGED toRead
  /\ UNCHANGED <<file, request, todo, readings, gate, fired>>

FetchSecond(r) ==
  /\ phase = "after" /\ r \in toRead
  /\ toRead' = toRead \ {r}
  /\ \/ Readable(head[r]) /\ after' = With(after, r) /\ UNCHANGED <<phase, exit>>
     \/ UNCHANGED <<after, phase, exit>>
     \/ ~head[r].sound /\ Raises /\ UNCHANGED after
  /\ UNCHANGED <<file, request, todo, before, records, drift, gate, fired>>

\* What compare_deployments looks at in a pool that is in both snapshots.
Value(s, field) == IF field = "config" THEN s.config
                   ELSE IF field = "dev_branch" THEN s.dev ELSE s.nodes

\* Mutant: a ref that could not be read again counts as one without pools.
CompareUnread ==
  {c \in Changes :
     /\ c.ref \in DOMAIN before /\ c.pool \in DOMAIN before[c.ref]
     /\ IF c.field = "pool"
        THEN c.ref \notin DOMAIN after \/ c.pool \notin DOMAIN after[c.ref]
        ELSE /\ c.ref \in DOMAIN after /\ c.pool \in DOMAIN after[c.ref]
             /\ Value(before[c.ref][c.pool], c.field) # Value(after[c.ref][c.pool], c.field)}

\* Mutant: a pool that is gone is passed over.
CompareKept ==
  {c \in Changes :
     /\ c.ref \in DOMAIN before \intersect DOMAIN after
     /\ c.pool \in DOMAIN before[c.ref] \intersect DOMAIN after[c.ref]
     /\ c.field # "pool"
     /\ Value(before[c.ref][c.pool], c.field) # Value(after[c.ref][c.pool], c.field)}

\* compare_deployments: the refs read both times, the pools read the first.
Compare ==
  {c \in Changes :
     /\ c.ref \in DOMAIN before \intersect DOMAIN after
     /\ c.pool \in DOMAIN before[c.ref]
     /\ IF c.field = "pool" THEN c.pool \notin DOMAIN after[c.ref]
        ELSE /\ c.pool \in DOMAIN after[c.ref]
             /\ Value(before[c.ref][c.pool], c.field) # Value(after[c.ref][c.pool], c.field)}

ReportDrift ==
  /\ phase = "after" /\ toRead = {}
  /\ drift' = Compare
  /\ phase' = "report"
  /\ UNCHANGED <<file, request, toRead, todo, before, after, records, gate, fired, exit>>

\* The verdicts decide the exit code, whatever has changed.
Report ==
  /\ phase = "report"
  /\ \E code \in {0, 1} : Exits(code)
  /\ UNCHANGED <<file, request, toRead, todo, readings, gate, fired>>

-----------------------------------------------------------------------------

Script ==
  \/ Resolve \/ DeploymentRecords \/ Pass \/ StopsThere \/ Wait \/ Waited
  \/ ReportDrift \/ Report
  \/ \E r \in Refs : FetchFirst(r) \/ FetchSecond(r)
  \/ \E p \in Names : Preflight(p) \/ Trigger(p)

Next == Script \/ \E r \in Refs, f \in Texts : Lands(r, f)

Spec == Init /\ [][Next]_vars
=============================================================================
