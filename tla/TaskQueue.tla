----------------------------- MODULE TaskQueue -----------------------------
(* The Taskcluster side of a hardware integration run, as far as the script  *)
(* ci/run-hw-os-integration.py and the decision in taskcluster/ depend on it.*)
(* It is external code: every action is what the repository's client code   *)
(* has to expect of the service.  One hook fire per pool gives a hook task,  *)
(* which creates the decision (the Root task of a new task group), which     *)
(* creates copies of mozilla-central tasks in the same group.  The copies    *)
(* keep the dependencies of their originals: tasks of another project, whose *)
(* fate nothing here controls.                                               *)
EXTENDS Naturals, FiniteSets

CONSTANTS
  Pools,       \* the hardware pools named on the command line
  Tasks,       \* the copies a decision may create in its pool's group
  Root,        \* the task id of the group's root task, the decision
  Upstreams,   \* mozilla-central tasks the copies depend on
  Deps,        \* Deps[t]: the upstreams copy t depends on
  UpDeps,      \* UpDeps[u]: the upstreams upstream u itself depends on
  UpstreamReruns, \* whether a resolved upstream may be rerun
  Cancels      \* whether a task that never ran may be cancelled or expire

ASSUME QueueAssumption ==
  /\ Root \notin Tasks \union Upstreams
  /\ IsFiniteSet(Tasks)
  /\ Deps \in [Tasks -> SUBSET Upstreams]
  /\ UpDeps \in [Upstreams -> SUBSET Upstreams]
  /\ UpstreamReruns \in BOOLEAN
  /\ Cancels \in BOOLEAN

VARIABLES
  hook,  \* hook[p]: state of the hook task of pool p, "none" until fired
  task,  \* task[p][x]: state of task x of p's group, "none" until created
  up     \* up[u]: state of upstream u

queueVars == <<hook, task, up>>

Members == Tasks \union {Root}

\* The states of the queue's API.  "cancelled" is a task resolved without a
\* run: the queue reports it as "exception", like a run that crashed.
Unresolved == {"unscheduled", "pending", "running"}
Resolved   == {"completed", "failed", "exception"}
TaskStates == {"none", "cancelled"} \union Unresolved \union Resolved
Reported(s) == IF s = "cancelled" THEN "exception" ELSE s

QueueTypeOK ==
  /\ hook \in [Pools -> {"none", "running"} \union Resolved]
  /\ task \in [Pools -> [Members -> TaskStates]]
  /\ up   \in [Upstreams -> TaskStates \ {"none"}]

\* mozilla-central is somewhere in the middle of a push when the run starts.
QueueInit ==
  /\ hook = [p \in Pools |-> "none"]
  /\ task = [p \in Pools |-> [x \in Members |-> "none"]]
  /\ up \in [Upstreams -> {"unscheduled", "running", "completed"}]
  /\ \A u \in Upstreams : \A v \in UpDeps[u] :
        up[u] # "unscheduled" => up[v] = "completed"

---------------------------------------------------------------------------
SetTask(p, x, s) == task' = [task EXCEPT ![p][x] = s]

HookCreatesDecision(p) ==
  /\ hook[p] = "running"
  /\ task[p][Root] = "none"
  /\ SetTask(p, Root, "pending")
  /\ UNCHANGED <<hook, up>>

\* The hook task may complete without a group (nothing to do), and may fail
\* after it has created one.
HookResolves(p) ==
  /\ hook[p] = "running"
  /\ \E s \in Resolved : hook' = [hook EXCEPT ![p] = s]
  /\ UNCHANGED <<task, up>>

DecisionCreatesTask(p, t) ==
  /\ task[p][Root] = "running"
  /\ task[p][t] = "none"
  /\ SetTask(p, t, "unscheduled")
  /\ UNCHANGED <<hook, up>>

\* taskgraph makes every copy depend on the decision too, so that a decision
\* that dies half way leaves nothing that can run.
TaskScheduled(p, t) ==
  /\ task[p][t] = "unscheduled"
  /\ task[p][Root] = "completed"
  /\ \A u \in Deps[t] : up[u] = "completed"
  /\ SetTask(p, t, "pending")
  /\ UNCHANGED <<hook, up>>

TaskClaimed(p, x) ==
  /\ task[p][x] = "pending"
  /\ SetTask(p, x, "running")
  /\ UNCHANGED <<hook, up>>

TaskResolves(p, x) ==
  /\ task[p][x] = "running"
  /\ \E s \in Resolved : SetTask(p, x, s)
  /\ UNCHANGED <<hook, up>>

TaskCancelled(p, t) ==
  /\ Cancels
  /\ task[p][t] \in {"unscheduled", "pending"}
  /\ SetTask(p, t, "cancelled")
  /\ UNCHANGED <<hook, up>>

UpstreamScheduled(u) ==
  /\ up[u] = "unscheduled"
  /\ \A v \in UpDeps[u] : up[v] = "completed"
  /\ up' = [up EXCEPT ![u] = "running"]
  /\ UNCHANGED <<hook, task>>

UpstreamResolves(u) ==
  /\ up[u] = "running"
  /\ \E s \in Resolved : up' = [up EXCEPT ![u] = s]
  /\ UNCHANGED <<hook, task>>

UpstreamRerun(u) ==
  /\ UpstreamReruns
  /\ up[u] \in {"failed", "exception"}
  /\ up' = [up EXCEPT ![u] = "running"]
  /\ UNCHANGED <<hook, task>>

QueueNext ==
  \/ \E p \in Pools : HookCreatesDecision(p) \/ HookResolves(p)
  \/ \E p \in Pools, t \in Tasks :
        \/ DecisionCreatesTask(p, t)
        \/ TaskScheduled(p, t)
        \/ TaskCancelled(p, t)
  \/ \E p \in Pools, x \in Members : TaskClaimed(p, x) \/ TaskResolves(p, x)
  \/ \E u \in Upstreams :
        UpstreamScheduled(u) \/ UpstreamResolves(u) \/ UpstreamRerun(u)

---------------------------------------------------------------------------
\* An upstream is doomed when it is dead or waits, through any chain, on a
\* dead one: it is in every set that holds the dead and is closed under
\* waiting on a member.
Dead == {"failed", "exception"}
HoldsTheDoomed(S) ==
  \A u \in Upstreams :
     (\/ up[u] \in Dead
      \/ up[u] = "unscheduled" /\ UpDeps[u] \intersect S # {}) => u \in S
Doomed == {u \in Upstreams : \A S \in SUBSET Upstreams : HoldsTheDoomed(S) => u \in S}

Hopeless(p, t) ==
  /\ task[p][t] = "unscheduled"
  /\ task[p][Root] \in Dead \/ Deps[t] \intersect Doomed # {}

\* Nothing in p's group can change any more, short of a rerun.
Settled(p) ==
  /\ task[p][Root] \in Resolved
  /\ \A t \in Tasks : task[p][t] \in Unresolved => Hopeless(p, t)

\* What every step of the queue respects: a resolved task or hook stays as it
\* is, a created task stays created, and a resolved decision creates nothing.
QueueRespects ==
  /\ \A p \in Pools, x \in Members :
       /\ Reported(task[p][x]) \in Resolved => task'[p][x] = task[p][x]
       /\ task[p][x] # "none" => task'[p][x] # "none"
  /\ \A p \in Pools, t \in Tasks :
       Reported(task[p][Root]) \in Resolved /\ task[p][t] = "none" => task'[p][t] = "none"
  /\ \A p \in Pools : hook[p] \in Resolved => hook'[p] = hook[p]
=============================================================================
