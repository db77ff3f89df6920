------------------------------- MODULE HwRun -------------------------------
(* One execution of ci/run-hw-os-integration.py: pre-flight, one hook fire   *)
(* per pool, discovery of each pool's task group, the polling of every group *)
(* until it is resolved or the wait runs out, the verdict per pool and the   *)
(* exit code.  Every request of the script is a step of its own, so the      *)
(* queue moves between any two of them.                                      *)
EXTENDS TaskQueue, Integers

CONSTANTS
  PageLimit,        \* how many tasks one answer of listTaskGroup can hold
  RestFailures,     \* whether a request may come back as a TaskclusterRestFailure
  ConnectionErrors, \* whether a request may raise what nothing here catches
  Setup,            \* how long the job may have run before the script starts
  DecisionPoll,     \* DECISION_POLL_INTERVAL_SECONDS
  DiscoveryTimeout, \* DECISION_DISCOVERY_TIMEOUT_SECONDS
  GroupPoll,        \* TASK_GROUP_POLL_INTERVAL_SECONDS
  Timeout,          \* args.timeout
  WaitCeiling,      \* WAIT_CEILING_SECONDS
  JobLimit,         \* when GitHub cancels the job
  InActions,        \* IN_GITHUB_ACTIONS
  StampKnown        \* whether GITHUB_RUN_STARTED_AT holds the job's start

ASSUME HwRunAssumption ==
  /\ Pools # {}
  /\ {PageLimit, DecisionPoll, DiscoveryTimeout, GroupPoll} \subseteq Nat \ {0}
  /\ {Setup, Timeout, WaitCeiling, JobLimit} \subseteq Nat
  /\ {RestFailures, ConnectionErrors, InActions, StampKnown} \subseteq BOOLEAN

VARIABLES
  phase,    \* where main() is
  at,       \* inside a polling loop: "head", "list" or "scan"
  todo,     \* the pools the current loop over the runs has yet to visit
  turn,     \* the pool being discovered or refreshed
  scan,     \* the listed tasks find_blocked has yet to look at
  clock,    \* time since the job started
  deadline, \* when the current polling loop gives up
  group,    \* the runs with a task_group_id
  listed,   \* listed[p]: run["tasks"], "none" for a task not in the answer
  blocked,  \* blocked[p]: the keys of run["blocked"]
  done,     \* the runs with run["done"]
  timed_out,\* the runs with run["timed_out"]
  verdict,  \* verdict[p]: run["verdict"]
  exit,     \* the exit code, -1 while running
  settled   \* history: the pools that were Settled when the wait ran out

control == <<phase, at, todo, turn, scan, clock, deadline>>
results == <<group, listed, blocked, done, timed_out, verdict, exit>>
scriptVars == <<control, results, settled>>
vars == <<queueVars, scriptVars>>

Verdicts == {"none", "no group", "outran the wait", "decision failed",
             "no tasks", "failed", "blocked upstream", "passed"}
Ended == {"finished", "crashed", "cancelled"}

TypeOK ==
  /\ QueueTypeOK
  /\ phase \in {"preflight", "trigger", "discover", "wait", "last", "report"}
               \union Ended
  /\ at \in {"head", "list", "scan"}
  /\ todo \subseteq Pools
  /\ turn \in Pools
  /\ scan \subseteq Tasks
  /\ clock \in Nat
  /\ deadline \in Nat
  /\ group \subseteq Pools
  /\ listed \in [Pools -> [Members -> TaskStates \ {"cancelled"}]]
  /\ blocked \in [Pools -> SUBSET Tasks]
  /\ done \subseteq Pools
  /\ timed_out \subseteq Pools
  /\ verdict \in [Pools -> Verdicts]
  /\ exit \in {-1, 0, 1}
  /\ settled \subseteq Pools

Init ==
  /\ QueueInit
  /\ phase = "preflight"
  /\ at = "head"
  /\ todo = Pools
  /\ turn = CHOOSE p \in Pools : TRUE
  /\ scan = {}
  /\ clock \in 0..Setup
  /\ deadline = 0
  /\ group = {}
  /\ listed = [p \in Pools |-> [x \in Members |-> "none"]]
  /\ blocked = [p \in Pools |-> {}]
  /\ done = {}
  /\ timed_out = {}
  /\ verdict = [p \in Pools |-> "none"]
  /\ exit = -1
  /\ settled = {}

Exits(code) == phase' = "finished" /\ exit' = code

\* Mutant: the loops are timed with a clock that stands still in a sleep.
SleepUntimed(seconds) == UNCHANGED clock
Sleep(seconds) == clock' = clock + seconds

---------------------------------------------------------------------------
(* Pre-flight and trigger                                                   *)

\* Any pool that is not ok refuses the whole run before a hook is fired;
\* --preflight-only stops here with nothing fired either.
Preflight ==
  /\ phase = "preflight"
  /\ \/ phase' = "trigger" /\ UNCHANGED exit
     \/ \E code \in {0, 1} : Exits(code)
  /\ UNCHANGED <<queueVars, at, todo, turn, scan, clock, deadline, group,
                 listed, blocked, done, timed_out, verdict, settled>>

Trigger(p) ==
  /\ phase = "trigger"
  /\ p \in todo
  /\ hook' = [hook EXCEPT ![p] = "running"]
  /\ todo' = todo \ {p}
  /\ UNCHANGED <<task, up, phase, at, turn, scan, clock, deadline, results,
                 settled>>

\* --no-wait: the summary is written and the results are nobody's.
LeaveUnwatched ==
  /\ phase = "trigger"
  /\ todo = {}
  /\ Exits(0)
  /\ UNCHANGED <<queueVars, at, todo, turn, scan, clock, deadline, group,
                 listed, blocked, done, timed_out, verdict, settled>>

StartDiscovery ==
  /\ phase = "trigger"
  /\ todo = {}
  /\ phase' = "discover"
  /\ at' = "head"
  /\ todo' = Pools
  /\ UNCHANGED <<queueVars, turn, scan, clock, deadline, results, settled>>

---------------------------------------------------------------------------
(* find_task_group, one pool after the other                                *)

DiscoverNext(p) ==
  /\ phase = "discover"
  /\ at = "head"
  /\ p \in todo
  /\ turn' = p
  /\ todo' = todo \ {p}
  /\ deadline' = clock + DiscoveryTimeout
  /\ at' = "list"
  /\ UNCHANGED <<queueVars, phase, scan, clock, results, settled>>

Discovering == phase = "discover" /\ at = "list"

\* The log of a resolved hook task names the group it created.
GroupFound ==
  /\ Discovering
  /\ clock < deadline
  /\ hook[turn] \in Resolved
  /\ task[turn][Root] # "none"
  /\ group' = group \union {turn}
  /\ at' = "head"
  /\ UNCHANGED <<queueVars, phase, todo, turn, scan, clock, deadline, listed,
                 blocked, done, timed_out, verdict, exit, settled>>

\* Not resolved, or the log is not readable yet, or it names no group yet.
DiscoverAgain ==
  /\ Discovering
  /\ clock < deadline
  /\ hook[turn] \in {"running", "completed"} \/ RestFailures
  /\ Sleep(DecisionPoll)
  /\ UNCHANGED <<queueVars, phase, at, todo, turn, scan, deadline, results,
                 settled>>

\* A dead hook task whose log names no group, or no answer by the deadline.
GroupNotFound ==
  /\ Discovering
  /\ hook[turn] \in Dead \/ clock >= deadline
  /\ verdict' = [verdict EXCEPT ![turn] = "no group"]
  /\ at' = "head"
  /\ UNCHANGED <<queueVars, phase, todo, turn, scan, clock, deadline, group,
                 listed, blocked, done, timed_out, exit, settled>>

NoLiveRun ==
  /\ phase = "discover" /\ at = "head" /\ todo = {}
  /\ group = {}
  /\ Exits(1)
  /\ UNCHANGED <<queueVars, at, todo, turn, scan, clock, deadline, group,
                 listed, blocked, done, timed_out, verdict, settled>>

---------------------------------------------------------------------------
(* monitor                                                                  *)

\* Mutant: the wait is budgeted from the script's start, not from the job's.
wait_budget_from_now(elapsed) == IF Timeout <= WaitCeiling THEN Timeout ELSE WaitCeiling
wait_budget(elapsed) ==
  LET remaining == IF elapsed <= WaitCeiling THEN WaitCeiling - elapsed ELSE 0
  IN IF ~InActions \/ Timeout <= remaining THEN Timeout ELSE remaining

elapsed_since_run_start == IF StampKnown THEN clock ELSE 0

StartMonitor ==
  /\ phase = "discover" /\ at = "head" /\ todo = {}
  /\ group # {}
  /\ phase' = "wait"
  /\ deadline' = clock + wait_budget(elapsed_since_run_start)
  /\ UNCHANGED <<queueVars, at, todo, turn, scan, clock, results, settled>>

\* Mutant: the loop goes round once more when the wait is exactly over.
WaitOverLate == clock > deadline
WaitOver == clock >= deadline

\* The top of the loop: another round over the open runs, or the last one.
WaitHead ==
  /\ phase = "wait" /\ at = "head"
  /\ at' = "list"
  /\ todo' = group \ done
  /\ IF WaitOver
        THEN phase' = "last" /\ settled' = {p \in group : Settled(p)}
        ELSE UNCHANGED <<phase, settled>>
  /\ UNCHANGED <<queueVars, turn, scan, clock, deadline, results>>

Polling == phase \in {"wait", "last"}

\* What is left of a run that is not done when its last refresh returns.
GiveUp(p, isDone) ==
  timed_out' = IF phase = "last" /\ ~isDone THEN timed_out \union {p} ELSE timed_out

Created(p) == {x \in Members : task[p][x] # "none"}

\* One answer of listTaskGroup.  The script never asks for a second page.
Pages(p) == IF Cardinality(Created(p)) <= PageLimit
              THEN {Created(p)}
              ELSE {S \in SUBSET Created(p) : Cardinality(S) = PageLimit}

\* refresh_run: list the group, then ask find_blocked about every listed task
\* that is unscheduled and not known to be blocked.
ListGroup(p) ==
  /\ Polling /\ at = "list"
  /\ p \in todo
  /\ turn' = p
  /\ \E page \in Pages(p) :
        LET answer == [x \in Members |-> IF x \in page THEN Reported(task[p][x])
                                                        ELSE "none"]
        IN /\ listed' = [listed EXCEPT ![p] = answer]
           /\ scan' = {t \in Tasks \ blocked[p] : answer[t] = "unscheduled"}
  /\ at' = "scan"
  /\ UNCHANGED <<queueVars, phase, todo, clock, deadline, group, blocked, done,
                 timed_out, verdict, exit, settled>>

\* The listing failed: the old reading stays, and the run counts as open.
ListGroupFails(p) ==
  /\ RestFailures
  /\ Polling /\ at = "list"
  /\ p \in todo
  /\ todo' = todo \ {p}
  /\ GiveUp(p, FALSE)
  /\ UNCHANGED <<queueVars, phase, at, turn, scan, clock, deadline, group,
                 listed, blocked, done, verdict, exit, settled>>

\* Mutant: everything but a completed dependency kills the task.
DepDeadUnlessCompleted(state) == state # "completed"
DepDead(state) == Reported(state) \in Dead
DepState(p, d) == IF d = Root THEN task[p][Root] ELSE up[d]

\* find_blocked for one task: it is blocked if any dependency whose status
\* could be read is dead.
FindBlocked(t) ==
  /\ Polling /\ at = "scan"
  /\ t \in scan
  /\ \E unread \in (IF RestFailures THEN SUBSET (Deps[t] \union {Root}) ELSE {{}}) :
        LET dead == {d \in (Deps[t] \union {Root}) \ unread :
                       DepDead(DepState(turn, d))}
        IN blocked' = IF dead = {} THEN blocked
                                   ELSE [blocked EXCEPT ![turn] = @ \union {t}]
  /\ scan' = scan \ {t}
  /\ UNCHANGED <<queueVars, phase, at, todo, turn, clock, deadline, group,
                 listed, done, timed_out, verdict, exit, settled>>

In(p, S) == {t \in Tasks : listed[p][t] \in S}

\* Mutant: a blocked task still counts as pending.
tally_blocked_pending(p) ==
            [total   |-> {t \in Tasks : listed[p][t] # "none"},
             bad     |-> In(p, {"failed", "exception"}),
             pending |-> In(p, Unresolved),
             blocked |-> {t \in blocked[p] : listed[p][t] # "none"},
             decision |-> listed[p][Root]]
\* The fields of run["counts"] that decide anything, as the sets they count.
tally(p) == [total   |-> {t \in Tasks : listed[p][t] # "none"},
             bad     |-> In(p, {"failed", "exception"}),
             pending |-> In(p, Unresolved) \ blocked[p],
             blocked |-> {t \in blocked[p] : listed[p][t] # "none"},
             decision |-> listed[p][Root]]

IsDone(counts) == counts.pending = {} /\ counts.decision \notin Unresolved

\* The end of refresh_run, once find_blocked is through.
Refreshed ==
  /\ Polling /\ at = "scan"
  /\ scan = {}
  /\ done' = IF IsDone(tally(turn)) THEN done \union {turn} ELSE done
  /\ GiveUp(turn, IsDone(tally(turn)))
  /\ todo' = todo \ {turn}
  /\ at' = "list"
  /\ UNCHANGED <<queueVars, phase, turn, scan, clock, deadline, group, listed,
                 blocked, verdict, exit, settled>>

\* The end of a round: every run done, or sleep and go round again.
RoundEnd ==
  /\ phase = "wait" /\ at = "list" /\ todo = {}
  /\ at' = "head"
  /\ IF group \subseteq done
        THEN phase' = "report" /\ UNCHANGED clock
        ELSE Sleep(GroupPoll) /\ UNCHANGED phase
  /\ UNCHANGED <<queueVars, todo, turn, scan, deadline, results, settled>>

LastRoundEnd ==
  /\ phase = "last" /\ at = "list" /\ todo = {}
  /\ phase' = "report"
  /\ UNCHANGED <<queueVars, at, todo, turn, scan, clock, deadline, results,
                 settled>>

---------------------------------------------------------------------------
(* The verdicts and the end                                                 *)

\* Mutant: a blocked task outranks a failed one.
classify_run_blocked_first(p) ==
  LET counts == tally(p)
  IN IF verdict[p] # "none" THEN verdict[p]
     ELSE IF p \in timed_out THEN "outran the wait"
     ELSE IF counts.decision \in Dead THEN "decision failed"
     ELSE IF counts.total = {} THEN "no tasks"
     ELSE IF counts.blocked # {} THEN "blocked upstream"
     ELSE IF counts.bad # {} THEN "failed"
     ELSE "passed"
\* Mutant: a group whose tasks did not fail has passed.
classify_run_unfailed(p) ==
  LET counts == tally(p)
  IN IF verdict[p] # "none" THEN verdict[p]
     ELSE IF p \in timed_out THEN "outran the wait"
     ELSE IF counts.decision \in Dead THEN "decision failed"
     ELSE IF counts.bad # {} THEN "failed"
     ELSE "passed"
classify_run(p) ==
  LET counts == tally(p)
  IN IF verdict[p] # "none" THEN verdict[p]
     ELSE IF p \in timed_out THEN "outran the wait"
     ELSE IF counts.decision \in Dead THEN "decision failed"
     ELSE IF counts.total = {} THEN "no tasks"
     ELSE IF counts.bad # {} THEN "failed"
     ELSE IF counts.blocked # {} THEN "blocked upstream"
     ELSE "passed"

ExitCode(vs) == IF "failed" \in vs THEN 1 ELSE 0

Report ==
  /\ phase = "report"
  /\ verdict' = [p \in Pools |-> classify_run(p)]
  /\ Exits(ExitCode({classify_run(p) : p \in Pools}))
  /\ UNCHANGED <<queueVars, at, todo, turn, scan, clock, deadline, group,
                 listed, blocked, done, timed_out, settled>>

\* A request raised something the script does not catch: a traceback, no
\* summary, and the interpreter's exit code.
Crash ==
  /\ ConnectionErrors
  /\ phase \notin Ended
  /\ phase' = "crashed"
  /\ exit' = 1
  /\ UNCHANGED <<queueVars, at, todo, turn, scan, clock, deadline, group,
                 listed, blocked, done, timed_out, verdict, settled>>

\* GitHub cancels the job, and the summary goes with it.
JobCancelled ==
  /\ InActions
  /\ phase \notin Ended
  /\ clock >= JobLimit
  /\ phase' = "cancelled"
  /\ exit' = 1
  /\ UNCHANGED <<queueVars, at, todo, turn, scan, clock, deadline, group,
                 listed, blocked, done, timed_out, verdict, settled>>

---------------------------------------------------------------------------
Script ==
  \/ Preflight \/ LeaveUnwatched \/ StartDiscovery
  \/ \E p \in Pools : Trigger(p) \/ DiscoverNext(p)
  \/ GroupFound \/ DiscoverAgain \/ GroupNotFound \/ NoLiveRun
  \/ StartMonitor \/ WaitHead
  \/ \E p \in Pools : ListGroup(p) \/ ListGroupFails(p)
  \/ \E t \in Tasks : FindBlocked(t)
  \/ Refreshed \/ RoundEnd \/ LastRoundEnd
  \/ Report

\* What the queue does after the script has ended is not this module's.
Environment == phase \notin Ended /\ QueueNext /\ UNCHANGED scriptVars

Rest == phase \in Ended /\ UNCHANGED vars

Next == Script \/ Crash \/ JobCancelled \/ Environment \/ Rest

Spec == Init /\ [][Next]_vars

\* The interpreter keeps executing the script; nothing is assumed of the queue.
FairSpec == Spec /\ WF_vars(Script)
=============================================================================
