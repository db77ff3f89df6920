----------------------------- MODULE HwRunInv -----------------------------
(* The inductive invariant of the hardware integration run: why a verdict    *)
(* read from an old listing is still true when it is written down.           *)
EXTENDS HwRunProps

\* One answer of listTaskGroup always holds the whole group.
OnePage == Cardinality(Members) <= PageLimit

\* A task that is scheduled has nothing left to wait for.
ReadyBeforeRun ==
  \A p \in Pools, t \in Tasks :
    task[p][t] \in {"pending", "running"} \union Resolved =>
      /\ task[p][Root] = "completed"
      /\ \A u \in Deps[t] : up[u] = "completed"

\* What a listing says of a resolved task stays true.
ListedIsTrue ==
  \A p \in Pools, x \in Members :
    listed[p][x] \in Resolved => Reported(task[p][x]) = listed[p][x]

\* A listing with a resolved decision in it misses no task.
ListedIsWhole ==
  \A p \in Pools : listed[p][Root] \in Resolved =>
    \A t \in Tasks : task[p][t] # "none" => listed[p][t] # "none"

\* Only the groups that were discovered are read, and those have a decision.
GroupsExist ==
  \A p \in Pools : IF p \in group THEN task[p][Root] # "none"
                                  ELSE \A x \in Members : listed[p][x] = "none"

\* Nothing that is done is read again.
LoopIsOverOpenRuns ==
  /\ done \subseteq group
  /\ timed_out \subseteq group \ done
  /\ Polling => todo \subseteq group \ (done \union timed_out)
  /\ phase \in {"preflight", "trigger", "discover", "wait"} => timed_out = {}
  /\ Polling /\ at = "scan" =>
       /\ turn \in todo
       /\ listed[turn][Root] # "none"
       /\ \A t \in scan : task[turn][t] # "none"

\* A done run's listing is closed but for the tasks known to be blocked.
DoneIsClosed ==
  \A p \in done :
    /\ listed[p][Root] \in Resolved
    /\ \A t \in Tasks : listed[p][t] \in Unresolved => t \in blocked[p]

\* Every discovered run is done or has been given up on when the last round
\* is through with it.
NobodyForgotten ==
  /\ phase = "last" => group \subseteq done \union timed_out \union todo
  /\ phase = "report" => group \subseteq done \union timed_out

\* Before the report there is at most the verdict that discovery set, and it
\* set none on a run it found a group for or has yet to look at.
NoEarlyVerdict ==
  /\ phase # "finished" =>
       \A p \in Pools : verdict[p] = "none" \/ (verdict[p] = "no group" /\ p \notin group)
  /\ phase \in {"preflight", "trigger"} =>
       group = {} /\ \A p \in Pools : verdict[p] = "none"
  /\ phase = "discover" =>
       \A p \in todo : p \notin group /\ verdict[p] = "none"
  /\ phase = "discover" /\ at = "list" =>
       turn \notin todo /\ turn \notin group /\ verdict[turn] = "none"

Truth == ReadyBeforeRun /\ ListedIsTrue /\ ListedIsWhole /\ GroupsExist
Loop  == LoopIsOverOpenRuns /\ DoneIsClosed /\ NobodyForgotten /\ NoEarlyVerdict
IInv  == TypeOK /\ Truth /\ Loop

\* A dependency of t is dead: t will never be scheduled.
DeadEnd(p, t) == DepDead(task[p][Root]) \/ \E u \in Deps[t] : DepDead(up[u])

\* Why a blocked task never runs, when no upstream is ever rerun: it was not
\* scheduled when a dependency was found dead, and a dead one stays dead.
BlockedIsDead ==
  \A p \in Pools : \A t \in blocked[p] :
    /\ task[p][t] \in {"unscheduled", "cancelled"}
    /\ DeadEnd(p, t)

\* The wait, once it has been trimmed to what is left of the job: inside the
\* loop time is not up, and no sleep started when it was.
WaitIsTrimmed ==
  /\ phase = "wait" /\ at # "head" => clock < deadline
  /\ InActions /\ StampKnown /\ phase \in {"wait", "last", "report"} =>
       clock = deadline \/ (deadline <= WaitCeiling /\ clock < deadline + GroupPoll)

\* When discovery has to be over, once the pools of S have been looked at: each
\* is given its timeout, and the sleep that was running when that ended.
DiscoveryEnd(S) == Setup + Cardinality(S) * (DiscoveryTimeout + DecisionPoll)

\* The latest the wait may be set to end.
LatestDeadline == IF StampKnown THEN WaitCeiling
                                ELSE DiscoveryEnd(Pools) + wait_budget(0)

\* The job outlasts discovery and the wait after it.
JobIsLongEnough ==
  /\ DiscoveryEnd(Pools) < JobLimit
  /\ LatestDeadline + GroupPoll <= JobLimit

\* Where the clock can be while the job runs: every pool looked at costs at
\* most its share, and the wait ends where wait_budget put it.
OnTime ==
  /\ phase \in {"preflight", "trigger"} => clock <= Setup
  /\ phase = "discover" => at # "scan"
  /\ phase = "discover" /\ at = "head" => clock <= DiscoveryEnd(Pools \ todo)
  /\ phase = "discover" /\ at = "list" =>
       /\ clock < deadline + DecisionPoll
       /\ deadline + DecisionPoll <= DiscoveryEnd(Pools \ todo)
  /\ phase \in {"wait", "last", "report"} =>
       \/ clock = deadline /\ clock <= DiscoveryEnd(Pools)
       \/ deadline <= LatestDeadline /\ clock < deadline + GroupPoll

\* No copy waits for a task that itself waits for another: find_blocked looks
\* no further than a task's own dependencies.
DepsWaitForNothing == \A t \in Tasks : \A u \in Deps[t] : UpDeps[u] = {}

\* A pool that was settled when the wait ran out stays so, and the last round
\* reads enough of it to see that.
SettledIsSeen ==
  /\ phase = "last" =>
       \A p \in settled :
         /\ task[p][Root] \in Resolved
         /\ \A t \in Tasks : task[p][t] \in Unresolved =>
                               task[p][t] = "unscheduled" /\ DeadEnd(p, t)
  /\ phase = "last" /\ at = "scan" /\ turn \in settled =>
       /\ listed[turn][Root] \in Resolved
       /\ \A t \in scan : DeadEnd(turn, t)
       /\ \A t \in Tasks : listed[turn][t] \in Unresolved => t \in scan \union blocked[turn]
  /\ SettledIsNotTimedOut

\* The run has an exit code exactly when it has ended.
ExitAtEnd == (exit = -1) <=> (phase \notin Ended)
=============================================================================
