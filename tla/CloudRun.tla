------------------------------ MODULE CloudRun ------------------------------
(* One execution of ci/run-os-integration.py: it fires the hook for one      *)
(* image, finds the task group of the decision the hook created, and polls   *)
(* the group, page by page, until no task of it is open or the timeout hits. *)
(* A page is a request of its own, so the queue moves between two pages.     *)
EXTENDS TaskQueue, Integers

CONSTANTS
  Image,        \* the image under test, the only one of Pools
  LastPage,     \* how many pages the listing can have
  RestFailures, \* whether a request may come back as a TaskclusterRestFailure
  OtherErrors,  \* whether a request may raise what main does not catch
  Tries,        \* attempts to find the group (30)
  DecisionPoll, \* DECISION_TASK_POLL_INTERVAL_SECONDS
  GroupPoll,    \* TASK_GROUP_POLL_INTERVAL_SECONDS
  Timeout       \* args.timeout

ASSUME CloudRunAssumption ==
  /\ Pools = {Image}
  /\ {LastPage, Tries, DecisionPoll, GroupPoll} \subseteq Nat \ {0}
  /\ Timeout \in Nat
  /\ {RestFailures, OtherErrors} \subseteq BOOLEAN

VARIABLES
  pageOf,  \* pageOf[x]: the page that task x's id, once it has one, falls on
  phase,   \* where main() is
  tries,   \* attempts of get_created_task_group_id so far
  group,   \* the group being polled: "none", "created" or the hook's "own"
  page,    \* the page get_task_group_tasks asks for next
  tasks,   \* tasks[x]: the state it has read, "none" for a task not listed
  clock,   \* seconds since the hook was fired
  start,   \* start_time
  summary, \* the status of the job summary, "none" while there is none
  exit,    \* the exit code, -1 while running
  had      \* history: the tasks that existed when the reading began

reading == <<page, tasks, had>>
scriptVars == <<pageOf, phase, tries, group, reading, clock, start, summary, exit>>
vars == <<queueVars, scriptVars>>

TypeOK ==
  /\ QueueTypeOK
  /\ pageOf \in [Members -> 1..LastPage]
  /\ phase \in {"start", "find", "head", "read", "sleep", "last", "ended"}
  /\ tries \in 0..Tries
  /\ group \in {"none", "created", "own"}
  /\ page \in 1..LastPage + 1
  /\ tasks \in [Members -> TaskStates \ {"cancelled"}]
  /\ clock \in Nat
  /\ start \in Nat
  /\ summary \in {"none", "In Progress", "Failed", "Passed"}
  /\ exit \in {-1, 0, 1}
  /\ had \subseteq Members

Nothing == [x \in Members |-> "none"]

Init ==
  /\ QueueInit
  /\ pageOf \in [Members -> 1..LastPage]
  /\ phase = "start"
  /\ tries = 0
  /\ group = "none"
  /\ page = 1 /\ tasks = Nothing /\ had = {}
  /\ clock = 0 /\ start = 0
  /\ summary = "none"
  /\ exit = -1

Exits(code) == phase' = "ended" /\ exit' = code

---------------------------------------------------------------------------
(* Trigger and discovery                                                    *)

TriggerHook ==
  /\ phase = "start"
  /\ hook' = [hook EXCEPT ![Image] = "running"]
  /\ phase' = "find"
  /\ UNCHANGED <<task, up, pageOf, tries, group, reading, clock, start, summary, exit>>

\* --no-wait
LeaveUnwatched ==
  /\ phase = "find" /\ tries = 0
  /\ Exits(0)
  /\ UNCHANGED <<queueVars, pageOf, tries, group, reading, clock, start, summary>>

Finding == phase = "find" /\ tries < Tries

HookCompleted == hook[Image] = "completed"

\* The log names the decision's group, or no group but the hook task's own.
GroupFound ==
  /\ Finding
  /\ HookCompleted
  /\ group' = IF task[Image][Root] # "none" THEN "created" ELSE "own"
  /\ start' = clock
  /\ phase' = "head"
  /\ UNCHANGED <<queueVars, pageOf, tries, reading, clock, summary, exit>>

\* Not resolved, or no log yet, or no group in it.
FindAgain ==
  /\ Finding
  /\ \/ hook[Image] \in {"running", "completed"}
     \/ RestFailures
  /\ tries' = tries + 1
  /\ clock' = clock + DecisionPoll
  /\ UNCHANGED <<queueVars, pageOf, phase, group, reading, start, summary, exit>>

GroupNotFound ==
  /\ phase = "find"
  /\ tries = Tries \/ hook[Image] \in Dead
  /\ Exits(1)
  /\ UNCHANGED <<queueVars, pageOf, tries, group, reading, clock, start, summary>>

---------------------------------------------------------------------------
(* The polling loop                                                         *)

Created == {x \in Members : task[Image][x] # "none"}

TimeLeft == clock - start < Timeout

\* A reading begins: the loop's, or the one after the timeout.
BeginReading ==
  /\ phase = "head"
  /\ phase' = IF TimeLeft THEN "read" ELSE "last"
  /\ page' = 1
  /\ tasks' = Nothing
  /\ had' = Created
  /\ UNCHANGED <<queueVars, pageOf, tries, group, clock, start, summary, exit>>

Reading == phase \in {"read", "last"} /\ page <= LastPage

\* Mutant: the answer to the first request is the listing.
ReadFirstPage ==
  /\ Reading
  /\ tasks' = IF group = "created"
                THEN [x \in Members |-> IF pageOf[x] = page
                                          THEN Reported(task[Image][x]) ELSE tasks[x]]
                ELSE [tasks EXCEPT ![Root] = hook[Image]]
  /\ page' = LastPage + 1
  /\ UNCHANGED <<queueVars, pageOf, phase, tries, group, had, clock, start,
                 summary, exit>>
\* One page of listTaskGroup.  The hook's own group is the hook task alone.
ReadPage ==
  /\ Reading
  /\ tasks' = IF group = "created"
                THEN [x \in Members |-> IF pageOf[x] = page
                                          THEN Reported(task[Image][x]) ELSE tasks[x]]
                ELSE [tasks EXCEPT ![Root] = hook[Image]]
  /\ page' = page + 1
  /\ UNCHANGED <<queueVars, pageOf, phase, tries, group, had, clock, start,
                 summary, exit>>

\* Before the timeout a failed request ends the reading, not the polling.
ReadFails ==
  /\ RestFailures
  /\ phase = "read" /\ page <= LastPage
  /\ phase' = "sleep"
  /\ UNCHANGED <<queueVars, pageOf, tries, group, reading, clock, start, summary, exit>>

\* After it, whatever the request raises is swallowed and the summary is lost.
LastReadFails ==
  /\ RestFailures \/ OtherErrors
  /\ phase = "last" /\ page <= LastPage
  /\ Exits(1)
  /\ UNCHANGED <<queueVars, pageOf, tries, group, reading, clock, start, summary>>

Listed(states) == {x \in Members : tasks[x] \in states}

\* Mutant: a task whose dependencies are open is not counted as open.
OpenWithoutUnscheduled == Listed({"pending", "running"})
Open == Listed(Unresolved)

AllCompleted == Listed({"completed"}) = Listed(Unresolved \union Resolved)

write_github_summary ==
  summary' = IF Open # {} THEN "In Progress"
             ELSE IF Listed(Dead) # {} THEN "Failed"
             ELSE "Passed"

\* A group always holds its decision, so the listing is not empty here.
Conclude ==
  /\ phase = "read" /\ page > LastPage
  /\ Open = {}
  /\ write_github_summary
  /\ Exits(IF AllCompleted THEN 0 ELSE 1)
  /\ UNCHANGED <<queueVars, pageOf, tries, group, reading, clock, start>>

StillOpen ==
  /\ phase = "read" /\ page > LastPage
  /\ Open # {}
  /\ phase' = "sleep"
  /\ UNCHANGED <<queueVars, pageOf, tries, group, reading, clock, start, summary, exit>>

\* Mutant: the time a sleep takes does not count.
SleepUntimed ==
  /\ phase = "sleep"
  /\ phase' = "head"
  /\ UNCHANGED <<queueVars, pageOf, tries, group, reading, clock, start, summary,
                 exit>>
Sleep ==
  /\ phase = "sleep"
  /\ clock' = clock + GroupPoll
  /\ phase' = "head"
  /\ UNCHANGED <<queueVars, pageOf, tries, group, reading, start, summary, exit>>

TimedOut ==
  /\ phase = "last" /\ page > LastPage
  /\ write_github_summary
  /\ Exits(1)
  /\ UNCHANGED <<queueVars, pageOf, tries, group, reading, clock, start>>

\* The trigger, the hook's log or a listing raised something nothing catches.
Crash ==
  /\ OtherErrors
  /\ phase \in {"start", "find", "read"}
  /\ Exits(1)
  /\ UNCHANGED <<queueVars, pageOf, tries, group, reading, clock, start, summary>>

---------------------------------------------------------------------------
Script ==
  \/ TriggerHook \/ LeaveUnwatched
  \/ GroupFound \/ FindAgain \/ GroupNotFound
  \/ BeginReading \/ ReadPage \/ ReadFails \/ LastReadFails
  \/ Conclude \/ StillOpen \/ Sleep \/ TimedOut

Environment == phase # "ended" /\ QueueNext /\ UNCHANGED scriptVars

Rest == phase = "ended" /\ UNCHANGED vars

Next == Script \/ Crash \/ Environment \/ Rest

Spec == Init /\ [][Next]_vars

\* The interpreter keeps executing the script; nothing is assumed of the queue.
FairSpec == Spec /\ WF_vars(Script)

---------------------------------------------------------------------------
\* get_task_group_tasks and main: "PASSED: All ... tasks completed" is true of
\* every task that existed when the reading began, though its pages were read
\* at different times; so is a summary that says "Passed".
PassedIsTrue ==
  summary = "Passed" /\ group = "created" =>
    \A x \in had : task[Image][x] = "completed"

\* The decision names its tasks before it completes: a passing listing whose
\* first page held the decision has missed none.
PassedIsWhole ==
  summary = "Passed" /\ group = "created" /\ pageOf[Root] = 1 =>
    \A x \in Members : task[Image][x] \in {"none", "completed"}

\* main: a run that watched its group to the end is red only for a task that
\* did not complete, and its summary says the same as its exit code.
RedIsTrue ==
  /\ summary = "Failed" /\ group = "created" =>
       exit = 1 /\ \E x \in Members : Reported(task[Image][x]) \in Dead
  /\ exit = 0 => summary \in {"none", "Passed"}

\* get_created_task_group_id: a group is polled only when the hook that made
\* it completed; a partial group of a dead hook is not accepted.
OnlyCompletedHooks == group # "none" => hook[Image] = "completed"

\* main: the script is over within its attempts to find the group, or within
\* the attempt that found it, the timeout and less than one polling interval.
EndsInTime ==
  /\ group = "none" => clock <= Tries * DecisionPoll
  /\ group # "none" => clock < (Tries - 1) * DecisionPoll + Timeout + GroupPoll

\* However the queue behaves, the script ends.
Terminates == <>(phase = "ended")
=============================================================================
