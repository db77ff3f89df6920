----------------------------- MODULE HwRunProps -----------------------------
(* What the hardware integration run must not get wrong.                     *)
EXTENDS HwRun

Bad(p) == {t \in Tasks : task[p][t] \in {"failed", "exception"}}

\* A pool is called passed only if its decision completed, it copied at least
\* one task, and every task it copied completed -- whatever the queue did
\* between the listing the verdict is read from and the end of the run.
PassIsSound ==
  phase = "finished" =>
    \A p \in Pools : verdict[p] = "passed" =>
      /\ task[p][Root] = "completed"
      /\ \E t \in Tasks : task[p][t] # "none"
      /\ \A t \in Tasks : task[p][t] \in {"none", "completed"}

\* A task of a finished group that ran and did not pass, and was not given up as
\* blocked, turns the run red: no order of reads, blocked tasks or other pools'
\* verdicts can hide it.
NoFailureIsLost ==
  phase = "finished" =>
    \A p \in done : Bad(p) \ blocked[p] # {} => verdict[p] = "failed" /\ exit = 1

\* refresh_run: a run is done when nothing of it is outstanding -- every task
\* of its group has resolved or is known to be blocked.
DoneMeansResolved ==
  \A p \in done :
    /\ Reported(task[p][Root]) \in Resolved
    /\ \A t \in Tasks : task[p][t] \in Unresolved => t \in blocked[p]

\* find_blocked: a task given up as blocked is one that never runs.
BlockedNeverRuns ==
  \A p \in Pools : \A t \in blocked[p] : task[p][t] \in {"unscheduled", "cancelled"}

\* monitor: a pool in whose group nothing could change any more when the wait
\* ran out is not reported as one that outran the wait.
SettledIsNotTimedOut == settled \intersect timed_out = {}

\* wait_budget: in Actions, where the job's start is known, the polling ends
\* less than one poll interval after the ceiling, or adds no wait at all when
\* discovery has passed the ceiling.
WaitEndsInTime ==
  InActions /\ StampKnown /\ phase \in {"wait", "last", "report"} =>
    clock < WaitCeiling + GroupPoll \/ clock = deadline

\* GitHub never cancels the job before the summary is written.
NeverCancelled == phase # "cancelled"

\* inconclusive_lines: "This run is green because nothing failed on the
\* hardware" -- no listing of a green run that names an inconclusive pool
\* shows a task that did not pass.
GreenBlockIsTrue ==
  phase = "finished" /\ exit = 0 /\ (\E p \in Pools : verdict[p] \notin {"none", "passed"}) =>
    \A p \in Pools : tally(p).bad = {}

\* However the queue behaves, the script ends.
Terminates == <>(phase \in Ended)

\* The run, seen as verdicts: HwVerdict with the states of the real tasks.
Passing(p) == /\ task[p][Root] = "completed"
              /\ \E t \in Tasks : task[p][t] # "none"
              /\ \A t \in Tasks : task[p][t] \in {"none", "completed"}
Seen(v) == IF v \in {"none", "passed", "failed"} THEN v ELSE "inconclusive"
Abstract == INSTANCE HwVerdict WITH
  good <- {p \in Pools : Passing(p)},
  bad  <- {p \in Pools : \E t \in Tasks : task[p][t] \in {"failed", "exception", "cancelled"}},
  verdict <- [p \in Pools |-> IF phase = "finished" THEN Seen(verdict[p]) ELSE "none"]
ImplementsVerdict == Abstract!Spec
=============================================================================
