----------------------------- MODULE HwVerdict -----------------------------
(* What a hardware integration run promises its reader, without saying how:  *)
(* the queue decides, at some time, that every copy of a pool passed or that *)
(* one did not; the run ends once; and what it then says of a pool is true.  *)
EXTENDS Integers

CONSTANTS Pools

VARIABLES
  good,    \* pools whose every task has completed
  bad,     \* pools with a task that was resolved and did not pass
  verdict, \* verdict[p] \in {"none", "passed", "failed", "inconclusive"}
  exit     \* the job's exit code, -1 while it runs

vvars == <<good, bad, verdict, exit>>

Init ==
  /\ good = {}
  /\ bad = {}
  /\ verdict = [p \in Pools |-> "none"]
  /\ exit = -1

TasksPass(p) ==
  /\ exit = -1
  /\ p \notin bad
  /\ good' = good \union {p}
  /\ UNCHANGED <<bad, verdict, exit>>

TaskFails(p) ==
  /\ exit = -1
  /\ p \notin good
  /\ bad' = bad \union {p}
  /\ UNCHANGED <<good, verdict, exit>>

\* One verdict per pool, each with a witness in the queue, and red exactly
\* when one of them is a failure.
Conclude ==
  /\ exit = -1
  /\ verdict' \in [Pools -> {"passed", "failed", "inconclusive"}]
  /\ \A p \in Pools : verdict'[p] = "passed" => p \in good
  /\ \A p \in Pools : verdict'[p] = "failed" => p \in bad
  /\ exit' = IF \E p \in Pools : verdict'[p] = "failed" THEN 1 ELSE 0
  /\ UNCHANGED <<good, bad>>

\* Ending with a verdict on no pool, under either code: refused at
\* pre-flight, not waited for, no task group, a traceback, a cancelled job.
Abandon ==
  /\ exit = -1
  /\ verdict' \in [Pools -> {"none", "inconclusive"}]
  /\ exit' \in {0, 1}
  /\ UNCHANGED <<good, bad>>

Next == Conclude \/ Abandon \/ \E p \in Pools : TasksPass(p) \/ TaskFails(p)

Spec == Init /\ [][Next]_vvars
=============================================================================
