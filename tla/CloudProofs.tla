----------------------------- MODULE CloudProofs -----------------------------
(* Theorems of the cloud side: of the cloud run, for every set of tasks,     *)
(* every number and order of pages and every value of the timing constants;  *)
(* of the decision that copies the tests, whatever the pools and the index   *)
(* answer and however they move; and of the failure summaries, for all runs, *)
(* logs and limits.                                                          *)
EXTENDS CloudRunInv, CloudReplicateInv, FailureSummaryInv, SequenceTheorems,
        FiniteSetTheorems, NaturalsInduction, WellFoundedInduction, TLAPS

\* The least of some numbers.
LEMMA LeastOf ==
  ASSUME NEW S, S \subseteq Nat, S # {} PROVE \E x \in S : \A y \in S : x <= y
<1>1. PICK x \in S : \A y \in S : ~ (<<y, x>> \in OpToRel(<, Nat))
  BY WFMin, NatLessThanWellFounded
<1>2. ASSUME NEW y \in S PROVE x <= y
  <2>1. SUFFICES ASSUME ~(x <= y) PROVE FALSE
    OBVIOUS
  <2>2. x \in Nat /\ y \in Nat /\ y < x
    BY <2>1
  <2> QED BY <1>1, <2>2 DEF OpToRel
<1> QED BY <1>2

(*****************************************************************************)
(* CloudRun                                                                  *)
(*****************************************************************************)
-----------------------------------------------------------------------------
(* The queue: its types, and what none of its steps takes back               *)

\* Moving one task of one group to another state keeps the groups' type.
LEMMA SetTaskType ==
  ASSUME task \in [Pools -> [Members -> TaskStates]],
         NEW p \in Pools, NEW x \in Members, NEW s \in TaskStates, SetTask(p, x, s)
  PROVE  task' \in [Pools -> [Members -> TaskStates]]
<1>1. [task[p] EXCEPT ![x] = s] \in [Members -> TaskStates]  OBVIOUS
<1>2. task' = [task EXCEPT ![p] = [task[p] EXCEPT ![x] = s]]  BY DEF SetTask
<1> QED BY <1>1, <1>2

\* A step of the queue keeps the queue's variables in their types.
LEMMA QueueTypes == QueueTypeOK /\ QueueNext => QueueTypeOK'
<1> SUFFICES ASSUME QueueTypeOK, QueueNext PROVE QueueTypeOK'
    OBVIOUS
<1> USE DEF QueueTypeOK
<1>0. /\ Root \in Members /\ Tasks \subseteq Members
      /\ Resolved \union {"unscheduled", "pending", "running", "cancelled"} \subseteq TaskStates
  BY DEF Members, TaskStates, Unresolved, Resolved
<1>1. ASSUME NEW p \in Pools, HookCreatesDecision(p) \/ HookResolves(p)
      PROVE  QueueTypeOK'
  BY <1>0, <1>1, SetTaskType DEF HookCreatesDecision, HookResolves
<1>2. ASSUME NEW p \in Pools, NEW t \in Tasks,
             DecisionCreatesTask(p, t) \/ TaskScheduled(p, t) \/ TaskCancelled(p, t)
      PROVE  QueueTypeOK'
  BY <1>0, <1>2, SetTaskType DEF DecisionCreatesTask, TaskScheduled, TaskCancelled
<1>3. ASSUME NEW p \in Pools, NEW x \in Members,
             TaskClaimed(p, x) \/ TaskResolves(p, x)
      PROVE  QueueTypeOK'
  BY <1>0, <1>3, SetTaskType DEF TaskClaimed, TaskResolves
<1>4. ASSUME NEW u \in Upstreams,
             UpstreamScheduled(u) \/ UpstreamResolves(u) \/ UpstreamRerun(u)
      PROVE  QueueTypeOK'
  BY <1>4 DEF UpstreamScheduled, UpstreamResolves, UpstreamRerun, TaskStates,
              Unresolved, Resolved
<1> QED BY <1>1, <1>2, <1>3, <1>4 DEF QueueNext

\* What the queue answers is a state of its API.
LEMMA ReportedType == \A s \in TaskStates : Reported(s) \in TaskStates \ {"cancelled"}
  BY DEF TaskStates, Unresolved, Resolved, Reported

\* No step of the queue takes back what has been resolved or created.
LEMMA QueueSteps == QueueTypeOK /\ QueueNext => QueueRespects
<1> SUFFICES ASSUME QueueTypeOK, QueueNext PROVE QueueRespects
    OBVIOUS
<1> USE QueueAssumption DEF QueueTypeOK, QueueRespects, Members, Reported, Resolved, SetTask
<1>1. ASSUME NEW p \in Pools, HookCreatesDecision(p) \/ HookResolves(p)
      PROVE  QueueRespects
  BY <1>1 DEF HookCreatesDecision, HookResolves
<1>2. ASSUME NEW p \in Pools, NEW t \in Tasks,
             DecisionCreatesTask(p, t) \/ TaskScheduled(p, t) \/ TaskCancelled(p, t)
      PROVE  QueueRespects
  BY <1>2 DEF DecisionCreatesTask, TaskScheduled, TaskCancelled
<1>3. ASSUME NEW p \in Pools, NEW x \in Members,
             TaskClaimed(p, x) \/ TaskResolves(p, x)
      PROVE  QueueRespects
  BY <1>3 DEF TaskClaimed, TaskResolves
<1>4. ASSUME NEW u \in Upstreams,
             UpstreamScheduled(u) \/ UpstreamResolves(u) \/ UpstreamRerun(u)
      PROVE  QueueRespects
  BY <1>4 DEF UpstreamScheduled, UpstreamResolves, UpstreamRerun
<1> QED BY <1>1, <1>2, <1>3, <1>4 DEF QueueNext

\* What the constants are assumed to be, in the form the proofs cite.
LEMMA Bounds ==
  /\ Pools = {Image}
  /\ LastPage \in Nat \ {0} /\ Tries \in Nat \ {0}
  /\ DecisionPoll \in Nat \ {0} /\ GroupPoll \in Nat \ {0} /\ Timeout \in Nat
  BY CloudRunAssumption

\* Attempts and the seconds between them multiply to a time.
LEMMA Times == \A n \in Nat :
                 /\ n * DecisionPoll \in Nat
                 /\ (n + 1) * DecisionPoll = n * DecisionPoll + DecisionPoll
                 /\ n < Tries => n * DecisionPoll <= (Tries - 1) * DecisionPoll
                 /\ n <= Tries => n * DecisionPoll <= Tries * DecisionPoll
<1> USE Bounds
<1> SUFFICES ASSUME NEW n \in Nat
    PROVE /\ n * DecisionPoll \in Nat
          /\ (n + 1) * DecisionPoll = n * DecisionPoll + DecisionPoll
          /\ n < Tries => n * DecisionPoll <= (Tries - 1) * DecisionPoll
          /\ n <= Tries => n * DecisionPoll <= Tries * DecisionPoll
  OBVIOUS
<1>1. n * DecisionPoll \in Nat /\ (n + 1) * DecisionPoll = n * DecisionPoll + DecisionPoll
  OBVIOUS
<1>2. n < Tries => n * DecisionPoll <= (Tries - 1) * DecisionPoll
  OBVIOUS
<1>3. n <= Tries => n * DecisionPoll <= Tries * DecisionPoll
  OBVIOUS
<1> QED
  BY <1>1, <1>2, <1>3

USE Bounds

\* The numbers of the script, in the form the proofs cite.
LEMMA Numbers == ASSUME TypeOK
                 PROVE  /\ clock \in Nat /\ start \in Nat
                        /\ tries \in Nat /\ tries <= Tries
                        /\ page \in Nat /\ 1 <= page /\ page <= LastPage + 1
                        /\ \A x \in Members : pageOf[x] \in 1..LastPage
<1>1. clock \in Nat /\ start \in Nat
  BY DEF TypeOK
<1>2. tries \in 0..Tries /\ page \in 1..LastPage + 1
  BY DEF TypeOK
<1>3. \A x \in Members : pageOf[x] \in 1..LastPage
  BY DEF TypeOK
<1> QED
  BY <1>1, <1>2, <1>3

\* The hook is fired before there is a group.
LEMMA TriggerHookInv == ASSUME IInv, TriggerHook  PROVE IInv'
<1> USE DEF TriggerHook, queueVars, reading
<1>1. TypeOK'
  BY Times DEF IInv, TypeOK, QueueTypeOK, TaskStates, GroupFits
<1>2. GroupFits'
  BY DEF IInv, TypeOK, GroupFits
<1>3. ReadIsTrue' /\ HadIsListed' /\ NoneIsMissed'
  BY DEF IInv, TypeOK, GroupFits, ReadIsTrue, HadIsListed, NoneIsMissed, Resolved, Members
<1>4. SummaryFits'
  BY DEF IInv, TypeOK, GroupFits, SummaryFits, Listed, Dead, TaskStates, Unresolved, Resolved
<1>5. ClockFits'
  BY Times DEF IInv, TypeOK, GroupFits, ClockFits
<1> QED
  BY <1>1, <1>2, <1>3, <1>4, <1>5 DEF IInv

\* An unwatched run has read nothing.
LEMMA LeaveUnwatchedInv == ASSUME IInv, LeaveUnwatched  PROVE IInv'
<1> USE DEF LeaveUnwatched, Exits, queueVars, reading
<1>1. TypeOK'
  BY Times DEF IInv, TypeOK, QueueTypeOK, TaskStates, GroupFits
<1>2. GroupFits'
  BY DEF IInv, TypeOK, GroupFits
<1>3. ReadIsTrue' /\ HadIsListed' /\ NoneIsMissed'
  BY DEF IInv, TypeOK, GroupFits, ReadIsTrue, HadIsListed, NoneIsMissed, Resolved, Members
<1>4. SummaryFits'
  BY DEF IInv, TypeOK, GroupFits, SummaryFits, Listed, Dead, TaskStates, Unresolved, Resolved
<1>5. ClockFits'
  BY Times DEF IInv, TypeOK, GroupFits, ClockFits
<1> QED
  BY <1>1, <1>2, <1>3, <1>4, <1>5 DEF IInv

\* A group is found through a completed hook, within the attempts.
LEMMA GroupFoundInv == ASSUME IInv, GroupFound  PROVE IInv'
<1> USE DEF GroupFound, HookCompleted, Finding, queueVars, reading
<1>1. TypeOK'
  BY Times DEF IInv, TypeOK, QueueTypeOK, TaskStates, GroupFits
<1>2. GroupFits'
  BY DEF IInv, TypeOK, GroupFits
<1>3. ReadIsTrue' /\ HadIsListed' /\ NoneIsMissed'
  <2>1. page = 1 /\ tasks = Nothing /\ had = {} /\ phase' = "head"
    BY DEF IInv, GroupFits
  <2>2. \A x \in Members : tasks[x] = "none" /\ pageOf[x] \in Nat /\ ~(pageOf[x] < 1)
    BY <2>1, Numbers DEF IInv, Nothing
  <2> QED
    BY <2>1, <2>2 DEF ReadIsTrue, HadIsListed, NoneIsMissed, Resolved, Members
<1>4. SummaryFits'
  BY DEF IInv, TypeOK, GroupFits, SummaryFits, Listed, Dead, TaskStates, Unresolved, Resolved
<1>5. ClockFits'
  <2>1. tries < Tries /\ clock = tries * DecisionPoll /\ clock \in Nat
    BY Numbers DEF IInv, GroupFits, ClockFits
  <2>2. clock - clock < Timeout + GroupPoll
    BY <2>1
  <2> QED
    BY <2>1, <2>2 DEF ClockFits
<1> QED
  BY <1>1, <1>2, <1>3, <1>4, <1>5 DEF IInv

\* Another attempt takes one interval.
LEMMA FindAgainInv == ASSUME IInv, FindAgain  PROVE IInv'
<1> USE DEF FindAgain, Finding, queueVars, reading
<1>1. TypeOK'
  <2>1. tries \in Nat /\ tries < Tries /\ clock \in Nat
    BY Numbers DEF IInv
  <2>2. tries' \in 0..Tries /\ clock' \in Nat
    BY <2>1
  <2> QED
    BY <2>2 DEF IInv, TypeOK, QueueTypeOK
<1>2. GroupFits'
  BY DEF IInv, TypeOK, GroupFits
<1>3. ReadIsTrue' /\ HadIsListed' /\ NoneIsMissed'
  BY DEF IInv, TypeOK, GroupFits, ReadIsTrue, HadIsListed, NoneIsMissed, Resolved, Members
<1>4. SummaryFits'
  BY DEF IInv, TypeOK, GroupFits, SummaryFits, Listed, Dead, TaskStates, Unresolved, Resolved
<1>5. ClockFits'
  <2>1. tries \in Nat /\ clock \in Nat /\ group = "none" /\ clock = tries * DecisionPoll
    BY Numbers DEF IInv, GroupFits, ClockFits
  <2>2. clock + DecisionPoll = (tries + 1) * DecisionPoll
    BY <2>1, Times
  <2> QED
    BY <2>1, <2>2 DEF ClockFits
<1> QED
  BY <1>1, <1>2, <1>3, <1>4, <1>5 DEF IInv

\* A run without a group has no summary.
LEMMA GroupNotFoundInv == ASSUME IInv, GroupNotFound  PROVE IInv'
<1> USE DEF GroupNotFound, Exits, queueVars, reading
<1>1. TypeOK'
  BY Times DEF IInv, TypeOK, QueueTypeOK, TaskStates, GroupFits
<1>2. GroupFits'
  BY DEF IInv, TypeOK, GroupFits
<1>3. ReadIsTrue' /\ HadIsListed' /\ NoneIsMissed'
  BY DEF IInv, TypeOK, GroupFits, ReadIsTrue, HadIsListed, NoneIsMissed, Resolved, Members
<1>4. SummaryFits'
  BY DEF IInv, TypeOK, GroupFits, SummaryFits, Listed, Dead, TaskStates, Unresolved, Resolved
<1>5. ClockFits'
  BY Times DEF IInv, TypeOK, GroupFits, ClockFits
<1> QED
  BY <1>1, <1>2, <1>3, <1>4, <1>5 DEF IInv

\* A reading begins empty, and what exists then is remembered.
LEMMA BeginReadingInv == ASSUME IInv, BeginReading  PROVE IInv'
<1> USE DEF BeginReading, TimeLeft, Nothing, Created, queueVars, reading
<1>1. TypeOK'
  <2>1. tasks' \in [Members -> TaskStates \ {"cancelled"}] /\ had' \subseteq Members
    BY DEF TaskStates
  <2>2. page' \in 1..LastPage + 1
    OBVIOUS
  <2> QED
    BY <2>1, <2>2 DEF IInv, TypeOK, QueueTypeOK
<1>2. GroupFits'
  BY DEF IInv, TypeOK, GroupFits
<1>3. ReadIsTrue' /\ HadIsListed' /\ NoneIsMissed'
  <2>1. \A x \in Members : tasks'[x] = "none" /\ pageOf[x] \in Nat /\ ~(pageOf[x] < 1)
    BY Numbers DEF IInv
  <2>2. group = "created" => Root \in had'
    BY DEF IInv, GroupFits, Members
  <2> QED
    BY <2>1, <2>2 DEF ReadIsTrue, HadIsListed, NoneIsMissed, Resolved, Members
<1>4. SummaryFits'
  BY DEF IInv, TypeOK, GroupFits, SummaryFits, Listed, Dead, TaskStates, Unresolved, Resolved
<1>5. ClockFits'
  BY Times DEF IInv, TypeOK, GroupFits, ClockFits
<1> QED
  BY <1>1, <1>2, <1>3, <1>4, <1>5 DEF IInv

\* A failed request leaves what was read as it is.
LEMMA ReadFailsInv == ASSUME IInv, ReadFails  PROVE IInv'
<1> USE DEF ReadFails, queueVars, reading
<1>1. TypeOK'
  BY Times DEF IInv, TypeOK, QueueTypeOK, TaskStates, GroupFits
<1>2. GroupFits'
  BY DEF IInv, TypeOK, GroupFits
<1>3. ReadIsTrue' /\ HadIsListed' /\ NoneIsMissed'
  BY DEF IInv, TypeOK, GroupFits, ReadIsTrue, HadIsListed, NoneIsMissed, Resolved, Members
<1>4. SummaryFits'
  BY DEF IInv, TypeOK, GroupFits, SummaryFits, Listed, Dead, TaskStates, Unresolved, Resolved
<1>5. ClockFits'
  BY Times DEF IInv, TypeOK, GroupFits, ClockFits
<1> QED
  BY <1>1, <1>2, <1>3, <1>4, <1>5 DEF IInv

\* The last reading may fail: red, without a summary.
LEMMA LastReadFailsInv == ASSUME IInv, LastReadFails  PROVE IInv'
<1> USE DEF LastReadFails, Exits, queueVars, reading
<1>1. TypeOK'
  BY Times DEF IInv, TypeOK, QueueTypeOK, TaskStates, GroupFits
<1>2. GroupFits'
  BY DEF IInv, TypeOK, GroupFits
<1>3. ReadIsTrue' /\ HadIsListed' /\ NoneIsMissed'
  BY DEF IInv, TypeOK, GroupFits, ReadIsTrue, HadIsListed, NoneIsMissed, Resolved, Members
<1>4. SummaryFits'
  BY DEF IInv, TypeOK, GroupFits, SummaryFits, Listed, Dead, TaskStates, Unresolved, Resolved
<1>5. ClockFits'
  BY Times DEF IInv, TypeOK, GroupFits, ClockFits
<1> QED
  BY <1>1, <1>2, <1>3, <1>4, <1>5 DEF IInv

\* The summary and the exit code are of one whole listing.
LEMMA ConcludeInv == ASSUME IInv, Conclude  PROVE IInv'
<1> USE DEF Conclude, Exits, write_github_summary, AllCompleted, Open, queueVars, reading
<1>1. TypeOK'
  BY Times DEF IInv, TypeOK, QueueTypeOK, TaskStates, GroupFits
<1>2. GroupFits'
  BY DEF IInv, TypeOK, GroupFits
<1>3. ReadIsTrue' /\ HadIsListed' /\ NoneIsMissed'
  BY DEF IInv, TypeOK, GroupFits, ReadIsTrue, HadIsListed, NoneIsMissed, Resolved, Members
<1>4. SummaryFits'
  <2>1. tasks \in [Members -> TaskStates \ {"cancelled"}] /\ summary = "none" /\ page > LastPage
    BY DEF IInv, TypeOK, SummaryFits
  <2>2. ASSUME summary' = "Passed"  PROVE \A x \in Members : tasks[x] \in {"none", "completed"}
    BY <2>1, <2>2 DEF Listed, Dead, TaskStates, Unresolved, Resolved
  <2>3. ASSUME summary' = "Failed"  PROVE exit' = 1 /\ Listed(Dead) # {}
    BY <2>1, <2>3 DEF Listed, Dead, Unresolved, Resolved
  <2>4. ASSUME exit' = 0  PROVE summary' \in {"none", "Passed"}
    <3>1. Listed({"completed"}) = Listed(Unresolved \union Resolved)
      BY <2>4
    <3>2. Listed(Dead) = {}
      BY <3>1 DEF Listed, Dead, Resolved
    <3> QED
      BY <3>2
  <2> QED
    BY <2>1, <2>2, <2>3, <2>4 DEF SummaryFits, Listed
<1>5. ClockFits'
  BY Times DEF IInv, TypeOK, GroupFits, ClockFits
<1> QED
  BY <1>1, <1>2, <1>3, <1>4, <1>5 DEF IInv

\* An open task sends the script to sleep.
LEMMA StillOpenInv == ASSUME IInv, StillOpen  PROVE IInv'
<1> USE DEF StillOpen, queueVars, reading
<1>1. TypeOK'
  BY Times DEF IInv, TypeOK, QueueTypeOK, TaskStates, GroupFits
<1>2. GroupFits'
  BY DEF IInv, TypeOK, GroupFits
<1>3. ReadIsTrue' /\ HadIsListed' /\ NoneIsMissed'
  BY DEF IInv, TypeOK, GroupFits, ReadIsTrue, HadIsListed, NoneIsMissed, Resolved, Members
<1>4. SummaryFits'
  BY DEF IInv, TypeOK, GroupFits, SummaryFits, Listed, Dead, TaskStates, Unresolved, Resolved
<1>5. ClockFits'
  BY Times DEF IInv, TypeOK, GroupFits, ClockFits
<1> QED
  BY <1>1, <1>2, <1>3, <1>4, <1>5 DEF IInv

\* A sleep takes one interval.
LEMMA SleepInv == ASSUME IInv, Sleep  PROVE IInv'
<1> USE DEF Sleep, queueVars, reading
<1>1. TypeOK'
  <2>1. clock' \in Nat
    BY Numbers DEF IInv
  <2> QED
    BY <2>1 DEF IInv, TypeOK, QueueTypeOK
<1>2. GroupFits'
  BY DEF IInv, TypeOK, GroupFits
<1>3. ReadIsTrue' /\ HadIsListed' /\ NoneIsMissed'
  BY DEF IInv, TypeOK, GroupFits, ReadIsTrue, HadIsListed, NoneIsMissed, Resolved, Members
<1>4. SummaryFits'
  BY DEF IInv, TypeOK, GroupFits, SummaryFits, Listed, Dead, TaskStates, Unresolved, Resolved
<1>5. ClockFits'
  <2>1. clock \in Nat /\ start \in Nat /\ group # "none"
    BY Numbers DEF IInv, GroupFits
  <2>2. tries < Tries /\ start = tries * DecisionPoll /\ start <= clock /\ clock - start < Timeout
    BY <2>1 DEF IInv, ClockFits
  <2>3. start <= clock' /\ clock' - start < Timeout + GroupPoll
    BY <2>1, <2>2
  <2> QED
    BY <2>1, <2>2, <2>3 DEF ClockFits
<1> QED
  BY <1>1, <1>2, <1>3, <1>4, <1>5 DEF IInv

\* The summary of a timeout is of one whole listing, and red.
LEMMA TimedOutInv == ASSUME IInv, TimedOut  PROVE IInv'
<1> USE DEF TimedOut, Exits, write_github_summary, Open, queueVars, reading
<1>1. TypeOK'
  BY Times DEF IInv, TypeOK, QueueTypeOK, TaskStates, GroupFits
<1>2. GroupFits'
  BY DEF IInv, TypeOK, GroupFits
<1>3. ReadIsTrue' /\ HadIsListed' /\ NoneIsMissed'
  BY DEF IInv, TypeOK, GroupFits, ReadIsTrue, HadIsListed, NoneIsMissed, Resolved, Members
<1>4. SummaryFits'
  <2>1. tasks \in [Members -> TaskStates \ {"cancelled"}] /\ summary = "none" /\ page > LastPage
    BY DEF IInv, TypeOK, SummaryFits
  <2>2. ASSUME summary' = "Passed"  PROVE \A x \in Members : tasks[x] \in {"none", "completed"}
    BY <2>1, <2>2 DEF Listed, Dead, TaskStates, Unresolved, Resolved
  <2>3. ASSUME summary' = "Failed"  PROVE exit' = 1 /\ Listed(Dead) # {}
    BY <2>1, <2>3 DEF Listed, Dead, Unresolved, Resolved
  <2>4. exit' = 1
    OBVIOUS
  <2>5. exit' # 0
    <3> HIDE DEF TimedOut, write_github_summary, Open, Exits
    <3> QED
      BY <2>4
  <2> QED
    BY <2>1, <2>2, <2>3, <2>4, <2>5 DEF SummaryFits, Listed
<1>5. ClockFits'
  BY Times DEF IInv, TypeOK, GroupFits, ClockFits
<1> QED
  BY <1>1, <1>2, <1>3, <1>4, <1>5 DEF IInv

\* A crash is red and leaves no summary.
LEMMA CrashInv == ASSUME IInv, Crash  PROVE IInv'
<1> USE DEF Crash, Exits, queueVars, reading
<1>1. TypeOK'
  BY Times DEF IInv, TypeOK, QueueTypeOK, TaskStates, GroupFits
<1>2. GroupFits'
  BY DEF IInv, TypeOK, GroupFits
<1>3. ReadIsTrue' /\ HadIsListed' /\ NoneIsMissed'
  BY DEF IInv, TypeOK, GroupFits, ReadIsTrue, HadIsListed, NoneIsMissed, Resolved, Members
<1>4. SummaryFits'
  BY DEF IInv, TypeOK, GroupFits, SummaryFits, Listed, Dead, TaskStates, Unresolved, Resolved
<1>5. ClockFits'
  BY Times DEF IInv, TypeOK, GroupFits, ClockFits
<1> QED
  BY <1>1, <1>2, <1>3, <1>4, <1>5 DEF IInv

\* A page is the truth of its moment.
LEMMA ReadPageInv == ASSUME IInv, ReadPage  PROVE IInv'
<1> USE DEF ReadPage, Reading, queueVars
<1>1. tasks' \in [Members -> TaskStates \ {"cancelled"}]
  <2>1. \A x \in Members : Reported(task[Image][x]) \in TaskStates \ {"cancelled"}
    BY ReportedType DEF IInv, TypeOK, QueueTypeOK
  <2>2. hook[Image] \in TaskStates \ {"cancelled"}
    BY DEF IInv, TypeOK, QueueTypeOK, TaskStates, Unresolved, Resolved
  <2> QED
    BY <2>1, <2>2 DEF IInv, TypeOK
<1>2. TypeOK'
  <2>1. page' \in 1..LastPage + 1
    BY Numbers DEF IInv
  <2> QED
    BY <1>1, <2>1 DEF IInv, TypeOK, QueueTypeOK
<1>3. GroupFits'
  BY DEF IInv, GroupFits
<1>4. \A x \in Members : group = "created" =>
        tasks'[x] = IF pageOf[x] = page THEN Reported(task[Image][x]) ELSE tasks[x]
  OBVIOUS
<1>5. ReadIsTrue'
  BY <1>4 DEF IInv, ReadIsTrue
<1>6. page' = page + 1 /\ page \in Nat /\ \A x \in Members : pageOf[x] \in Nat
  BY Numbers DEF IInv
<1>7. HadIsListed'
  <2> SUFFICES ASSUME group = "created"
      PROVE /\ \A x \in had : task[Image][x] # "none"
            /\ \A x \in had : pageOf[x] < page + 1 => tasks'[x] # "none"
            /\ Root \in had
    BY <1>6 DEF HadIsListed
  <2>1. \A x \in had : task[Image][x] # "none"
    BY DEF IInv, HadIsListed
  <2>2. ASSUME NEW x \in had, pageOf[x] < page + 1  PROVE tasks'[x] # "none"
    <3>1. x \in Members /\ task[Image][x] # "none"
      BY <2>1 DEF IInv, TypeOK
    <3>2. CASE pageOf[x] = page
      BY <1>4, <3>1, <3>2 DEF Reported
    <3>3. CASE pageOf[x] # page
      <4>1. pageOf[x] < page
        BY <1>6, <2>2, <3>1, <3>3
      <4> QED
        BY <1>4, <3>1, <3>3, <4>1 DEF IInv, HadIsListed
    <3> QED
      BY <3>2, <3>3
  <2>3. Root \in had
    BY DEF IInv, HadIsListed
  <2> QED
    BY <2>1, <2>2, <2>3
<1>8. NoneIsMissed'
  <2> SUFFICES ASSUME group = "created", pageOf[Root] = 1, tasks'[Root] = "completed",
                      NEW x \in Members, task[Image][x] # "none", pageOf[x] < page + 1
               PROVE  tasks'[x] # "none"
    BY <1>6 DEF NoneIsMissed
  <2>1. CASE pageOf[x] = page
    BY <1>4, <2>1 DEF Reported
  <2>2. CASE pageOf[x] # page
    <3>1. pageOf[x] < page /\ 1 <= pageOf[x]
      BY <1>6, <2>2, Numbers DEF IInv
    <3>2. tasks[Root] = "completed"
      BY <1>4, <1>6, <3>1 DEF Members
    <3>3. tasks[x] # "none"
      BY <3>1, <3>2 DEF IInv, NoneIsMissed
    <3> QED
      BY <1>4, <2>2, <3>3
  <2> QED
    BY <2>1, <2>2
<1>9. SummaryFits'
  BY DEF IInv, SummaryFits
<1>10. ClockFits'
  BY DEF IInv, ClockFits
<1> QED
  BY <1>2, <1>3, <1>5, <1>7, <1>8, <1>9, <1>10 DEF IInv

\* What was read as resolved stays so, and what was there stays there.
LEMMA EnvironmentInv == ASSUME IInv, Environment  PROVE IInv'
<1> USE DEF Environment, scriptVars, reading
<1>1. QueueTypeOK' /\ QueueRespects
  BY QueueTypes, QueueSteps DEF IInv, TypeOK
<1>2. TypeOK'
  BY <1>1 DEF IInv, TypeOK
<1>3. GroupFits'
  BY <1>1 DEF IInv, GroupFits, QueueRespects, Members, Resolved
<1>4. ReadIsTrue'
  BY <1>1 DEF IInv, ReadIsTrue, QueueRespects
<1>5. HadIsListed'
  BY <1>1 DEF IInv, TypeOK, HadIsListed, QueueRespects
<1>6. NoneIsMissed'
  <2> SUFFICES ASSUME group = "created", pageOf[Root] = 1, tasks[Root] = "completed",
                      NEW x \in Members, task'[Image][x] # "none", pageOf[x] < page
               PROVE  tasks[x] # "none"
    BY DEF NoneIsMissed
  <2>1. Reported(task[Image][Root]) \in Resolved
    BY DEF IInv, ReadIsTrue, Members, Resolved
  <2>2. task[Image][x] # "none"
    BY <1>1, <2>1 DEF QueueRespects, Members, IInv, GroupFits
  <2> QED
    BY <2>2 DEF IInv, NoneIsMissed
<1>7. SummaryFits'
  BY DEF IInv, SummaryFits, Listed
<1>8. ClockFits'
  BY DEF IInv, ClockFits
<1> QED
  BY <1>2, <1>3, <1>4, <1>5, <1>6, <1>7, <1>8 DEF IInv

\* A step that changes nothing keeps the invariant.
LEMMA StutterInv == ASSUME IInv, UNCHANGED vars  PROVE IInv'
  BY DEF IInv, vars, queueVars, scriptVars, reading, TypeOK, QueueTypeOK, GroupFits,
         ReadIsTrue, HadIsListed, NoneIsMissed, SummaryFits, ClockFits, Listed

\* Before the hook is fired nothing exists.
LEMMA InitInv == ASSUME Init  PROVE IInv
<1>1. QueueTypeOK
  BY DEF Init, QueueInit, QueueTypeOK, TaskStates, Unresolved, Resolved
<1>2. TypeOK
  BY <1>1 DEF Init, TypeOK, Nothing, TaskStates
<1> QED
  BY <1>2, Times DEF Init, IInv, GroupFits, ReadIsTrue, HadIsListed, NoneIsMissed, SummaryFits,
     ClockFits, Nothing, Resolved, Members

\* Every step keeps the invariant: one case per action.
LEMMA StepInv == ASSUME IInv, [Next]_vars  PROVE IInv'
  BY TriggerHookInv, LeaveUnwatchedInv, GroupFoundInv, FindAgainInv, GroupNotFoundInv, BeginReadingInv, ReadFailsInv, LastReadFailsInv, ConcludeInv, StillOpenInv, SleepInv, TimedOutInv, CrashInv,
     ReadPageInv, EnvironmentInv, StutterInv DEF Next, Script, Rest

\* Every reachable state satisfies the inductive invariant.
THEOREM Invariance == Spec => []IInv
<1>1. Init => IInv
  BY InitInv
<1>2. IInv /\ [Next]_vars => IInv'
  BY StepInv
<1> QED
  BY <1>1, <1>2, PTL DEF Spec

\* Type correctness of the script and of its readings.
THEOREM CloudTypeCorrect == Spec => []TypeOK
<1>1. IInv => TypeOK
  BY DEF IInv
<1> QED
  BY <1>1, Invariance, PTL

\* A listing is read over any number of requests while the queue moves, and
\* what it calls passed had passed.
THEOREM PassedWasTrue == Spec => []PassedIsTrue
<1>1. IInv => PassedIsTrue
  <2> SUFFICES ASSUME IInv, summary = "Passed", group = "created", NEW x \in had
               PROVE  task[Image][x] = "completed"
    BY DEF PassedIsTrue
  <2>1. x \in Members /\ pageOf[x] \in 1..LastPage /\ page > LastPage /\ page \in Nat
    BY DEF IInv, TypeOK, SummaryFits
  <2>2. tasks[x] = "completed"
    BY <2>1 DEF IInv, HadIsListed, SummaryFits
  <2> QED
    BY <2>1, <2>2 DEF IInv, ReadIsTrue, Resolved, Reported
<1> QED
  BY <1>1, Invariance, PTL

\* A passing listing whose first page has the decision has missed no task.
THEOREM PassedWasWhole == Spec => []PassedIsWhole
<1>1. IInv => PassedIsWhole
  <2> SUFFICES ASSUME IInv, summary = "Passed", group = "created", pageOf[Root] = 1,
                      NEW x \in Members, task[Image][x] # "none"
               PROVE  task[Image][x] = "completed"
    BY DEF PassedIsWhole
  <2>1. \A y \in Members : pageOf[y] < page
    BY DEF IInv, TypeOK, SummaryFits
  <2>2. \A y \in Members : tasks[y] \in {"none", "completed"}
    BY DEF IInv, SummaryFits
  <2>3. tasks[Root] = "completed"
    BY <2>1, <2>2 DEF IInv, TypeOK, SummaryFits, HadIsListed, Members
  <2>4. tasks[x] = "completed"
    BY <2>1, <2>2, <2>3 DEF IInv, NoneIsMissed
  <2> QED
    BY <2>4 DEF IInv, ReadIsTrue, Resolved, Reported
<1> QED
  BY <1>1, Invariance, PTL

\* Red is a task that did not complete, and the summary says what the code says.
THEOREM RedWasTrue == Spec => []RedIsTrue
<1>1. IInv => RedIsTrue
  BY DEF IInv, SummaryFits, Listed, ReadIsTrue, RedIsTrue, Dead, Resolved
<1> QED
  BY <1>1, Invariance, PTL

\* No partial group of a dead hook is polled.
THEOREM HooksCompleted == Spec => []OnlyCompletedHooks
<1>1. IInv => OnlyCompletedHooks
  BY DEF IInv, GroupFits, OnlyCompletedHooks
<1> QED
  BY <1>1, Invariance, PTL

\* Whatever the queue does, the script is over in its time.
THEOREM EndsInItsTime == Spec => []EndsInTime
<1>1. IInv => EndsInTime
  <2> SUFFICES ASSUME IInv  PROVE EndsInTime
    OBVIOUS
  <2>1. tries \in Nat /\ tries <= Tries /\ clock \in Nat /\ start \in Nat
    BY Numbers DEF IInv
  <2>2. CASE group = "none"
    BY <2>1, <2>2, Times DEF IInv, ClockFits, EndsInTime
  <2>3. CASE group # "none"
    <3>1. start <= (Tries - 1) * DecisionPoll /\ (Tries - 1) * DecisionPoll \in Nat
      BY <2>1, <2>3, Times DEF IInv, ClockFits
    <3>2. clock - start < Timeout + GroupPoll
      BY <2>3 DEF IInv, ClockFits
    <3> HIDE Bounds
    <3> DEFINE T == (Tries - 1) * DecisionPoll
    <3>3. clock < T + Timeout + GroupPoll
      <4> HIDE DEF T
      <4>1. T \in Nat /\ start <= T
        BY <3>1 DEF T
      <4> QED
        BY <2>1, <3>2, <4>1, Bounds
    <3> QED
      BY <2>3, <3>3 DEF EndsInTime
  <2> QED
    BY <2>2, <2>3
<1> QED
  BY <1>1, Invariance, PTL

(*****************************************************************************)
(* CloudReplicate                                                            *)
(*****************************************************************************)
-----------------------------------------------------------------------------
(* Types                                                                     *)

\* What the pools are read to boot are images.
LEMMA ImagesType ==
  ASSUME NEW a \in Answers
  PROVE  LET known == get_worker_pool_images(a)
         IN DOMAIN known \subseteq WorkerPools /\ known \in [DOMAIN known -> SUBSET Images]
<1>1. \A p \in DOMAIN a : \A lc \in a[p] : ImageOf(lc) \in Images \union {Unmatched}
  <2> SUFFICES ASSUME NEW p \in DOMAIN a, NEW lc \in a[p]
               PROVE  ImageOf(lc) \in Images \union {Unmatched}
    OBVIOUS
  <2>1. lc \in LaunchConfigs
    BY CloudReplicateAssumption
  <2>2. PICK F \in SUBSET Forms : lc \in [F -> Images \union {Unmatched}]
    BY <2>1 DEF LaunchConfigs
  <2> QED BY <2>2 DEF ImageOf
<1>2. \A p \in DOMAIN a : ImagesOf(a, p) \in SUBSET Images
  BY <1>1 DEF ImagesOf
<1> QED BY <1>2 DEF get_worker_pool_images, WorkerPools

\* Nothing but the pools that were read and the request decides where a copy goes.
LEMMA PlacesStay ==
  ASSUME UNCHANGED <<images, request>>, NEW t
  PROVE  get_image_compatible_alpha_worker_type(t)' = get_image_compatible_alpha_worker_type(t)
<1>1. \A p : pool_matches_images(p)' = pool_matches_images(p)
  BY DEF pool_matches_images
<1>2. Candidates(t)' = Candidates(t)
  BY <1>1 DEF Candidates
<1> QED BY <1>1, <1>2 DEF get_image_compatible_alpha_worker_type

\* Where a copy goes is a pool that was read, its own or one that stands in.
LEMMA PlacesAre ==
  ASSUME NEW t, NEW p \in get_image_compatible_alpha_worker_type(t)
  PROVE  p \in MayRun(t)
BY DEF get_image_compatible_alpha_worker_type, First, Candidates, MayRun

\* Each step keeps the types: a copy goes to a pool that is known.
LEMMA CopyTypeNext == ASSUME CopyTypeOK, SourceIsKnown, NothingYet, HandIsPlaced, CopiesArePlaced, [CopyNext]_copyVars PROVE CopyTypeOK'
<1> USE CloudReplicateAssumption
<1>1. CASE ReadPools
  <2>1. copies = {}
    BY <1>1 DEF ReadPools, NothingYet
  <2> QED BY <1>1, <2>1, ImagesType DEF ReadPools, CopyTypeOK, outside
<1>2. CASE Replicate
  BY <1>2 DEF Replicate, CopyTypeOK, outside
<1>3. ASSUME NEW t \in Tests, ChangeWorkerPool(t) PROVE CopyTypeOK'
  <2>1. \A p \in get_image_compatible_alpha_worker_type(t) : p \in WorkerPools
    BY PlacesAre DEF CopyTypeOK, MayRun
  <2>2. UNCHANGED <<images, request>>
    BY <1>3 DEF ChangeWorkerPool
  <2> QED BY <1>3, <2>1 DEF ChangeWorkerPool, CopyTypeOK, outside
<1>4. CASE FetchRevisions
  BY <1>4 DEF FetchRevisions, CopyTypeOK, outside
<1>5. CASE RestoreRevision
  <2>1. PICK t \in Tests : \E p \in get_image_compatible_alpha_worker_type(t) : hand = <<t, p>>
    BY <1>5 DEF RestoreRevision, HandIsPlaced
  <2>2. hand[1] \in Tests /\ hand[2] \in DOMAIN images
    BY <2>1, PlacesAre DEF MayRun
  <2> QED BY <1>5, <2>2 DEF RestoreRevision, CopyTypeOK, outside
<1>6. CASE ReadPoolsAgain
  BY <1>6, ImagesType DEF ReadPoolsAgain, CopyTypeOK, outside
<1>7. CASE Optimise
  BY <1>7 DEF Optimise, CopyTypeOK, outside
<1>8. CASE Fail
  BY <1>8 DEF Fail, CopyTypeOK, outside
<1>9. CASE Outside
  BY <1>9 DEF Outside, Reconfigure, NextDecision, CopyTypeOK
<1>10. CASE UNCHANGED copyVars
  BY <1>10 DEF copyVars, outside, CopyTypeOK
<1> QED BY <1>1, <1>2, <1>3, <1>4, <1>5, <1>6, <1>7, <1>8, <1>9, <1>10 DEF CopyNext

-----------------------------------------------------------------------------
(* The revisions                                                             *)

\* No step changes the revisions once there are copies.
LEMMA RevisionsNext ==
  ASSUME NothingYet, RevisionsAreRead, [CopyNext]_copyVars PROVE RevisionsAreRead'
<1>1. CASE ReadPools
  BY <1>1 DEF ReadPools, RevisionsAreRead, Unread
<1>2. CASE FetchRevisions
  <2>1. copies = {} /\ copies' = {}
    BY <1>2 DEF FetchRevisions, RevisionsAreRead
  <2> QED BY <2>1 DEF RevisionsAreRead
<1>3. CASE RestoreRevision
  BY <1>3 DEF RestoreRevision, Restored, RevisionsAreRead, Unread
<1>4. CASE UNCHANGED <<copies, revs>>
  BY <1>4 DEF RevisionsAreRead, Unread
<1>5. ASSUME CopyNext, ~ ReadPools, ~ FetchRevisions, ~ RestoreRevision PROVE UNCHANGED <<copies, revs>>
  BY <1>5 DEF CopyNext, Replicate, ChangeWorkerPool, ReadPoolsAgain, Optimise, Fail, Outside
<1>6. CASE UNCHANGED copyVars
  BY <1>4, <1>6 DEF copyVars
<1> QED BY <1>1, <1>2, <1>3, <1>4, <1>5, <1>6

\* Revisions read once are those of one decision, or there is none.
LEMMA RevisionsAgree == CopyTypeOK /\ RevisionsAreRead => OneRevision
<1> SUFFICES ASSUME CopyTypeOK, RevisionsAreRead PROVE OneRevision
  OBVIOUS
<1>1. CASE copies = {}
  BY <1>1 DEF OneRevision
<1>2. CASE copies # {}
  <2>1. revs \in {NoRevisions} \union {Revision[d] : d \in 1 .. Decisions}
    BY <1>2 DEF CopyTypeOK, RevisionsAreRead
  <2> QED BY <2>1 DEF OneRevision, RevisionsAreRead
<1> QED BY <1>1, <1>2

-----------------------------------------------------------------------------
(* The tests                                                                 *)

\* The steps of the decision itself that neither read pools nor make a copy.
LEMMA PlacedNext ==
  ASSUME NothingYet, HandIsPlaced, CopiesArePlaced, [CopyNext]_copyVars
  PROVE  NothingYet' /\ HandIsPlaced' /\ CopiesArePlaced'
<1>1. CASE ReadPools
  <2>1. copies' = {} /\ step' = "replicate"
    BY <1>1 DEF ReadPools, NothingYet
  <2> QED BY <2>1 DEF NothingYet, HandIsPlaced, CopiesArePlaced
<1>2. ASSUME ~ ReadPools PROVE UNCHANGED <<images, request>>
  BY <1>2 DEF CopyNext, copyVars, Replicate, ChangeWorkerPool, FetchRevisions, RestoreRevision,
              ReadPoolsAgain, Optimise, Fail, Outside
<1>3. ASSUME NEW t \in Tests, ChangeWorkerPool(t) PROVE NothingYet' /\ HandIsPlaced' /\ CopiesArePlaced'
  <2>1. UNCHANGED <<images, request, copies>> /\ step' # "pools"
    BY <1>3 DEF ChangeWorkerPool
  <2>2. step' = "restore" => \E p \in get_image_compatible_alpha_worker_type(t) : hand' = <<t, p>>
    BY <1>3 DEF ChangeWorkerPool
  <2> QED BY <2>1, <2>2, PlacesStay DEF NothingYet, HandIsPlaced, CopiesArePlaced
<1>4. CASE RestoreRevision
  <2>1. UNCHANGED <<images, request>> /\ step' = "change"
    BY <1>4 DEF RestoreRevision
  <2>2. PICK t \in Tests : \E p \in get_image_compatible_alpha_worker_type(t) : hand = <<t, p>>
    BY <1>4 DEF RestoreRevision, HandIsPlaced
  <2>3. hand[1] = t /\ hand[2] \in get_image_compatible_alpha_worker_type(t)
    BY <2>2
  <2>4. \A c \in copies' : c \in copies \/ (c.task = t /\ c.pool = hand[2])
    BY <1>4, <2>3 DEF RestoreRevision
  <2>5. CopiesArePlaced'
    BY <2>1, <2>3, <2>4, PlacesStay DEF CopiesArePlaced
  <2> QED BY <2>1, <2>5 DEF NothingYet, HandIsPlaced
<1>5. CASE /\ UNCHANGED <<images, request, hand, copies>>
           /\ step' = step \/ step' \notin {"pools", "restore"}
  BY <1>5, PlacesStay DEF NothingYet, HandIsPlaced, CopiesArePlaced
<1>6. ASSUME CopyNext, ~ ReadPools, ~ RestoreRevision, ~ \E t \in Tests : ChangeWorkerPool(t)
      PROVE  /\ UNCHANGED <<images, request, hand, copies>>
             /\ step' = step \/ step' \notin {"pools", "restore"}
  BY <1>6 DEF CopyNext, Replicate, FetchRevisions, ReadPoolsAgain, Optimise, Fail, Outside
<1>7. CASE UNCHANGED copyVars
  BY <1>5, <1>7 DEF copyVars
<1> QED BY <1>1, <1>3, <1>4, <1>5, <1>6, <1>7

\* No step forgets a test of the decision that is copied.
LEMMA VisitedNext ==
  ASSUME CopyTypeOK, SourceIsKnown, HandIsPlaced, NoneIsForgotten, AllAreVisited, CreatedAreLeft, [CopyNext]_copyVars
  PROVE  SourceIsKnown' /\ NoneIsForgotten' /\ AllAreVisited' /\ CreatedAreLeft'
<1>1. CASE ReadPools
  BY <1>1 DEF ReadPools, SourceIsKnown, NoneIsForgotten, AllAreVisited, CreatedAreLeft, Begun
<1>2. CASE Replicate
  <2>1. /\ source' \in 1 .. Decisions /\ todo' = Replicable[source'] /\ step' = "change"
    BY <1>2, CloudReplicateAssumption DEF Replicate, CopyTypeOK
  <2> QED BY <2>1 DEF SourceIsKnown, NoneIsForgotten, AllAreVisited, CreatedAreLeft, Begun
<1>3. ASSUME NEW t \in Tests, ChangeWorkerPool(t)
      PROVE  SourceIsKnown' /\ NoneIsForgotten' /\ AllAreVisited' /\ CreatedAreLeft'
  <2>1. /\ UNCHANGED <<images, request, copies, source>> /\ step = "change"
        /\ todo' = todo \ {t} /\ step' \in {"change", "restore"}
    BY <1>3 DEF ChangeWorkerPool
  <2>2. get_image_compatible_alpha_worker_type(t) = {} \/ (step' = "restore" /\ hand'[1] = t)
    BY <1>3 DEF ChangeWorkerPool
  <2>3. NoneIsForgotten'
    BY <2>1, <2>2, PlacesStay DEF NoneIsForgotten, Begun
  <2> QED BY <2>1, <2>3 DEF SourceIsKnown, AllAreVisited, CreatedAreLeft, Begun
<1>4. CASE FetchRevisions
  <2>1. UNCHANGED <<step, images, request, copies, source, todo, hand>> /\ step = "restore"
    BY <1>4 DEF FetchRevisions
  <2> QED BY <2>1, PlacesStay DEF SourceIsKnown, NoneIsForgotten, AllAreVisited, CreatedAreLeft, Begun
<1>5. CASE RestoreRevision
  <2>1. /\ UNCHANGED <<images, request, source, todo>> /\ step = "restore" /\ step' = "change"
    BY <1>5 DEF RestoreRevision
  <2>2. copies \subseteq copies' /\ \E c \in copies' : c.task = hand[1]
    <3> DEFINE new == [task |-> hand[1], pool |-> hand[2], revision |-> Restored(hand[1])]
    <3>1. copies' = copies \union {new}
      BY <1>5 DEF RestoreRevision
    <3>2. new.task = hand[1]
      OBVIOUS
    <3> HIDE DEF new
    <3> QED BY <3>1, <3>2
  <2>3. NoneIsForgotten'
    BY <2>1, <2>2, PlacesStay DEF NoneIsForgotten, Begun
  <2> QED BY <2>1, <2>3 DEF SourceIsKnown, AllAreVisited, CreatedAreLeft, Begun
<1>6. CASE ReadPoolsAgain
  <2>1. /\ UNCHANGED <<images, request, source, todo, copies>> /\ step = "change" /\ step' = "optimise"
        /\ todo = {}
    BY <1>6 DEF ReadPoolsAgain
  <2> QED BY <2>1, PlacesStay DEF SourceIsKnown, NoneIsForgotten, AllAreVisited, CreatedAreLeft, Begun
<1>7. CASE Optimise
  <2>1. /\ UNCHANGED <<images, request, source, todo, copies, again>> /\ step = "optimise" /\ step' = "done"
        /\ created' = {c \in copies : ~should_remove_task(c)}
    BY <1>7 DEF Optimise
  <2>2. \A c : should_remove_task(c)' = should_remove_task(c)
    BY <2>1 DEF should_remove_task
  <2>3. CreatedAreLeft'
    BY <2>1, <2>2 DEF CreatedAreLeft
  <2> QED BY <2>1, <2>3, PlacesStay DEF SourceIsKnown, NoneIsForgotten, AllAreVisited, Begun
<1>8. CASE Fail
  BY <1>8 DEF Fail, SourceIsKnown, NoneIsForgotten, AllAreVisited, CreatedAreLeft, Begun
<1>9. CASE UNCHANGED <<step, images, request, copies, source, todo, hand, again, created>>
  <2>1. \A c : should_remove_task(c)' = should_remove_task(c)
    BY <1>9 DEF should_remove_task
  <2> QED BY <1>9, <2>1, PlacesStay DEF SourceIsKnown, NoneIsForgotten, AllAreVisited, CreatedAreLeft, Begun
<1>10. CASE Outside
  BY <1>9, <1>10 DEF Outside
<1>11. CASE UNCHANGED copyVars
  BY <1>9, <1>11 DEF copyVars
<1> QED BY <1>1, <1>2, <1>3, <1>4, <1>5, <1>6, <1>7, <1>8, <1>10, <1>11 DEF CopyNext

\* Every reachable state of the decision that copies the tests satisfies its
\* inductive invariant.
THEOREM CopyInvariant == CopySpec => []CopyIInv
<1>1. CopyInit => CopyIInv
  <2> SUFFICES ASSUME CopyInit PROVE CopyIInv
    OBVIOUS
  <2>1. DOMAIN << >> = {}
    OBVIOUS
  <2>2. CopyTypeOK
    BY <2>1, CloudReplicateAssumption DEF CopyInit, CopyTypeOK
  <2> QED BY <2>2 DEF CopyInit, CopyIInv, SourceIsKnown, NothingYet, HandIsPlaced, CopiesArePlaced,
          NoneIsForgotten, AllAreVisited, CreatedAreLeft, RevisionsAreRead, Begun
<1>2. CopyIInv /\ [CopyNext]_copyVars => CopyIInv'
  BY CopyTypeNext, RevisionsNext, PlacedNext, VisitedNext DEF CopyIInv
<1> QED BY <1>1, <1>2, PTL DEF CopySpec

\* However the index moves between two reads, the copies' revisions are those of
\* one decision (integration_test.py, _fetch_gecko_revision_env).
THEOREM RevisionsAgreed == CopySpec => []OneRevision
<1>1. CopyIInv => OneRevision
  BY RevisionsAgree DEF CopyIInv
<1> QED BY <1>1, CopyInvariant, PTL

\* Of some pools one is first by name.
LEMMA FirstIs == ASSUME NEW S \in SUBSET WorkerPools, S # {} PROVE First(S) # {}
<1> DEFINE ranks == {Rank[p] : p \in S}
<1>1. ranks \subseteq Nat /\ ranks # {}
  BY CloudReplicateAssumption
<1>2. PICK r \in ranks : \A q \in ranks : r <= q
  <2> HIDE DEF ranks
  <2> QED BY <1>1, LeastOf
<1>3. PICK p \in S : Rank[p] = r
  BY <1>2
<1>4. \A q \in S : Rank[p] <= Rank[q]
  BY <1>2, <1>3
<1> QED BY <1>3, <1>4 DEF First

\* A pool that could be tried and boots what was asked for: then the one that is
\* chosen matches.
LEMMA ChosenMatches ==
  ASSUME CopyTypeOK, NEW t, NEW p \in MayRun(t), images[p] \intersect request # {}
  PROVE  /\ get_image_compatible_alpha_worker_type(t) # {}
         /\ \A q \in get_image_compatible_alpha_worker_type(t) : pool_matches_images(q)
<1>1. p \in DOMAIN images /\ request # {} /\ pool_matches_images(p)
  BY DEF MayRun, pool_matches_images, Normalised
<1>2. CASE p = OwnAlpha(t)
  BY <1>1, <1>2 DEF get_image_compatible_alpha_worker_type
<1>3. CASE p # OwnAlpha(t)
  <2>1. p \in Candidates(t) /\ Candidates(t) \in SUBSET WorkerPools
    BY <1>1, <1>3 DEF Candidates, MayRun, CopyTypeOK
  <2>2. First(Candidates(t)) # {}
    BY <2>1, FirstIs
  <2>3. \A q \in First(Candidates(t)) : pool_matches_images(q)
    BY DEF First, Candidates
  <2>4. \A q \in {OwnAlpha(t)} \intersect DOMAIN images : q = OwnAlpha(t)
    OBVIOUS
  <2> QED BY <2>1, <2>2, <2>3, <2>4 DEF get_image_compatible_alpha_worker_type
<1> QED BY <1>2, <1>3

\* What is chosen by normalised names is left by raw ones if they are spelled alike.
LEMMA CopiedIffItCan == CopyIInv => TestedIffItCan
<1> SUFFICES ASSUME CopyIInv, step = "done", again = images, SpelledAlike, NEW t \in Replicable[source]
             PROVE  (\E c \in created : c.task = t) <=>
                      (\E p \in MayRun(t) : images[p] \intersect request # {})
  BY DEF TestedIffItCan
<1>1. \A c \in copies : c.task \in Tests /\ c.pool \in get_image_compatible_alpha_worker_type(c.task)
  BY DEF CopyIInv, CopiesArePlaced
<1>2. \A c \in copies : c.pool \in MayRun(c.task) /\ c.pool \in DOMAIN images
  BY <1>1, PlacesAre DEF MayRun
<1>3. created = {c \in copies : images[c.pool] \intersect request # {}}
  BY <1>2 DEF CopyIInv, CreatedAreLeft, should_remove_task
<1>4. ASSUME NEW c \in created, c.task = t PROVE \E p \in MayRun(t) : images[p] \intersect request # {}
  BY <1>2, <1>3, <1>4
<1>5. ASSUME NEW p \in MayRun(t), images[p] \intersect request # {} PROVE \E c \in created : c.task = t
  <2>1. /\ get_image_compatible_alpha_worker_type(t) # {}
        /\ \A q \in get_image_compatible_alpha_worker_type(t) : pool_matches_images(q)
    BY <1>5, ChosenMatches DEF CopyIInv
  <2>2. PICK c \in copies : c.task = t
    BY <2>1 DEF CopyIInv, NoneIsForgotten, AllAreVisited, Begun
  <2>3. pool_matches_images(c.pool) /\ request # {}
    BY <1>1, <1>5, <2>1, <2>2
  <2>4. PICK i \in images[c.pool], j \in request : Normal[i] = Normal[j]
    BY <2>3 DEF pool_matches_images, Normalised
  <2>5. i = j
    BY <1>2, <2>4 DEF SpelledAlike
  <2> QED BY <1>3, <2>2, <2>4, <2>5
<1> QED BY <1>4, <1>5

\* A test is created if and only if a pool it may be tried on boots an image that
\* was asked for: neither the choice of a pool nor the optimisation loses one.
THEOREM CreatedIffItCan == CopySpec => []TestedIffItCan
BY CopyInvariant, CopiedIffItCan, PTL

(*****************************************************************************)
(* FailureSummary                                                            *)
(*****************************************************************************)
-----------------------------------------------------------------------------
(* Sequences                                                                 *)

\* A sequence is the function of its positions.
LEMMA SequenceIs ==
  ASSUME NEW s, IsSequence(s)
  PROVE  /\ Len(s) \in Nat /\ DOMAIN s = 1 .. Len(s) /\ s = [i \in 1 .. Len(s) |-> s[i]]
         /\ Len(s) = 0 <=> s = <<>>
BY LenProperties, EmptySeq DEF IsSequence

\* A function of 1 .. n is a sequence.
LEMMA FunctionIsSequence ==
  ASSUME NEW n \in Nat, NEW f, f = [i \in 1 .. n |-> f[i]]
  PROVE  IsSequence(f) /\ Len(f) = n
<1>1. ToSet(f) = {f[i] : i \in 1 .. n}
  BY DEF ToSet
<1>2. f \in [1 .. n -> ToSet(f)]
  BY <1>1
<1> QED BY <1>2, SeqDef, LenProperties DEF IsSequence

\* What stands where in two sequences put together.
LEMMA ConcatIs ==
  ASSUME NEW s, NEW t, IsSequence(s), IsSequence(t)
  PROVE  /\ IsSequence(s \o t) /\ Len(s \o t) = Len(s) + Len(t)
         /\ \A i \in 1 .. Len(s) : (s \o t)[i] = s[i]
         /\ \A i \in 1 .. Len(t) : (s \o t)[Len(s) + i] = t[i]
         /\ \A i \in 1 .. Len(s) + Len(t) : i \notin 1 .. Len(s) => i - Len(s) \in 1 .. Len(t)
         /\ ToSet(s \o t) = ToSet(s) \union ToSet(t)
<1> DEFINE A == ToSet(s) \union ToSet(t)
           u == s \o t
<1>1. s \in Seq(A) /\ t \in Seq(A)
  BY SeqMonotonic DEF IsSequence
<1>2. Len(s) \in Nat /\ Len(t) \in Nat /\ DOMAIN s = 1 .. Len(s) /\ DOMAIN t = 1 .. Len(t)
  BY SequenceIs
<1>3. /\ u \in Seq(A) /\ Len(u) = Len(s) + Len(t)
      /\ \A i \in 1 .. Len(s) + Len(t) : u[i] = IF i <= Len(s) THEN s[i] ELSE t[i - Len(s)]
  BY <1>1, ConcatProperties
<1> HIDE DEF u
<1>4. DOMAIN u = 1 .. Len(s) + Len(t) /\ u = [i \in 1 .. Len(s) + Len(t) |-> u[i]]
  BY <1>3, LenProperties
<1>5. IsSequence(u)
  BY <1>2, <1>4, FunctionIsSequence, Len(s) + Len(t) \in Nat
<1>6. /\ \A i \in 1 .. Len(s) : i \in 1 .. Len(s) + Len(t) /\ u[i] = s[i]
      /\ \A i \in 1 .. Len(t) : Len(s) + i \in 1 .. Len(s) + Len(t) /\ u[Len(s) + i] = t[i]
      /\ \A i \in 1 .. Len(s) + Len(t) : i \notin 1 .. Len(s) => i - Len(s) \in 1 .. Len(t)
  <2>1. ASSUME NEW i \in 1 .. Len(t)
        PROVE  Len(s) + i \in 1 .. Len(s) + Len(t) /\ u[Len(s) + i] = t[i]
    BY <1>2, <1>3, ~(Len(s) + i <= Len(s)), (Len(s) + i) - Len(s) = i
  <2> QED BY <1>2, <1>3, <2>1
<1>7. ToSet(u) = ToSet(s) \union ToSet(t)
  <2>1. ASSUME NEW i \in 1 .. Len(s) + Len(t) PROVE u[i] \in ToSet(s) \union ToSet(t)
    BY <1>2, <1>3, <1>6 DEF ToSet
  <2>2. ASSUME NEW i \in DOMAIN s PROVE s[i] \in ToSet(u)
    BY <1>2, <1>4, <1>6 DEF ToSet
  <2>3. ASSUME NEW i \in DOMAIN t PROVE t[i] \in ToSet(u)
    BY <1>2, <1>4, <1>6 DEF ToSet
  <2> QED BY <1>4, <2>1, <2>2, <2>3 DEF ToSet
<1> QED BY <1>3, <1>5, <1>6, <1>7 DEF u

\* What stands where after one more element.
LEMMA AppendIs ==
  ASSUME NEW s, NEW e, IsSequence(s)
  PROVE  /\ IsSequence(Append(s, e)) /\ Len(Append(s, e)) = Len(s) + 1
         /\ ToSet(Append(s, e)) = ToSet(s) \union {e}
         /\ \A i \in 1 .. Len(s) : Append(s, e)[i] = s[i]
         /\ Append(s, e)[Len(s) + 1] = e
<1>1. s \in Seq(ToSet(s) \union {e})
  BY SeqMonotonic DEF IsSequence
<1>2. Append(s, e) = s \o <<e>>
  BY <1>1, AppendIsConcat
<1>3. IsSequence(<<e>>) /\ Len(<<e>>) = 1 /\ ToSet(<<e>>) = {e} /\ <<e>>[1] = e
  BY DEF IsSequence, ToSet
<1>4. Len(s) \in Nat
  BY SequenceIs
<1> QED BY <1>2, <1>3, <1>4, ConcatIs

\* The first n elements.
LEMMA LeadingIs ==
  ASSUME NEW s, IsSequence(s), NEW n \in Nat
  PROVE  LET m == IF n < Len(s) THEN n ELSE Len(s) IN
         /\ IsSequence(Leading(s, n)) /\ Len(Leading(s, n)) = m
         /\ \A i \in 1 .. m : Leading(s, n)[i] = s[i]
<1> DEFINE m == IF n < Len(s) THEN n ELSE Len(s)
<1>1. m \in Nat /\ \A i \in 1 .. m : s[i] \in ToSet(s)
  BY SequenceIs DEF ToSet
<1>2. Leading(s, n) = SubSeq(s, 1, m)
  BY DEF Leading
<1> HIDE DEF m
<1>3. /\ SubSeq(s, 1, m) \in Seq(ToSet(s))
      /\ Len(SubSeq(s, 1, m)) = IF 1 <= m THEN m - 1 + 1 ELSE 0
      /\ \A i \in 1 .. m - 1 + 1 : SubSeq(s, 1, m)[i] = s[1 + i - 1]
  BY <1>1, SubSeqProperties, 1 \in Int, m \in Int
<1>4. Len(Leading(s, n)) = m /\ \A i \in 1 .. m : Leading(s, n)[i] = s[i]
  BY <1>1, <1>2, <1>3
<1>5. IsSequence(Leading(s, n))
  <2>1. Leading(s, n) = [i \in 1 .. m |-> Leading(s, n)[i]]
    BY <1>2, <1>3, <1>4, LenProperties
  <2> QED BY <1>1, <2>1, FunctionIsSequence
<1> QED BY <1>4, <1>5 DEF m

\* The last n elements.
LEMMA TrailingIs ==
  ASSUME NEW s, IsSequence(s), NEW n \in Nat
  PROVE  LET m == IF n < Len(s) THEN n ELSE Len(s) IN
         /\ IsSequence(Trailing(s, n)) /\ Len(Trailing(s, n)) = m
         /\ \A i \in 1 .. m : Trailing(s, n)[i] = s[Len(s) - m + i]
<1> DEFINE m == IF n < Len(s) THEN n ELSE Len(s)
           a == Len(s) - m + 1
<1>1. m \in Nat /\ Len(s) \in Nat /\ a \in Int /\ a >= 1 /\ Len(s) - a + 1 = m
  BY SequenceIs
<1>2. \A i \in a .. Len(s) : s[i] \in ToSet(s)
  BY <1>1, SequenceIs DEF ToSet
<1>3. Trailing(s, n) = SubSeq(s, a, Len(s))
  BY DEF Trailing
<1>4. \A i \in 1 .. m : a + i - 1 = Len(s) - m + i
  BY <1>1
<1> HIDE DEF m, a
<1>5. /\ SubSeq(s, a, Len(s)) \in Seq(ToSet(s))
      /\ Len(SubSeq(s, a, Len(s))) = IF a <= Len(s) THEN Len(s) - a + 1 ELSE 0
      /\ \A i \in 1 .. Len(s) - a + 1 : SubSeq(s, a, Len(s))[i] = s[a + i - 1]
  BY <1>1, <1>2, SubSeqProperties, Len(s) \in Int
<1>6. Len(Trailing(s, n)) = m /\ \A i \in 1 .. m : Trailing(s, n)[i] = s[Len(s) - m + i]
  BY <1>1, <1>3, <1>4, <1>5
<1>7. IsSequence(Trailing(s, n))
  <2>1. Trailing(s, n) = [i \in 1 .. m |-> Trailing(s, n)[i]]
    BY <1>3, <1>5, <1>6, LenProperties
  <2> QED BY <1>1, <2>1, FunctionIsSequence
<1> QED BY <1>6, <1>7 DEF m

-----------------------------------------------------------------------------
(* The elements at some positions                                            *)

Below(S, i) == {k \in S : k < i}

\* A larger number of a finite set has more of it below.
LEMMA BelowGrows ==
  ASSUME NEW S \in SUBSET Nat, IsFiniteSet(S), NEW i \in S, NEW j \in S, i < j
  PROVE  Cardinality(Below(S, i)) < Cardinality(Below(S, j))
<1>1. IsFiniteSet(Below(S, i)) /\ IsFiniteSet(Below(S, j))
  BY FS_Subset DEF Below
<1>2. i \in Nat /\ j \in Nat /\ ~ (i < i) /\ \A k \in Nat : k < i => k < j
  OBVIOUS
<1>3. Below(S, i) \subseteq Below(S, j) /\ i \in Below(S, j) /\ i \notin Below(S, i)
  BY <1>2 DEF Below
<1> QED BY <1>1, <1>3, FS_Subset, FS_CardinalityType

\* No number of a finite set has the whole set below it.
LEMMA BelowIsLess ==
  ASSUME NEW S \in SUBSET Nat, IsFiniteSet(S), NEW i \in S
  PROVE  Cardinality(Below(S, i)) \in 0 .. Cardinality(S) - 1
<1>1. IsFiniteSet(Below(S, i))
  BY FS_Subset DEF Below
<1>2. Below(S, i) \subseteq S /\ i \notin Below(S, i)
  BY i \in Nat, ~(i < i) DEF Below
<1> QED BY <1>1, <1>2, FS_Subset, FS_CardinalityType

\* The n-th number of a finite set has n - 1 below it, for each n, and each number
\* of the set is the n-th for one n.
LEMMA NthIs ==
  ASSUME NEW S \in SUBSET Nat, IsFiniteSet(S)
  PROVE  /\ Cardinality(S) \in Nat
         /\ \A n \in 1 .. Cardinality(S) : Nth(S, n) \in S /\ Cardinality(Below(S, Nth(S, n))) = n - 1
         /\ \A i \in S : \E n \in 1 .. Cardinality(S) : Nth(S, n) = i
<1> DEFINE c == Cardinality(S)
           below == [i \in S |-> Cardinality(Below(S, i))]
<1>1. c \in Nat
  BY FS_CardinalityType
<1>2. \A i, j \in S : Cardinality(Below(S, i)) = Cardinality(Below(S, j)) => i = j
  <2> SUFFICES ASSUME NEW i \in S, NEW j \in S, i < j
               PROVE  Cardinality(Below(S, i)) # Cardinality(Below(S, j))
    OBVIOUS
  <2>1. Cardinality(Below(S, i)) \in Nat /\ Cardinality(Below(S, j)) \in Nat
    BY BelowIsLess, <1>1
  <2> QED BY <2>1, BelowGrows
<1>3. below \in Injection(S, 0 .. c - 1)
  BY <1>2, BelowIsLess DEF Injection, IsInjective
<1>4. IsFiniteSet(0 .. c - 1) /\ Cardinality(0 .. c - 1) = c
  <2>1. 0 \in Int /\ c - 1 \in Int /\ (IF 0 > c - 1 THEN 0 ELSE (c - 1) - 0 + 1) = c
    BY <1>1
  <2> HIDE DEF c
  <2> QED BY <2>1, FS_Interval
<1>5. below \in Surjection(S, 0 .. c - 1)
  BY <1>3, <1>4, FS_Injection
<1>6. \A k \in 0 .. c - 1 : \E i \in S : Cardinality(Below(S, i)) = k
  BY <1>5 DEF Surjection
<1>7. \A n \in 1 .. c : Nth(S, n) \in S /\ Cardinality(Below(S, Nth(S, n))) = n - 1
  <2> SUFFICES ASSUME NEW n \in 1 .. c
               PROVE  Nth(S, n) \in S /\ Cardinality(Below(S, Nth(S, n))) = n - 1
    OBVIOUS
  <2>1. \E i \in S : Cardinality({k \in S : k < i}) = n - 1
    BY <1>1, <1>6, n - 1 \in 0 .. c - 1 DEF Below
  <2>2. /\ Nth(S, n) \in S
        /\ Cardinality({k \in S : k < Nth(S, n)}) = n - 1
    BY <2>1 DEF Nth
  <2> QED BY <2>2 DEF Below
<1>8. ASSUME NEW i \in S PROVE \E n \in 1 .. c : Nth(S, n) = i
  <2>1. Cardinality(Below(S, i)) \in 0 .. c - 1
    BY BelowIsLess
  <2>2. PICK n \in 1 .. c : n - 1 = Cardinality(Below(S, i))
    BY <1>1, <2>1, Cardinality(Below(S, i)) + 1 \in 1 .. c
  <2>3. Nth(S, n) = i
    BY <1>2, <1>7, <2>2
  <2> QED BY <2>3
<1> QED BY <1>1, <1>7, <1>8

\* The n-th numbers come in order.
LEMMA NthGrows ==
  ASSUME NEW S \in SUBSET Nat, IsFiniteSet(S), NEW m \in 1 .. Cardinality(S), NEW n \in 1 .. Cardinality(S), m < n
  PROVE  Nth(S, m) < Nth(S, n)
<1>1. /\ Nth(S, m) \in S /\ Cardinality(Below(S, Nth(S, m))) = m - 1
      /\ Nth(S, n) \in S /\ Cardinality(Below(S, Nth(S, n))) = n - 1
  BY NthIs
<1>2. Nth(S, n) \in Nat /\ Nth(S, m) \in Nat /\ Cardinality(S) \in Nat
  BY <1>1, NthIs
<1>3. ~ (Nth(S, n) < Nth(S, m))
  <2>1. ~ (n - 1 < m - 1)
    BY <1>2
  <2> QED BY <1>1, <2>1, BelowGrows
<1>4. Nth(S, n) # Nth(S, m)
  <2>1. n - 1 # m - 1
    BY <1>2
  <2> QED BY <1>1, <2>1
<1> QED BY <1>2, <1>3, <1>4

\* The elements at some positions are a sequence of as many, and of no others.
LEMMA TakenIs ==
  ASSUME NEW s, IsSequence(s), NEW S \in SUBSET (DOMAIN s)
  PROVE  /\ IsFiniteSet(S) /\ S \in SUBSET Nat /\ Cardinality(S) \in Nat
         /\ IsSequence(Taken(s, S)) /\ Len(Taken(s, S)) = Cardinality(S)
         /\ \A n \in 1 .. Cardinality(S) : Taken(s, S)[n] = s[Nth(S, n)]
         /\ ToSet(Taken(s, S)) = {s[i] : i \in S}
<1>1. IsFiniteSet(S) /\ S \in SUBSET Nat
  <2>1. Len(s) \in Nat /\ DOMAIN s = 1 .. Len(s)
    BY SequenceIs
  <2>2. IsFiniteSet(1 .. Len(s))
    BY <2>1, FS_Interval, 1 \in Int, Len(s) \in Int
  <2> QED BY <2>1, <2>2, FS_Subset
<1>2. /\ Cardinality(S) \in Nat
      /\ \A n \in 1 .. Cardinality(S) : Nth(S, n) \in S
      /\ \A i \in S : \E n \in 1 .. Cardinality(S) : Nth(S, n) = i
  BY <1>1, NthIs
<1>3. Taken(s, S) = [n \in 1 .. Cardinality(S) |-> s[Nth(S, n)]]
  BY DEF Taken
<1>4. IsSequence(Taken(s, S)) /\ Len(Taken(s, S)) = Cardinality(S)
  BY <1>2, <1>3, FunctionIsSequence
<1>5. ToSet(Taken(s, S)) = {s[i] : i \in S}
  BY <1>2, <1>3 DEF ToSet
<1> QED BY <1>1, <1>2, <1>3, <1>4, <1>5

-----------------------------------------------------------------------------
(* The excerpt of a log                                                      *)

\* Both ends of a list survive the cut in its middle.
LEMMA EndsStay ==
  ASSUME NEW s, IsSequence(s), s # <<>>, NEW limit \in Nat, limit > 1
  PROVE  LET w == window(s, limit) IN
         /\ IsSequence(w) /\ Len(w) \in 1 .. limit + 1
         /\ w[1] = s[1] /\ s[Len(s)] \in ToSet(w)
         /\ ToSet(w) \subseteq ToSet(s) \union {Omitted}
<1>1. Len(s) \in Nat /\ Len(s) > 0 /\ DOMAIN s = 1 .. Len(s)
  BY SequenceIs
<1>2. CASE Len(s) <= limit
  <2>1. window(s, limit) = s
    BY <1>2 DEF window
  <2>2. limit <= limit + 1 /\ 1 \in 1 .. Len(s) /\ Len(s) \in 1 .. Len(s)
    BY <1>1
  <2> QED BY <1>1, <1>2, <2>1, <2>2 DEF ToSet
<1>3. CASE ~ (Len(s) <= limit)
  <2> DEFINE half == limit \div 2
             a == Leading(s, half)
             b == Trailing(s, half)
  <2>1. half \in Nat /\ half > 0 /\ half + 1 + half <= limit + 1 /\ half < Len(s)
    BY <1>1, <1>3
  <2>2. window(s, limit) = a \o <<Omitted>> \o b
    BY <1>3 DEF window
  <2> HIDE DEF half
  <2>3. IsSequence(a) /\ Len(a) = half /\ a[1] = s[1] /\ ToSet(a) \subseteq ToSet(s)
    <3>1. /\ IsSequence(a) /\ Len(a) = half
          /\ \A i \in 1 .. half : a[i] = s[i]
      BY <2>1, LeadingIs
    <3>2. 1 \in 1 .. half /\ 1 .. half \subseteq 1 .. Len(s)
      BY <1>1, <2>1
    <3>3. DOMAIN a = 1 .. half
      BY <3>1, SequenceIs
    <3> QED BY <1>1, <3>1, <3>2, <3>3 DEF ToSet
  <2>4. IsSequence(b) /\ Len(b) = half /\ b[half] = s[Len(s)] /\ ToSet(b) \subseteq ToSet(s)
    <3>1. /\ IsSequence(b) /\ Len(b) = half
          /\ \A i \in 1 .. half : b[i] = s[Len(s) - half + i]
      BY <2>1, TrailingIs
    <3>2. half \in 1 .. half /\ Len(s) - half + half = Len(s)
      BY <1>1, <2>1
    <3>3. \A i \in 1 .. half : Len(s) - half + i \in 1 .. Len(s)
      BY <1>1, <2>1
    <3>4. DOMAIN b = 1 .. half
      BY <3>1, SequenceIs
    <3> QED BY <1>1, <3>1, <3>2, <3>3, <3>4 DEF ToSet
  <2> HIDE DEF a, b
  <2>5. IsSequence(<<Omitted>>) /\ Len(<<Omitted>>) = 1
    BY DEF IsSequence, ToSet
  <2>6. /\ IsSequence(a \o <<Omitted>>) /\ Len(a \o <<Omitted>>) = half + 1
        /\ (a \o <<Omitted>>)[1] = s[1]
        /\ ToSet(a \o <<Omitted>>) = ToSet(a) \union ToSet(<<Omitted>>)
    BY <2>1, <2>3, <2>5, ConcatIs, 1 \in 1 .. half
  <2>7. /\ IsSequence(a \o <<Omitted>> \o b) /\ Len(a \o <<Omitted>> \o b) = half + 1 + half
        /\ (a \o <<Omitted>> \o b)[1] = s[1]
        /\ ToSet(a \o <<Omitted>> \o b) = ToSet(a) \union ToSet(<<Omitted>>) \union ToSet(b)
    BY <2>1, <2>4, <2>6, ConcatIs, 1 \in 1 .. half + 1
  <2>8. b[half] \in ToSet(b) /\ ToSet(<<Omitted>>) = {Omitted}
    BY <2>1, <2>4, SequenceIs DEF ToSet
  <2> QED BY <2>1, <2>2, <2>3, <2>4, <2>7, <2>8
<1> QED BY <1>2, <1>3

\* The lines of a kind that repeat none before them, and the positions at which
\* the distinct ones of that kind stand in the log.
Firsts(log, M) ==
  {i \in DOMAIN log : /\ log[i] \in M
                      /\ \A k \in 1 .. i - 1 : log[k] \in M => Key[log[k]] # Key[log[i]]}
Places(log, M) ==
  [m \in 1 .. Len(dedupe(Matching(log, M))) |->
     Nth({i \in DOMAIN log : log[i] \in M}, Nth(New(Matching(log, M)), m))]

\* The distinct ones of the lines taken from a log are, in order, those that come
\* up for the first time in the log.
LEMMA FirstsInOrder ==
  ASSUME NEW log, IsSequence(log), NEW M
  PROVE  LET u == dedupe(Matching(log, M))
             h == Places(log, M)
         IN  /\ IsSequence(u)
             /\ \A m \in 1 .. Len(u) : h[m] \in Firsts(log, M) /\ u[m] = log[h[m]]
             /\ \A m, n \in 1 .. Len(u) : m < n => h[m] < h[n]
             /\ \A i \in Firsts(log, M) : \E m \in 1 .. Len(u) : h[m] = i
<1> DEFINE S == {i \in DOMAIN log : log[i] \in M}
           p == Matching(log, M)
           F == New(p)
           u == dedupe(p)
           new == {i \in S : \A k \in 1 .. i - 1 : log[k] \in M => Key[log[k]] # Key[log[i]]}
<1>1. /\ IsFiniteSet(S) /\ S \in SUBSET Nat /\ Cardinality(S) \in Nat
      /\ IsSequence(p) /\ Len(p) = Cardinality(S) /\ \A n \in 1 .. Len(p) : p[n] = log[Nth(S, n)]
  BY TakenIs, S \in SUBSET (DOMAIN log) DEF Matching
<1>2. /\ F \subseteq 1 .. Len(p) /\ DOMAIN p = 1 .. Len(p) /\ Len(p) \in Nat
      /\ \A n \in 1 .. Len(p) : n \in F <=> \A k \in 1 .. n - 1 : Key[p[k]] # Key[p[n]]
  BY <1>1, SequenceIs DEF New
<1>3. /\ IsFiniteSet(F) /\ F \in SUBSET Nat /\ Cardinality(F) \in Nat
      /\ IsSequence(u) /\ Len(u) = Cardinality(F) /\ \A m \in 1 .. Len(u) : u[m] = p[Nth(F, m)]
  <2>1. F \in SUBSET (DOMAIN p)
    BY <1>2
  <2>2. u = Taken(p, F)
    BY DEF dedupe
  <2>3. IsSequence(p)
    BY <1>1
  <2> HIDE DEF p, F, u
  <2>4. /\ IsFiniteSet(F) /\ F \in SUBSET Nat /\ Cardinality(F) \in Nat
        /\ IsSequence(Taken(p, F)) /\ Len(Taken(p, F)) = Cardinality(F)
        /\ \A m \in 1 .. Cardinality(F) : Taken(p, F)[m] = p[Nth(F, m)]
    BY <2>1, <2>3, TakenIs
  <2> QED BY <2>2, <2>4
<1>4. DOMAIN log = 1 .. Len(log) /\ Len(log) \in Nat
  BY SequenceIs
<1>5. /\ \A n \in 1 .. Len(p) : Nth(S, n) \in S
      /\ \A i \in S : \E n \in 1 .. Len(p) : Nth(S, n) = i
      /\ \A m, n \in 1 .. Len(p) : m < n => Nth(S, m) < Nth(S, n)
  <2> HIDE DEF S, p
  <2> QED BY <1>1, NthIs, NthGrows
<1>6. /\ \A m \in 1 .. Len(u) : Nth(F, m) \in F
      /\ \A n \in F : \E m \in 1 .. Len(u) : Nth(F, m) = n
      /\ \A m, n \in 1 .. Len(u) : m < n => Nth(F, m) < Nth(F, n)
  <2> HIDE DEF F, u
  <2> QED BY <1>3, NthIs, NthGrows
<1>7. S = {i \in 1 .. Len(log) : log[i] \in M}
  BY <1>4
<1> HIDE DEF S, p, F, u
<1>8. ASSUME NEW n \in F PROVE Nth(S, n) \in new
  <2>1. n \in 1 .. Len(p) /\ n \in Nat /\ Nth(S, n) \in S /\ Nth(S, n) \in Nat
    <3>1. n \in 1 .. Len(p)
      BY <1>2
    <3>2. Nth(S, n) \in S
      BY <1>5, <3>1
    <3>3. S \subseteq Nat /\ 1 .. Len(p) \subseteq Nat
      BY <1>1
    <3> QED BY <3>1, <3>2, <3>3
  <2>2. ASSUME NEW k \in 1 .. Nth(S, n) - 1, log[k] \in M, Key[log[k]] = Key[log[Nth(S, n)]]
        PROVE  FALSE
    <3>1. k \in S
      BY <1>7, <2>1, <2>2
    <3>2. PICK r \in 1 .. Len(p) : Nth(S, r) = k
      BY <1>5, <3>1
    <3>3. r < n
      <4>1. r \in Nat /\ k < Nth(S, n) /\ k \in Nat
        BY <1>2, <2>1, <2>2
      <4>2. r # n
        BY <3>2, <4>1, <2>1
      <4>3. ~ (n < r)
        BY <1>5, <2>1, <3>2, <4>1
      <4> QED BY <2>1, <4>1, <4>2, <4>3
    <3>4. Key[p[r]] = Key[p[n]]
      BY <1>1, <2>1, <2>2, <3>2
    <3>5. r \in 1 .. n - 1
      BY <2>1, <3>3
    <3> QED BY <1>2, <2>1, <3>4, <3>5
  <2> QED BY <2>1, <2>2
<1>9. ASSUME NEW i \in new PROVE \E n \in F : Nth(S, n) = i
  <2>1. PICK n \in 1 .. Len(p) : Nth(S, n) = i
    BY <1>5
  <2>2. ASSUME NEW k \in 1 .. n - 1 PROVE Key[p[k]] # Key[p[n]]
    <3>1. k \in 1 .. Len(p) /\ k < n
      BY <1>2
    <3>2. Nth(S, k) < i /\ Nth(S, k) \in Nat /\ i \in Nat /\ Nth(S, k) \in S
      BY <1>1, <1>5, <2>1, <3>1
    <3>3. Nth(S, k) \in 1 .. i - 1
      BY <1>7, <3>2
    <3>4. Key[log[Nth(S, k)]] # Key[log[i]]
      BY <1>7, <3>2, <3>3
    <3> QED BY <1>1, <2>1, <3>1, <3>4
  <2> QED BY <1>2, <2>1, <2>2
<1> DEFINE h == [m \in 1 .. Len(u) |-> Nth(S, Nth(F, m))]
<1>10. \A m \in 1 .. Len(u) : h[m] \in new /\ u[m] = log[h[m]]
  <2> SUFFICES ASSUME NEW m \in 1 .. Len(u) PROVE h[m] \in new /\ u[m] = log[h[m]]
    OBVIOUS
  <2>1. Nth(F, m) \in F /\ Nth(F, m) \in 1 .. Len(p)
    BY <1>2, <1>6
  <2> QED BY <1>1, <1>3, <1>8, <2>1
<1>11. \A m, n \in 1 .. Len(u) : m < n => h[m] < h[n]
  <2> SUFFICES ASSUME NEW m \in 1 .. Len(u), NEW n \in 1 .. Len(u), m < n PROVE h[m] < h[n]
    OBVIOUS
  <2>1. Nth(F, m) \in 1 .. Len(p) /\ Nth(F, n) \in 1 .. Len(p) /\ Nth(F, m) < Nth(F, n)
    BY <1>2, <1>6
  <2> QED BY <1>5, <2>1
<1>12. \A i \in new : \E m \in 1 .. Len(u) : h[m] = i
  <2> SUFFICES ASSUME NEW i \in new PROVE \E m \in 1 .. Len(u) : h[m] = i
    OBVIOUS
  <2>1. PICK n \in F : Nth(S, n) = i
    BY <1>9
  <2>2. PICK m \in 1 .. Len(u) : Nth(F, m) = n
    BY <1>6
  <2> QED BY <2>1, <2>2
<1>13. u = dedupe(Matching(log, M)) /\ h = Places(log, M) /\ new = Firsts(log, M)
  BY DEF S, p, F, u, Places, Firsts
<1> HIDE DEF h, new
<1> QED BY <1>3, <1>10, <1>11, <1>12, <1>13

\* A sequence of lines, each with some of it.
Sound(text) ==
  /\ IsSequence(text)
  /\ \A i \in DOMAIN text : /\ text[i].size \in Nat \ {0}
                            /\ text[i] = [line |-> text[i].line, size |-> text[i].size]

\* Lines of some size are such a sequence.
LEMMA TextIs ==
  ASSUME NEW lines, IsSequence(lines), \A l \in ToSet(lines) : Size[l] \in Nat \ {0}
  PROVE  /\ Sound(Text(lines)) /\ Len(Text(lines)) = Len(lines)
         /\ \A i \in 1 .. Len(lines) : Text(lines)[i] = [line |-> lines[i], size |-> Size[lines[i]]]
<1>1. Len(lines) \in Nat /\ DOMAIN lines = 1 .. Len(lines)
  BY SequenceIs
<1>2. Text(lines) = [i \in 1 .. Len(lines) |-> [line |-> lines[i], size |-> Size[lines[i]]]]
  BY <1>1 DEF Text
<1>3. IsSequence(Text(lines)) /\ Len(Text(lines)) = Len(lines)
  BY <1>1, <1>2, FunctionIsSequence
<1>4. \A i \in 1 .. Len(lines) : Size[lines[i]] \in Nat \ {0}
  BY <1>1 DEF ToSet
<1> QED BY <1>2, <1>3, <1>4 DEF Sound

\* Two of them, put together, are one.
LEMMA SoundConcat ==
  ASSUME NEW s, NEW t, Sound(s), Sound(t) PROVE Sound(s \o t)
<1>1. /\ IsSequence(s \o t) /\ Len(s \o t) = Len(s) + Len(t)
      /\ ToSet(s \o t) = ToSet(s) \union ToSet(t)
  BY ConcatIs DEF Sound
<1>2. \A e \in ToSet(s) \union ToSet(t) :
        e.size \in Nat \ {0} /\ e = [line |-> e.line, size |-> e.size]
  BY DEF Sound, ToSet
<1>3. \A i \in DOMAIN (s \o t) : (s \o t)[i] \in ToSet(s \o t)
  BY DEF ToSet
<1> QED BY <1>1, <1>2, <1>3 DEF Sound

\* The characters of a text, line by line.
LEMMA UptoIs ==
  ASSUME NEW text, Sound(text), NEW i \in 1 .. Len(text)
  PROVE  Upto(text, i - 1) \in Nat /\ Upto(text, i) = Upto(text, i - 1) + text[i].size
<1> DEFINE C(n) == UNION {{k} \X (1 .. text[k].size) : k \in 1 .. n}
           L == {i} \X (1 .. text[i].size)
<1>1. /\ Len(text) \in Nat /\ i \in Nat /\ \A k \in 1 .. Len(text) : text[k].size \in Nat
  BY SequenceIs DEF Sound
<1>2. IsFiniteSet(C(i - 1))
  <2> DEFINE P == {{k} \X (1 .. text[k].size) : k \in 1 .. i - 1}
             f == [k \in 1 .. i - 1 |-> {k} \X (1 .. text[k].size)]
  <2>1. f \in Surjection(1 .. i - 1, P)
    BY DEF Surjection
  <2>2. IsFiniteSet(1 .. i - 1)
    BY <1>1, FS_Interval, 1 \in Int, i - 1 \in Int
  <2>3. IsFiniteSet(P)
    <3> HIDE DEF P, f
    <3> QED BY <2>1, <2>2, FS_Surjection
  <2>4. ASSUME NEW k \in 1 .. i - 1 PROVE IsFiniteSet({k} \X (1 .. text[k].size))
    <3>1. text[k].size \in Int
      BY <1>1
    <3>2. IsFiniteSet(1 .. text[k].size)
      BY <3>1, FS_Interval, 1 \in Int
    <3> QED BY <3>2, FS_Product, FS_Singleton
  <2>5. \A T \in P : IsFiniteSet(T)
    BY <2>4
  <2>6. IsFiniteSet(UNION P)
    <3> HIDE DEF P
    <3> QED BY <2>3, <2>5, FS_UNION
  <2> QED BY <2>6
<1>3. IsFiniteSet(L) /\ Cardinality(L) = text[i].size
  <2>1. text[i].size \in Nat
    BY <1>1
  <2>2. IsFiniteSet(1 .. text[i].size) /\ Cardinality(1 .. text[i].size) = text[i].size
    <3>1. \A n \in Nat : IsFiniteSet(1 .. n) /\ Cardinality(1 .. n) = n
      <4> TAKE n \in Nat
      <4>1. n \in Int /\ (1 > n => n = 0) /\ n - 1 + 1 = n
        OBVIOUS
      <4> QED BY <4>1, FS_Interval, 1 \in Int
    <3> QED BY <2>1, <3>1
  <2>3. IsFiniteSet({i}) /\ Cardinality({i}) = 1
    BY FS_Singleton
  <2>4. IsFiniteSet(L) /\ Cardinality(L) = Cardinality({i}) * Cardinality(1 .. text[i].size)
    BY <2>2, <2>3, FS_Product
  <2> HIDE DEF L
  <2> QED BY <2>1, <2>2, <2>3, <2>4
<1>4. C(i) = C(i - 1) \union L
  <2>1. 1 .. i = (1 .. i - 1) \union {i}
    BY <1>1
  <2> QED BY <2>1
<1>5. C(i - 1) \intersect L = {}
  <2>1. i \notin 1 .. i - 1
    BY <1>1
  <2> QED BY <2>1
<1>6. Upto(text, i - 1) = Cardinality(C(i - 1)) /\ Upto(text, i) = Cardinality(C(i))
  BY DEF Upto
<1> HIDE DEF C, L
<1>7. Cardinality(C(i)) = Cardinality(C(i - 1)) + Cardinality(L) - Cardinality({})
  BY <1>2, <1>3, <1>4, <1>5, FS_Union
<1> QED BY <1>2, <1>3, <1>6, <1>7, <1>1, FS_CardinalityType, FS_EmptySet

\* None of them come before the first line.
LEMMA UptoNone == ASSUME NEW text PROVE Upto(text, 0) = 0
<1>1. UNION {{k} \X (1 .. text[k].size) : k \in 1 .. 0} = {}
  OBVIOUS
<1> QED BY <1>1, FS_EmptySet DEF Upto

\* Few lines that are short have few characters.
LEMMA FewAreShort ==
  ASSUME NEW text, Sound(text), NEW n \in 1 .. Len(text), NEW m \in Nat, n <= m, NEW l \in Nat,
         \A k \in 1 .. n : text[k].size <= l
  PROVE  Upto(text, n) <= m * l
<1> DEFINE C == UNION {{k} \X (1 .. text[k].size) : k \in 1 .. n}
<1>1. Len(text) \in Nat /\ \A k \in 1 .. Len(text) : text[k].size \in Nat
  BY SequenceIs DEF Sound
<1>2. \A k \in 1 .. n : k \in 1 .. m /\ 1 .. text[k].size \subseteq 1 .. l
  BY <1>1
<1>3. C \subseteq (1 .. m) \X (1 .. l)
  BY <1>2
<1>4. /\ IsFiniteSet(1 .. m) /\ Cardinality(1 .. m) = m
      /\ IsFiniteSet(1 .. l) /\ Cardinality(1 .. l) = l
  BY FS_Interval, 1 \in Int, m \in Int, l \in Int
<1>5. IsFiniteSet((1 .. m) \X (1 .. l)) /\ Cardinality((1 .. m) \X (1 .. l)) = m * l
  BY <1>4, FS_Product
<1> HIDE DEF C
<1>6. Cardinality(C) <= Cardinality((1 .. m) \X (1 .. l))
  BY <1>3, <1>5, FS_Subset
<1> QED BY <1>5, <1>6 DEF Upto, C

\* A slice of a text is a text, and has every line that lies before its end.
LEMMA SliceIs ==
  ASSUME NEW text, Sound(text), NEW from \in Int, NEW to \in Int
  PROVE  /\ Sound(Slice(text, from, to))
         /\ from = 0 => \A i \in 1 .. Len(text) :
                          Upto(text, i) <= to => text[i] \in ToSet(Slice(text, from, to))
<1> DEFINE size(i) == (IF Upto(text, i) < to THEN Upto(text, i) ELSE to)
                      - (IF Upto(text, i - 1) > from THEN Upto(text, i - 1) ELSE from)
           part == [i \in DOMAIN text |-> [text[i] EXCEPT !.size = size(i)]]
           S == {i \in DOMAIN text : part[i].size > 0}
<1>1. Slice(text, from, to) = Taken(part, S)
  BY DEF Slice
<1>2. Len(text) \in Nat /\ DOMAIN text = 1 .. Len(text)
  BY SequenceIs DEF Sound
<1>3. IsSequence(part) /\ Len(part) = Len(text) /\ DOMAIN part = 1 .. Len(text)
  <2>1. part = [i \in 1 .. Len(text) |-> part[i]]
    BY <1>2
  <2> HIDE DEF part
  <2> QED BY <1>2, <2>1, FunctionIsSequence
<1>4. ASSUME NEW i \in 1 .. Len(text)
      PROVE  part[i] = [line |-> text[i].line, size |-> size(i)] /\ size(i) \in Int
  <2>1. text[i] = [line |-> text[i].line, size |-> text[i].size]
    BY <1>2 DEF Sound
  <2>2. [text[i] EXCEPT !.size = size(i)] = [line |-> text[i].line, size |-> size(i)]
    BY <2>1
  <2>3. Upto(text, i - 1) \in Int /\ Upto(text, i) \in Int
    BY <1>2, UptoIs DEF Sound
  <2> QED BY <1>2, <2>2, <2>3
<1>5. S \in SUBSET (DOMAIN part)
  BY <1>2, <1>3
<1> HIDE DEF size
<1>6. \A i \in S : /\ part[i].size \in Nat \ {0}
                   /\ part[i] = [line |-> part[i].line, size |-> part[i].size]
  <2> TAKE i \in S
  <2>1. i \in 1 .. Len(text) /\ part[i].size > 0
    BY <1>2
  <2> HIDE DEF part, S
  <2>2. part[i] = [line |-> text[i].line, size |-> size(i)] /\ size(i) \in Int
    BY <1>4, <2>1
  <2>3. part[i].size = size(i) /\ part[i].line = text[i].line
    BY <2>2
  <2> QED BY <2>1, <2>2, <2>3
<1>7. from = 0 => \A i \in 1 .. Len(text) : Upto(text, i) <= to => i \in S /\ part[i] = text[i]
  <2> SUFFICES ASSUME from = 0, NEW i \in 1 .. Len(text), Upto(text, i) <= to
               PROVE  i \in S /\ part[i] = text[i]
    OBVIOUS
  <2>1. /\ Upto(text, i - 1) \in Nat /\ Upto(text, i) = Upto(text, i - 1) + text[i].size
        /\ text[i].size \in Nat \ {0} /\ text[i] = [line |-> text[i].line, size |-> text[i].size]
    BY <1>2, UptoIs DEF Sound
  <2>2. size(i) = Upto(text, i) - Upto(text, i - 1)
    BY <2>1 DEF size
  <2>3. size(i) = text[i].size
    BY <2>1, <2>2
  <2> QED BY <1>2, <1>4, <2>1, <2>3
<1> HIDE DEF part, S
<1>8. /\ Cardinality(S) \in Nat /\ IsSequence(Taken(part, S))
      /\ ToSet(Taken(part, S)) = {part[i] : i \in S}
  BY <1>3, <1>5, TakenIs
<1>9. Sound(Taken(part, S))
  <2>1. \A e \in ToSet(Taken(part, S)) : e.size \in Nat \ {0} /\ e = [line |-> e.line, size |-> e.size]
    BY <1>6, <1>8
  <2>2. \A i \in DOMAIN Taken(part, S) : Taken(part, S)[i] \in ToSet(Taken(part, S))
    BY DEF ToSet
  <2> QED BY <1>8, <2>1, <2>2 DEF Sound
<1> QED BY <1>1, <1>7, <1>8, <1>9

\* A text that another one begins with.
Begins(t, s) == Sound(t) /\ Len(s) <= Len(t) /\ \A i \in 1 .. Len(s) : t[i] = s[i]

\* What is put behind a text does not change how it begins.
LEMMA StillBegins ==
  ASSUME NEW s, NEW t, NEW r, Sound(s), Begins(t, s), Sound(r) PROVE Begins(t \o r, s)
<1>1. /\ Len(s) \in Nat /\ Len(t) \in Nat /\ Len(r) \in Nat
      /\ IsSequence(t) /\ IsSequence(r) /\ Sound(t)
  BY SequenceIs DEF Sound, Begins
<1>2. Len(t \o r) = Len(t) + Len(r) /\ \A i \in 1 .. Len(t) : (t \o r)[i] = t[i]
  BY <1>1, ConcatIs
<1>3. Sound(t \o r)
  BY <1>1, SoundConcat
<1>4. 1 .. Len(s) \subseteq 1 .. Len(t) /\ Len(s) <= Len(t \o r)
  BY <1>1, <1>2 DEF Begins
<1> QED BY <1>2, <1>3, <1>4 DEF Begins

\* A section is a text.
LEMMA SectionIs ==
  ASSUME NEW lines, IsSequence(lines), \A l \in ToSet(lines) \union {Heading} : Size[l] \in Nat \ {0}
  PROVE  Sound(Section(lines))
<1>1. CASE lines = <<>>
  <2>1. Section(lines) = <<>> /\ DOMAIN <<>> = {}
    BY <1>1 DEF Section
  <2>2. IsSequence(<<>>)
    BY DEF IsSequence
  <2> QED BY <2>1, <2>2 DEF Sound
<1>2. CASE lines # <<>>
  <2>1. IsSequence(<<Heading>>) /\ ToSet(<<Heading>>) = {Heading}
    BY DEF IsSequence, ToSet
  <2>2. IsSequence(<<Heading>> \o lines) /\ ToSet(<<Heading>> \o lines) = {Heading} \union ToSet(lines)
    BY <2>1, ConcatIs
  <2>3. Section(lines) = Text(<<Heading>> \o lines)
    BY <1>2 DEF Section
  <2> QED BY <2>2, <2>3, TextIs
<1> QED BY <1>1, <1>2

\* Whole numbers, multiplied and divided.
LEMMA Parts == \A n, m \in Nat : m > 0 => (n \div m) \in Nat /\ m * (n \div m) <= n
  OBVIOUS

\* log_excerpt: the first and the last of the failure lines are there, or one of
\* them is long; then the cut is seen, and the first is there if it fits.
LEMMA BothEndsAre ==
  ASSUME NEW log \in Logs PROVE HasBothEnds(log, log_excerpt(log))
<1> DEFINE u == dedupe(Matching(log, Primary))
           h == Places(log, Primary)
           new == Firsts(log, Primary)
<1>1. /\ IsSequence(log)
      /\ \A l \in {Heading, Omitted, Truncated} \union ToSet(log) : Size[l] \in Nat \ {0}
      /\ MaxPrimary \in Nat /\ MaxPrimary > 1 /\ MaxExcerpt \in Nat /\ MaxSecondary \in Nat
      /\ HeadChars \in Nat /\ TailChars \in Nat
  BY FailureSummaryAssumption
<1>2. /\ IsSequence(u)
      /\ \A m \in 1 .. Len(u) : h[m] \in new /\ u[m] = log[h[m]]
      /\ \A m, n \in 1 .. Len(u) : m < n => h[m] < h[n]
      /\ \A i \in new : \E m \in 1 .. Len(u) : h[m] = i
  <2>1. IsSequence(log)
    BY <1>1
  <2> QED BY <2>1, FirstsInOrder
<1> DEFINE first == {i \in new : \A k \in new : i <= k}
           last == {i \in new : \A k \in new : k <= i}
           w == window(u, MaxPrimary)
           g == <<Heading>> \o w
           lead == Section(w)
           x == Trailing(dedupe(Matching(log, Secondary)), MaxSecondary)
           head == Text(<<Heading>>) \o Slice(Text(log), 0, HeadChars)
           from == Chars(Text(log)) - TailChars
           tail == Text(<<Heading>>) \o Slice(Text(log), from, Chars(Text(log)))
           ex == lead \o Section(x) \o head \o tail
           most == MaxExcerpt \div (MaxPrimary + 2)
<1>3. new = Distinct(log) /\ new \subseteq DOMAIN log /\ new \subseteq Nat
  BY <1>1, SequenceIs DEF Distinct, Firsts
<1>4. IsSequence(x) /\ ToSet(x) \subseteq ToSet(log)
  <2> DEFINE q == dedupe(Matching(log, Secondary))
  <2>1. IsSequence(q) /\ \A m \in 1 .. Len(q) : \E i \in DOMAIN log : q[m] = log[i]
    <3>1. Firsts(log, Secondary) \subseteq DOMAIN log
      BY DEF Firsts
    <3> QED BY <1>1, <3>1, FirstsInOrder
  <2> HIDE DEF q
  <2> DEFINE m == IF MaxSecondary < Len(q) THEN MaxSecondary ELSE Len(q)
             t == Trailing(q, MaxSecondary)
  <2>2. /\ IsSequence(t) /\ Len(t) = m /\ \A i \in 1 .. m : t[i] = q[Len(q) - m + i]
    BY <1>1, <2>1, TrailingIs
  <2>3. \A i \in 1 .. m : Len(q) - m + i \in 1 .. Len(q)
    BY <1>1, <2>1, SequenceIs
  <2>4. DOMAIN t = 1 .. m
    BY <2>2, SequenceIs
  <2>5. \A i \in 1 .. m : \E j \in DOMAIN log : t[i] = log[j]
    <3> HIDE DEF m, t
    <3> QED BY <2>1, <2>2, <2>3
  <2>6. x = t
    BY DEF q
  <2> HIDE DEF x, t, m
  <2> QED BY <2>2, <2>4, <2>5, <2>6 DEF ToSet
<1>5. Sound(Section(x)) /\ Sound(head) /\ Sound(tail)
  <2>1. Sound(Section(x))
    <3> HIDE DEF x
    <3> QED BY <1>1, <1>4, SectionIs
  <2>2. Sound(Text(log))
    BY <1>1, TextIs
  <2>3. Sound(Text(<<Heading>>))
    <3>1. IsSequence(<<Heading>>) /\ ToSet(<<Heading>>) = {Heading}
      BY DEF IsSequence, ToSet
    <3> QED BY <1>1, <3>1, TextIs
  <2>4. Chars(Text(log)) \in Int /\ from \in Int
    <3>1. Len(Text(log)) \in Nat
      BY <2>2, SequenceIs DEF Sound
    <3>2. Upto(Text(log), Len(Text(log))) \in Nat
      <4>1. CASE Len(Text(log)) = 0
        BY <4>1, UptoNone
      <4>2. CASE Len(Text(log)) # 0
        <5> DEFINE n == Len(Text(log))
        <5>1. n \in 1 .. n
          BY <3>1, <4>2
        <5>2. Text(log)[n].size \in Nat
          BY <2>2, <5>1, SequenceIs DEF Sound
        <5>3. Upto(Text(log), n - 1) \in Nat /\ Upto(Text(log), n) = Upto(Text(log), n - 1) + Text(log)[n].size
          BY <2>2, <5>1, UptoIs
        <5> QED BY <5>2, <5>3
      <4> QED BY <4>1, <4>2
    <3> QED BY <1>1, <3>2 DEF Chars
  <2>5. Sound(Slice(Text(log), 0, HeadChars)) /\ Sound(Slice(Text(log), from, Chars(Text(log))))
    <3> HIDE DEF from
    <3> QED BY <1>1, <2>2, <2>4, SliceIs, 0 \in Int, HeadChars \in Int
  <2> QED BY <2>1, <2>3, <2>5, SoundConcat
<1>6. log_excerpt(log) = IF Chars(ex) <= MaxExcerpt THEN ex
                         ELSE Slice(ex, 0, MaxExcerpt) \o Text(<<Truncated>>)
  BY DEF log_excerpt
<1>7. HasBothEnds(log, log_excerpt(log)) <=>
        \/ \A i \in first \union last : Whole(log[i], log_excerpt(log))
        \/ /\ log_excerpt(log)[Len(log_excerpt(log))].line = Truncated
           /\ \E line \in {Heading, Omitted} \union {log[i] : i \in new} : Long(line)
           /\ \A i \in first : Size[Heading] + Size[log[i]] <= MaxExcerpt => Whole(log[i], log_excerpt(log))
  <2> HIDE DEF new
  <2> QED BY <1>3 DEF HasBothEnds
<1> HIDE DEF new, h, u, x, head, tail
<1>8. CASE Len(u) = 0
  <2>1. new = {}
    BY <1>2, <1>8
  <2> QED BY <1>7, <2>1
<1>9. CASE Len(u) # 0
  <2>1. Len(u) \in Nat /\ Len(u) > 0 /\ u # <<>> /\ 1 \in 1 .. Len(u) /\ Len(u) \in 1 .. Len(u)
    BY <1>2, <1>9, SequenceIs
  <2>2. (\A i \in first : log[i] = u[1]) /\ (\A i \in last : log[i] = u[Len(u)])
    <3>1. ASSUME NEW i \in new, NEW m \in 1 .. Len(u), h[m] = i, m # 1 PROVE i \notin first
      <4>1. h[1] < i /\ h[1] \in new
        BY <1>2, <2>1, <3>1
      <4> QED BY <1>3, <4>1
    <3>2. ASSUME NEW i \in new, NEW m \in 1 .. Len(u), h[m] = i, m # Len(u) PROVE i \notin last
      <4>1. i < h[Len(u)] /\ h[Len(u)] \in new
        BY <1>2, <2>1, <3>2
      <4> QED BY <1>3, <4>1
    <3>3. first \subseteq new /\ last \subseteq new
      OBVIOUS
    <3> HIDE DEF first, last
    <3> QED BY <1>2, <3>1, <3>2, <3>3
  <2>3. /\ IsSequence(w) /\ Len(w) \in 1 .. MaxPrimary + 1
        /\ w[1] = u[1] /\ u[Len(u)] \in ToSet(w) /\ ToSet(w) \subseteq ToSet(u) \union {Omitted}
    BY <1>1, <1>2, <2>1, EndsStay
  <2>4. ToSet(u) \subseteq {log[i] : i \in new}
    BY <1>2, SequenceIs DEF ToSet
  <2> HIDE DEF w
  <2>5. /\ IsSequence(g) /\ Len(g) = 1 + Len(w) /\ g[1] = Heading /\ g[2] = u[1]
        /\ ToSet(g) = {Heading} \union ToSet(w)
    <3>1. IsSequence(<<Heading>>) /\ ToSet(<<Heading>>) = {Heading} /\ Len(<<Heading>>) = 1
          /\ <<Heading>>[1] = Heading
      BY DEF IsSequence, ToSet
    <3>2. /\ IsSequence(g) /\ Len(g) = 1 + Len(w) /\ ToSet(g) = {Heading} \union ToSet(w)
          /\ \A i \in 1 .. 1 : g[i] = <<Heading>>[i]
          /\ \A i \in 1 .. Len(w) : g[1 + i] = w[i]
      BY <2>3, <3>1, ConcatIs
    <3> HIDE DEF g
    <3>3. g[1 + 1] = w[1]
      BY <2>3, <3>2
    <3> QED BY <2>3, <3>1, <3>2, <3>3
  <2>6. ToSet(g) \subseteq {Heading, Omitted} \union {log[i] : i \in new}
    BY <2>3, <2>4, <2>5
  <2>7. \A l \in ToSet(g) : Size[l] \in Nat \ {0}
    <3>1. {log[i] : i \in new} \subseteq ToSet(log)
      BY <1>3 DEF ToSet
    <3> QED BY <1>1, <2>6, <3>1
  <2>8. lead = Text(g)
    <3>1. w # <<>>
      BY <2>3, SequenceIs
    <3> QED BY <3>1 DEF Section
  <2> HIDE DEF g, lead
  <2>9. /\ Sound(lead) /\ Len(lead) = Len(g) /\ Len(g) \in 2 .. MaxPrimary + 2
        /\ \A i \in 1 .. Len(g) : lead[i] = [line |-> g[i], size |-> Size[g[i]]]
    <3>1. Len(w) \in Nat /\ Len(g) \in 2 .. MaxPrimary + 2
      BY <1>1, <2>3, <2>5
    <3> QED BY <2>5, <2>7, <2>8, <3>1, TextIs
  <2>10. Begins(ex, lead)
    <3>1. Begins(lead, lead)
      BY <2>9, SequenceIs DEF Begins, Sound
    <3>2. Begins(lead \o Section(x), lead)
      BY <1>5, <2>9, <3>1, StillBegins
    <3>3. Begins(lead \o Section(x) \o head, lead)
      BY <1>5, <2>9, <3>2, StillBegins
    <3> QED BY <1>5, <2>9, <3>3, StillBegins
  <2> HIDE DEF ex
  <2>11. /\ Sound(ex) /\ Len(ex) \in Nat /\ Len(g) <= Len(ex) /\ DOMAIN ex = 1 .. Len(ex)
         /\ 1 .. Len(g) \subseteq 1 .. Len(ex)
         /\ \A i \in 1 .. Len(g) : ex[i] = [line |-> g[i], size |-> Size[g[i]]]
    <3>1. Sound(ex) /\ Len(lead) <= Len(ex) /\ \A i \in 1 .. Len(lead) : ex[i] = lead[i]
      BY <2>10 DEF Begins
    <3>2. IsSequence(ex)
      BY <3>1 DEF Sound
    <3>3. Len(ex) \in Nat /\ DOMAIN ex = 1 .. Len(ex)
      BY <3>2, SequenceIs
    <3>4. Len(g) \in Nat /\ Len(g) <= Len(ex)
      BY <2>9, <3>1
    <3>5. 1 .. Len(g) \subseteq 1 .. Len(ex)
      BY <3>3, <3>4
    <3> QED BY <2>9, <3>1, <3>3, <3>4, <3>5
  <2>12. /\ \A i \in first : log[i] = g[2]
         /\ \E j \in 1 .. Len(g) : \A i \in last : log[i] = g[j]
    <3>1. u[Len(u)] \in ToSet(g) /\ DOMAIN g = 1 .. Len(g)
      BY <2>3, <2>5, SequenceIs
    <3>2. PICK j \in 1 .. Len(g) : g[j] = u[Len(u)]
      BY <3>1 DEF ToSet
    <3> HIDE DEF first, last
    <3> QED BY <2>2, <2>5, <3>2
  <2>13. 2 \in 1 .. Len(g) /\ 1 \in 1 .. Len(g)
    BY <2>9
  <2>14. ASSUME NEW e, \A i \in 1 .. Len(g) : ex[i] \in ToSet(e)
         PROVE  \A i \in first \union last : Whole(log[i], e)
    <3>1. \A j \in 1 .. Len(g) : Whole(g[j], e)
      BY <2>11, <2>14 DEF Whole
    <3> HIDE DEF first, last
    <3> QED BY <2>12, <2>13, <3>1
  <2>15. CASE Chars(ex) <= MaxExcerpt
    <3>1. log_excerpt(log) = ex
      BY <1>6, <2>15
    <3>2. \A i \in 1 .. Len(g) : ex[i] \in ToSet(ex)
      BY <2>11 DEF ToSet
    <3>3. \A i \in first \union last : Whole(log[i], ex)
      BY <2>14, <3>2
    <3> HIDE DEF first, last
    <3> QED BY <1>7, <3>1, <3>3
  <2>16. CASE ~ (Chars(ex) <= MaxExcerpt)
    <3> DEFINE cut == Slice(ex, 0, MaxExcerpt)
               end == Text(<<Truncated>>)
               e == log_excerpt(log)
    <3>1. e = cut \o end
      BY <1>6, <2>16
    <3>2. Sound(cut) /\ \A i \in 1 .. Len(ex) : Upto(ex, i) <= MaxExcerpt => ex[i] \in ToSet(cut)
      BY <1>1, <2>11, SliceIs, 0 \in Int, MaxExcerpt \in Int
    <3>3. Sound(end) /\ Len(end) = 1 /\ end[1].line = Truncated
      <4>1. /\ IsSequence(<<Truncated>>) /\ ToSet(<<Truncated>>) = {Truncated}
            /\ Len(<<Truncated>>) = 1 /\ <<Truncated>>[1] = Truncated
        BY DEF IsSequence, ToSet
      <4>2. /\ Sound(end) /\ Len(end) = 1
            /\ \A i \in 1 .. 1 : end[i] = [line |-> <<Truncated>>[i], size |-> Size[<<Truncated>>[i]]]
        BY <1>1, <4>1, TextIs
      <4> HIDE DEF end
      <4>3. end[1] = [line |-> Truncated, size |-> Size[Truncated]]
        BY <4>1, <4>2
      <4> QED BY <4>2, <4>3
    <3> HIDE DEF cut, end, e
    <3>4. ToSet(e) = ToSet(cut) \union ToSet(end) /\ e[Len(e)].line = Truncated
      <4>1. /\ Len(e) = Len(cut) + 1 /\ ToSet(e) = ToSet(cut) \union ToSet(end)
            /\ \A i \in 1 .. 1 : e[Len(cut) + i] = end[i]
        <5>1. IsSequence(cut) /\ IsSequence(end)
          BY <3>2, <3>3 DEF Sound
        <5>2. /\ Len(cut \o end) = Len(cut) + Len(end)
              /\ ToSet(cut \o end) = ToSet(cut) \union ToSet(end)
              /\ \A i \in 1 .. Len(end) : (cut \o end)[Len(cut) + i] = end[i]
          BY <5>1, ConcatIs
        <5> QED BY <3>1, <3>3, <5>2
      <4>2. e[Len(cut) + 1] = end[1]
        BY <4>1
      <4> QED BY <3>3, <4>1, <4>2
    <3>5. CASE \A l \in ToSet(g) : ~ Long(l)
      <4>1. most \in Nat /\ (MaxPrimary + 2) * most <= MaxExcerpt /\ MaxPrimary + 2 \in Nat
        BY <1>1, Parts
      <4>2. \A k \in 1 .. Len(g) : ex[k].size <= most
        <5>1. \A k \in 1 .. Len(g) : g[k] \in ToSet(g)
          BY <2>5, SequenceIs DEF ToSet
        <5> HIDE DEF most
        <5>2. \A k \in 1 .. Len(g) : Size[g[k]] \in Nat /\ ~ (Size[g[k]] > most)
          BY <2>7, <3>5, <5>1 DEF Long, most
        <5>3. ASSUME NEW k \in 1 .. Len(g) PROVE ex[k].size = Size[g[k]]
          <6>1. ex[k] = [line |-> g[k], size |-> Size[g[k]]]
            BY <2>11
          <6> QED BY <6>1
        <5> QED BY <4>1, <5>2, <5>3
      <4> HIDE DEF most
      <4>3. ASSUME NEW i \in 1 .. Len(g) PROVE ex[i] \in ToSet(e)
        <5>1. i \in 1 .. Len(ex) /\ i <= MaxPrimary + 2 /\ 1 .. i \subseteq 1 .. Len(g)
          BY <1>1, <2>9, <2>11
        <5>2. Upto(ex, i) <= (MaxPrimary + 2) * most
          BY <2>11, <4>1, <4>2, <5>1, FewAreShort
        <5>3. Upto(ex, i) \in Int
          <6>1. Upto(ex, i - 1) \in Nat /\ Upto(ex, i) = Upto(ex, i - 1) + ex[i].size
            BY <2>11, <5>1, UptoIs
          <6>2. ex[i].size \in Nat
            BY <2>11, <5>1 DEF Sound
          <6> QED BY <6>1, <6>2
        <5>4. (MaxPrimary + 2) * most \in Int
          BY <4>1
        <5>5. Upto(ex, i) <= MaxExcerpt
          <6> DEFINE n == (MaxPrimary + 2) * most
          <6>1. Upto(ex, i) <= n /\ n <= MaxExcerpt /\ n \in Int
            BY <4>1, <5>2, <5>4
          <6> HIDE DEF n
          <6> QED BY <1>1, <5>3, <6>1
        <5> QED BY <3>2, <3>4, <5>1, <5>5
      <4>4. \A i \in first \union last : Whole(log[i], e)
        BY <2>14, <4>3
      <4> HIDE DEF first, last
      <4> QED BY <1>7, <4>4 DEF e
    <3>6. CASE \E l \in ToSet(g) : Long(l)
      <4>1. \E line \in {Heading, Omitted} \union {log[i] : i \in new} : Long(line)
        BY <2>6, <3>6
      <4>2. ASSUME NEW i \in first, Size[Heading] + Size[log[i]] <= MaxExcerpt
            PROVE  Whole(log[i], e)
        <5>1. log[i] = g[2]
          BY <2>12
        <5>2. /\ Upto(ex, 1 - 1) \in Nat /\ Upto(ex, 1) = Upto(ex, 1 - 1) + ex[1].size
              /\ Upto(ex, 2) = Upto(ex, 2 - 1) + ex[2].size
          BY <2>11, <2>13, UptoIs
        <5>3. Upto(ex, 0) = 0
          BY UptoNone
        <5>4. ex[1].size = Size[Heading] /\ ex[2].size = Size[g[2]] /\ Size[Heading] \in Nat
              /\ ex[2] = [line |-> g[2], size |-> Size[g[2]]] /\ Size[g[2]] \in Nat
          <6>1. g[2] \in ToSet(g)
            BY <2>5, <2>13, SequenceIs DEF ToSet
          <6>2. Size[Heading] \in Nat /\ Size[g[2]] \in Nat
            BY <1>1, <2>7, <6>1
          <6>3. /\ ex[1] = [line |-> Heading, size |-> Size[Heading]]
                /\ ex[2] = [line |-> g[2], size |-> Size[g[2]]]
            BY <2>5, <2>11, <2>13
          <6> QED BY <6>2, <6>3
        <5>5. Upto(ex, 2) = Size[Heading] + Size[g[2]]
          BY <5>2, <5>3, <5>4
        <5>6. ex[2] \in ToSet(e)
          BY <2>11, <2>13, <3>2, <3>4, <4>2, <5>1, <5>5
        <5> QED BY <5>1, <5>4, <5>6 DEF Whole
      <4> HIDE DEF first, last
      <4> QED BY <1>7, <3>4, <4>1, <4>2 DEF e
    <3> QED BY <3>5, <3>6
  <2> QED BY <2>15, <2>16
<1> QED BY <1>8, <1>9

-----------------------------------------------------------------------------
(* The failures that are found                                               *)

\* The failing tasks of a list are as many as fail, and by their names.
LEMMA FailingTasksAre ==
  ASSUME NEW pool, NEW ts, IsSequence(ts)
  PROVE  LET f == failing_tasks(pool, ts) IN
         /\ IsFiniteSet(Bad(ts)) /\ IsSequence(f) /\ Len(f) = Cardinality(Bad(ts))
         /\ \A e \in ToSet(f) : e.kind = "task"
         /\ {e.name : e \in ToSet(f)} = {ts[i].name : i \in Bad(ts)}
<1> DEFINE t == [i \in DOMAIN ts |-> Task(pool, ts[i])]
           f == failing_tasks(pool, ts)
<1>1. IsSequence(t) /\ DOMAIN t = DOMAIN ts
  <2>1. DOMAIN ts = 1 .. Len(ts) /\ Len(ts) \in Nat
    BY SequenceIs
  <2>2. t = [i \in 1 .. Len(ts) |-> t[i]]
    BY <2>1
  <2> QED BY <2>1, <2>2, FunctionIsSequence
<1>2. f = Taken(t, Bad(ts)) /\ Bad(ts) \in SUBSET (DOMAIN t)
  BY DEF failing_tasks, Bad
<1>3. \A i \in Bad(ts) : t[i].kind = "task" /\ t[i].name = ts[i].name
  BY DEF Bad, Task
<1> HIDE DEF t, f
<1>4. /\ IsFiniteSet(Bad(ts)) /\ IsSequence(f) /\ Len(f) = Cardinality(Bad(ts))
      /\ ToSet(f) = {t[i] : i \in Bad(ts)}
  BY <1>1, <1>2, TakenIs
<1>5. {e.name : e \in ToSet(f)} = {ts[i].name : i \in Bad(ts)}
  BY <1>3, <1>4
<1> QED BY <1>3, <1>4, <1>5 DEF f

\* The sequences up to one another, put together.
Together(f, seqs, n) ==
  f = [i \in 1 .. n |-> IF i = 1 THEN seqs[i] ELSE f[i - 1] \o seqs[i]]

\* There is such a function for any number of sequences, by least counterexample.
LEMMA TogetherExists ==
  ASSUME NEW seqs, NEW n \in Nat PROVE \E f : Together(f, seqs, n)
<1> DEFINE Missing == {m \in Nat : ~ \E f : Together(f, seqs, m)}
<1>1. SUFFICES ASSUME Missing # {} PROVE FALSE
  OBVIOUS
<1>2. PICK m \in Missing : \A k \in Missing : m <= k
  BY <1>1, LeastOf
<1>3. CASE m = 0
  <2>1. Together([i \in 1 .. 0 |-> seqs[i]], seqs, 0)
    BY DEF Together
  <2> QED BY <1>2, <1>3, <2>1
<1>4. CASE m # 0
  <2>1. m - 1 \in Nat /\ m \in Nat /\ m - 1 \notin Missing
    BY <1>2, <1>4
  <2>2. PICK g : Together(g, seqs, m - 1)
    BY <2>1
  <2> DEFINE f == [i \in 1 .. m |-> IF i = 1 THEN seqs[i] ELSE g[i - 1] \o seqs[i]]
  <2>3. \A i \in 1 .. m - 1 : g[i] = IF i = 1 THEN seqs[i] ELSE g[i - 1] \o seqs[i]
    <3>1. DOMAIN g = 1 .. m - 1
      BY <2>2 DEF Together
    <3> QED BY <2>2, <3>1 DEF Together
  <2>4. \A i \in 1 .. m - 1 : f[i] = g[i]
    BY <2>1, <2>3
  <2>5. \A i \in 1 .. m : i # 1 => i - 1 \in 1 .. m - 1
    BY <2>1
  <2>6. f = [i \in 1 .. m |-> IF i = 1 THEN seqs[i] ELSE f[i - 1] \o seqs[i]]
    <3>1. \A i \in 1 .. m : i # 1 => f[i - 1] = g[i - 1]
      BY <2>4, <2>5
    <3>2. \A i \in 1 .. m : f[i] = IF i = 1 THEN seqs[i] ELSE f[i - 1] \o seqs[i]
      BY <3>1
    <3>3. f = [i \in 1 .. m |-> f[i]]
      OBVIOUS
    <3> HIDE DEF f
    <3> QED BY <3>2, <3>3
  <2>7. Together(f, seqs, m)
    BY <2>6 DEF Together
  <2> QED BY <1>2, <2>7
<1> QED BY <1>3, <1>4

\* Of sequences as long as some sets are large, put together: as long as their
\* disjoint union is large, with the elements of each.
LEMMA FlattenIs ==
  ASSUME NEW seqs, IsSequence(seqs), NEW B,
         \A r \in DOMAIN seqs : /\ IsSequence(seqs[r])
                                /\ IsFiniteSet(B[r]) /\ Len(seqs[r]) = Cardinality(B[r])
  PROVE  /\ IsSequence(FlattenSeq(seqs))
         /\ Len(FlattenSeq(seqs)) = Cardinality(UNION {{r} \X B[r] : r \in DOMAIN seqs})
         /\ ToSet(FlattenSeq(seqs)) \subseteq UNION {ToSet(seqs[r]) : r \in DOMAIN seqs}
<1> DEFINE n == Len(seqs)
           Pairs(k) == UNION {{r} \X B[r] : r \in 1 .. k}
           Elements(k) == UNION {ToSet(seqs[r]) : r \in 1 .. k}
<1>1. n \in Nat /\ DOMAIN seqs = 1 .. n /\ (n = 0 <=> seqs = <<>>)
  BY SequenceIs
<1>2. CASE n = 0
  <2>1. FlattenSeq(seqs) = <<>>
    BY <1>1, <1>2 DEF FlattenSeq
  <2>2. UNION {{r} \X B[r] : r \in DOMAIN seqs} = {}
    BY <1>1, <1>2
  <2>3. IsSequence(<<>>) /\ Len(<<>>) = 0 /\ ToSet(<<>>) = {}
    BY DEF IsSequence, ToSet
  <2> QED BY <2>1, <2>2, <2>3, FS_EmptySet
<1>3. CASE n # 0
  <2> DEFINE f == CHOOSE g : Together(g, seqs, n)
  <2>1. Together(f, seqs, n)
    BY <1>1, TogetherExists
  <2>2. FlattenSeq(seqs) = f[n]
    BY <1>3 DEF FlattenSeq, Together
  <2> HIDE DEF f
  <2>3. \A k \in 1 .. n : f[k] = IF k = 1 THEN seqs[k] ELSE f[k - 1] \o seqs[k]
    <3>1. DOMAIN f = 1 .. n
      BY <2>1 DEF Together
    <3> QED BY <2>1, <3>1 DEF Together
  <2> DEFINE Good(k) == /\ IsSequence(f[k]) /\ IsFiniteSet(Pairs(k)) /\ Len(f[k]) = Cardinality(Pairs(k))
                        /\ ToSet(f[k]) \subseteq Elements(k)
             Wrong == {k \in 1 .. n : ~ Good(k)}
  <2>4. SUFFICES Wrong = {}
    <3>1. n \in 1 .. n
      BY <1>1, <1>3
    <3>2. Good(n)
      BY <2>4, <3>1
    <3> QED BY <1>1, <2>2, <3>2
  <2>5. SUFFICES ASSUME Wrong # {} PROVE FALSE
    OBVIOUS
  <2>6. PICK k \in Wrong : \A j \in Wrong : k <= j
    <3>1. Wrong \subseteq Nat
      BY <1>1
    <3> HIDE DEF Wrong
    <3> QED BY <2>5, <3>1, LeastOf
  <2>7. k \in 1 .. n /\ k \in Nat /\ ~ Good(k)
    BY <1>1
  <2>8. /\ IsSequence(seqs[k]) /\ IsFiniteSet(B[k]) /\ Len(seqs[k]) = Cardinality(B[k])
        /\ Cardinality(B[k]) \in Nat
    BY <1>1, <2>7, FS_CardinalityType
  <2>9. IsFiniteSet({k} \X B[k]) /\ Cardinality({k} \X B[k]) = Cardinality(B[k])
    <3>1. IsFiniteSet({k}) /\ Cardinality({k}) = 1
      BY FS_Singleton
    <3>2. IsFiniteSet({k} \X B[k]) /\ Cardinality({k} \X B[k]) = 1 * Cardinality(B[k])
      BY <2>8, <3>1, FS_Product
    <3> QED BY <2>8, <3>2
  <2>10. CASE k = 1
    <3>1. Pairs(1) = {1} \X B[1] /\ Elements(1) = ToSet(seqs[1])
      <4>1. 1 .. 1 = {1}
        OBVIOUS
      <4> QED BY <4>1
    <3>2. f[1] = seqs[1]
      BY <2>3, <2>7, <2>10
    <3> HIDE DEF Pairs, Elements
    <3> QED BY <2>7, <2>8, <2>9, <2>10, <3>1, <3>2
  <2>11. CASE k # 1
    <3>1. k - 1 \in 1 .. n /\ k - 1 \in Nat /\ ~ (k <= k - 1) /\ 1 .. k = (1 .. k - 1) \union {k}
      BY <1>1, <2>7, <2>11
    <3>2. /\ IsSequence(f[k - 1]) /\ IsFiniteSet(Pairs(k - 1))
          /\ Len(f[k - 1]) = Cardinality(Pairs(k - 1)) /\ ToSet(f[k - 1]) \subseteq Elements(k - 1)
      <4>1. Good(k - 1)
        BY <2>6, <3>1
      <4> QED BY <4>1
    <3>3. Pairs(k) = Pairs(k - 1) \union ({k} \X B[k]) /\ Elements(k) = Elements(k - 1) \union ToSet(seqs[k])
      BY <3>1
    <3>4. Pairs(k - 1) \intersect ({k} \X B[k]) = {}
      <4>1. \A x \in Pairs(k - 1) : x[1] \in 1 .. k - 1
        OBVIOUS
      <4>2. k \notin 1 .. k - 1
        BY <2>7
      <4>3. \A x \in {k} \X B[k] : x[1] = k
        OBVIOUS
      <4> HIDE DEF Pairs
      <4> QED BY <4>1, <4>2, <4>3
    <3>5. f[k] = f[k - 1] \o seqs[k]
      BY <2>3, <2>7, <2>11
    <3> DEFINE K == {k} \X B[k]
               P == Pairs(k - 1)
               g == f[k - 1]
               t == seqs[k]
    <3> HIDE DEF Pairs, Elements
    <3>6. /\ IsFiniteSet(Pairs(k))
          /\ Cardinality(Pairs(k)) = Cardinality(Pairs(k - 1)) + Cardinality(B[k])
      <4>1. /\ IsFiniteSet(P) /\ IsFiniteSet(K) /\ P \intersect K = {}
            /\ Cardinality(K) = Cardinality(B[k]) /\ Pairs(k) = P \union K
        BY <2>9, <3>2, <3>3, <3>4
      <4> HIDE DEF P, K
      <4>2. /\ IsFiniteSet(P \union K)
            /\ Cardinality(P \union K) = Cardinality(P) + Cardinality(K) - Cardinality(P \intersect K)
        BY <4>1, FS_Union
      <4>3. Cardinality({}) = 0 /\ Cardinality(P) \in Nat
        BY <4>1, FS_EmptySet, FS_CardinalityType
      <4>4. Cardinality(P \union K) = Cardinality(P) + Cardinality(B[k])
        <5>1. Cardinality(P \intersect K) = 0
          BY <4>1, <4>3
        <5> QED BY <2>8, <4>1, <4>2, <4>3, <5>1
      <4> QED BY <4>1, <4>2, <4>4 DEF P
    <3>7. /\ IsSequence(f[k]) /\ Len(f[k]) = Len(f[k - 1]) + Len(seqs[k])
          /\ ToSet(f[k]) = ToSet(f[k - 1]) \union ToSet(seqs[k])
      <4>1. IsSequence(g) /\ IsSequence(t) /\ f[k] = g \o t
        BY <2>8, <3>2, <3>5
      <4> HIDE DEF g, t
      <4>2. IsSequence(g \o t) /\ Len(g \o t) = Len(g) + Len(t) /\ ToSet(g \o t) = ToSet(g) \union ToSet(t)
        BY <4>1, ConcatIs
      <4> QED BY <4>1, <4>2 DEF g, t
    <3> QED BY <2>7, <2>8, <3>2, <3>3, <3>6, <3>7
  <2> QED BY <2>10, <2>11
<1> QED BY <1>2, <1>3

-----------------------------------------------------------------------------
(* Types                                                                     *)

\* The worlds' runs, jobs and groups are sequences.
LEMMA WorldIs ==
  ASSUME NEW w \in Worlds
  PROVE  /\ IsSequence(w.runs) /\ DOMAIN w.runs = 1 .. Len(w.runs) /\ Len(w.runs) \in Nat
         /\ \A r \in DOMAIN w.runs : IsSequence(w.runs[r].tasks)
         /\ IsSequence(w.jobs) /\ DOMAIN w.jobs = 1 .. Len(w.jobs) /\ Len(w.jobs) \in Nat
         /\ \A i \in DOMAIN w.jobs : w.jobs[i] \in ToSet(w.jobs) /\ w.jobs[i].groups \in Seq(DOMAIN w.group)
         /\ \A g \in DOMAIN w.group : IsSequence(w.group[g])
<1>1. IsSequence(w.runs) /\ IsSequence(w.jobs)
  BY FailureSummaryAssumption
<1> QED BY <1>1, SequenceIs, FailureSummaryAssumption DEF ToSet

\* Of some numbers up to n one is the largest.
LEMMA LastOf ==
  ASSUME NEW n \in Nat, NEW S \in SUBSET (1 .. n), S # {}
  PROVE  \E i \in S : \A k \in S : k <= i
<1>1. {n - i : i \in S} \subseteq Nat /\ {n - i : i \in S} # {}
  <2>1. \A i \in S : i \in 1 .. n /\ n - i \in Nat
    OBVIOUS
  <2> QED BY <2>1
<1>2. PICK x \in {n - i : i \in S} : \A y \in {n - i : i \in S} : x <= y
  BY <1>1, LeastOf
<1>3. PICK i \in S : x = n - i
  BY <1>2
<1>4. \A k \in S : n - i <= n - k
  BY <1>2, <1>3
<1> QED BY <1>3, <1>4

\* What the next steps find: nothing, a job, a group's failing tasks, or all of a run.
LEMMA FoundByCollect ==
  ASSUME SummaryTypeOK, Collect
  PROVE  /\ IsSequence(failures') /\ Len(failures') = Cardinality(BadInRuns)
         /\ \A e \in ToSet(failures') : e.kind = "task"
<1> DEFINE runs == world.runs
           found(r) == failing_tasks(runs[r].pool, runs[r].tasks)
           seqs == [r \in DOMAIN runs |-> found(r)]
           B == [r \in DOMAIN runs |-> Bad(runs[r].tasks)]
<1>1. /\ DOMAIN runs = 1 .. Len(runs) /\ Len(runs) \in Nat
      /\ \A r \in DOMAIN runs : IsSequence(runs[r].tasks)
  BY WorldIs DEF SummaryTypeOK
<1>2. \A r \in DOMAIN runs : /\ IsSequence(found(r)) /\ IsFiniteSet(B[r]) /\ Len(found(r)) = Cardinality(B[r])
                             /\ \A e \in ToSet(found(r)) : e.kind = "task"
  BY <1>1, FailingTasksAre
<1>3. UNION {{r} \X B[r] : r \in DOMAIN runs} = BadInRuns
  BY DEF BadInRuns
<1>4. failures' = FlattenSeq(seqs)
  BY DEF Collect
<1> HIDE DEF B, found
<1>5. seqs = [r \in 1 .. Len(runs) |-> seqs[r]]
  BY <1>1
<1>6. IsSequence(seqs)
  BY <1>1, <1>5, FunctionIsSequence
<1>7. DOMAIN seqs = DOMAIN runs /\ \A r \in DOMAIN runs : seqs[r] = found(r)
  OBVIOUS
<1> HIDE DEF seqs, runs
<1>8. \A r \in DOMAIN seqs : /\ IsSequence(seqs[r]) /\ IsFiniteSet(B[r]) /\ Len(seqs[r]) = Cardinality(B[r])
  BY <1>2, <1>7
<1>9. /\ IsSequence(FlattenSeq(seqs))
      /\ Len(FlattenSeq(seqs)) = Cardinality(UNION {{r} \X B[r] : r \in DOMAIN seqs})
      /\ ToSet(FlattenSeq(seqs)) \subseteq UNION {ToSet(seqs[r]) : r \in DOMAIN seqs}
  BY <1>6, <1>8, FlattenIs
<1> QED BY <1>2, <1>3, <1>4, <1>7, <1>9

\* A failed job adds itself to the failures.
LEMMA FoundByJob ==
  ASSUME SummaryTypeOK, Job
  PROVE  LET j == world.jobs[job + 1] IN
         /\ job + 1 \in DOMAIN world.jobs /\ job' = job + 1
         /\ j.groups \in Seq(DOMAIN world.group)
         /\ Failing(j) => /\ IsSequence(failures') /\ Len(failures') = Len(failures) + 1
                          /\ ToSet(failures') = ToSet(failures) \union {[name |-> j.name, pool |-> j.pool, kind |-> "job"]}
         /\ ~ Failing(j) => UNCHANGED failures
<1> DEFINE j == world.jobs[job + 1]
           e == [name |-> j.name, pool |-> j.pool, kind |-> "job"]
<1>1. world \in Worlds /\ job \in 0 .. Len(world.jobs) /\ IsSequence(failures)
  BY DEF SummaryTypeOK
<1>2. /\ DOMAIN world.jobs = 1 .. Len(world.jobs) /\ Len(world.jobs) \in Nat
      /\ \A i \in DOMAIN world.jobs : world.jobs[i].groups \in Seq(DOMAIN world.group)
  BY <1>1, WorldIs
<1>3. job < Len(world.jobs) /\ job' = job + 1
  BY DEF Job
<1>4. job + 1 \in DOMAIN world.jobs
  BY <1>1, <1>2, <1>3
<1>5. (Failing(j) => failures' = Append(failures, e)) /\ (~ Failing(j) => UNCHANGED failures)
  BY DEF Job
<1>6. /\ IsSequence(Append(failures, e)) /\ Len(Append(failures, e)) = Len(failures) + 1
      /\ ToSet(Append(failures, e)) = ToSet(failures) \union {e}
  <2> HIDE DEF e
  <2> QED BY <1>1, AppendIs
<1> QED BY <1>2, <1>3, <1>4, <1>5, <1>6

\* A group that is listed adds its failing tasks, another one nothing.
LEMMA FoundByGroup ==
  ASSUME SummaryTypeOK, Group
  PROVE  LET g == Head(groups)
             f == failing_tasks(world.jobs[job].pool, world.group[g])
         IN  /\ g \in DOMAIN world.group /\ groups' \in Seq(DOMAIN world.group)
             /\ \/ UNCHANGED <<failures, listed>>
                \/ /\ listed' = listed \union {g}
                   /\ IsSequence(failures') /\ Len(failures') = Len(failures) + Len(f) /\ Len(f) \in Nat
                   /\ ToSet(failures') = ToSet(failures) \union ToSet(f)
                   /\ \A e \in ToSet(f) : e.kind = "task"
                   /\ {e.name : e \in ToSet(f)} = {world.group[g][i].name : i \in Bad(world.group[g])}
<1> DEFINE g == Head(groups)
           f == failing_tasks(world.jobs[job].pool, world.group[g])
<1>1. g \in DOMAIN world.group /\ groups' \in Seq(DOMAIN world.group)
  BY HeadTailProperties DEF SummaryTypeOK, Group
<1>2. IsSequence(world.group[g])
  BY <1>1, WorldIs DEF SummaryTypeOK
<1>3. /\ IsSequence(f) /\ Len(f) \in Nat
      /\ \A e \in ToSet(f) : e.kind = "task"
      /\ {e.name : e \in ToSet(f)} = {world.group[g][i].name : i \in Bad(world.group[g])}
  BY <1>2, FailingTasksAre, SequenceIs
<1>4. UNCHANGED <<failures, listed>> \/ (failures' = failures \o f /\ listed' = listed \union {g})
  BY DEF Group
<1>5. IsSequence(failures)
  BY DEF SummaryTypeOK
<1> HIDE DEF f, g
<1>6. /\ IsSequence(failures \o f) /\ Len(failures \o f) = Len(failures) + Len(f)
      /\ ToSet(failures \o f) = ToSet(failures) \union ToSet(f)
  BY <1>3, <1>5, ConcatIs
<1> QED BY <1>1, <1>3, <1>4, <1>6 DEF f, g

Kinds(s) == \A e \in ToSet(s) : e.kind \in {"job", "task"}

\* The types say of each failure what it is.
LEMMA KindsAre == SummaryTypeOK => Kinds(failures) /\ DOMAIN failures = 1 .. Len(failures) /\ Len(failures) \in Nat
BY SequenceIs DEF SummaryTypeOK, Kinds, ToSet

\* A larger list of failures is one of the types' lists still.
LEMMA MoreFound ==
  ASSUME SummaryTypeOK, UNCHANGED <<world, caller, output, prompt>>,
         IsSequence(failures'), Kinds(failures'), Len(failures) <= Len(failures')
  PROVE  /\ Len(failures') \in Nat /\ DOMAIN failures' = 1 .. Len(failures')
         /\ DOMAIN failures \subseteq DOMAIN failures'
         /\ \A i \in DOMAIN failures' : failures'[i].kind \in {"job", "task"}
         /\ \A n \in DOMAIN output'.rows : output'.rows[n] \in 0 .. Len(failures')
<1>1. /\ Len(failures') \in Nat /\ DOMAIN failures' = 1 .. Len(failures')
      /\ Len(failures) \in Nat /\ DOMAIN failures = 1 .. Len(failures)
  BY KindsAre, SequenceIs
<1>2. 1 .. Len(failures) \subseteq 1 .. Len(failures') /\ 0 .. Len(failures) \subseteq 0 .. Len(failures')
  BY <1>1
<1>3. \A i \in DOMAIN failures' : failures'[i].kind \in {"job", "task"}
  BY DEF Kinds, ToSet
<1>4. \A n \in DOMAIN output.rows : output.rows[n] \in 0 .. Len(failures)
  BY DEF SummaryTypeOK
<1> QED BY <1>1, <1>2, <1>3, <1>4

\* Each step keeps the types.
LEMMA SummaryTypeNext == ASSUME SummaryTypeOK, NothingIsFound, [SummaryNext]_summaryVars PROVE SummaryTypeOK'
<1>0. Kinds(failures) /\ DOMAIN failures = 1 .. Len(failures) /\ Len(failures) \in Nat /\ IsSequence(failures)
  BY KindsAre DEF SummaryTypeOK
<1>1. CASE Collect
  <2>1. IsSequence(failures') /\ Kinds(failures')
    BY <1>1, FoundByCollect DEF Kinds
  <2>2. /\ UNCHANGED <<world, caller, job, groups, listed, logs, prompt, output>>
        /\ stage' \in {"finished", "quote"} /\ Len(failures) = 0
    BY <1>1 DEF Collect, NothingIsFound
  <2>3. Len(failures') \in Nat
    BY <2>1, SequenceIs
  <2>4. UNCHANGED <<world, caller, output, prompt>> /\ Len(failures) <= Len(failures')
    BY <2>2, <2>3
  <2>5. /\ DOMAIN failures \subseteq DOMAIN failures'
        /\ \A i \in DOMAIN failures' : failures'[i].kind \in {"job", "task"}
        /\ \A n \in DOMAIN output'.rows : output'.rows[n] \in 0 .. Len(failures')
    BY <2>1, <2>4, MoreFound
  <2> QED BY <2>1, <2>2, <2>5 DEF SummaryTypeOK
<1>2. CASE Jobs
  BY <1>2 DEF Jobs, SummaryTypeOK
<1>3. CASE Job
  <2> DEFINE j == world.jobs[job + 1]
  <2>1. UNCHANGED <<world, caller, stage, listed, prompt, output>>
    BY <1>3 DEF Job
  <2>2. job' \in 0 .. Len(world.jobs) /\ j.groups \in Seq(DOMAIN world.group)
    <3>1. job' = job + 1 /\ job + 1 \in DOMAIN world.jobs /\ j.groups \in Seq(DOMAIN world.group)
      BY <1>3, FoundByJob
    <3>2. DOMAIN world.jobs = 1 .. Len(world.jobs) /\ Len(world.jobs) \in Nat
      BY WorldIs DEF SummaryTypeOK
    <3> QED BY <3>1, <3>2
  <2>3. /\ IsSequence(failures') /\ Kinds(failures') /\ Len(failures) <= Len(failures')
        /\ Failing(j) => Len(failures') = Len(failures) + 1
    <3>1. CASE Failing(j)
      <4>1. /\ IsSequence(failures') /\ Len(failures') = Len(failures) + 1
            /\ ToSet(failures') = ToSet(failures) \union {[name |-> j.name, pool |-> j.pool, kind |-> "job"]}
        BY <1>3, <3>1, FoundByJob
      <4> QED BY <1>0, <4>1 DEF Kinds
    <3>2. CASE ~ Failing(j)
      <4>1. failures' = failures
        BY <1>3, <3>2, FoundByJob
      <4>2. IsSequence(failures') /\ Kinds(failures')
        BY <1>0, <4>1
      <4>3. Len(failures) <= Len(failures')
        BY <1>0, <4>1, SMTT(30)
      <4> QED BY <3>2, <4>2, <4>3
    <3> QED BY <3>1, <3>2
  <2>4. /\ Len(failures') \in Nat /\ DOMAIN failures' = 1 .. Len(failures')
        /\ DOMAIN failures \subseteq DOMAIN failures'
        /\ \A i \in DOMAIN failures' : failures'[i].kind \in {"job", "task"}
        /\ \A n \in DOMAIN output'.rows : output'.rows[n] \in 0 .. Len(failures')
    BY <2>1, <2>3, MoreFound
  <2>5. DOMAIN logs' \subseteq DOMAIN failures' /\ \A i \in DOMAIN logs' : logs'[i] \in Logs
    <3>1. DOMAIN logs \subseteq DOMAIN failures /\ \A i \in DOMAIN logs : logs[i] \in Logs
      BY DEF SummaryTypeOK
    <3>2. CASE UNCHANGED logs
      BY <2>4, <3>1, <3>2
    <3>3. CASE Failing(j) /\ \E log \in Logs :
                 logs' = [i \in DOMAIN logs \union {Len(failures')} |->
                            IF i = Len(failures') THEN log ELSE logs[i]]
      <4>1. Len(failures') \in DOMAIN failures'
        BY <1>0, <2>3, <2>4, <3>3
      <4> QED BY <2>4, <3>1, <3>3, <4>1
    <3> QED BY <1>3, <3>2, <3>3 DEF Job
  <2>6. groups' \in Seq(DOMAIN world.group)
    <3>1. groups' \in {<<>>, groups, j.groups}
      BY <1>3 DEF Job
    <3> QED BY <2>2, <3>1, EmptySeq DEF SummaryTypeOK
  <2> QED BY <2>1, <2>2, <2>3, <2>4, <2>5, <2>6 DEF SummaryTypeOK
<1>4. CASE Group
  <2>1. UNCHANGED <<world, caller, stage, job, logs, prompt, output>>
    BY <1>4 DEF Group
  <2>2. groups' \in Seq(DOMAIN world.group) /\ listed' \subseteq DOMAIN world.group
    BY <1>4, FoundByGroup DEF SummaryTypeOK
  <2>3. IsSequence(failures') /\ Kinds(failures') /\ Len(failures) <= Len(failures')
    <3>1. CASE UNCHANGED failures
      BY <1>0, <3>1
    <3>2. CASE ~ UNCHANGED failures
      <4> DEFINE f == failing_tasks(world.jobs[job].pool, world.group[Head(groups)])
      <4>1. /\ IsSequence(failures') /\ Len(failures') = Len(failures) + Len(f) /\ Len(f) \in Nat
            /\ ToSet(failures') = ToSet(failures) \union ToSet(f)
            /\ \A e \in ToSet(f) : e.kind = "task"
        BY <1>4, <3>2, FoundByGroup
      <4> HIDE DEF f
      <4> QED BY <1>0, <4>1 DEF Kinds
    <3> QED BY <3>1, <3>2
  <2> QED BY <2>1, <2>2, <2>3, MoreFound DEF SummaryTypeOK
<1>5. CASE Collected
  BY <1>5 DEF Collected, SummaryTypeOK
<1>6. CASE Unavailable
  BY <1>6 DEF Unavailable, SummaryTypeOK
<1>7. CASE Quote
  <2>1. UNCHANGED <<world, caller, job, groups, failures, listed, prompt, output>> /\ stage' = "list"
    BY <1>7 DEF Quote
  <2>2. DOMAIN logs' \subseteq DOMAIN failures /\ \A i \in DOMAIN logs' : logs'[i] \in Logs
    <3>1. DOMAIN logs \subseteq DOMAIN failures /\ \A i \in DOMAIN logs : logs[i] \in Logs
      BY DEF SummaryTypeOK
    <3>2. PICK readable \in SUBSET Quoted : \E read \in [readable -> Logs] :
            logs' = [i \in DOMAIN logs \union readable |-> IF i \in readable THEN read[i] ELSE logs[i]]
      BY <1>7 DEF Quote
    <3>3. readable \subseteq DOMAIN failures
      BY DEF Quoted
    <3> QED BY <3>1, <3>2, <3>3
  <2> QED BY <2>1, <2>2 DEF SummaryTypeOK
<1>8. CASE List
  BY <1>8 DEF List, SummaryTypeOK
<1>9. CASE Ask
  <2>1. DOMAIN build_prompt = {"failed", "quoted", "dropped"}
    BY DEF build_prompt
  <2> QED BY <1>9, <2>1 DEF Ask, SummaryTypeOK
<1>10. CASE Write
  <2> DEFINE named(n) == {i \in DOMAIN failures : failures[i].name = n}
             link(n) == IF named(n) = {} THEN 0 ELSE CHOOSE i \in named(n) : \A k \in named(n) : k <= i
  <2>1. UNCHANGED <<world, caller, job, groups, failures, listed, logs, prompt>> /\ stage' = "finished"
    BY <1>10 DEF Write
  <2>2. ASSUME NEW n PROVE link(n) \in 0 .. Len(failures)
    <3> DEFINE N == named(n)
    <3>1. N \in SUBSET (1 .. Len(failures))
      BY <1>0
    <3>2. link(n) = IF N = {} THEN 0 ELSE CHOOSE i \in N : \A k \in N : k <= i
      OBVIOUS
    <3> HIDE DEF N, link
    <3>3. CASE N = {}
      BY <1>0, <3>2, <3>3
    <3>4. CASE N # {}
      <4>1. \E i \in N : \A k \in N : k <= i
        BY <1>0, <3>1, <3>4, LastOf
      <4>2. link(n) \in N
        BY <3>2, <3>4, <4>1
      <4>3. 1 .. Len(failures) \subseteq 0 .. Len(failures)
        BY <1>0
      <4> QED BY <3>1, <4>2, <4>3
    <3> QED BY <3>3, <3>4
  <2>3. CASE output' = IF caller = "alpha" THEN [output EXCEPT !.note = "no analysis"] ELSE output
    BY <2>1, <2>3 DEF SummaryTypeOK
  <2>4. CASE \E names \in (SUBSET ({failures[i].name : i \in DOMAIN failures} \union {"another"})) \ {{}} :
               output' = [output EXCEPT !.rows = [n \in names |-> link(n)]]
    <3> HIDE DEF link
    <3>1. PICK names : output' = [output EXCEPT !.rows = [n \in names |-> link(n)]]
      BY <2>4
    <3>2. /\ DOMAIN output' = DOMAIN output /\ output'.note = output.note
          /\ output'.rows = [n \in names |-> link(n)]
      BY <3>1 DEF SummaryTypeOK
    <3>3. \A n \in DOMAIN output'.rows : output'.rows[n] \in 0 .. Len(failures)
      BY <2>2, <3>2
    <3>4. DOMAIN output' = {"list", "note", "rows"} /\ output'.note \in {"", "unavailable", "no failures", "no analysis"}
      BY <3>2 DEF SummaryTypeOK
    <3> QED BY <2>1, <3>3, <3>4 DEF SummaryTypeOK
  <2> QED BY <1>10, <2>3, <2>4 DEF Write
<1>11. CASE UNCHANGED summaryVars
  BY <1>11 DEF summaryVars, SummaryTypeOK
<1> QED BY <1>1, <1>2, <1>3, <1>4, <1>5, <1>6, <1>7, <1>8, <1>9, <1>10, <1>11 DEF SummaryNext

-----------------------------------------------------------------------------
(* What is found, and what is written                                        *)

\* The part of build_prompt that a reader counts: what is quoted and what is not.
LEMMA PromptCounts ==
  ASSUME SummaryTypeOK
  PROVE  /\ build_prompt.failed = Len(failures)
         /\ Len(build_prompt.quoted) \in Nat /\ Len(build_prompt.quoted) <= MaxQuoted
         /\ Len(build_prompt.quoted) + build_prompt.dropped = Len(failures)
         /\ build_prompt.dropped > 0 => Len(build_prompt.quoted) = MaxQuoted
         /\ \A i \in DOMAIN build_prompt.quoted :
              i \in DOMAIN logs => build_prompt.quoted[i].excerpt = log_excerpt(logs[i])
<1> DEFINE n == IF MaxQuoted < Len(failures) THEN MaxQuoted ELSE Len(failures)
           q == [i \in 1 .. n |-> [task |-> failures[i].name,
                                   excerpt |-> IF i \in DOMAIN logs THEN log_excerpt(logs[i]) ELSE <<>>]]
<1>1. MaxQuoted \in Nat /\ IsSequence(failures) /\ Len(failures) \in Nat
  BY FailureSummaryAssumption, KindsAre DEF SummaryTypeOK
<1>2. Len(Leading(failures, MaxQuoted)) = n
  BY <1>1, LeadingIs
<1>3. /\ build_prompt.failed = Len(failures) /\ build_prompt.quoted = q
      /\ build_prompt.dropped = Len(failures) - n
  BY <1>2 DEF build_prompt
<1>4. \A i \in 1 .. n : i \in DOMAIN logs => q[i].excerpt = log_excerpt(logs[i])
  OBVIOUS
<1>5. n \in Nat /\ n <= MaxQuoted /\ n + (Len(failures) - n) = Len(failures)
      /\ (Len(failures) - n > 0 => n = MaxQuoted)
  BY <1>1
<1>6. q = [i \in 1 .. n |-> q[i]] /\ DOMAIN q = 1 .. n
  OBVIOUS
<1> HIDE DEF n, q
<1>7. Len(q) = n
  BY <1>5, <1>6, FunctionIsSequence
<1> QED BY <1>3, <1>4, <1>5, <1>6, <1>7

\* Who is asked, and what was found, step by step.
LEMMA FoundNext ==
  ASSUME SummaryTypeOK, NothingIsFound, OnlyAlphaHasJobs, AllJobsAreSeen, FoundSoFar, HardwareIsCounted, [SummaryNext]_summaryVars
  PROVE  NothingIsFound' /\ OnlyAlphaHasJobs' /\ AllJobsAreSeen' /\ FoundSoFar' /\ HardwareIsCounted'
<1>0. UNCHANGED <<world, job, failures, listed>> => UNCHANGED <<FailedJobs, BadTasks, BadInRuns, Names(failures)>>
  BY DEF FailedJobs, Failing, BadTasks, BadInRuns
<1>1. CASE Collect
  <2>1. stage' \in {"finished", "quote"} /\ caller = "hw" /\ UNCHANGED <<caller, world>>
    BY <1>1 DEF Collect
  <2>2. Len(failures') = Cardinality(BadInRuns)
    BY <1>1, FoundByCollect
  <2> QED BY <2>1, <2>2 DEF NothingIsFound, OnlyAlphaHasJobs, AllJobsAreSeen, FoundSoFar, HardwareIsCounted, BadInRuns
<1>2. CASE Jobs
  BY <1>0, <1>2 DEF Jobs, NothingIsFound, OnlyAlphaHasJobs, AllJobsAreSeen, FoundSoFar, HardwareIsCounted
<1>3. CASE Job
  <2> DEFINE j == world.jobs[job + 1]
             e == [name |-> j.name, pool |-> j.pool, kind |-> "job"]
  <2>1. UNCHANGED <<world, caller, stage, listed>> /\ stage = "jobs" /\ caller = "alpha" /\ job' = job + 1
    BY <1>3 DEF Job, OnlyAlphaHasJobs
  <2>2. job \in Nat /\ 1 .. job + 1 = (1 .. job) \union {job + 1}
    <3>1. job \in 0 .. Len(world.jobs) /\ Len(world.jobs) \in Nat
      BY WorldIs DEF SummaryTypeOK
    <3> QED BY <3>1
  <2>3. FailedJobs' = FailedJobs \union (IF Failing(j) THEN {job + 1} ELSE {})
    BY <2>1, <2>2 DEF FailedJobs, Failing
  <2>4. Names(failures') = Names(failures) \union (IF Failing(j) THEN {j.name} ELSE {})
    <3>1. Names(failures') = {f.name : f \in ToSet(failures')} /\ Names(failures) = {f.name : f \in ToSet(failures)}
      BY DEF Names, ToSet
    <3>2. CASE Failing(j)
      <4>1. ToSet(failures') = ToSet(failures) \union {e}
        BY <1>3, <3>2, FoundByJob
      <4>2. e.name = j.name
        OBVIOUS
      <4> HIDE DEF e, j
      <4> QED BY <3>1, <3>2, <4>1, <4>2
    <3>3. CASE ~ Failing(j)
      <4>1. failures' = failures
        BY <1>3, <3>3, FoundByJob
      <4> HIDE DEF j
      <4> QED BY <3>3, <4>1
    <3> QED BY <3>2, <3>3
  <2>5. FoundSoFar'
    <3>1. BadTasks' = BadTasks
      BY <2>1 DEF BadTasks
    <3>2. {world.jobs[i].name : i \in FailedJobs'} =
            {world.jobs[i].name : i \in FailedJobs} \union (IF Failing(j) THEN {j.name} ELSE {})
      <4> HIDE DEF j
      <4>1. world.jobs[job + 1] = j
        BY DEF j
      <4> QED BY <2>3, <4>1
    <3> DEFINE new == IF Failing(j) THEN {j.name} ELSE {}
    <3>3. /\ Names(failures') = Names(failures) \union new
          /\ {world.jobs[i].name : i \in FailedJobs'} = {world.jobs[i].name : i \in FailedJobs} \union new
      BY <2>4, <3>2
    <3> HIDE DEF j, new
    <3> QED BY <2>1, <3>1, <3>3 DEF FoundSoFar
  <2> QED BY <2>1, <2>5 DEF NothingIsFound, OnlyAlphaHasJobs, AllJobsAreSeen, HardwareIsCounted
<1>4. CASE Group
  <2> DEFINE g == Head(groups)
             f == failing_tasks(world.jobs[job].pool, world.group[g])
             found == {world.group[g][i].name : i \in Bad(world.group[g])}
  <2>1. UNCHANGED <<world, caller, stage, job>> /\ stage = "jobs" /\ caller = "alpha"
    BY <1>4 DEF Group, OnlyAlphaHasJobs
  <2>2. \/ UNCHANGED <<failures, listed>>
        \/ /\ listed' = listed \union {g} /\ ToSet(failures') = ToSet(failures) \union ToSet(f)
           /\ {e.name : e \in ToSet(f)} = found
    BY <1>4, FoundByGroup
  <2>3. FailedJobs' = FailedJobs
    BY <2>1 DEF FailedJobs, Failing
  <2>4. CASE UNCHANGED <<failures, listed>>
    BY <2>1, <2>3, <2>4 DEF NothingIsFound, OnlyAlphaHasJobs, AllJobsAreSeen, FoundSoFar, HardwareIsCounted,
                           BadTasks
  <2>5. CASE /\ listed' = listed \union {g} /\ ToSet(failures') = ToSet(failures) \union ToSet(f)
             /\ {e.name : e \in ToSet(f)} = found
    <3>1. BadTasks' = BadTasks \union found
      BY <2>1, <2>5 DEF BadTasks
    <3>2. Names(failures') = Names(failures) \union found
      <4>1. Names(failures') = {e.name : e \in ToSet(failures')} /\ Names(failures) = {e.name : e \in ToSet(failures)}
        BY DEF Names, ToSet
      <4> HIDE DEF f, found
      <4> QED BY <2>5, <4>1
    <3>3. FoundSoFar'
      <4> HIDE DEF found
      <4> QED BY <2>1, <2>3, <3>1, <3>2 DEF FoundSoFar
    <3> QED BY <2>1, <3>3 DEF NothingIsFound, OnlyAlphaHasJobs, AllJobsAreSeen, HardwareIsCounted
  <2> QED BY <2>2, <2>4, <2>5
<1>5. CASE Collected
  BY <1>0, <1>5 DEF Collected, NothingIsFound, OnlyAlphaHasJobs, AllJobsAreSeen, FoundSoFar, HardwareIsCounted
<1>6. CASE /\ UNCHANGED <<world, caller, job, failures, listed>>
           /\ stage' \in {"list", "ask", "write", "finished"}
           /\ stage \in {"quote", "list", "ask", "write"} \/ (stage' = "finished" /\ caller = "alpha")
  BY <1>0, <1>6 DEF NothingIsFound, OnlyAlphaHasJobs, AllJobsAreSeen, FoundSoFar, HardwareIsCounted
<1>7. CASE Unavailable
  BY <1>6, <1>7 DEF Unavailable
<1>8. CASE Quote
  BY <1>6, <1>8 DEF Quote
<1>9. CASE List
  BY <1>6, <1>9 DEF List
<1>10. CASE Ask
  BY <1>6, <1>10 DEF Ask
<1>11. CASE Write
  BY <1>6, <1>11 DEF Write
<1>12. CASE UNCHANGED summaryVars
  BY <1>0, <1>12 DEF summaryVars, NothingIsFound, OnlyAlphaHasJobs, AllJobsAreSeen, FoundSoFar, HardwareIsCounted
<1> QED BY <1>1, <1>2, <1>3, <1>4, <1>5, <1>7, <1>8, <1>9, <1>10, <1>11, <1>12 DEF SummaryNext

\* No step changes a list that is written, or asks before it is.
LEMMA WrittenNext ==
  ASSUME SummaryTypeOK, OnlyAlphaHasJobs, AllJobsAreSeen, NothingIsWritten, ListIsWhole, ListIsWritten, PromptIsBuilt,
         [SummaryNext]_summaryVars
  PROVE  NothingIsWritten' /\ ListIsWhole' /\ ListIsWritten' /\ PromptIsBuilt'
<1>1. CASE /\ UNCHANGED <<caller, output, prompt>> /\ stage \in {"collect", "jobs", "quote"}
           /\ stage' \in {"jobs", "quote", "list"} \/ (stage' = "finished" /\ caller = "hw")
  BY <1>1 DEF NothingIsWritten, ListIsWhole, ListIsWritten, PromptIsBuilt
<1>2. CASE Collect
  BY <1>1, <1>2 DEF Collect
<1>3. CASE Jobs
  BY <1>1, <1>3 DEF Jobs
<1>4. CASE Job
  BY <1>1, <1>4 DEF Job
<1>5. CASE Group
  BY <1>1, <1>5 DEF Group
<1>6. CASE Collected
  BY <1>1, <1>6 DEF Collected
<1>7. CASE Quote
  BY <1>1, <1>7 DEF Quote
<1>8. UNCHANGED <<failures, logs>> => build_prompt' = build_prompt
  BY DEF build_prompt
<1>9. CASE Unavailable
  <2>1. /\ UNCHANGED <<caller, job, failures, logs, prompt, world>> /\ caller = "alpha" /\ stage' = "finished"
        /\ output'.list = output.list /\ output'.note = "unavailable"
    BY <1>9 DEF Unavailable, SummaryTypeOK
  <2> QED BY <1>8, <2>1, <1>9 DEF NothingIsWritten, ListIsWhole, ListIsWritten, PromptIsBuilt, Unavailable
<1>10. CASE List
  <2> DEFINE names == [i \in DOMAIN failures |-> failures[i].name]
  <2>1. UNCHANGED <<caller, job, failures, logs, prompt, world>> /\ prompt = <<>>
    BY <1>10 DEF List, PromptIsBuilt
  <2>2. CASE caller = "hw"
    BY <1>10, <2>1, <2>2 DEF List, NothingIsWritten, ListIsWhole, ListIsWritten, PromptIsBuilt
  <2>3. CASE caller # "hw"
    <3>1. /\ output'.list = names
          /\ stage' = IF failures = <<>> THEN "finished" ELSE "ask"
      BY <1>10, <2>3 DEF List, SummaryTypeOK
    <3>2. failures # <<>> => names # <<>>
      <4>1. IsSequence(failures)
        BY DEF SummaryTypeOK
      <4>2. Len(failures) \in Nat /\ DOMAIN failures = 1 .. Len(failures) /\ (Len(failures) = 0 => failures = <<>>)
        BY <4>1 DEF IsSequence
      <4> QED BY <4>2
    <3>3. caller = "alpha" /\ job = Len(world.jobs)
      BY <1>10, <2>3, FailureSummaryAssumption DEF List, AllJobsAreSeen, SummaryTypeOK
    <3> QED BY <2>1, <2>3, <3>1, <3>2, <3>3 DEF NothingIsWritten, ListIsWhole, ListIsWritten, PromptIsBuilt
  <2> QED BY <2>2, <2>3
<1>11. CASE Ask
  BY <1>8, <1>11 DEF Ask, NothingIsWritten, ListIsWhole, ListIsWritten, PromptIsBuilt
<1>12. CASE Write
  <2>1. /\ UNCHANGED <<world, caller, job, failures, logs, prompt>> /\ stage = "write" /\ stage' = "finished"
        /\ output'.list = output.list
        /\ output'.note = output.note \/ (caller = "alpha" /\ output'.note = "no analysis")
    BY <1>12 DEF Write, SummaryTypeOK
  <2> QED BY <1>8, <2>1 DEF NothingIsWritten, ListIsWhole, ListIsWritten, PromptIsBuilt
<1>13. CASE UNCHANGED summaryVars
  BY <1>8, <1>13 DEF summaryVars, NothingIsWritten, ListIsWhole, ListIsWritten, PromptIsBuilt
<1> QED BY <1>2, <1>3, <1>4, <1>5, <1>6, <1>7, <1>9, <1>10, <1>11, <1>12, <1>13 DEF SummaryNext

-----------------------------------------------------------------------------
(* The theorems                                                              *)

\* Every reachable state of a failure summary satisfies its inductive invariant.
THEOREM SummaryInvariant == SummarySpec => []SummaryIInv
<1>1. SummaryInit => SummaryIInv
  <2> SUFFICES ASSUME SummaryInit PROVE SummaryIInv
    OBVIOUS
  <2>1. DOMAIN << >> = {} /\ ToSet(<< >>) = {} /\ IsSequence(<< >>) /\ Len(<< >>) = 0
    BY DEF ToSet, IsSequence
  <2>2. world \in Worlds /\ Len(world.jobs) \in Nat
    BY WorldIs DEF SummaryInit
  <2>3. SummaryTypeOK
    <3> DEFINE named == DOMAIN world.group
    <3>0. job = 0 /\ groups = <<>>
      BY DEF SummaryInit
    <3>1. groups \in Seq(named)
      BY <3>0
    <3>2. IsSequence(failures) /\ DOMAIN failures = {} /\ DOMAIN logs = {}
      BY <2>1 DEF SummaryInit
    <3>3. job \in 0 .. Len(world.jobs)
      BY <2>2, <3>0
    <3>4. DOMAIN output = {"list", "note", "rows"} /\ output.note = "" /\ DOMAIN output.rows = {}
      BY <2>1 DEF SummaryInit
    <3> QED BY <3>1, <3>2, <3>3, <3>4, <2>2 DEF SummaryInit, SummaryTypeOK
  <2>4. FoundSoFar
    <3>0. job = 0
      BY DEF SummaryInit
    <3>1. FailedJobs = {}
      BY <3>0 DEF FailedJobs
    <3>2. BadTasks = {}
      BY DEF SummaryInit, BadTasks
    <3>3. Names(failures) = {}
      BY <2>1 DEF SummaryInit, Names
    <3> QED BY <3>1, <3>2, <3>3 DEF FoundSoFar
  <2> QED BY <2>3, <2>4 DEF SummaryInit, SummaryIInv, NothingIsFound, OnlyAlphaHasJobs, AllJobsAreSeen, HardwareIsCounted,
          NothingIsWritten, ListIsWhole, ListIsWritten, PromptIsBuilt
<1>2. SummaryIInv /\ [SummaryNext]_summaryVars => SummaryIInv'
  BY SummaryTypeNext, FoundNext, WrittenNext DEF SummaryIInv
<1> QED BY <1>1, <1>2, PTL DEF SummarySpec

\* A list that is written has every failed job and every failed task of a listed
\* group and nothing else (alpha_failure_summary.py, collect), if the jobs end in
\* one of the ways the code knows.
THEOREM FailuresAreListed == ASSUME JobsConclude PROVE SummarySpec => []EveryFailureIsListed
<1>1. SummaryIInv => EveryFailureIsListed
  <2> SUFFICES ASSUME SummaryIInv, output.list # <<>> \/ output.note = "no failures"
               PROVE  ToSet(output.list) = {j.name : j \in BadJobs} \union BadTasks
    BY DEF EveryFailureIsListed
  <2>1. /\ caller = "alpha" /\ job = Len(world.jobs)
        /\ output.list = [i \in DOMAIN failures |-> failures[i].name]
    BY DEF SummaryIInv, ListIsWhole
  <2>2. ToSet(output.list) = Names(failures)
    BY <2>1 DEF ToSet, Names
  <2>3. Names(failures) = {world.jobs[i].name : i \in FailedJobs} \union BadTasks
    BY <2>1 DEF SummaryIInv, FoundSoFar
  <2>4. world \in Worlds /\ DOMAIN world.jobs = 1 .. Len(world.jobs)
    BY WorldIs DEF SummaryIInv, SummaryTypeOK
  <2>5. \A i \in DOMAIN world.jobs :
          world.jobs[i].conclusion \in {"success", "failure", "cancelled", "skipped", "timed_out"}
    BY <2>4 DEF JobsConclude, ToSet
  <2>6. BadJobs = {world.jobs[i] : i \in FailedJobs}
    BY <2>1, <2>4, <2>5, ZenonT(60) DEF BadJobs, FailedJobs, Failing, ToSet
  <2> QED BY <2>2, <2>3, <2>6
<1> QED BY <1>1, SummaryInvariant, PTL

\* What is listed stays whatever goes wrong with the model, and a summary that
\* ends says something.
THEOREM ListIsKept == SummarySpec => ListStands
<1>1. SummaryIInv /\ [SummaryNext]_summaryVars =>
        [/\ output.list # <<>> => output'.list = output.list
         /\ stage' = "finished" /\ caller = "alpha" =>
              output'.note # "" \/ (output'.list # <<>> /\ output'.rows # <<>>)]_summaryVars
  <2> DEFINE Stands == /\ output.list # <<>> => output'.list = output.list
                       /\ stage' = "finished" /\ caller = "alpha" =>
                            output'.note # "" \/ (output'.list # <<>> /\ output'.rows # <<>>)
  <2> SUFFICES ASSUME SummaryIInv, SummaryNext PROVE Stands
    OBVIOUS
  <2> USE DEF SummaryIInv
  <2>1. CASE UNCHANGED output /\ (stage' # "finished" \/ caller # "alpha")
    BY <2>1
  <2>2. CASE Unavailable
    BY <2>2 DEF Unavailable, SummaryTypeOK
  <2>3. CASE List
    BY <2>3 DEF List, SummaryTypeOK, NothingIsWritten
  <2>4. CASE Write
    <3>1. CASE output' = IF caller = "alpha" THEN [output EXCEPT !.note = "no analysis"] ELSE output
      BY <2>4, <3>1 DEF Write, SummaryTypeOK
    <3>2. ASSUME NEW names \in (SUBSET ({failures[i].name : i \in DOMAIN failures} \union {"another"})) \ {{}},
                 NEW rows, DOMAIN rows = names, output' = [output EXCEPT !.rows = rows]
          PROVE  Stands
      <4>1. DOMAIN output = {"list", "note", "rows"}
        BY DEF SummaryTypeOK
      <4>2. output'.list = output.list /\ output'.rows = rows
        BY <3>2, <4>1
      <4>3. rows # <<>>
        <5>1. DOMAIN << >> = {}
          OBVIOUS
        <5>2. DOMAIN rows # {}
          BY <3>2, Zenon
        <5> QED BY <5>1, <5>2
      <4> QED BY <2>4, <4>2, <4>3 DEF Write, ListIsWritten
    <3> QED BY <2>4, <3>1, <3>2 DEF Write
  <2> QED BY <2>1, <2>2, <2>3, <2>4 DEF SummaryNext, Collect, Jobs, Job, Group, Collected, Quote, Ask
<1> QED BY <1>1, SummaryInvariant, PTL DEF SummarySpec, ListStands

\* The model is told of every failure, by a quotation or by a count
\* (failure_summary.py, build_prompt).
THEOREM AllAreTold == SummarySpec => []QuotedOrCounted
<1>1. SummaryIInv => QuotedOrCounted
  <2> SUFFICES ASSUME SummaryIInv, prompt # <<>>
               PROVE  /\ prompt.failed = Len(prompt.quoted) + prompt.dropped
                      /\ Len(prompt.quoted) <= MaxQuoted /\ (prompt.dropped > 0 => Len(prompt.quoted) = MaxQuoted)
                      /\ caller = "hw" => prompt.failed = Cardinality(BadInRuns)
    BY DEF QuotedOrCounted
  <2>1. prompt = build_prompt /\ stage # "collect"
    BY DEF SummaryIInv, PromptIsBuilt
  <2>2. SummaryTypeOK /\ (caller = "hw" => Len(failures) = Cardinality(BadInRuns))
    BY <2>1 DEF SummaryIInv, HardwareIsCounted
  <2> QED BY <2>1, <2>2, PromptCounts
<1> QED BY <1>1, SummaryInvariant, PTL

\* The first and the last failure line of a log are in its excerpt, whatever else
\* the log holds, but for failure lines so long that fifty of them overfill it; of
\* those the first is kept, and the cut is told (failure_summary.py, _log_excerpt).
THEOREM FirstAndLastAreKept == SummarySpec => []FirstAndLastAreQuoted
<1>1. SummaryIInv => FirstAndLastAreQuoted
  <2> SUFFICES ASSUME SummaryIInv, prompt # <<>>, NEW i \in DOMAIN prompt.quoted, i \in DOMAIN logs
               PROVE  HasBothEnds(logs[i], prompt.quoted[i].excerpt)
    BY DEF FirstAndLastAreQuoted
  <2>1. prompt = build_prompt /\ SummaryTypeOK
    BY DEF SummaryIInv, PromptIsBuilt
  <2>2. prompt.quoted[i].excerpt = log_excerpt(logs[i])
    BY <2>1, PromptCounts
  <2>3. logs[i] \in Logs
    BY <2>1 DEF SummaryTypeOK
  <2> QED BY <2>2, <2>3, BothEndsAre
<1> QED BY <1>1, SummaryInvariant, PTL
=============================================================================
