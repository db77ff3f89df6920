---------------------------- MODULE HwRunProofs ----------------------------
(* Theorems of the hardware integration run, for every set of pools, copies  *)
(* and upstreams and every value of the timing constants.                    *)
EXTENDS HwRunInv, FiniteSetTheorems, TLAPS

-----------------------------------------------------------------------------
(* The queue: its types, and what none of its steps takes back               *)

\* Moving one task of one group to another state keeps the groups' type.
LEMMA SetTaskType ==
  ASSUME task \in [Pools -> [Members -> TaskStates]],
         NEW p \in Pools, NEW x \in Members, NEW s \in TaskStates, SetTask(p, x, s)
  PROVE  task' \in [Pools -> [Members -> TaskStates]]
<1>1. [task[p] EXCEPT ![x] = s] \in [Members -> TaskStates]  OBVIOUS
<1>2. task' = [task EXCEPT ![p] = [task[p] EXCEPT ![x] = s]]  BY DEF SetTask
<1> QED BY <1>1, <1>2

\* A step of the queue keeps the queue's variables in their types.
LEMMA QueueTypes == QueueTypeOK /\ QueueNext => QueueTypeOK'
<1> SUFFICES ASSUME QueueTypeOK, QueueNext PROVE QueueTypeOK'
    OBVIOUS
<1> USE DEF QueueTypeOK
<1>0. /\ Root \in Members /\ Tasks \subseteq Members
      /\ Resolved \union {"unscheduled", "pending", "running", "cancelled"} \subseteq TaskStates
  BY DEF Members, TaskStates, Unresolved, Resolved
<1>1. ASSUME NEW p \in Pools, HookCreatesDecision(p) \/ HookResolves(p)
      PROVE  QueueTypeOK'
  BY <1>0, <1>1, SetTaskType DEF HookCreatesDecision, HookResolves
<1>2. ASSUME NEW p \in Pools, NEW t \in Tasks,
             DecisionCreatesTask(p, t) \/ TaskScheduled(p, t) \/ TaskCancelled(p, t)
      PROVE  QueueTypeOK'
  BY <1>0, <1>2, SetTaskType DEF DecisionCreatesTask, TaskScheduled, TaskCancelled
<1>3. ASSUME NEW p \in Pools, NEW x \in Members,
             TaskClaimed(p, x) \/ TaskResolves(p, x)
      PROVE  QueueTypeOK'
  BY <1>0, <1>3, SetTaskType DEF TaskClaimed, TaskResolves
<1>4. ASSUME NEW u \in Upstreams,
             UpstreamScheduled(u) \/ UpstreamResolves(u) \/ UpstreamRerun(u)
      PROVE  QueueTypeOK'
  BY <1>4 DEF UpstreamScheduled, UpstreamResolves, UpstreamRerun, TaskStates,
              Unresolved, Resolved
<1> QED BY <1>1, <1>2, <1>3, <1>4 DEF QueueNext

\* What the queue answers is a state of its API.
LEMMA ReportedType == \A s \in TaskStates : Reported(s) \in TaskStates \ {"cancelled"}
  BY DEF TaskStates, Unresolved, Resolved, Reported

\* No step of the queue takes back what has been resolved or created.
LEMMA QueueSteps == QueueTypeOK /\ QueueNext => QueueRespects
<1> SUFFICES ASSUME QueueTypeOK, QueueNext PROVE QueueRespects
    OBVIOUS
<1> USE QueueAssumption DEF QueueTypeOK, QueueRespects, Members, Reported, Resolved, SetTask
<1>1. ASSUME NEW p \in Pools, HookCreatesDecision(p) \/ HookResolves(p)
      PROVE  QueueRespects
  BY <1>1 DEF HookCreatesDecision, HookResolves
<1>2. ASSUME NEW p \in Pools, NEW t \in Tasks,
             DecisionCreatesTask(p, t) \/ TaskScheduled(p, t) \/ TaskCancelled(p, t)
      PROVE  QueueRespects
  BY <1>2 DEF DecisionCreatesTask, TaskScheduled, TaskCancelled
<1>3. ASSUME NEW p \in Pools, NEW x \in Members,
             TaskClaimed(p, x) \/ TaskResolves(p, x)
      PROVE  QueueRespects
  BY <1>3 DEF TaskClaimed, TaskResolves
<1>4. ASSUME NEW u \in Upstreams,
             UpstreamScheduled(u) \/ UpstreamResolves(u) \/ UpstreamRerun(u)
      PROVE  QueueRespects
  BY <1>4 DEF UpstreamScheduled, UpstreamResolves, UpstreamRerun
<1> QED BY <1>1, <1>2, <1>3, <1>4 DEF QueueNext

---------------------------------------------------------------------------
(* Types                                                                    *)

\* wait_budget returns a whole number of seconds.
LEMMA BudgetIsNat == ASSUME NEW e \in Nat PROVE wait_budget(e) \in Nat
  BY HwRunAssumption DEF wait_budget

\* A step of the run keeps every variable in its type.
LEMMA TypeInductive == TypeOK /\ [Next]_vars => TypeOK'
<1> USE HwRunAssumption DEF TypeOK, Ended
<1> SUFFICES ASSUME TypeOK, [Next]_vars PROVE TypeOK'  OBVIOUS
<1> USE DEF queueVars, results
<1>1. CASE Preflight
  BY <1>1 DEF Preflight, Exits, QueueTypeOK
<1>2. CASE \E p \in Pools : Trigger(p)
  BY <1>2 DEF Trigger, QueueTypeOK
<1>3. CASE LeaveUnwatched \/ StartDiscovery
  BY <1>3 DEF LeaveUnwatched, StartDiscovery, Exits, QueueTypeOK
<1>4. CASE \E p \in Pools : DiscoverNext(p)
  BY <1>4 DEF DiscoverNext, QueueTypeOK
<1>5. CASE GroupFound \/ DiscoverAgain
  BY <1>5 DEF GroupFound, DiscoverAgain, Sleep, QueueTypeOK
<1>6. CASE GroupNotFound \/ NoLiveRun
  BY <1>6 DEF GroupNotFound, NoLiveRun, Exits, Verdicts, QueueTypeOK
<1>7. CASE StartMonitor
  BY <1>7, BudgetIsNat DEF StartMonitor, elapsed_since_run_start, QueueTypeOK
<1>8. CASE WaitHead
  BY <1>8 DEF WaitHead, QueueTypeOK
<1>9. CASE \E p \in Pools : ListGroup(p)
  <2> PICK p \in Pools : ListGroup(p)  BY <1>9
  <2>1. PICK page \in Pages(p) :
          listed' = [listed EXCEPT ![p] =
                       [x \in Members |-> IF x \in page THEN Reported(task[p][x])
                                                        ELSE "none"]]
    BY DEF ListGroup
  <2>2. listed' \in [Pools -> [Members -> TaskStates \ {"cancelled"}]]
    <3>1. [x \in Members |-> IF x \in page THEN Reported(task[p][x]) ELSE "none"]
            \in [Members -> TaskStates \ {"cancelled"}]
      <4>1. \A x \in Members : Reported(task[p][x]) \in TaskStates \ {"cancelled"}
        BY ReportedType DEF QueueTypeOK
      <4>2. "none" \in TaskStates \ {"cancelled"}
        BY DEF TaskStates
      <4> QED BY <4>1, <4>2
    <3> QED BY <2>1, <3>1
  <2>3. scan' \subseteq Tasks
    BY DEF ListGroup
  <2>4. /\ UNCHANGED <<queueVars, phase, todo, clock, deadline, group, blocked,
                       done, timed_out, verdict, exit, settled>>
        /\ turn' = p /\ at' = "scan"
    BY DEF ListGroup
  <2> QED BY <2>2, <2>3, <2>4 DEF QueueTypeOK
<1>10. CASE \E p \in Pools : ListGroupFails(p)
  BY <1>10 DEF ListGroupFails, GiveUp, QueueTypeOK
<1>11. CASE \E t \in Tasks : FindBlocked(t)
  <2> PICK t \in Tasks : FindBlocked(t)  BY <1>11
  <2>1. \/ blocked' = blocked
        \/ blocked' = [blocked EXCEPT ![turn] = @ \union {t}]
    BY DEF FindBlocked
  <2>2. blocked' \in [Pools -> SUBSET Tasks]
    BY <2>1
  <2> QED BY <2>2 DEF FindBlocked, QueueTypeOK
<1>12. CASE Refreshed
  BY <1>12 DEF Refreshed, GiveUp, QueueTypeOK
<1>13. CASE RoundEnd \/ LastRoundEnd
  BY <1>13 DEF RoundEnd, LastRoundEnd, Sleep, QueueTypeOK
<1>14. CASE Report
  <2>1. \A p \in Pools : classify_run(p) \in Verdicts
    BY DEF classify_run, Verdicts
  <2> QED BY <1>14, <2>1 DEF Report, Exits, ExitCode, QueueTypeOK
<1>15. CASE Crash \/ JobCancelled
  BY <1>15 DEF Crash, JobCancelled, QueueTypeOK
<1>16. CASE Environment
  BY <1>16, QueueTypes DEF Environment, scriptVars, control
<1>17. CASE UNCHANGED vars
  BY <1>17 DEF vars, scriptVars, control, QueueTypeOK
<1> QED
  BY <1>1, <1>2, <1>3, <1>4, <1>5, <1>6, <1>7, <1>8, <1>9, <1>10, <1>11,
     <1>12, <1>13, <1>14, <1>15, <1>16, <1>17 DEF Next, Script, Rest

LEMMA TypeInit == Init => TypeOK
<1> USE HwRunAssumption DEF TypeOK, Ended
<1> SUFFICES ASSUME Init PROVE TypeOK  OBVIOUS
<1>1. QueueTypeOK
  BY DEF Init, QueueInit, QueueTypeOK, TaskStates, Unresolved, Resolved
<1>2. listed \in [Pools -> [Members -> TaskStates \ {"cancelled"}]]
  BY DEF Init, TaskStates
<1>3. verdict \in [Pools -> Verdicts]
  BY DEF Init, Verdicts
<1> QED BY <1>1, <1>2, <1>3 DEF Init

\* Every reachable state is well typed: the types of the queue's answers and of
\* everything the script keeps about its runs.
THEOREM TypeCorrect == Spec => []TypeOK
  BY TypeInit, TypeInductive, PTL DEF Spec

---------------------------------------------------------------------------
(* Verdicts                                                                 *)

\* The queue schedules nothing before its dependencies are in.
LEMMA QueueReady == QueueTypeOK /\ ReadyBeforeRun /\ QueueNext => ReadyBeforeRun'
<1> SUFFICES ASSUME QueueTypeOK, ReadyBeforeRun, QueueNext PROVE ReadyBeforeRun'
    OBVIOUS
<1> USE QueueAssumption DEF QueueTypeOK, ReadyBeforeRun, Members, Resolved, SetTask
<1>1. ASSUME NEW p \in Pools, HookCreatesDecision(p) \/ HookResolves(p)
      PROVE  ReadyBeforeRun'
  BY <1>1 DEF HookCreatesDecision, HookResolves
<1>2. ASSUME NEW p \in Pools, NEW t \in Tasks,
             DecisionCreatesTask(p, t) \/ TaskScheduled(p, t) \/ TaskCancelled(p, t)
      PROVE  ReadyBeforeRun'
  BY <1>2 DEF DecisionCreatesTask, TaskScheduled, TaskCancelled
<1>3. ASSUME NEW p \in Pools, NEW x \in Members,
             TaskClaimed(p, x) \/ TaskResolves(p, x)
      PROVE  ReadyBeforeRun'
  BY <1>3 DEF TaskClaimed, TaskResolves
<1>4. ASSUME NEW u \in Upstreams,
             UpstreamScheduled(u) \/ UpstreamResolves(u) \/ UpstreamRerun(u)
      PROVE  ReadyBeforeRun'
  BY <1>4 DEF UpstreamScheduled, UpstreamResolves, UpstreamRerun
<1> QED BY <1>1, <1>2, <1>3, <1>4 DEF QueueNext

\* One answer holds every task the group has when it fits in a page.
LEMMA PageIsWhole ==
  ASSUME OnePage, NEW p \in Pools PROVE Pages(p) = {Created(p)}
<1>1. IsFiniteSet(Members)
  BY QueueAssumption, FS_AddElement DEF Members
<1>2. Created(p) \subseteq Members
  BY DEF Created
<1>3. IsFiniteSet(Created(p)) /\ Cardinality(Created(p)) <= Cardinality(Members)
  BY <1>1, <1>2, FS_Subset
<1>4. Cardinality(Created(p)) \in Nat /\ Cardinality(Members) \in Nat
  BY <1>1, <1>3, FS_CardinalityType
<1> QED BY <1>3, <1>4, HwRunAssumption DEF OnePage, Pages

LEMMA IInvInit == Init => IInv
<1> SUFFICES ASSUME Init PROVE IInv  OBVIOUS
<1>1. TypeOK  BY TypeInit
<1>2. Truth
  BY DEF Init, QueueInit, Truth, ReadyBeforeRun, ListedIsTrue, ListedIsWhole,
         GroupsExist, Members, Resolved
<1>3. Loop
  BY DEF Init, Loop, LoopIsOverOpenRuns, DoneIsClosed, NobodyForgotten,
         NoEarlyVerdict, Polling
<1> QED BY <1>1, <1>2, <1>3 DEF IInv

\* A step that moves neither the queue nor the script's readings of it.
LEMMA TruthKept == Truth /\ UNCHANGED <<task, up, listed, group>> => Truth'
  BY DEF Truth, ReadyBeforeRun, ListedIsTrue, ListedIsWhole, GroupsExist

\* A step of the queue cannot falsify what was read of it.
LEMMA TruthInQueue == TypeOK /\ Truth /\ Environment => Truth'
<1> SUFFICES ASSUME TypeOK, Truth, Environment PROVE Truth'  OBVIOUS
<1>1. UNCHANGED <<listed, group>>  BY DEF Environment, scriptVars, results
<1>2. QueueTypeOK /\ QueueNext  BY DEF Environment, TypeOK
<1>3. QueueRespects  BY <1>2, QueueSteps
<1>4. ReadyBeforeRun'  BY <1>2, QueueReady DEF Truth
<1>5. ListedIsTrue'
  BY <1>1, <1>3 DEF Truth, ListedIsTrue, QueueRespects
<1>6. ListedIsWhole'
  <2> SUFFICES ASSUME NEW p \in Pools, listed[p][Root] \in Resolved,
                      NEW t \in Tasks, task'[p][t] # "none"
               PROVE  listed[p][t] # "none"
    BY <1>1 DEF ListedIsWhole
  <2>1. Reported(task[p][Root]) \in Resolved
    BY DEF Truth, ListedIsTrue, Members
  <2> QED BY <2>1, <1>3 DEF QueueRespects, Truth, ListedIsWhole
<1>7. GroupsExist'
  BY <1>1, <1>3 DEF Truth, GroupsExist, QueueRespects, Members
<1> QED BY <1>4, <1>5, <1>6, <1>7 DEF Truth

\* A listing is the truth of its moment.
LEMMA TruthInListing ==
  ASSUME OnePage, TypeOK, Truth, Loop, NEW p \in Pools, ListGroup(p)
  PROVE  Truth'
<1>1. UNCHANGED <<task, up, group>>  BY DEF ListGroup, queueVars
<1>2. listed' = [listed EXCEPT ![p] =
        [x \in Members |-> IF x \in Created(p) THEN Reported(task[p][x]) ELSE "none"]]
  <2>1. Pages(p) = {Created(p)}  BY PageIsWhole
  <2>2. PICK page \in Pages(p) : listed' = [listed EXCEPT ![p] =
          [x \in Members |-> IF x \in page THEN Reported(task[p][x]) ELSE "none"]]
    BY DEF ListGroup
  <2> QED BY <2>1, <2>2
<1>3. p \in group
  BY DEF ListGroup, Loop, LoopIsOverOpenRuns
<1>4. \A x \in Members : listed'[p][x] = Reported(task[p][x])
  BY <1>2 DEF TypeOK, Created, Reported
<1>5. \A q \in Pools \ {p} : listed'[q] = listed[q]
  BY <1>2 DEF TypeOK
<1>6. ReadyBeforeRun'  BY <1>1 DEF Truth, ReadyBeforeRun
<1>7. ListedIsTrue'
  BY <1>1, <1>4, <1>5 DEF Truth, ListedIsTrue
<1>8. ListedIsWhole'
  BY <1>1, <1>4, <1>5 DEF Truth, ListedIsWhole, Members, Reported
<1>9. GroupsExist'
  BY <1>1, <1>3, <1>5 DEF Truth, GroupsExist
<1> QED BY <1>6, <1>7, <1>8, <1>9 DEF Truth

LEMMA TruthNext == OnePage /\ IInv /\ [Next]_vars => Truth'
<1> SUFFICES ASSUME OnePage, IInv, [Next]_vars PROVE Truth'  OBVIOUS
<1> USE DEF IInv, queueVars, results
<1>1. CASE Environment  BY <1>1, TruthInQueue
<1>2. CASE \E p \in Pools : ListGroup(p)  BY <1>2, TruthInListing
<1>3. CASE GroupFound
  BY <1>3 DEF GroupFound, TypeOK, Truth, ReadyBeforeRun, ListedIsTrue, ListedIsWhole,
              GroupsExist
<1>4. CASE Preflight \/ LeaveUnwatched \/ StartDiscovery \/ NoLiveRun \/ StartMonitor
  BY <1>4, TruthKept DEF Preflight, LeaveUnwatched, StartDiscovery, NoLiveRun, StartMonitor
<1>5. CASE \E p \in Pools : Trigger(p) \/ DiscoverNext(p) \/ ListGroupFails(p)
  BY <1>5, TruthKept DEF Trigger, DiscoverNext, ListGroupFails
<1>6. CASE DiscoverAgain \/ GroupNotFound \/ WaitHead
  BY <1>6, TruthKept DEF DiscoverAgain, GroupNotFound, WaitHead
<1>7. CASE \E t \in Tasks : FindBlocked(t)
  BY <1>7, TruthKept DEF FindBlocked
<1>8. CASE Refreshed \/ RoundEnd \/ LastRoundEnd
  BY <1>8, TruthKept DEF Refreshed, RoundEnd, LastRoundEnd
<1>9. CASE Report \/ Crash \/ JobCancelled \/ UNCHANGED vars
  BY <1>9, TruthKept DEF Report, Crash, JobCancelled, vars, scriptVars
<1> QED
  BY <1>1, <1>2, <1>3, <1>4, <1>5, <1>6, <1>7, <1>8, <1>9 DEF Next, Script, Rest

\* A whole listing has the decision in it, and every task scanned exists.
LEMMA ListingHoldsWhatItScans ==
  ASSUME OnePage, TypeOK, NEW p \in Pools, ListGroup(p), task[p][Root] # "none"
  PROVE  /\ listed'[p][Root] # "none"
         /\ \A t \in scan' : task[p][t] # "none"
<1>1. Pages(p) = {Created(p)}  BY PageIsWhole
<1>2. PICK page \in Pages(p) :
        LET answer == [x \in Members |-> IF x \in page THEN Reported(task[p][x]) ELSE "none"]
        IN /\ listed' = [listed EXCEPT ![p] = answer]
           /\ scan' = {t \in Tasks \ blocked[p] : answer[t] = "unscheduled"}
  BY DEF ListGroup
<1>3. page = Created(p)  BY <1>1, <1>2
<1> QED BY <1>2, <1>3 DEF Created, Members, Reported, TypeOK

\* What refresh_run's test of the counts says of the listing they count.
LEMMA ClosedListing ==
  ASSUME TypeOK, NEW p \in Pools, listed[p][Root] # "none", IsDone(tally(p))
  PROVE  /\ listed[p][Root] \in Resolved
         /\ \A t \in Tasks : listed[p][t] \in Unresolved => t \in blocked[p]
<1>1. /\ tally(p).pending = In(p, Unresolved) \ blocked[p]
      /\ tally(p).decision = listed[p][Root]
  BY DEF tally
<1>2. In(p, Unresolved) \ blocked[p] = {} /\ listed[p][Root] \notin Unresolved
  BY <1>1 DEF IsDone
<1>3. listed[p][Root] \in TaskStates
  BY DEF TypeOK, Members
<1>4. listed[p][Root] \in Resolved
  BY <1>2, <1>3 DEF TaskStates, TypeOK, Members
<1>5. \A t \in Tasks : listed[p][t] \in Unresolved => t \in blocked[p]
  BY <1>2 DEF In
<1> QED BY <1>4, <1>5

\* No step reads a run that is done, and none leaves one behind.
LEMMA LoopNext == OnePage /\ IInv /\ [Next]_vars => Loop'
<1> SUFFICES ASSUME OnePage, IInv, [Next]_vars PROVE Loop'  OBVIOUS
<1> USE DEF IInv, results, Loop, LoopIsOverOpenRuns, DoneIsClosed, NobodyForgotten,
            NoEarlyVerdict, Polling
<1>1. CASE Preflight
  BY <1>1 DEF Preflight, Exits, queueVars
<1>2. CASE \E p \in Pools : Trigger(p)
  BY <1>2 DEF Trigger
<1>3. CASE LeaveUnwatched \/ StartDiscovery
  BY <1>3 DEF LeaveUnwatched, StartDiscovery, Exits
<1>4. CASE \E p \in Pools : DiscoverNext(p)
  BY <1>4 DEF DiscoverNext
<1>5. CASE GroupFound
  <2>1. /\ phase = "discover" /\ phase' = "discover" /\ at = "list" /\ at' = "head"
        /\ group' = group \union {turn}
        /\ UNCHANGED <<todo, turn, listed, blocked, done, timed_out, verdict>>
    BY <1>5 DEF GroupFound, Discovering
  <2>2. LoopIsOverOpenRuns' /\ DoneIsClosed' /\ NobodyForgotten'
    BY <2>1
  <2>3. NoEarlyVerdict'
    BY <2>1
  <2> QED BY <2>2, <2>3
<1>18. CASE DiscoverAgain
  BY <1>18 DEF DiscoverAgain, Sleep, Discovering
<1>6. CASE GroupNotFound \/ NoLiveRun
  BY <1>6 DEF GroupNotFound, NoLiveRun, Exits, Discovering, TypeOK
<1>7. CASE StartMonitor
  BY <1>7 DEF StartMonitor
<1>8. CASE WaitHead
  BY <1>8 DEF WaitHead
<1>9. ASSUME NEW p \in Pools, ListGroup(p) PROVE Loop'
  <2>1. /\ p \in todo /\ turn' = p /\ at' = "scan"
        /\ UNCHANGED <<task, phase, todo, group, blocked, done, timed_out, verdict>>
    BY <1>9 DEF ListGroup, queueVars
  <2>2. \A q \in Pools \ {p} : listed'[q] = listed[q]
    BY <1>9 DEF ListGroup, TypeOK
  <2>3. p \in group \ (done \union timed_out)
    BY <2>1, <1>9 DEF ListGroup
  <2>4. listed'[p][Root] # "none" /\ \A t \in scan' : task[p][t] # "none"
    BY <1>9, <2>3, ListingHoldsWhatItScans DEF TypeOK, Truth, GroupsExist
  <2>5. DoneIsClosed'
    BY <2>1, <2>2, <2>3 DEF TypeOK
  <2> QED BY <2>1, <2>3, <2>4, <2>5
<1>10. CASE \E p \in Pools : ListGroupFails(p)
  BY <1>10 DEF ListGroupFails, GiveUp
<1>11. CASE \E t \in Tasks : FindBlocked(t)
  BY <1>11 DEF FindBlocked, TypeOK, queueVars
<1>12. CASE Refreshed
  <2>1. /\ turn \in todo /\ listed[turn][Root] # "none"
        /\ todo' = todo \ {turn} /\ at' = "list"
        /\ done' = IF IsDone(tally(turn)) THEN done \union {turn} ELSE done
        /\ timed_out' = IF phase = "last" /\ ~IsDone(tally(turn))
                          THEN timed_out \union {turn} ELSE timed_out
        /\ UNCHANGED <<phase, group, listed, blocked, verdict>>
    BY <1>12 DEF Refreshed, GiveUp
  <2>2. IsDone(tally(turn)) => /\ listed[turn][Root] \in Resolved
                               /\ \A t \in Tasks : listed[turn][t] \in Unresolved
                                                    => t \in blocked[turn]
    BY <2>1, ClosedListing DEF TypeOK
  <2>3. DoneIsClosed'
    BY <2>1, <2>2
  <2>4. LoopIsOverOpenRuns' /\ NobodyForgotten'
    BY <2>1, <1>12 DEF Refreshed
  <2>5. NoEarlyVerdict'
    BY <2>1, <1>12 DEF Refreshed
  <2> QED BY <2>3, <2>4, <2>5
<1>13. CASE RoundEnd \/ LastRoundEnd
  BY <1>13 DEF RoundEnd, LastRoundEnd, Sleep
<1>14. CASE Report
  BY <1>14 DEF Report, Exits
<1>15. CASE Crash \/ JobCancelled
  BY <1>15 DEF Crash, JobCancelled, Ended
<1>16. CASE Environment
  <2>1. UNCHANGED <<phase, at, todo, turn, scan, group, listed, blocked, done,
                    timed_out, verdict>>
    BY <1>16 DEF Environment, scriptVars, control
  <2>2. QueueRespects
    BY <1>16, QueueSteps DEF Environment, TypeOK
  <2>3. ASSUME Polling, at = "scan", NEW t \in scan PROVE task'[turn][t] # "none"
    <3>1. turn \in Pools /\ t \in Members /\ task[turn][t] # "none"
      BY <2>3 DEF TypeOK, Members
    <3> QED BY <3>1, <2>2 DEF QueueRespects
  <2>4. LoopIsOverOpenRuns'
    <3>1. Polling' /\ at' = "scan" =>
            /\ turn' \in todo' /\ listed'[turn'][Root] # "none"
            /\ \A t \in scan' : task'[turn'][t] # "none"
      BY <2>1, <2>3
    <3> QED BY <2>1, <3>1
  <2>5. DoneIsClosed' /\ NobodyForgotten' /\ NoEarlyVerdict'
    BY <2>1
  <2> QED BY <2>4, <2>5
<1>17. CASE UNCHANGED vars
  BY <1>17 DEF vars, scriptVars, control, queueVars
<1> QED
  BY <1>1, <1>2, <1>3, <1>4, <1>5, <1>6, <1>7, <1>8, <1>9, <1>10, <1>11,
     <1>12, <1>13, <1>14, <1>15, <1>16, <1>17, <1>18 DEF Next, Script, Rest

\* The inductive invariant holds in every reachable state.
THEOREM Invariance == ASSUME OnePage PROVE Spec => []IInv
<1>1. IInv /\ [Next]_vars => IInv'
  BY TypeInductive, TruthNext, LoopNext DEF IInv
<1> QED BY <1>1, IInvInit, PTL DEF Spec

\* A run that refresh_run marks done has nothing outstanding but tasks that are
\* known to be blocked, as long as its group fits in one page.
THEOREM DoneIsResolved == ASSUME OnePage PROVE Spec => []DoneMeansResolved
<1>1. IInv => DoneMeansResolved
  <2> SUFFICES ASSUME IInv, NEW p \in done
               PROVE  /\ Reported(task[p][Root]) \in Resolved
                      /\ \A t \in Tasks : task[p][t] \in Unresolved => t \in blocked[p]
    BY DEF DoneMeansResolved
  <2>1. p \in Pools  BY DEF IInv, TypeOK
  <2>2. listed[p][Root] \in Resolved
    BY DEF IInv, Loop, DoneIsClosed
  <2>3. Reported(task[p][Root]) \in Resolved
    BY <2>1, <2>2 DEF IInv, Truth, ListedIsTrue, Members
  <2>4. ASSUME NEW t \in Tasks, task[p][t] \in Unresolved PROVE t \in blocked[p]
    <3>1. listed[p][t] # "none"
      BY <2>1, <2>2, <2>4 DEF IInv, Truth, ListedIsWhole, Unresolved
    <3>2. listed[p][t] \notin Resolved
      BY <2>1, <2>4 DEF IInv, Truth, ListedIsTrue, Members, Reported, Resolved, Unresolved
    <3>3. listed[p][t] \in Unresolved
      BY <2>1, <3>1, <3>2 DEF IInv, TypeOK, TaskStates, Members
    <3> QED BY <3>3 DEF IInv, Loop, DoneIsClosed
  <2> QED BY <2>3, <2>4
<1> QED BY <1>1, Invariance, PTL

\* Once the run has finished nothing of it changes.
LEMMA FinishedIsFinal == phase = "finished" /\ [Next]_vars => UNCHANGED vars
<1> SUFFICES ASSUME phase = "finished", [Next]_vars PROVE UNCHANGED vars
    OBVIOUS
<1>1. ~Script
  BY DEF Script, Preflight, LeaveUnwatched, StartDiscovery, Trigger, DiscoverNext,
         GroupFound, DiscoverAgain, GroupNotFound, Discovering, NoLiveRun, StartMonitor,
         WaitHead, ListGroup, ListGroupFails, FindBlocked, Refreshed, Polling, RoundEnd,
         LastRoundEnd, Report
<1>2. ~(Crash \/ JobCancelled \/ Environment)
  BY DEF Crash, JobCancelled, Environment, Ended
<1> QED BY <1>1, <1>2 DEF Next, Rest

\* Until the report is written there is no verdict but discovery's.
LEMMA VerdictsUntilReport ==
  ASSUME IInv, [Next]_vars, phase # "finished", ~Report
  PROVE  \A p \in Pools : verdict'[p] \in {"none", "no group"}
<1> USE DEF IInv, Loop, NoEarlyVerdict, results
<1>1. CASE GroupNotFound
  BY <1>1 DEF GroupNotFound, TypeOK
<1>2. CASE UNCHANGED verdict
  BY <1>2
<1>3. UNCHANGED verdict \/ GroupNotFound
  BY DEF Next, Script, Preflight, LeaveUnwatched, StartDiscovery, Trigger, DiscoverNext,
         GroupFound, DiscoverAgain, NoLiveRun, StartMonitor, WaitHead, ListGroup,
         ListGroupFails, FindBlocked, Refreshed, RoundEnd, LastRoundEnd, Crash,
         JobCancelled, Environment, Rest, vars, scriptVars
<1> QED BY <1>1, <1>2, <1>3

\* What a passed verdict is read from: a listing that
\* shows a completed decision and nothing but completed tasks.
LEMMA PassedListing ==
  ASSUME IInv, phase = "report", NEW p \in Pools, classify_run(p) = "passed"
  PROVE  /\ listed[p][Root] = "completed"
         /\ \E t \in Tasks : listed[p][t] # "none"
         /\ \A t \in Tasks : listed[p][t] \in {"none", "completed"}
<1>1. verdict[p] = "none"
  BY DEF classify_run, IInv, Loop, NoEarlyVerdict
<1>2. /\ p \notin timed_out
      /\ tally(p).decision \notin Dead
      /\ tally(p).total # {}
      /\ tally(p).bad = {}
      /\ tally(p).blocked = {}
  BY <1>1 DEF classify_run
<1>3. /\ listed[p][Root] \notin Dead
      /\ \E t \in Tasks : listed[p][t] # "none"
      /\ \A t \in Tasks : listed[p][t] \notin {"failed", "exception"}
      /\ \A t \in blocked[p] : listed[p][t] = "none"
  BY <1>2 DEF tally, In, IInv, TypeOK
<1>4. p \in done
  <2>1. p \in group
    BY <1>3 DEF IInv, Truth, GroupsExist, Members
  <2> QED BY <2>1, <1>2 DEF IInv, Loop, NobodyForgotten
<1>5. /\ listed[p][Root] \in Resolved
      /\ \A t \in Tasks : listed[p][t] \in Unresolved => t \in blocked[p]
  BY <1>4 DEF IInv, Loop, DoneIsClosed
<1>6. \A t \in Tasks : listed[p][t] \notin Unresolved
  BY <1>3, <1>5 DEF Unresolved
<1>7. \A t \in Tasks : listed[p][t] \in {"none", "completed"}
  BY <1>3, <1>6 DEF IInv, TypeOK, TaskStates, Members, Resolved
<1> QED BY <1>3, <1>5, <1>7 DEF Dead, Resolved

\* A pool called passed really passed, whatever the queue did while the script
\* read it, as long as its group fits in one page.
THEOREM PassSound == ASSUME OnePage PROVE Spec => []PassIsSound
<1>1. Init => PassIsSound
  BY DEF Init, PassIsSound
<1>2. IInv /\ PassIsSound /\ [Next]_vars => PassIsSound'
  <2> SUFFICES ASSUME IInv, PassIsSound, [Next]_vars PROVE PassIsSound'  OBVIOUS
  <2>1. CASE phase = "finished"
    <3>1. UNCHANGED vars  BY <2>1, FinishedIsFinal
    <3> QED BY <3>1 DEF PassIsSound, vars, scriptVars, control, results, queueVars
  <2>2. CASE phase # "finished" /\ ~Report
    <3>1. phase' = "finished" => \A p \in Pools : verdict'[p] \in {"none", "no group"}
      BY <2>2, VerdictsUntilReport
    <3> QED BY <3>1 DEF PassIsSound
  <2>3. CASE Report
    <3>1. phase = "report" /\ UNCHANGED <<task, listed>> /\
          verdict' = [p \in Pools |-> classify_run(p)]
      BY <2>3 DEF Report, queueVars
    <3> SUFFICES ASSUME NEW p \in Pools, classify_run(p) = "passed"
                 PROVE  /\ task[p][Root] = "completed"
                        /\ \E t \in Tasks : task[p][t] # "none"
                        /\ \A t \in Tasks : task[p][t] \in {"none", "completed"}
      BY <3>1 DEF PassIsSound
    <3>2. /\ listed[p][Root] = "completed"
          /\ \E t \in Tasks : listed[p][t] # "none"
          /\ \A t \in Tasks : listed[p][t] \in {"none", "completed"}
      BY <3>1, PassedListing
    <3>3. \A x \in Members : listed[p][x] = "completed" => task[p][x] = "completed"
      BY DEF IInv, Truth, ListedIsTrue, Resolved, Reported
    <3>4. \A t \in Tasks : task[p][t] # "none" => listed[p][t] # "none"
      BY <3>2 DEF IInv, Truth, ListedIsWhole, Resolved
    <3> QED BY <3>2, <3>3, <3>4 DEF Members
  <2> QED BY <2>1, <2>2, <2>3
<1> QED BY <1>1, <1>2, Invariance, PTL DEF Spec

---------------------------------------------------------------------------
(* Blocked tasks                                                            *)

\* A dependency that died stays dead unless somebody reruns it.
LEMMA DeadEndStays ==
  ASSUME QueueTypeOK, QueueNext, ~UpstreamReruns, NEW p \in Pools, NEW t \in Tasks,
         DeadEnd(p, t)
  PROVE  DeadEnd(p, t)'
<1> USE QueueAssumption DEF DeadEnd, DepDead, Dead, Reported, Resolved, Members
<1>1. DepDead(task[p][Root]) => task'[p][Root] = task[p][Root]
  BY QueueSteps DEF QueueRespects
<1>2. \A u \in Upstreams : DepDead(up[u]) => up'[u] = up[u]
  <2>1. UNCHANGED up \/ \E u \in Upstreams :
          UpstreamScheduled(u) \/ UpstreamResolves(u) \/ UpstreamRerun(u)
    BY DEF QueueNext, HookCreatesDecision, HookResolves, DecisionCreatesTask,
           TaskScheduled, TaskCancelled, TaskClaimed, TaskResolves
  <2>2. ASSUME NEW u \in Upstreams, UpstreamScheduled(u) \/ UpstreamResolves(u)
        PROVE  \A v \in Upstreams : DepDead(up[v]) => up'[v] = up[v]
    <3>1. PICK s : up' = [up EXCEPT ![u] = s]
      BY <2>2 DEF UpstreamScheduled, UpstreamResolves
    <3>2. ~DepDead(up[u])
      BY <2>2 DEF UpstreamScheduled, UpstreamResolves
    <3>3. ASSUME NEW v \in Upstreams, v # u PROVE up'[v] = up[v]
      BY <3>1, <3>3 DEF QueueTypeOK
    <3> QED BY <3>2, <3>3
  <2> QED BY <2>1, <2>2 DEF UpstreamRerun
<1> QED BY <1>1, <1>2

\* A task with a dead dependency is not scheduled.
LEMMA DeadStaysDead ==
  ASSUME QueueTypeOK, ReadyBeforeRun, QueueNext, ~UpstreamReruns, NEW p \in Pools,
         NEW t \in Tasks, DeadEnd(p, t), task[p][t] \in {"unscheduled", "cancelled"}
  PROVE  /\ DeadEnd(p, t)'
         /\ task'[p][t] \in {"unscheduled", "cancelled"}
<1> USE QueueAssumption DEF Members
<1>1. DeadEnd(p, t)'
  BY DeadEndStays
<1>2. task'[p][t] # "none"
  BY QueueSteps DEF QueueRespects
<1>3. task'[p][t] \notin {"pending", "running"} \union Resolved
  BY <1>1, QueueReady DEF ReadyBeforeRun, DeadEnd, DepDead, Dead, Reported
<1>4. task'[p][t] \in TaskStates
  <2>1. QueueTypeOK'  BY QueueTypes
  <2> QED BY <2>1 DEF QueueTypeOK
<1> QED BY <1>1, <1>2, <1>3, <1>4 DEF TaskStates, Unresolved

\* What find_blocked adds to the blocked tasks is dead when it is added.
LEMMA FoundDead ==
  ASSUME IInv, NEW t \in Tasks, FindBlocked(t), t \notin blocked[turn],
         t \in blocked'[turn]
  PROVE  /\ task[turn][t] \in {"unscheduled", "cancelled"}
         /\ DeadEnd(turn, t)
<1>1. PICK unread : 
        LET dead == {d \in (Deps[t] \union {Root}) \ unread : DepDead(DepState(turn, d))}
        IN blocked' = IF dead = {} THEN blocked ELSE [blocked EXCEPT ![turn] = @ \union {t}]
  BY DEF FindBlocked
<1>2. PICK d \in Deps[t] \union {Root} : DepDead(DepState(turn, d))
  BY <1>1
<1>3. DeadEnd(turn, t)
  BY <1>2 DEF DepState, DeadEnd
<1>4. task[turn][t] \in TaskStates /\ turn \in Pools
  BY DEF IInv, TypeOK, QueueTypeOK, Members
<1>5. task[turn][t] # "none"
  BY DEF FindBlocked, IInv, Loop, LoopIsOverOpenRuns
<1>6. task[turn][t] \notin {"pending", "running"} \union Resolved
  BY <1>3, <1>4 DEF IInv, Truth, ReadyBeforeRun, DeadEnd, DepDead, Dead, Reported
<1> QED BY <1>3, <1>4, <1>5, <1>6 DEF TaskStates, Unresolved

LEMMA BlockedIsDeadNext ==
  IInv /\ ~UpstreamReruns /\ BlockedIsDead /\ [Next]_vars => BlockedIsDead'
<1> SUFFICES ASSUME IInv, ~UpstreamReruns, BlockedIsDead, [Next]_vars
             PROVE  BlockedIsDead'
    OBVIOUS
<1>1. CASE Environment
  <2>1. UNCHANGED blocked /\ QueueNext
    BY <1>1 DEF Environment, scriptVars, results
  <2>2. QueueTypeOK /\ ReadyBeforeRun
    BY DEF IInv, TypeOK, Truth
  <2>3. \A p \in Pools : blocked[p] \subseteq Tasks
    BY DEF IInv, TypeOK
  <2> QED BY <2>1, <2>2, <2>3, DeadStaysDead DEF BlockedIsDead
<1>2. ASSUME NEW t \in Tasks, FindBlocked(t) PROVE BlockedIsDead'
  <2>1. UNCHANGED <<task, up>> BY <1>2 DEF FindBlocked, queueVars
  <2>2. \A q \in Pools : blocked'[q] \subseteq blocked[q] \union {t}
    BY <1>2 DEF FindBlocked, IInv, TypeOK
  <2>3. \A q \in Pools : q # turn => blocked'[q] = blocked[q]
    BY <1>2 DEF FindBlocked, IInv, TypeOK
  <2> SUFFICES ASSUME NEW q \in Pools, NEW b \in blocked'[q]
               PROVE  /\ task[q][b] \in {"unscheduled", "cancelled"}
                      /\ DeadEnd(q, b)
    BY <2>1 DEF BlockedIsDead, DeadEnd, DepDead
  <2>4. CASE b \in blocked[q]
    BY <2>4 DEF BlockedIsDead
  <2>5. CASE b \notin blocked[q]
    BY <1>2, <2>2, <2>3, <2>5, FoundDead
  <2> QED BY <2>4, <2>5
<1>3. CASE UNCHANGED <<task, up, blocked>>
  BY <1>3 DEF BlockedIsDead, DeadEnd, DepDead
<1>4. UNCHANGED <<task, up, blocked>> \/ Environment \/ \E t \in Tasks : FindBlocked(t)
  BY DEF Next, Script, Preflight, LeaveUnwatched, StartDiscovery, Trigger, DiscoverNext,
         GroupFound, DiscoverAgain, GroupNotFound, NoLiveRun, StartMonitor, WaitHead,
         ListGroup, ListGroupFails, Refreshed, RoundEnd, LastRoundEnd, Report, Crash,
         JobCancelled, Rest, vars, scriptVars, results, queueVars
<1> QED BY <1>1, <1>2, <1>3, <1>4

LEMMA BlockedAreDead == ASSUME OnePage, ~UpstreamReruns PROVE Spec => []BlockedIsDead
<1>1. Init => BlockedIsDead
  BY DEF Init, BlockedIsDead
<1> QED BY <1>1, BlockedIsDeadNext, Invariance, PTL DEF Spec

\* A task the script gave up as blocked never runs, as long as nobody reruns an
\* upstream: "can never be scheduled" is the truth when it is printed.
THEOREM BlockedStaysBlocked ==
  ASSUME OnePage, ~UpstreamReruns PROVE Spec => []BlockedNeverRuns
<1>1. BlockedIsDead => BlockedNeverRuns
  BY DEF BlockedIsDead, BlockedNeverRuns
<1> QED BY <1>1, BlockedAreDead, PTL

---------------------------------------------------------------------------
(* Settled pools                                                            *)

\* Where a copy's dependencies wait for nothing themselves, one that cannot run
\* any more has a dependency that find_blocked sees is dead.
LEMMA HopelessIsSeen ==
  ASSUME DepsWaitForNothing, NEW p \in Pools, NEW t \in Tasks, Hopeless(p, t)
  PROVE  DeadEnd(p, t)
<1> DEFINE S == {u \in Upstreams : up[u] \in Dead \/ UpDeps[u] # {}}
<1>1. HoldsTheDoomed(S)
  BY DEF HoldsTheDoomed
<1>2. Doomed \subseteq S
  BY <1>1 DEF Doomed
<1>3. \A s \in Dead : DepDead(s)
  BY DEF Dead, DepDead, Reported
<1>4. CASE task[p][Root] \in Dead
  BY <1>3, <1>4 DEF DeadEnd
<1>5. CASE Deps[t] \intersect Doomed # {}
  BY <1>2, <1>3, <1>5 DEF DeadEnd, DepsWaitForNothing
<1> QED BY <1>4, <1>5 DEF Hopeless

\* The queue leaves a settled pool settled, and the last round's reading of it
\* closed.
LEMMA SettledInQueue ==
  ASSUME IInv, SettledIsSeen, ~UpstreamReruns, Environment
  PROVE  SettledIsSeen'
<1>1. QueueNext /\ UNCHANGED <<phase, at, turn, scan, settled, listed, blocked, timed_out>>
  BY DEF Environment, scriptVars, control, results
<1>2. QueueTypeOK /\ ReadyBeforeRun /\ QueueTypeOK' /\ QueueRespects
  BY <1>1, QueueTypes, QueueSteps DEF IInv, TypeOK, Truth
<1>3. settled \subseteq Pools /\ turn \in Pools /\ scan \subseteq Tasks
  BY DEF IInv, TypeOK
<1>4. ASSUME NEW p \in settled, phase = "last"  PROVE task'[p][Root] \in Resolved
  BY <1>2, <1>3, <1>4 DEF SettledIsSeen, QueueRespects, Members, Reported, Resolved
<1>5. ASSUME NEW p \in settled, NEW t \in Tasks, phase = "last", task'[p][t] \in Unresolved
      PROVE  task'[p][t] = "unscheduled" /\ DeadEnd(p, t)'
  <2>1. task[p][Root] \in Resolved
    BY <1>5 DEF SettledIsSeen
  <2>2. /\ task[p][t] \in TaskStates /\ task[p][t] # "none"
        /\ Reported(task[p][t]) \notin Resolved
    BY <1>2, <1>3, <1>5, <2>1
    DEF QueueTypeOK, QueueRespects, Members, Reported, Resolved, Unresolved
  <2>3. task[p][t] \in Unresolved
    BY <2>2 DEF TaskStates, Reported, Resolved
  <2>4. task[p][t] = "unscheduled" /\ DeadEnd(p, t)
    BY <1>5, <2>3 DEF SettledIsSeen
  <2> QED BY <1>1, <1>2, <1>3, <1>5, <2>4, DeadStaysDead DEF Unresolved
<1>6. ASSUME phase = "last", at = "scan", turn \in settled, NEW t \in scan
      PROVE  DeadEnd(turn, t)'
  <2>1. DeadEnd(turn, t)'
    BY <1>1, <1>2, <1>3, <1>6, DeadEndStays DEF SettledIsSeen
  <2> QED BY <2>1
<1>7. SettledIsNotTimedOut'
  BY <1>1 DEF SettledIsSeen, SettledIsNotTimedOut
<1> QED BY <1>1, <1>4, <1>5, <1>6, <1>7 DEF SettledIsSeen

\* A listing of a settled pool shows the decision resolved, and nothing open
\* but what find_blocked is about to be asked about or knows already.
LEMMA SettledListing ==
  ASSUME OnePage, IInv, SettledIsSeen, NEW p \in Pools, ListGroup(p)
  PROVE  SettledIsSeen'
<1>1. /\ turn' = p
      /\ UNCHANGED <<task, up, phase, blocked, settled, timed_out>>
  BY DEF ListGroup, queueVars
<1>2. PICK page \in Pages(p) :
        LET answer == [x \in Members |-> IF x \in page THEN Reported(task[p][x]) ELSE "none"]
        IN /\ listed' = [listed EXCEPT ![p] = answer]
           /\ scan' = {t \in Tasks \ blocked[p] : answer[t] = "unscheduled"}
  BY DEF ListGroup
<1>3. /\ \A x \in Members : listed'[p][x] = Reported(task[p][x])
      /\ scan' = {t \in Tasks \ blocked[p] : listed'[p][t] = "unscheduled"}
  BY <1>2, PageIsWhole DEF IInv, TypeOK, Created, Reported, Members
<1>4. ASSUME phase = "last", p \in settled
      PROVE  /\ listed'[p][Root] \in Resolved
             /\ \A t \in scan' : DeadEnd(p, t)
             /\ \A t \in Tasks : listed'[p][t] \in Unresolved => t \in scan' \union blocked[p]
  <2>1. /\ task[p][Root] \in Resolved
        /\ \A t \in Tasks : task[p][t] \in Unresolved =>
                              task[p][t] = "unscheduled" /\ DeadEnd(p, t)
    BY <1>4 DEF SettledIsSeen
  <2>2. \A t \in Tasks : listed'[p][t] \in Unresolved =>
                           listed'[p][t] = task[p][t] /\ task[p][t] \in Unresolved
    BY <1>3 DEF Reported, Unresolved, Members
  <2>3. listed'[p][Root] \in Resolved
    BY <1>3, <2>1 DEF Reported, Resolved, Members
  <2>4. \A t \in scan' : t \in Tasks /\ listed'[p][t] \in Unresolved
    BY <1>3 DEF Unresolved
  <2> QED BY <1>3, <2>1, <2>2, <2>3, <2>4
<1>5. \A q \in Pools, t \in Tasks : DeadEnd(q, t)' <=> DeadEnd(q, t)
  BY <1>1 DEF DeadEnd, DepDead
<1>6. settled \subseteq Pools /\ scan' \subseteq Tasks
  BY <1>3 DEF IInv, TypeOK
<1> QED BY <1>1, <1>4, <1>5, <1>6 DEF SettledIsSeen, SettledIsNotTimedOut

\* find_blocked finds every task of such a listing blocked.
LEMMA SettledIsBlocked ==
  ASSUME IInv, SettledIsSeen, ~RestFailures, NEW t \in Tasks, FindBlocked(t)
  PROVE  SettledIsSeen'
<1> DEFINE dead == {d \in Deps[t] \union {Root} : DepDead(DepState(turn, d))}
<1>1. /\ at = "scan" /\ t \in scan /\ scan' = scan \ {t}
      /\ UNCHANGED <<task, up, phase, at, turn, listed, settled, timed_out>>
      /\ blocked' = IF dead = {} THEN blocked ELSE [blocked EXCEPT ![turn] = @ \union {t}]
  <2>1. PICK unread \in {{}} :
          LET found == {d \in (Deps[t] \union {Root}) \ unread : DepDead(DepState(turn, d))}
          IN blocked' = IF found = {} THEN blocked
                                      ELSE [blocked EXCEPT ![turn] = @ \union {t}]
    BY DEF FindBlocked
  <2> QED BY <2>1 DEF FindBlocked, queueVars
<1>2. turn \in Pools /\ blocked \in [Pools -> SUBSET Tasks] /\ settled \subseteq Pools
      /\ scan \subseteq Tasks
  BY DEF IInv, TypeOK
<1>3. ASSUME DeadEnd(turn, t)  PROVE blocked'[turn] = blocked[turn] \union {t}
  <2>1. dead # {}
    BY <1>3, QueueAssumption DEF DeadEnd, DepState
  <2> HIDE DEF dead
  <2> QED BY <1>1, <1>2, <2>1
<1>4. \A q \in Pools, s \in Tasks : DeadEnd(q, s)' <=> DeadEnd(q, s)
  BY <1>1 DEF DeadEnd, DepDead
<1> HIDE DEF dead
<1> QED BY <1>1, <1>2, <1>3, <1>4 DEF SettledIsSeen, SettledIsNotTimedOut

\* So its refresh ends with the run done, and it is not given up on.
LEMMA SettledIsDone ==
  ASSUME IInv, SettledIsSeen, Refreshed  PROVE SettledIsSeen'
<1>1. /\ at = "scan" /\ at' = "list" /\ scan = {} /\ turn \in Pools
      /\ UNCHANGED <<task, up, phase, settled>>
      /\ GiveUp(turn, IsDone(tally(turn)))
  BY DEF Refreshed, IInv, TypeOK, queueVars
<1>2. ASSUME phase = "last", turn \in settled  PROVE IsDone(tally(turn))
  <2>1. tally(turn).pending = In(turn, Unresolved) \ blocked[turn]
        /\ tally(turn).decision = listed[turn][Root]
    BY DEF tally
  <2>2. listed[turn][Root] \in Resolved /\ In(turn, Unresolved) \subseteq blocked[turn]
    BY <1>1, <1>2 DEF SettledIsSeen, In
  <2> QED BY <2>1, <2>2 DEF IsDone, Resolved, Unresolved
<1>3. SettledIsNotTimedOut'
  BY <1>1, <1>2 DEF GiveUp, SettledIsSeen, SettledIsNotTimedOut
<1>4. \A q \in Pools, s \in Tasks : DeadEnd(q, s)' <=> DeadEnd(q, s)
  BY <1>1 DEF DeadEnd, DepDead
<1>5. settled \subseteq Pools
  BY DEF IInv, TypeOK
<1> QED BY <1>1, <1>3, <1>4, <1>5 DEF SettledIsSeen

\* The wait runs out before anything has been given up on.
LEMMA SettledWhenTimeIsUp ==
  ASSUME DepsWaitForNothing, IInv, SettledIsSeen, WaitHead  PROVE SettledIsSeen'
<1>1. /\ phase = "wait" /\ at' = "list" /\ UNCHANGED <<task, up, timed_out>>
      /\ \/ phase' = "last" /\ settled' = {p \in group : Settled(p)}
         \/ phase' = "wait" /\ settled' = settled
  BY DEF WaitHead, queueVars, results
<1>2. timed_out = {} /\ group \subseteq Pools
  BY <1>1 DEF IInv, TypeOK, Loop, LoopIsOverOpenRuns
<1>3. ASSUME NEW p \in group, Settled(p)
      PROVE  /\ task[p][Root] \in Resolved
             /\ \A t \in Tasks : task[p][t] \in Unresolved =>
                                   task[p][t] = "unscheduled" /\ DeadEnd(p, t)
  BY <1>2, <1>3, HopelessIsSeen DEF Settled, Hopeless
<1>4. \A q \in Pools, t \in Tasks : DeadEnd(q, t)' <=> DeadEnd(q, t)
  BY <1>1 DEF DeadEnd, DepDead
<1> QED BY <1>1, <1>2, <1>3, <1>4 DEF SettledIsSeen, SettledIsNotTimedOut

LEMMA SettledNext ==
  ASSUME OnePage, DepsWaitForNothing, ~RestFailures, ~UpstreamReruns,
         IInv, SettledIsSeen, [Next]_vars
  PROVE  SettledIsSeen'
<1>1. CASE Environment  BY <1>1, SettledInQueue
<1>2. CASE \E p \in Pools : ListGroup(p)  BY <1>2, SettledListing
<1>3. CASE \E t \in Tasks : FindBlocked(t)  BY <1>3, SettledIsBlocked
<1>4. CASE Refreshed  BY <1>4, SettledIsDone
<1>5. CASE WaitHead  BY <1>5, SettledWhenTimeIsUp
<1>6. CASE phase' # "last" /\ UNCHANGED <<settled, timed_out>>
  BY <1>6 DEF SettledIsSeen, SettledIsNotTimedOut
<1>7. CASE UNCHANGED vars
  <2>1. UNCHANGED <<task, up, phase, at, turn, scan, settled, listed, blocked, timed_out>>
    BY <1>7 DEF vars, scriptVars, control, results, queueVars
  <2>2. \A q \in Pools, t \in Tasks : DeadEnd(q, t)' <=> DeadEnd(q, t)
    BY <2>1 DEF DeadEnd, DepDead
  <2>3. settled \subseteq Pools /\ turn \in Pools /\ scan \subseteq Tasks
    BY DEF IInv, TypeOK
  <2> QED BY <2>1, <2>2, <2>3 DEF SettledIsSeen, SettledIsNotTimedOut
<1>8. ASSUME ~Environment, ~Refreshed, ~WaitHead, ~UNCHANGED vars,
             ~\E p \in Pools : ListGroup(p), ~\E t \in Tasks : FindBlocked(t)
      PROVE  phase' # "last" /\ UNCHANGED <<settled, timed_out>>
  BY <1>8 DEF Next, Script, Preflight, LeaveUnwatched, StartDiscovery, Trigger, Exits,
         DiscoverNext, GroupFound, DiscoverAgain, GroupNotFound, Discovering, NoLiveRun,
         StartMonitor, ListGroupFails, RoundEnd, LastRoundEnd, Report, Crash,
         JobCancelled, Rest, results
<1> QED BY <1>1, <1>2, <1>3, <1>4, <1>5, <1>6, <1>7, <1>8

\* A pool in whose group nothing could change any more when the wait ran out is
\* not reported as one that outran it, as long as every request is answered,
\* nobody reruns an upstream, and the dependencies of the copies wait for
\* nothing themselves: find_blocked does not look any further.
THEOREM SettledInTime ==
  ASSUME OnePage, DepsWaitForNothing, ~RestFailures, ~UpstreamReruns
  PROVE  Spec => []SettledIsNotTimedOut
<1>1. Init => SettledIsSeen
  BY DEF Init, SettledIsSeen, SettledIsNotTimedOut
<1>2. SettledIsSeen => SettledIsNotTimedOut
  BY DEF SettledIsSeen
<1> QED BY <1>1, <1>2, SettledNext, Invariance, PTL DEF Spec

---------------------------------------------------------------------------
(* Failures                                                                 *)

\* A failed task of a done run is in its listing, and decides its verdict.
LEMMA FailureIsRead ==
  ASSUME IInv, phase = "report", NEW p \in done, Bad(p) \ blocked[p] # {}
  PROVE  classify_run(p) = "failed"
<1>1. PICK t \in Tasks \ blocked[p] : task[p][t] \in {"failed", "exception"}
  BY DEF Bad
<1>2. p \in Pools /\ p \in group /\ p \notin timed_out
  BY DEF IInv, TypeOK, Loop, LoopIsOverOpenRuns
<1>3. verdict[p] = "none"
  BY <1>2 DEF IInv, Loop, NoEarlyVerdict
<1>4. listed[p][Root] \in Resolved
  BY DEF IInv, Loop, DoneIsClosed
<1>5. listed[p][Root] = "completed"
  <2>1. task[p][Root] = "completed"
    BY <1>1, <1>2 DEF IInv, Truth, ReadyBeforeRun, Resolved
  <2> QED BY <1>2, <1>4, <2>1 DEF IInv, Truth, ListedIsTrue, Members, Reported
<1>6. listed[p][t] = task[p][t]
  <2>1. listed[p][t] # "none"
    BY <1>1, <1>2, <1>4 DEF IInv, Truth, ListedIsWhole
  <2>2. t \notin blocked[p]
    BY <1>1
  <2>3. listed[p][t] \notin Unresolved
    BY <2>2 DEF IInv, Loop, DoneIsClosed
  <2>4. listed[p][t] \in Resolved
    BY <1>2, <2>1, <2>3 DEF IInv, TypeOK, TaskStates, Members
  <2> QED BY <1>1, <1>2, <2>4 DEF IInv, Truth, ListedIsTrue, Members, Reported
<1>7. tally(p).decision = "completed" /\ t \in tally(p).total /\ t \in tally(p).bad
  BY <1>1, <1>5, <1>6 DEF tally, In
<1> QED BY <1>2, <1>3, <1>7 DEF classify_run, Dead

\* A failure of a task that was waited for, in a run that is done, turns the job
\* red, as long as its group fits in one page.
THEOREM FailuresAreRed ==
  ASSUME OnePage PROVE Spec => []NoFailureIsLost
<1>1. Init => NoFailureIsLost
  BY DEF Init, NoFailureIsLost
<1>2. IInv /\ NoFailureIsLost /\ [Next]_vars => NoFailureIsLost'
  <2> SUFFICES ASSUME IInv, NoFailureIsLost, [Next]_vars
               PROVE  NoFailureIsLost'
      OBVIOUS
  <2>1. CASE phase = "finished"
    <3>1. UNCHANGED vars  BY <2>1, FinishedIsFinal
    <3> QED BY <3>1 DEF NoFailureIsLost, Bad, vars, scriptVars, control, results, queueVars
  <2>2. CASE Report
    <3>1. /\ phase = "report" /\ UNCHANGED <<task, done, blocked>>
          /\ verdict' = [p \in Pools |-> classify_run(p)]
          /\ exit' = ExitCode({classify_run(p) : p \in Pools})
      BY <2>2 DEF Report, Exits, queueVars
    <3>2. done \subseteq Pools
      BY DEF IInv, TypeOK
    <3> SUFFICES ASSUME NEW p \in done, Bad(p) \ blocked[p] # {}
                 PROVE  verdict'[p] = "failed" /\ exit' = 1
      BY <3>1 DEF NoFailureIsLost, Bad
    <3>3. classify_run(p) = "failed"
      BY <3>1, FailureIsRead
    <3> QED BY <3>1, <3>2, <3>3 DEF ExitCode
  <2>3. CASE phase # "finished" /\ ~Report
    <3>1. phase' = "finished" => done' = {}
      <4>1. phase' = "finished" => Preflight \/ LeaveUnwatched \/ NoLiveRun
        BY <2>3 DEF Next, Script, StartDiscovery, Trigger, DiscoverNext, GroupFound,
             DiscoverAgain, GroupNotFound, StartMonitor, WaitHead, ListGroup,
             ListGroupFails, FindBlocked, Refreshed, RoundEnd, LastRoundEnd, Crash,
             JobCancelled, Environment, Rest, vars, scriptVars, control
      <4>2. Preflight \/ LeaveUnwatched \/ NoLiveRun => done' = done /\ group = {}
        BY DEF Preflight, LeaveUnwatched, NoLiveRun, IInv, Loop, NoEarlyVerdict
      <4> QED BY <4>1, <4>2 DEF IInv, Loop, LoopIsOverOpenRuns
    <3> QED BY <3>1 DEF NoFailureIsLost
  <2> QED BY <2>1, <2>2, <2>3
<1> QED BY <1>1, <1>2, Invariance, PTL DEF Spec

---------------------------------------------------------------------------
(* The wait                                                                 *)

\* What wait_budget leaves of the requested wait fits under the ceiling.
LEMMA BudgetFits ==
  ASSUME NEW e \in Nat, InActions
  PROVE  wait_budget(e) = 0 \/ e + wait_budget(e) <= WaitCeiling
<1> DEFINE remaining == IF e <= WaitCeiling THEN WaitCeiling - e ELSE 0
<1>1. Timeout \in Nat /\ WaitCeiling \in Nat  BY HwRunAssumption
<1>2. wait_budget(e) = IF Timeout <= remaining THEN Timeout ELSE remaining
  BY DEF wait_budget
<1> QED BY <1>1, <1>2

LEMMA WaitIsTrimmedNext == TypeOK /\ WaitIsTrimmed /\ [Next]_vars => WaitIsTrimmed'
<1> SUFFICES ASSUME TypeOK, WaitIsTrimmed, [Next]_vars PROVE WaitIsTrimmed'
    OBVIOUS
<1> USE HwRunAssumption DEF TypeOK, WaitIsTrimmed
<1>1. CASE StartMonitor
  <2>1. /\ phase' = "wait" /\ at' = "head" /\ clock' = clock
        /\ deadline' = clock + wait_budget(elapsed_since_run_start)
    BY <1>1 DEF StartMonitor
  <2>2. ASSUME InActions, StampKnown
        PROVE  clock' = deadline' \/ (deadline' <= WaitCeiling /\ clock' < deadline' + GroupPoll)
    <3> DEFINE b == wait_budget(clock)
    <3>1. b \in Nat /\ (b = 0 \/ clock + b <= WaitCeiling)
      BY <2>2, BudgetFits, BudgetIsNat
    <3>2. clock \in Nat /\ GroupPoll \in Nat \ {0}
      OBVIOUS
    <3>3. clock' = clock /\ deadline' = clock + b
      BY <2>1, <2>2 DEF elapsed_since_run_start
    <3> HIDE DEF b
    <3> QED BY <3>1, <3>2, <3>3
  <2> QED BY <2>1, <2>2
<1>2. CASE WaitHead
  BY <1>2 DEF WaitHead, WaitOver
<1>3. CASE RoundEnd
  BY <1>3 DEF RoundEnd, Sleep
<1>4. CASE LastRoundEnd \/ Refreshed \/ Report
  BY <1>4 DEF LastRoundEnd, Refreshed, Report, Exits, Polling
<1>5. CASE \E p \in Pools : ListGroup(p) \/ ListGroupFails(p)
  BY <1>5 DEF ListGroup, ListGroupFails
<1>6. CASE \E t \in Tasks : FindBlocked(t)
  BY <1>6 DEF FindBlocked
<1>7. CASE Preflight \/ LeaveUnwatched \/ StartDiscovery \/ NoLiveRun
  BY <1>7 DEF Preflight, LeaveUnwatched, StartDiscovery, NoLiveRun, Exits
<1>8. CASE \E p \in Pools : Trigger(p) \/ DiscoverNext(p)
  BY <1>8 DEF Trigger, DiscoverNext
<1>9. CASE GroupFound \/ DiscoverAgain \/ GroupNotFound
  BY <1>9 DEF GroupFound, DiscoverAgain, GroupNotFound, Discovering
<1>10. CASE Crash \/ JobCancelled
  BY <1>10 DEF Crash, JobCancelled
<1>11. CASE Environment \/ UNCHANGED vars
  BY <1>11 DEF Environment, vars, scriptVars, control
<1> QED
  BY <1>1, <1>2, <1>3, <1>4, <1>5, <1>6, <1>7, <1>8, <1>9, <1>10, <1>11
  DEF Next, Script, Rest

\* In Actions the polling ends less than one poll interval past the ceiling: the
\* trimmed wait starts no sleep when its time is up, provided the job's start is
\* known, whatever was asked for and
\* however much of the job discovery has used.
THEOREM WaitEnds == Spec => []WaitEndsInTime
<1>1. Init => WaitIsTrimmed
  BY DEF Init, WaitIsTrimmed
<1>2. TypeOK /\ WaitIsTrimmed => WaitEndsInTime
  BY HwRunAssumption DEF TypeOK, WaitIsTrimmed, WaitEndsInTime
<1> QED BY <1>1, <1>2, WaitIsTrimmedNext, TypeCorrect, PTL DEF Spec

---------------------------------------------------------------------------
(* The job's limit                                                          *)

\* Looking at one more pool costs at most its share of the clock.
LEMMA NextShare ==
  ASSUME IsFiniteSet(Pools), NEW S \in SUBSET Pools, NEW p \in S
  PROVE  /\ DiscoveryEnd(Pools \ S) \in Nat
         /\ DiscoveryEnd(Pools \ (S \ {p})) =
              DiscoveryEnd(Pools \ S) + DiscoveryTimeout + DecisionPoll
<1> DEFINE share == DiscoveryTimeout + DecisionPoll
           seen  == Pools \ S
<1>1. share \in Nat /\ Setup \in Nat  BY HwRunAssumption
<1>2. Pools \ (S \ {p}) = seen \union {p} /\ p \notin seen  OBVIOUS
<1>3. IsFiniteSet(seen) /\ Cardinality(seen) \in Nat
  BY FS_Subset, FS_CardinalityType
<1>4. Cardinality(seen \union {p}) = Cardinality(seen) + 1
  BY <1>2, <1>3, FS_AddElement
<1> HIDE DEF share, seen
<1>5. (Cardinality(seen) + 1) * share = Cardinality(seen) * share + share
      /\ Cardinality(seen) * share \in Nat
  BY <1>1, <1>3
<1>6. /\ DiscoveryEnd(seen) = Setup + Cardinality(seen) * share
      /\ DiscoveryEnd(seen \union {p}) = Setup + Cardinality(seen \union {p}) * share
  BY DEF DiscoveryEnd, share
<1>7. DiscoveryEnd(seen) \in Nat /\ DiscoveryEnd(seen \union {p}) = DiscoveryEnd(seen) + share
  BY <1>1, <1>4, <1>5, <1>6
<1> QED BY <1>2, <1>7, HwRunAssumption DEF share, seen

\* Discovery starts out within Setup, and no part of it takes longer than all.
LEMMA DiscoveryGrows ==
  ASSUME IsFiniteSet(Pools), NEW S \in SUBSET Pools
  PROVE  /\ DiscoveryEnd({}) = Setup
         /\ DiscoveryEnd(S) \in Nat /\ DiscoveryEnd(Pools) \in Nat
         /\ Setup <= DiscoveryEnd(S) /\ DiscoveryEnd(S) <= DiscoveryEnd(Pools)
<1> DEFINE share == DiscoveryTimeout + DecisionPoll
           c     == Cardinality(S)
<1>1. share \in Nat /\ Setup \in Nat  BY HwRunAssumption
<1>2. /\ c \in Nat /\ Cardinality(Pools) \in Nat /\ c <= Cardinality(Pools)
      /\ Cardinality({}) = 0
  BY FS_Subset, FS_CardinalityType, FS_EmptySet
<1>3. /\ DiscoveryEnd({}) = Setup + Cardinality({}) * share
      /\ DiscoveryEnd(S) = Setup + c * share
      /\ DiscoveryEnd(Pools) = Setup + Cardinality(Pools) * share
  BY DEF DiscoveryEnd
<1> HIDE DEF share, c
<1>4. PICK more \in Nat : Cardinality(Pools) = c + more
  <2>1. Cardinality(Pools) - c \in Nat /\ Cardinality(Pools) = c + (Cardinality(Pools) - c)
    BY <1>2
  <2> QED BY <2>1
<1>5. /\ (c + more) * share = c * share + more * share /\ 0 * share = 0
      /\ c * share \in Nat /\ more * share \in Nat
  BY <1>1, <1>2
<1> QED BY <1>1, <1>2, <1>3, <1>4, <1>5

LEMMA OnTimeNext ==
  ASSUME IsFiniteSet(Pools), InActions, TypeOK, WaitIsTrimmed, OnTime, [Next]_vars
  PROVE  OnTime'
<1> USE HwRunAssumption
<1>0. clock \in Nat /\ deadline \in Nat /\ todo \subseteq Pools
  BY DEF TypeOK
<1>1. CASE StartDiscovery
  <2>1. /\ phase' = "discover" /\ at' = "head" /\ clock' = clock /\ clock <= Setup
        /\ Pools \ todo' = {}
    BY <1>1 DEF StartDiscovery, OnTime
  <2> QED BY <2>1, DiscoveryGrows DEF OnTime
<1>2. ASSUME NEW p \in Pools, DiscoverNext(p)  PROVE OnTime'
  <2>1. /\ p \in todo /\ todo' = todo \ {p} /\ clock' = clock
        /\ deadline' = clock + DiscoveryTimeout
        /\ phase' = "discover" /\ at' = "list"
        /\ clock <= DiscoveryEnd(Pools \ todo)
    BY <1>2 DEF DiscoverNext, OnTime
  <2>2. /\ DiscoveryEnd(Pools \ todo) \in Nat
        /\ DiscoveryEnd(Pools \ todo') =
             DiscoveryEnd(Pools \ todo) + DiscoveryTimeout + DecisionPoll
    BY <1>0, <2>1, NextShare
  <2>3. /\ clock' < deadline' + DecisionPoll
        /\ deadline' + DecisionPoll <= DiscoveryEnd(Pools \ todo')
    BY <1>0, <2>1, <2>2
  <2> QED BY <2>1, <2>3 DEF OnTime
<1>3. CASE GroupFound \/ GroupNotFound
  <2>1. /\ clock < deadline + DecisionPoll
        /\ deadline + DecisionPoll <= DiscoveryEnd(Pools \ todo)
        /\ phase' = "discover" /\ at' = "head" /\ clock' = clock /\ todo' = todo
    BY <1>3 DEF GroupFound, GroupNotFound, Discovering, OnTime
  <2>2. DiscoveryEnd(Pools \ todo) \in Nat
    BY DiscoveryGrows
  <2>3. clock <= DiscoveryEnd(Pools \ todo)
    BY <1>0, <2>1, <2>2
  <2> QED BY <2>1, <2>3 DEF OnTime
<1>4. CASE DiscoverAgain
  BY <1>0, <1>4 DEF DiscoverAgain, Discovering, Sleep, OnTime
<1>5. CASE StartMonitor
  <2> DEFINE b == wait_budget(elapsed_since_run_start)
  <2>1. /\ phase' = "wait" /\ UNCHANGED clock /\ deadline' = clock + b
        /\ todo = {} /\ clock <= DiscoveryEnd(Pools \ todo)
    BY <1>5 DEF StartMonitor, OnTime
  <2>2. clock <= DiscoveryEnd(Pools) /\ DiscoveryEnd(Pools) \in Nat
    BY <2>1, DiscoveryGrows
  <2>3. b \in Nat
    BY <1>0, BudgetIsNat DEF elapsed_since_run_start
  <2>4. CASE StampKnown
    <3>1. b = 0 \/ clock + b <= WaitCeiling
      BY <1>0, <2>4, BudgetFits DEF elapsed_since_run_start
    <3>2. LatestDeadline = WaitCeiling
      BY <2>4 DEF LatestDeadline
    <3> HIDE DEF b
    <3> QED BY <1>0, <2>1, <2>2, <2>3, <3>1, <3>2 DEF OnTime
  <2>5. CASE ~StampKnown
    <3>1. b = wait_budget(0)
      BY <2>5 DEF elapsed_since_run_start
    <3>2. LatestDeadline = DiscoveryEnd(Pools) + b
      BY <2>5, <3>1 DEF LatestDeadline
    <3> HIDE DEF b
    <3> QED BY <1>0, <2>1, <2>2, <2>3, <3>2 DEF OnTime
  <2> QED BY <2>4, <2>5
<1>6. CASE RoundEnd
  <2>1. phase = "wait" /\ clock < deadline
    BY <1>6 DEF RoundEnd, WaitIsTrimmed
  <2>2. deadline <= LatestDeadline
    BY <1>0, <2>1 DEF OnTime
  <2>3. /\ phase' \in {"wait", "report"} /\ UNCHANGED deadline
        /\ clock' = clock \/ clock' = clock + GroupPoll
    BY <1>6 DEF RoundEnd, Sleep
  <2> QED BY <1>0, <2>1, <2>2, <2>3 DEF OnTime
<1>7. CASE WaitHead \/ LastRoundEnd
  BY <1>7 DEF WaitHead, LastRoundEnd, OnTime
<1>8. CASE Refreshed \/ \E p \in Pools : ListGroup(p) \/ ListGroupFails(p)
  BY <1>8 DEF Refreshed, ListGroup, ListGroupFails, Polling, OnTime
<1>9. CASE \E t \in Tasks : FindBlocked(t)
  BY <1>9 DEF FindBlocked, Polling, OnTime
<1>10. CASE Preflight \/ \E p \in Pools : Trigger(p)
  BY <1>10 DEF Preflight, Exits, Trigger, OnTime
<1>11. CASE phase' \in Ended
  BY <1>11 DEF Ended, OnTime
<1>12. CASE Environment \/ UNCHANGED vars
  BY <1>12 DEF Environment, vars, scriptVars, control, OnTime
<1>13. LeaveUnwatched \/ NoLiveRun \/ Report \/ Crash \/ JobCancelled => phase' \in Ended
  BY DEF LeaveUnwatched, NoLiveRun, Report, Crash, JobCancelled, Exits, Ended
<1> QED
  BY <1>1, <1>2, <1>3, <1>4, <1>5, <1>6, <1>7, <1>8, <1>9, <1>10, <1>11, <1>12, <1>13
  DEF Next, Script, Rest

\* While the script runs, the job has time left.
LEMMA TimeIsLeft ==
  ASSUME IsFiniteSet(Pools), JobIsLongEnough, TypeOK, OnTime, phase \notin Ended
  PROVE  clock < JobLimit
<1> USE HwRunAssumption
<1>1. clock \in Nat /\ deadline \in Nat
  BY DEF TypeOK
<1>2. /\ DiscoveryEnd(Pools) \in Nat /\ Setup <= DiscoveryEnd(Pools)
      /\ DiscoveryEnd(Pools \ todo) \in Nat
      /\ DiscoveryEnd(Pools \ todo) <= DiscoveryEnd(Pools)
  BY DiscoveryGrows
<1>3. LatestDeadline \in Nat
  BY <1>2, BudgetIsNat DEF LatestDeadline
<1>4. DiscoveryEnd(Pools) < JobLimit /\ LatestDeadline + GroupPoll <= JobLimit
  BY DEF JobIsLongEnough
<1>5. CASE phase \in {"preflight", "trigger"}
  BY <1>1, <1>2, <1>4, <1>5 DEF OnTime
<1>6. CASE phase = "discover" /\ at = "head"
  BY <1>1, <1>2, <1>4, <1>6 DEF OnTime
<1>7. CASE phase = "discover" /\ at = "list"
  BY <1>1, <1>2, <1>4, <1>7 DEF OnTime
<1>8. CASE phase \in {"wait", "last", "report"}
  BY <1>1, <1>2, <1>3, <1>4, <1>8 DEF OnTime
<1>9. phase = "discover" => at \in {"head", "list"}
  BY DEF OnTime, TypeOK
<1>10. phase \in {"preflight", "trigger", "discover", "wait", "last", "report"}
  BY DEF TypeOK, Ended
<1> QED BY <1>5, <1>6, <1>7, <1>8, <1>9, <1>10

\* GitHub's limit is never reached while the script runs: pre-flight, discovery
\* of every pool and the trimmed wait fit into the job, provided the job is
\* as long as the constants say it has to be.
THEOREM SummaryIsWritten ==
  ASSUME IsFiniteSet(Pools), JobIsLongEnough PROVE Spec => []NeverCancelled
<1>1. Init => NeverCancelled /\ WaitIsTrimmed /\ (InActions => OnTime)
  BY DiscoveryGrows DEF Init, NeverCancelled, WaitIsTrimmed, OnTime
<1>2. ASSUME TypeOK, WaitIsTrimmed, InActions => OnTime, NeverCancelled, [Next]_vars
      PROVE  NeverCancelled' /\ (InActions => OnTime)'
  <2>1. ~JobCancelled
    BY <1>2, TimeIsLeft, HwRunAssumption DEF JobCancelled, TypeOK
  <2>2. (InActions => OnTime)'
    BY <1>2, OnTimeNext
  <2>3. NeverCancelled'
    BY <1>2, <2>1
    DEF NeverCancelled, Next, Script, Preflight, LeaveUnwatched, StartDiscovery, Trigger,
        DiscoverNext, GroupFound, DiscoverAgain, GroupNotFound, NoLiveRun, StartMonitor,
        WaitHead, ListGroup, ListGroupFails, FindBlocked, Refreshed, RoundEnd,
        LastRoundEnd, Report, Exits, Crash, Environment, Rest, vars, scriptVars, control
  <2> QED BY <2>2, <2>3
<1> QED BY <1>1, <1>2, WaitIsTrimmedNext, TypeCorrect, PTL DEF Spec

---------------------------------------------------------------------------
(* HwVerdict: whatever is read and in whatever order, the script implements it*)

LEMMA ExitAtEndNext == TypeOK /\ ExitAtEnd /\ [Next]_vars => ExitAtEnd'
<1> SUFFICES ASSUME TypeOK, ExitAtEnd, [Next]_vars PROVE ExitAtEnd'
    OBVIOUS
<1> USE DEF ExitAtEnd, Ended
<1>1. CASE Preflight \/ LeaveUnwatched \/ NoLiveRun
  BY <1>1 DEF Preflight, LeaveUnwatched, NoLiveRun, Exits
<1>2. CASE Report \/ Crash \/ JobCancelled
  BY <1>2 DEF Report, Crash, JobCancelled, Exits, ExitCode
<1>3. CASE StartDiscovery \/ StartMonitor \/ WaitHead \/ RoundEnd \/ LastRoundEnd
  BY <1>3 DEF StartDiscovery, StartMonitor, WaitHead, RoundEnd, LastRoundEnd, results
<1>4. CASE UNCHANGED <<phase, exit>>
  BY <1>4
<1>5. \/ UNCHANGED <<phase, exit>>
      \/ Preflight \/ LeaveUnwatched \/ NoLiveRun \/ Report \/ Crash \/ JobCancelled
      \/ StartDiscovery \/ StartMonitor \/ WaitHead \/ RoundEnd \/ LastRoundEnd
  BY DEF Next, Script, Trigger, DiscoverNext, GroupFound, DiscoverAgain, GroupNotFound,
         ListGroup, ListGroupFails, FindBlocked, Refreshed, Environment, Rest, vars,
         scriptVars, control, results
<1> QED BY <1>1, <1>2, <1>3, <1>4, <1>5

THEOREM EndsOnce == Spec => []ExitAtEnd
<1>1. Init => ExitAtEnd
  BY DEF Init, ExitAtEnd, Ended
<1> QED BY <1>1, ExitAtEndNext, TypeCorrect, PTL DEF Spec

---------------------------------------------------------------------------
Failing(p) == \E t \in Tasks : task[p][t] \in {"failed", "exception", "cancelled"}
Goods == {p \in Pools : Passing(p)}
Bads  == {p \in Pools : Failing(p)}
Shown == [p \in Pools |-> IF phase = "finished" THEN Seen(verdict[p]) ELSE "none"]


\* What a step of the queue does to the pools' fates.
OneFate == \/ UNCHANGED <<Goods, Bads>>
           \/ \E p \in Pools : p \notin Bads /\ Goods' = Goods \union {p} /\ UNCHANGED Bads
           \/ \E p \in Pools : p \notin Goods /\ Bads' = Bads \union {p} /\ UNCHANGED Goods

\* Moving one open task settles at most its own pool's fate.
LEMMA OpenTaskMoves ==
  ASSUME QueueTypeOK, NEW p \in Pools, NEW x \in Members, NEW s, SetTask(p, x, s),
         task[p][x] \notin {"completed", "failed", "exception", "cancelled"},
         task[p][x] = "none" => task[p][Root] # "completed"
  PROVE  OneFate
<1>0. /\ \A q \in Pools \ {p} : task'[q] = task[q]
      /\ \A y \in Members \ {x} : task'[p][y] = task[p][y]
      /\ Tasks \subseteq Members
  BY DEF SetTask, QueueTypeOK, Members
<1>1. \A q \in Pools \ {p} : (Passing(q)' <=> Passing(q)) /\ (Failing(q)' <=> Failing(q))
  BY <1>0 DEF Passing, Failing
<1>2. ~Passing(p)
  BY DEF Passing, Members
<1>3. Failing(p) => Failing(p)'
  BY <1>0 DEF Failing
<1>4. Passing(p)' => ~Failing(p)'
  BY DEF Passing, Failing
<1>5. CASE Passing(p)'
  <2>1. p \notin Bads /\ Goods' = Goods \union {p} /\ Bads' = Bads
    BY <1>1, <1>2, <1>3, <1>4, <1>5 DEF Goods, Bads
  <2> QED BY <2>1 DEF OneFate
<1>6. CASE ~Passing(p)' /\ Failing(p)'
  <2>1. p \notin Goods /\ Bads' = Bads \union {p} /\ Goods' = Goods
    BY <1>1, <1>2, <1>6 DEF Goods, Bads
  <2> QED BY <2>1 DEF OneFate
<1>7. CASE ~Passing(p)' /\ ~Failing(p)'
  <2>1. Goods' = Goods /\ Bads' = Bads
    BY <1>1, <1>2, <1>3, <1>7 DEF Goods, Bads
  <2> QED BY <2>1 DEF OneFate
<1> QED BY <1>5, <1>6, <1>7

\* A step of the queue passes at most one pool or fails at most one.
LEMMA QueueMapsToOne == ASSUME QueueTypeOK, QueueNext PROVE OneFate
<1>0. Root \in Members /\ Tasks \subseteq Members
  BY DEF Members
<1>1. ASSUME NEW p \in Pools, HookCreatesDecision(p)  PROVE OneFate
  BY <1>0, <1>1, OpenTaskMoves DEF HookCreatesDecision
<1>2. ASSUME NEW p \in Pools, NEW t \in Tasks,
             DecisionCreatesTask(p, t) \/ TaskScheduled(p, t) \/ TaskCancelled(p, t)
      PROVE  OneFate
  BY <1>0, <1>2, OpenTaskMoves DEF DecisionCreatesTask, TaskScheduled, TaskCancelled
<1>3. ASSUME NEW p \in Pools, NEW x \in Members,
             TaskClaimed(p, x) \/ TaskResolves(p, x)
      PROVE  OneFate
  BY <1>3, OpenTaskMoves DEF TaskClaimed, TaskResolves
<1>4. CASE UNCHANGED task
  BY <1>4 DEF OneFate, Goods, Bads, Passing, Failing
<1>5. ASSUME NEW p \in Pools, HookResolves(p)  PROVE UNCHANGED task
  BY <1>5 DEF HookResolves
<1>6. ASSUME NEW u \in Upstreams,
             UpstreamScheduled(u) \/ UpstreamResolves(u) \/ UpstreamRerun(u)
      PROVE  UNCHANGED task
  BY <1>6 DEF UpstreamScheduled, UpstreamResolves, UpstreamRerun
<1> QED BY <1>1, <1>2, <1>3, <1>4, <1>5, <1>6 DEF QueueNext

\* A pool the report fails has a listed failure, which is one in the queue.
LEMMA FailedListing ==
  ASSUME IInv, phase = "report", NEW p \in Pools, classify_run(p) = "failed"
  PROVE  p \in Bads
<1>1. verdict[p] \in {"none", "no group"}
  BY DEF IInv, Loop, NoEarlyVerdict
<1>2. tally(p).bad # {}
  BY <1>1 DEF classify_run
<1>3. PICK t \in Tasks : listed[p][t] \in {"failed", "exception"}
  BY <1>2 DEF tally, In
<1>4. Reported(task[p][t]) = listed[p][t]
  BY <1>3 DEF IInv, Truth, ListedIsTrue, Members, Resolved
<1>5. task[p][t] \in {"failed", "exception", "cancelled"}
  BY <1>3, <1>4 DEF Reported
<1> QED BY <1>5 DEF Bads, Failing

\* A pool the report passes passed in the queue.
LEMMA PassedInQueue ==
  ASSUME IInv, phase = "report", NEW p \in Pools, classify_run(p) = "passed"
  PROVE  p \in Goods
<1>1. /\ listed[p][Root] = "completed"
      /\ \E t \in Tasks : listed[p][t] # "none"
      /\ \A t \in Tasks : listed[p][t] \in {"none", "completed"}
  BY PassedListing
<1>2. \A x \in Members : listed[p][x] = "completed" => task[p][x] = "completed"
  BY DEF IInv, Truth, ListedIsTrue, Resolved, Reported
<1>3. \A t \in Tasks : task[p][t] # "none" => listed[p][t] # "none"
  BY <1>1 DEF IInv, Truth, ListedIsWhole, Resolved
<1>4. Passing(p)
  BY <1>1, <1>2, <1>3 DEF Passing, Members
<1> QED BY <1>4 DEF Goods

---------------------------------------------------------------------------
\* HwVerdict's actions over these names.
LEMMA AbstractStutter ==
  ASSUME UNCHANGED <<Goods, Bads, Shown, exit>> PROVE UNCHANGED Abstract!vvars
  BY DEF Abstract!vvars, Goods, Bads, Shown, Failing

LEMMA AbstractPass ==
  ASSUME NEW p \in Pools, exit = -1, p \notin Bads, Goods' = Goods \union {p},
         UNCHANGED <<Bads, Shown, exit>>
  PROVE  Abstract!Next
  BY DEF Abstract!Next, Abstract!TasksPass, Goods, Bads, Shown, Failing

LEMMA AbstractFail ==
  ASSUME NEW p \in Pools, exit = -1, p \notin Goods, Bads' = Bads \union {p},
         UNCHANGED <<Goods, Shown, exit>>
  PROVE  Abstract!Next
  BY DEF Abstract!Next, Abstract!TaskFails, Goods, Bads, Shown, Failing

LEMMA AbstractAbandon ==
  ASSUME exit = -1, exit' \in {0, 1}, UNCHANGED <<Goods, Bads>>,
         Shown' \in [Pools -> {"none", "inconclusive"}]
  PROVE  Abstract!Next
  BY DEF Abstract!Next, Abstract!Abandon, Goods, Bads, Shown, Failing

LEMMA AbstractConclude ==
  ASSUME exit = -1, UNCHANGED <<Goods, Bads>>,
         Shown' \in [Pools -> {"passed", "failed", "inconclusive"}],
         \A p \in Pools : Shown'[p] = "passed" => p \in Goods,
         \A p \in Pools : Shown'[p] = "failed" => p \in Bads,
         exit' = IF \E p \in Pools : Shown'[p] = "failed" THEN 1 ELSE 0
  PROVE  Abstract!Next
  BY DEF Abstract!Next, Abstract!Conclude, Goods, Bads, Shown, Failing

\* The report is a conclusion with a witness for every verdict.
LEMMA ReportConcludes == ASSUME IInv, ExitAtEnd, Report PROVE Abstract!Next
<1>1. /\ phase = "report" /\ exit = -1 /\ UNCHANGED <<Goods, Bads>>
      /\ phase' = "finished"
      /\ verdict' = [p \in Pools |-> classify_run(p)]
      /\ exit' = ExitCode({classify_run(p) : p \in Pools})
  BY DEF Report, Exits, ExitAtEnd, Ended, queueVars, Goods, Bads, Passing, Failing
<1>2. Shown' = [p \in Pools |-> Seen(classify_run(p))]
  BY <1>1 DEF Shown
<1>3. \A p \in Pools : classify_run(p) # "none"
  BY DEF classify_run
<1>4. \A p \in Pools : /\ Seen(classify_run(p)) \in {"passed", "failed", "inconclusive"}
                       /\ Seen(classify_run(p)) = "passed" => classify_run(p) = "passed"
                       /\ (Seen(classify_run(p)) = "failed") <=> (classify_run(p) = "failed")
  BY <1>3 DEF Seen
<1>5. \A p \in Pools : Shown'[p] = "passed" => p \in Goods
  BY <1>1, <1>2, <1>4, PassedInQueue
<1>6. \A p \in Pools : Shown'[p] = "failed" => p \in Bads
  BY <1>1, <1>2, <1>4, FailedListing
<1>7. exit' = IF \E p \in Pools : Shown'[p] = "failed" THEN 1 ELSE 0
  BY <1>1, <1>2, <1>4 DEF ExitCode
<1>8. Shown' \in [Pools -> {"passed", "failed", "inconclusive"}]
  BY <1>2, <1>4
<1> QED BY <1>1, <1>5, <1>6, <1>7, <1>8, AbstractConclude

\* Every other end has a verdict on no pool.
LEMMA OtherEndsAbandon ==
  ASSUME IInv, ExitAtEnd,
         Preflight \/ LeaveUnwatched \/ NoLiveRun \/ Crash \/ JobCancelled, exit' # exit
  PROVE  Abstract!Next
<1>1. exit = -1 /\ exit' \in {0, 1} /\ UNCHANGED <<task, verdict>> /\ phase # "finished"
  BY DEF Preflight, LeaveUnwatched, NoLiveRun, Crash, JobCancelled, Exits, ExitAtEnd,
         Ended, queueVars
<1>2. UNCHANGED <<Goods, Bads>>
  BY <1>1 DEF Goods, Bads, Passing, Failing
<1>3. \A p \in Pools : verdict'[p] \in {"none", "no group"}
  BY <1>1 DEF IInv, Loop, NoEarlyVerdict
<1>4. Shown' \in [Pools -> {"none", "inconclusive"}]
  BY <1>3 DEF Shown, Seen
<1> QED BY <1>1, <1>2, <1>4, AbstractAbandon

\* Every step that leaves the queue and the exit code alone is a stutter.
LEMMA ShownUntilEnd ==
  ASSUME phase # "finished", phase' # "finished" PROVE UNCHANGED Shown
  BY DEF Shown

LEMMA StepsImplement ==
  ASSUME IInv, ExitAtEnd, [Next]_vars PROVE [Abstract!Next]_Abstract!vvars
<1>1. CASE phase = "finished" \/ UNCHANGED vars
  <2>1. UNCHANGED vars  BY <1>1, FinishedIsFinal
  <2>2. UNCHANGED <<Goods, Bads, Shown, exit>>
    BY <2>1 DEF vars, scriptVars, control, results, queueVars, Goods, Bads, Shown,
                Passing, Failing
  <2> QED BY <2>2, AbstractStutter
<1>2. CASE Report  BY <1>2, ReportConcludes
<1>3. CASE (Preflight \/ LeaveUnwatched \/ NoLiveRun \/ Crash \/ JobCancelled) /\ exit' # exit
  BY <1>3, OtherEndsAbandon
<1>4. CASE Environment /\ phase # "finished"
  <2>1. OneFate
    BY <1>4, QueueMapsToOne DEF Environment, IInv, TypeOK
  <2>2. UNCHANGED <<Shown, exit>> /\ exit = -1
    BY <1>4 DEF Environment, scriptVars, control, results, Shown, ExitAtEnd
  <2> QED BY <2>1, <2>2, AbstractPass, AbstractFail, AbstractStutter DEF OneFate
<1>5. CASE UNCHANGED <<task, exit>> /\ phase # "finished"
  <2>1. UNCHANGED <<Goods, Bads>>
    BY <1>5 DEF Goods, Bads, Passing, Failing
  <2>2. phase' # "finished"
    <3>1. ExitAtEnd'  BY ExitAtEndNext DEF IInv
    <3>2. exit' = exit /\ (phase' \in Ended <=> phase \in Ended)
      BY <3>1, <1>5 DEF ExitAtEnd
    <3>3. phase \in {"crashed", "cancelled"} => UNCHANGED phase
      BY DEF Next, Script, Preflight, LeaveUnwatched, StartDiscovery, Trigger,
             DiscoverNext, GroupFound, DiscoverAgain, GroupNotFound, Discovering,
             NoLiveRun, StartMonitor, WaitHead, ListGroup, ListGroupFails, FindBlocked,
             Refreshed, Polling, RoundEnd, LastRoundEnd, Report, Crash, JobCancelled,
             Environment, Rest, Ended, vars, scriptVars, control
    <3> QED BY <3>2, <3>3, <1>5 DEF Ended
  <2> QED BY <2>1, <2>2, <1>5, ShownUntilEnd, AbstractStutter
<1>6. \/ UNCHANGED <<task, exit>> \/ UNCHANGED vars \/ Report \/ Environment
      \/ (Preflight \/ LeaveUnwatched \/ NoLiveRun \/ Crash \/ JobCancelled) /\ exit' # exit
  BY DEF Next, Script, Preflight, LeaveUnwatched, StartDiscovery, Trigger, DiscoverNext,
         GroupFound, DiscoverAgain, GroupNotFound, NoLiveRun, StartMonitor, WaitHead,
         ListGroup, ListGroupFails, FindBlocked, Refreshed, RoundEnd, LastRoundEnd,
         Crash, JobCancelled, Rest, queueVars, results
<1> QED BY <1>1, <1>2, <1>3, <1>4, <1>5, <1>6

LEMMA InitImplements == Init => Abstract!Init
<1> SUFFICES ASSUME Init PROVE Abstract!Init  OBVIOUS
<1>1. Goods = {} /\ Bads = {}
  BY DEF Init, QueueInit, Goods, Bads, Passing, Failing, Members
<1>2. Shown = [p \in Pools |-> "none"] /\ exit = -1
  BY DEF Init, Shown
<1> QED BY <1>1, <1>2 DEF Abstract!Init, Goods, Bads, Shown, Failing

\* The run implements HwVerdict as long as every group fits in one page: it ends
\* at most once, calls passed only a pool that passed and failed only one with
\* a task that did not, and after a report is red exactly when a pool failed.
THEOREM Refines == ASSUME OnePage PROVE Spec => ImplementsVerdict
<1>1. IInv /\ ExitAtEnd /\ [Next]_vars => [Abstract!Next]_Abstract!vvars
  BY StepsImplement
<1> QED
  BY <1>1, InitImplements, Invariance, EndsOnce, PTL DEF Spec, ImplementsVerdict, Abstract!Spec
=============================================================================
