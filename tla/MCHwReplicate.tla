--------------------------- MODULE MCHwReplicate ---------------------------
EXTENDS HwReplicateInv, TLC

CONSTANTS build, tool,        \* labels
          t1, t2, t3, t4, t5, \* tests
          b1, b2, b3, b4, bc, \* the build of each push and of the cron graph
          old, new            \* the tool of the graphs, and the daily one

(* Each graph builds its own Firefox; the tool is cached and shared by all   *)
(* but graph 0, which builds it daily and carries no Firefox.                *)
BuildOf == <<b1, b2, b3, b4, bc>>
Supplies ==
  [g \in Graphs |-> [a \in Artifacts |->
     IF g = 0 THEN new ELSE IF a = tool THEN old ELSE BuildOf[g]]]
Carrying == [g \in Graphs |-> IF g = 0 THEN {tool} ELSE {build, tool}]

(* t1 fetches a tool and installs the build; t2 fetches from the build too,  *)
(* as the rest do, which name it nowhere else. On a push t3 is of a dropped  *)
(* kind and t4 is not curated; nobody asks for t5.                           *)
Fetching == [t \in Tests |-> IF t = t1 THEN {tool} ELSE IF t = t2 THEN {build, tool} ELSE {build}]
Mounting == [t \in Tests |-> IF t \in {t1, t2} THEN {build} ELSE {}]
Ordering == [t \in Tests |-> {}]
Repairs == <<0, Newest>>

Always == LastHour + Margin + Life + 1

(* Each earlier push is unknown to the index, schedules nothing, or has a    *)
(* build that completed or died; the newest one's build waits to run or is   *)
(* over; the cron graph schedules nothing unless it is the one of interest.  *)
PushKinds == {"unindexed", "idle", "completed", "dead"}
NewestKinds == {"unscheduled", "completed", "dead"}
CronKinds == {"idle", "completed", "dead"}

WorldOf(kind, newest, cron, oldFor, newFor, reads) ==
  [schedules |-> [g \in Graphs |->
     IF g = 0 THEN {}
     ELSE IF g = Cron THEN IF cron = "idle" THEN {} ELSE Tests
     ELSE IF g = Newest THEN Tests
     ELSE IF kind[g] = "idle" THEN {} ELSE Tests],
   indexed |-> {p \in Pushes : p = Newest \/ kind[p] # "unindexed"},
   readable |-> reads,
   state |-> [u \in Upstreams |->
     IF u \in {old, new} THEN "completed"
     ELSE IF u = bc THEN IF cron = "dead" THEN "dead" ELSE "completed"
     ELSE IF u = BuildOf[Newest] THEN newest
     ELSE IF \E p \in 1..Newest - 1 : u = BuildOf[p] /\ kind[p] = "dead" THEN "dead"
     ELSE "completed"],
   expires |-> [u \in Upstreams |->
     IF u = old THEN oldFor ELSE IF u = new THEN newFor
     ELSE IF u = BuildOf[Newest] THEN IF newest = "completed" THEN Always ELSE 0
     ELSE IF u = bc THEN IF cron = "dead" THEN 0 ELSE Always
     ELSE IF \E p \in 1..Newest - 1 : u = BuildOf[p] /\ kind[p] = "dead" THEN 0
     ELSE Always]]

(* The shared tool expires within the margin and the daily one lives, or the *)
(* shared one expires an hour later and the daily one is gone.               *)
SomeWorlds ==
  {WorldOf(k, n, "idle", o, IF o = 1 THEN Always ELSE 1, {0, Newest}) :
     k \in {f \in [1..Newest - 1 -> PushKinds] : f[1] = "completed"},
     n \in NewestKinds, o \in {1, 2}}
  \cup
  {WorldOf([p \in 1..Newest - 1 |-> "completed"], n, c, 1, Always, r) :
     n \in NewestKinds, c \in CronKinds, r \in {{}, {0, Newest}}}
=============================================================================
