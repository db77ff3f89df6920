---------------------------- MODULE CloudRunInv ----------------------------
(* The inductive invariant of CloudRun.                                      *)
EXTENDS CloudRun

\* There is a group exactly while it is polled, and its hook completed.
GroupFits ==
  /\ phase \in {"start", "find"} => group = "none"
  /\ phase \in {"head", "read", "sleep", "last"} => group # "none"
  /\ group # "none" => hook[Image] = "completed"
  /\ group = "created" => task[Image][Root] # "none"
  /\ group = "none" => page = 1 /\ tasks = Nothing /\ had = {}

\* A state that was read as resolved is the state still.
ReadIsTrue ==
  group = "created" =>
    \A x \in Members : tasks[x] \in Resolved => Reported(task[Image][x]) = tasks[x]

\* What existed when the reading began is listed once its page is read.
HadIsListed ==
  group = "created" =>
    /\ \A x \in had : task[Image][x] # "none"
    /\ \A x \in had : pageOf[x] < page => tasks[x] # "none"
    /\ page > 1 \/ phase \in {"read", "last"} => Root \in had

\* A listing whose first page has the decision completed misses no task of
\* the pages it has read.
NoneIsMissed ==
  group = "created" /\ pageOf[Root] = 1 /\ tasks[Root] = "completed" =>
    \A x \in Members : task[Image][x] # "none" /\ pageOf[x] < page => tasks[x] # "none"

\* A summary is written at the end, from a whole listing.
SummaryFits ==
  /\ phase # "ended" => summary = "none" /\ exit = -1
  /\ summary = "Passed" => page > LastPage /\ \A x \in Members : tasks[x] \in {"none", "completed"}
  /\ summary = "Failed" => exit = 1 /\ Listed(Dead) # {}
  /\ exit = 0 => summary \in {"none", "Passed"}

\* The time is that of the attempts, then that of the polling.
ClockFits ==
  /\ group = "none" => clock = tries * DecisionPoll
  /\ group # "none" =>
       /\ tries < Tries
       /\ start = tries * DecisionPoll
       /\ start <= clock
       /\ clock - start < Timeout + GroupPoll
       /\ phase \in {"read", "sleep"} => clock - start < Timeout

IInv ==
  /\ TypeOK
  /\ GroupFits
  /\ ReadIsTrue
  /\ HadIsListed
  /\ NoneIsMissed
  /\ SummaryFits
  /\ ClockFits
=============================================================================
