-------------------------- MODULE SeedInstallInv --------------------------
(* The inductive invariant of SeedInstall.                                   *)
EXTENDS SeedInstall

\* While install() runs there is no state file, and what it has gathered, has
\* in hand and has yet to visit is every name.
LoopIsWhole ==
  inst \in {"move", "index", "refresh"} /\ ~lost =>
    /\ samedisk /\ ~state.exists
    /\ \A n \in Names : n \in reg \/ n \in left \/ (n = cur /\ inst # "move")
    /\ \A n \in reg : repo[n] = "cache"
    /\ inst # "move" => repo[cur] = "cache"

\* A state file is of caches that are there, and of all that were baked.
StateIsTrue ==
  state.exists /\ ~lost =>
    /\ \A n \in state.names : repo[n] = "cache"
    /\ samedisk => \A n \in Names : repo[n] # "seed"

\* Before there is one no task has run and nothing is gone.
BeforeState ==
  ~state.exists /\ ~lost /\ samedisk =>
    ~worker /\ \A n \in Names : repo[n] # "gone" /\ index[n] # "task"

ElsewhereIsUntouched ==
  ~samedisk /\ ~lost => state.names = {} /\ \A n \in Names : index[n] # "task"

\* A lock is held by the refresh that runs or was left by one that stopped.
LocksAreHeld ==
  /\ ~lost /\ ~torn => locks \subseteq {cur} /\ (locks # {} => inst = "refresh")
  /\ inst = "refresh" => cur \in locks

UnitsInOrder ==
  /\ worker => inst = "done"
  /\ inst = "done" /\ samedisk /\ ~lost => state.exists

IInv ==
  /\ TypeOK
  /\ LoopIsWhole
  /\ StateIsTrue
  /\ BeforeState
  /\ ElsewhereIsUntouched
  /\ LocksAreHeld
  /\ UnitsInOrder
  /\ InstallRecovers
=============================================================================
