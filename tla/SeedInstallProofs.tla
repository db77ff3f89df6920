-------------------------- MODULE SeedInstallProofs --------------------------
(* Theorems of SeedInstall, for every set of names and number of boots.      *)
EXTENDS SeedInstallInv, TLAPS

\* What the constants are assumed to be, in the form the proofs cite.
LEMMA Bounds == Names # {} /\ MaxBoots \in Nat \ {0}
  BY SeedInstallAssumption

USE Bounds


\* install starts from whatever the last boot left.
LEMMA DisksReadyInv ==
  ASSUME IInv, DisksReady  PROVE IInv'
<1>1. TypeOK'
  BY DEF DisksReady, history, disks, IInv, TypeOK, Repos, Indexes, StateFiles
<1>2. LoopIsWhole' /\ StateIsTrue' /\ BeforeState' /\ ElsewhereIsUntouched'
  BY DEF DisksReady, history, disks, IInv, TypeOK, Repos, Indexes, StateFiles,
         LoopIsWhole, StateIsTrue, BeforeState, ElsewhereIsUntouched,
         LocksAreHeld, UnitsInOrder, InstallRecovers
<1>3. LocksAreHeld' /\ UnitsInOrder' /\ InstallRecovers'
  BY DEF DisksReady, history, disks, IInv, TypeOK, Repos, Indexes, StateFiles,
         LoopIsWhole, StateIsTrue, BeforeState, ElsewhereIsUntouched,
         LocksAreHeld, UnitsInOrder, InstallRecovers
<1> QED
  BY <1>1, <1>2, <1>3 DEF IInv

\* The worker starts after install, on the state file install wrote.
LEMMA StartWorkerInv ==
  ASSUME IInv, StartWorker  PROVE IInv'
<1>1. TypeOK'
  BY DEF StartWorker, history, disks, IInv, TypeOK, Repos, Indexes, StateFiles
<1>2. LoopIsWhole' /\ StateIsTrue' /\ BeforeState' /\ ElsewhereIsUntouched'
  BY DEF StartWorker, history, disks, IInv, TypeOK, Repos, Indexes, StateFiles,
         LoopIsWhole, StateIsTrue, BeforeState, ElsewhereIsUntouched,
         LocksAreHeld, UnitsInOrder, InstallRecovers
<1>3. LocksAreHeld' /\ UnitsInOrder' /\ InstallRecovers'
  BY DEF StartWorker, history, disks, IInv, TypeOK, Repos, Indexes, StateFiles,
         LoopIsWhole, StateIsTrue, BeforeState, ElsewhereIsUntouched,
         LocksAreHeld, UnitsInOrder, InstallRecovers
<1> QED
  BY <1>1, <1>2, <1>3 DEF IInv

\* A state file ends install with nothing touched.
LEMMA AlreadyRegisteredInv ==
  ASSUME IInv, AlreadyRegistered  PROVE IInv'
<1>1. TypeOK'
  BY DEF AlreadyRegistered, InstUnchanged, Untouched, Registered, IInv, TypeOK, Repos,
         Indexes, StateFiles
<1>2. LoopIsWhole' /\ StateIsTrue' /\ BeforeState' /\ ElsewhereIsUntouched'
  BY DEF AlreadyRegistered, InstUnchanged, Untouched, Registered, IInv, TypeOK, Repos,
         Indexes, StateFiles, LoopIsWhole, StateIsTrue, BeforeState,
         ElsewhereIsUntouched, LocksAreHeld, UnitsInOrder, InstallRecovers
<1>3. LocksAreHeld' /\ UnitsInOrder' /\ InstallRecovers'
  BY DEF AlreadyRegistered, InstUnchanged, Untouched, Registered, IInv, TypeOK, Repos,
         Indexes, StateFiles, LoopIsWhole, StateIsTrue, BeforeState,
         ElsewhereIsUntouched, LocksAreHeld, UnitsInOrder, InstallRecovers
<1> QED
  BY <1>1, <1>2, <1>3 DEF IInv

\* A seed on another disk ends install with nothing touched.
LEMMA SeedElsewhereInv ==
  ASSUME IInv, SeedElsewhere  PROVE IInv'
<1>1. TypeOK'
  BY DEF SeedElsewhere, InstUnchanged, Untouched, Registered, IInv, TypeOK, Repos,
         Indexes, StateFiles
<1>2. LoopIsWhole' /\ StateIsTrue' /\ BeforeState' /\ ElsewhereIsUntouched'
  BY DEF SeedElsewhere, InstUnchanged, Untouched, Registered, IInv, TypeOK, Repos,
         Indexes, StateFiles, LoopIsWhole, StateIsTrue, BeforeState,
         ElsewhereIsUntouched, LocksAreHeld, UnitsInOrder, InstallRecovers
<1>3. LocksAreHeld' /\ UnitsInOrder' /\ InstallRecovers'
  BY DEF SeedElsewhere, InstUnchanged, Untouched, Registered, IInv, TypeOK, Repos,
         Indexes, StateFiles, LoopIsWhole, StateIsTrue, BeforeState,
         ElsewhereIsUntouched, LocksAreHeld, UnitsInOrder, InstallRecovers
<1> QED
  BY <1>1, <1>2, <1>3 DEF IInv

\* The loop starts with every name to visit.
LEMMA ReadManifestInv ==
  ASSUME IInv, ReadManifest  PROVE IInv'
<1>1. TypeOK'
  BY DEF ReadManifest, InstUnchanged, Untouched, Registered, IInv, TypeOK, Repos,
         Indexes, StateFiles
<1>2. LoopIsWhole' /\ StateIsTrue' /\ BeforeState' /\ ElsewhereIsUntouched'
  BY DEF ReadManifest, InstUnchanged, Untouched, Registered, IInv, TypeOK, Repos,
         Indexes, StateFiles, LoopIsWhole, StateIsTrue, BeforeState,
         ElsewhereIsUntouched, LocksAreHeld, UnitsInOrder, InstallRecovers
<1>3. LocksAreHeld' /\ UnitsInOrder' /\ InstallRecovers'
  BY DEF ReadManifest, InstUnchanged, Untouched, Registered, IInv, TypeOK, Repos,
         Indexes, StateFiles, LoopIsWhole, StateIsTrue, BeforeState,
         ElsewhereIsUntouched, LocksAreHeld, UnitsInOrder, InstallRecovers
<1> QED
  BY <1>1, <1>2, <1>3 DEF IInv

\* Visiting a name leaves its checkout in the caches.
LEMMA MoveCacheInv ==
  ASSUME IInv, NEW n \in Names, MoveCache(n)  PROVE IInv'
<1>1. TypeOK'
  BY DEF MoveCache, InstUnchanged, Untouched, IInv, TypeOK, Repos, Indexes, StateFiles
<1>2. LoopIsWhole' /\ StateIsTrue' /\ BeforeState' /\ ElsewhereIsUntouched'
  BY DEF MoveCache, InstUnchanged, Untouched, IInv, TypeOK, Repos, Indexes, StateFiles,
         LoopIsWhole, StateIsTrue, BeforeState, ElsewhereIsUntouched,
         LocksAreHeld, UnitsInOrder, InstallRecovers
<1>3. LocksAreHeld' /\ UnitsInOrder' /\ InstallRecovers'
  BY DEF MoveCache, InstUnchanged, Untouched, IInv, TypeOK, Repos, Indexes, StateFiles,
         LoopIsWhole, StateIsTrue, BeforeState, ElsewhereIsUntouched,
         LocksAreHeld, UnitsInOrder, InstallRecovers
<1> QED
  BY <1>1, <1>2, <1>3 DEF IInv

\* The name in hand is gathered.
LEMMA KeepIndexInv ==
  ASSUME IInv, KeepIndex  PROVE IInv'
<1>1. TypeOK'
  BY DEF KeepIndex, InstUnchanged, Untouched, IInv, TypeOK, Repos, Indexes, StateFiles
<1>2. LoopIsWhole' /\ StateIsTrue' /\ BeforeState' /\ ElsewhereIsUntouched'
  BY DEF KeepIndex, InstUnchanged, Untouched, IInv, TypeOK, Repos, Indexes, StateFiles,
         LoopIsWhole, StateIsTrue, BeforeState, ElsewhereIsUntouched,
         LocksAreHeld, UnitsInOrder, InstallRecovers
<1>3. LocksAreHeld' /\ UnitsInOrder' /\ InstallRecovers'
  BY DEF KeepIndex, InstUnchanged, Untouched, IInv, TypeOK, Repos, Indexes, StateFiles,
         LoopIsWhole, StateIsTrue, BeforeState, ElsewhereIsUntouched,
         LocksAreHeld, UnitsInOrder, InstallRecovers
<1> QED
  BY <1>1, <1>2, <1>3 DEF IInv

\* A lock is held by the refresh that takes it, and by nothing else.
LEMMA LockIndexInv ==
  ASSUME IInv, LockIndex  PROVE IInv'
<1>1. TypeOK'
  BY DEF LockIndex, InstUnchanged, Untouched, IInv, TypeOK, Repos, Indexes, StateFiles
<1>2. LoopIsWhole' /\ StateIsTrue' /\ BeforeState' /\ ElsewhereIsUntouched'
  BY DEF LockIndex, InstUnchanged, Untouched, IInv, TypeOK, Repos, Indexes, StateFiles,
         LoopIsWhole, StateIsTrue, BeforeState, ElsewhereIsUntouched,
         LocksAreHeld, UnitsInOrder, InstallRecovers
<1>3. LocksAreHeld' /\ UnitsInOrder' /\ InstallRecovers'
  BY DEF LockIndex, InstUnchanged, Untouched, IInv, TypeOK, Repos, Indexes, StateFiles,
         LoopIsWhole, StateIsTrue, BeforeState, ElsewhereIsUntouched,
         LocksAreHeld, UnitsInOrder, InstallRecovers
<1> QED
  BY <1>1, <1>2, <1>3 DEF IInv

\* The refresh gives its lock back and gathers the name.
LEMMA RefreshIndexInv ==
  ASSUME IInv, RefreshIndex  PROVE IInv'
<1>1. TypeOK'
  BY DEF RefreshIndex, InstUnchanged, Untouched, IInv, TypeOK, Repos, Indexes,
         StateFiles
<1>2. LoopIsWhole' /\ StateIsTrue' /\ BeforeState' /\ ElsewhereIsUntouched'
  BY DEF RefreshIndex, InstUnchanged, Untouched, IInv, TypeOK, Repos, Indexes,
         StateFiles, LoopIsWhole, StateIsTrue, BeforeState,
         ElsewhereIsUntouched, LocksAreHeld, UnitsInOrder, InstallRecovers
<1>3. LocksAreHeld' /\ UnitsInOrder' /\ InstallRecovers'
  BY DEF RefreshIndex, InstUnchanged, Untouched, IInv, TypeOK, Repos, Indexes,
         StateFiles, LoopIsWhole, StateIsTrue, BeforeState,
         ElsewhereIsUntouched, LocksAreHeld, UnitsInOrder, InstallRecovers
<1> QED
  BY <1>1, <1>2, <1>3 DEF IInv

\* The state file is written when no name is left.
LEMMA WriteStateInv ==
  ASSUME IInv, WriteState  PROVE IInv'
<1>1. TypeOK'
  BY DEF WriteState, InstUnchanged, Untouched, IInv, TypeOK, Repos, Indexes, StateFiles
<1>2. LoopIsWhole' /\ StateIsTrue' /\ BeforeState' /\ ElsewhereIsUntouched'
  BY DEF WriteState, InstUnchanged, Untouched, IInv, TypeOK, Repos, Indexes,
         StateFiles, LoopIsWhole, StateIsTrue, BeforeState,
         ElsewhereIsUntouched, LocksAreHeld, UnitsInOrder, InstallRecovers
<1>3. LocksAreHeld' /\ UnitsInOrder' /\ InstallRecovers'
  BY DEF WriteState, InstUnchanged, Untouched, IInv, TypeOK, Repos, Indexes,
         StateFiles, LoopIsWhole, StateIsTrue, BeforeState,
         ElsewhereIsUntouched, LocksAreHeld, UnitsInOrder, InstallRecovers
<1> QED
  BY <1>1, <1>2, <1>3 DEF IInv

\* A failed command ends install with nothing touched.
LEMMA CommandFailsInv ==
  ASSUME IInv, CommandFails  PROVE IInv'
<1>1. TypeOK'
  BY DEF CommandFails, Untouched, IInv, TypeOK, Repos, Indexes, StateFiles
<1>2. LoopIsWhole' /\ StateIsTrue' /\ BeforeState' /\ ElsewhereIsUntouched'
  BY DEF CommandFails, Untouched, IInv, TypeOK, Repos, Indexes, StateFiles,
         LoopIsWhole, StateIsTrue, BeforeState,
         ElsewhereIsUntouched, LocksAreHeld, UnitsInOrder, InstallRecovers
<1>3. LocksAreHeld' /\ UnitsInOrder' /\ InstallRecovers'
  BY DEF CommandFails, Untouched, IInv, TypeOK, Repos, Indexes, StateFiles,
         LoopIsWhole, StateIsTrue, BeforeState,
         ElsewhereIsUntouched, LocksAreHeld, UnitsInOrder, InstallRecovers
<1> QED
  BY <1>1, <1>2, <1>3 DEF IInv

\* A failed refresh is remembered, and the lock it may leave with it.
LEMMA RefreshFailsInv ==
  ASSUME IInv, RefreshFails  PROVE IInv'
<1>1. TypeOK'
  BY DEF RefreshFails, Untouched, IInv, TypeOK, Repos, Indexes, StateFiles
<1>2. LoopIsWhole' /\ StateIsTrue' /\ BeforeState' /\ ElsewhereIsUntouched'
  BY DEF RefreshFails, Untouched, IInv, TypeOK, Repos, Indexes, StateFiles,
         LoopIsWhole, StateIsTrue, BeforeState,
         ElsewhereIsUntouched, LocksAreHeld, UnitsInOrder, InstallRecovers
<1>3. LocksAreHeld' /\ UnitsInOrder' /\ InstallRecovers'
  BY DEF RefreshFails, Untouched, IInv, TypeOK, Repos, Indexes, StateFiles,
         LoopIsWhole, StateIsTrue, BeforeState,
         ElsewhereIsUntouched, LocksAreHeld, UnitsInOrder, InstallRecovers
<1> QED
  BY <1>1, <1>2, <1>3 DEF IInv

\* A task runs only after the state file exists.
LEMMA TaskUsesCacheInv ==
  ASSUME IInv, NEW n \in Names, TaskUsesCache(n)  PROVE IInv'
<1>1. TypeOK'
  BY DEF TaskUsesCache, history, IInv, TypeOK, Repos, Indexes, StateFiles
<1>2. LoopIsWhole' /\ StateIsTrue' /\ BeforeState' /\ ElsewhereIsUntouched'
  BY DEF TaskUsesCache, history, IInv, TypeOK, Repos, Indexes, StateFiles,
         LoopIsWhole, StateIsTrue, BeforeState, ElsewhereIsUntouched,
         LocksAreHeld, UnitsInOrder, InstallRecovers
<1>3. LocksAreHeld' /\ UnitsInOrder' /\ InstallRecovers'
  BY DEF TaskUsesCache, history, IInv, TypeOK, Repos, Indexes, StateFiles,
         LoopIsWhole, StateIsTrue, BeforeState, ElsewhereIsUntouched,
         LocksAreHeld, UnitsInOrder, InstallRecovers
<1> QED
  BY <1>1, <1>2, <1>3 DEF IInv

\* The worker forgets a cache with the state that names it.
LEMMA WorkerEvictsInv ==
  ASSUME IInv, NEW n \in Names, WorkerEvicts(n)  PROVE IInv'
<1>1. TypeOK'
  BY DEF WorkerEvicts, history, IInv, TypeOK, Repos, Indexes, StateFiles
<1>2. LoopIsWhole' /\ StateIsTrue' /\ BeforeState' /\ ElsewhereIsUntouched'
  BY DEF WorkerEvicts, history, IInv, TypeOK, Repos, Indexes, StateFiles,
         LoopIsWhole, StateIsTrue, BeforeState, ElsewhereIsUntouched,
         LocksAreHeld, UnitsInOrder, InstallRecovers
<1>3. LocksAreHeld' /\ UnitsInOrder' /\ InstallRecovers'
  BY DEF WorkerEvicts, history, IInv, TypeOK, Repos, Indexes, StateFiles,
         LoopIsWhole, StateIsTrue, BeforeState, ElsewhereIsUntouched,
         LocksAreHeld, UnitsInOrder, InstallRecovers
<1> QED
  BY <1>1, <1>2, <1>3 DEF IInv

\* Flushing changes what a power loss finds and nothing else.
LEMMA FlushHomeInv ==
  ASSUME IInv, FlushHome  PROVE IInv'
<1>1. TypeOK'
  BY DEF FlushHome, history, OnDisk, IInv, TypeOK, Repos, Indexes, StateFiles
<1>2. LoopIsWhole' /\ StateIsTrue' /\ BeforeState' /\ ElsewhereIsUntouched'
  BY DEF FlushHome, history, OnDisk, IInv, TypeOK, Repos, Indexes, StateFiles,
         LoopIsWhole, StateIsTrue, BeforeState, ElsewhereIsUntouched,
         LocksAreHeld, UnitsInOrder, InstallRecovers
<1>3. LocksAreHeld' /\ UnitsInOrder' /\ InstallRecovers'
  BY DEF FlushHome, history, OnDisk, IInv, TypeOK, Repos, Indexes, StateFiles,
         LoopIsWhole, StateIsTrue, BeforeState, ElsewhereIsUntouched,
         LocksAreHeld, UnitsInOrder, InstallRecovers
<1> QED
  BY <1>1, <1>2, <1>3 DEF IInv

\* Flushing changes what a power loss finds and nothing else.
LEMMA FlushStateInv ==
  ASSUME IInv, FlushState  PROVE IInv'
<1>1. TypeOK'
  BY DEF FlushState, history, IInv, TypeOK, Repos, Indexes, StateFiles
<1>2. LoopIsWhole' /\ StateIsTrue' /\ BeforeState' /\ ElsewhereIsUntouched'
  BY DEF FlushState, history, IInv, TypeOK, Repos, Indexes, StateFiles, LoopIsWhole,
         StateIsTrue, BeforeState, ElsewhereIsUntouched, LocksAreHeld,
         UnitsInOrder, InstallRecovers
<1>3. LocksAreHeld' /\ UnitsInOrder' /\ InstallRecovers'
  BY DEF FlushState, history, IInv, TypeOK, Repos, Indexes, StateFiles, LoopIsWhole,
         StateIsTrue, BeforeState, ElsewhereIsUntouched, LocksAreHeld,
         UnitsInOrder, InstallRecovers
<1> QED
  BY <1>1, <1>2, <1>3 DEF IInv

\* A reboot keeps the disks and gives the lock back.
LEMMA RebootInv ==
  ASSUME IInv, Reboot  PROVE IInv'
<1>1. TypeOK'
  <2>1. repo' \in Repos /\ index' \in Indexes /\ state' \in StateFiles /\ locks' \subseteq Names
    BY DEF Reboot, Boot, OnDisk, IInv, TypeOK, Repos, Indexes, StateFiles
  <2>2. flushed' = [repo |-> repo', index |-> index', locks |-> locks', state |-> state']
    BY DEF Reboot, Boot, OnDisk, IInv, TypeOK, Repos, Indexes, StateFiles
  <2>3. flushed' \in [repo : Repos, index : Indexes, locks : SUBSET Names, state : StateFiles]
    BY <2>1, <2>2
  <2>4. left' \subseteq Names /\ reg' \subseteq Names /\ boots' \in 1..MaxBoots
    BY DEF Reboot, Boot, OnDisk, IInv, TypeOK, Repos, Indexes, StateFiles
  <2>5. {samedisk', worker', broken', lost', torn'} \subseteq BOOLEAN
    BY DEF Reboot, Boot, OnDisk, IInv, TypeOK, Repos, Indexes, StateFiles
  <2> QED
    BY <2>1, <2>3, <2>4, <2>5 DEF Reboot, Boot, IInv, TypeOK
<1>2. LoopIsWhole' /\ StateIsTrue' /\ BeforeState' /\ ElsewhereIsUntouched'
  BY DEF Reboot, Boot, OnDisk, IInv, TypeOK, Repos, Indexes, StateFiles,
         LoopIsWhole, StateIsTrue, BeforeState, ElsewhereIsUntouched,
         LocksAreHeld, UnitsInOrder, InstallRecovers
<1>3. LocksAreHeld' /\ UnitsInOrder' /\ InstallRecovers'
  BY DEF Reboot, Boot, OnDisk, IInv, TypeOK, Repos, Indexes, StateFiles,
         LoopIsWhole, StateIsTrue, BeforeState, ElsewhereIsUntouched,
         LocksAreHeld, UnitsInOrder, InstallRecovers
<1> QED
  BY <1>1, <1>2, <1>3 DEF IInv

\* A power loss that loses nothing is a reboot; any other is remembered.
LEMMA PowerLossInv ==
  ASSUME IInv, PowerLoss  PROVE IInv'
<1>1. TypeOK'
  <2>1. repo' \in Repos /\ index' \in Indexes /\ state' \in StateFiles /\ locks' \subseteq Names
    BY DEF PowerLoss, Boot, OnDisk, IInv, TypeOK, Repos, Indexes, StateFiles
  <2>2. flushed' = [repo |-> repo', index |-> index', locks |-> locks', state |-> state']
    BY DEF PowerLoss, Boot, OnDisk, IInv, TypeOK, Repos, Indexes, StateFiles
  <2>3. flushed' \in [repo : Repos, index : Indexes, locks : SUBSET Names, state : StateFiles]
    BY <2>1, <2>2
  <2>4. left' \subseteq Names /\ reg' \subseteq Names /\ boots' \in 1..MaxBoots
    BY DEF PowerLoss, Boot, OnDisk, IInv, TypeOK, Repos, Indexes, StateFiles
  <2>5. {samedisk', worker', broken', lost', torn'} \subseteq BOOLEAN
    BY DEF PowerLoss, Boot, OnDisk, IInv, TypeOK, Repos, Indexes, StateFiles
  <2> QED
    BY <2>1, <2>3, <2>4, <2>5 DEF PowerLoss, Boot, IInv, TypeOK
<1>2. LoopIsWhole' /\ StateIsTrue' /\ BeforeState' /\ ElsewhereIsUntouched'
  BY DEF PowerLoss, Boot, OnDisk, IInv, TypeOK, Repos, Indexes, StateFiles,
         LoopIsWhole, StateIsTrue, BeforeState, ElsewhereIsUntouched,
         LocksAreHeld, UnitsInOrder, InstallRecovers
<1>3. LocksAreHeld' /\ UnitsInOrder' /\ InstallRecovers'
  BY DEF PowerLoss, Boot, OnDisk, IInv, TypeOK, Repos, Indexes, StateFiles,
         LoopIsWhole, StateIsTrue, BeforeState, ElsewhereIsUntouched,
         LocksAreHeld, UnitsInOrder, InstallRecovers
<1> QED
  BY <1>1, <1>2, <1>3 DEF IInv

\* The loss of the SSDs is remembered.
LEMMA SsdLossInv ==
  ASSUME IInv, SsdLoss  PROVE IInv'
<1>1. TypeOK'
  <2>1. repo' \in Repos /\ index' \in Indexes /\ state' \in StateFiles /\ locks' \subseteq Names
    BY DEF SsdLoss, Boot, OnDisk, Seed, IInv, TypeOK, Repos, Indexes, StateFiles
  <2>2. flushed' = [repo |-> repo', index |-> index', locks |-> locks', state |-> state']
    BY DEF SsdLoss, Boot, OnDisk, Seed, IInv, TypeOK, Repos, Indexes, StateFiles
  <2>3. flushed' \in [repo : Repos, index : Indexes, locks : SUBSET Names, state : StateFiles]
    BY <2>1, <2>2
  <2>4. left' \subseteq Names /\ reg' \subseteq Names /\ boots' \in 1..MaxBoots
    BY DEF SsdLoss, Boot, OnDisk, Seed, IInv, TypeOK, Repos, Indexes, StateFiles
  <2>5. {samedisk', worker', broken', lost', torn'} \subseteq BOOLEAN
    BY DEF SsdLoss, Boot, OnDisk, Seed, IInv, TypeOK, Repos, Indexes, StateFiles
  <2> QED
    BY <2>1, <2>3, <2>4, <2>5 DEF SsdLoss, Boot, IInv, TypeOK
<1>2. LoopIsWhole' /\ StateIsTrue' /\ BeforeState' /\ ElsewhereIsUntouched'
  BY DEF SsdLoss, Boot, OnDisk, Seed, IInv, TypeOK, Repos, Indexes,
         StateFiles, LoopIsWhole, StateIsTrue, BeforeState,
         ElsewhereIsUntouched, LocksAreHeld, UnitsInOrder, InstallRecovers
<1>3. LocksAreHeld' /\ UnitsInOrder' /\ InstallRecovers'
  BY DEF SsdLoss, Boot, OnDisk, Seed, IInv, TypeOK, Repos, Indexes,
         StateFiles, LoopIsWhole, StateIsTrue, BeforeState,
         ElsewhereIsUntouched, LocksAreHeld, UnitsInOrder, InstallRecovers
<1> QED
  BY <1>1, <1>2, <1>3 DEF IInv

\* A step that changes nothing keeps the invariant.
LEMMA StutterInv == ASSUME IInv, UNCHANGED vars  PROVE IInv'
  BY DEF vars, disks, history, IInv, TypeOK, LoopIsWhole, StateIsTrue, BeforeState,
         ElsewhereIsUntouched, LocksAreHeld, UnitsInOrder, InstallRecovers

\* Every step keeps the invariant: one case per action.
LEMMA StepInv == ASSUME IInv, [Next]_vars  PROVE IInv'
<1>1. CASE DisksReady \/ StartWorker
  BY <1>1, DisksReadyInv, StartWorkerInv
<1>2. CASE Install \/ CommandFails \/ RefreshFails
  BY <1>2, CommandFailsInv, RefreshFailsInv, AlreadyRegisteredInv, SeedElsewhereInv, ReadManifestInv, MoveCacheInv,
     KeepIndexInv, LockIndexInv, RefreshIndexInv, WriteStateInv DEF Install
<1>3. ASSUME NEW n \in Names, TaskUsesCache(n) \/ WorkerEvicts(n)  PROVE IInv'
  BY <1>3, TaskUsesCacheInv, WorkerEvictsInv
<1>4. CASE FlushHome \/ FlushState
  BY <1>4, FlushHomeInv, FlushStateInv
<1>5. CASE Reboot \/ PowerLoss \/ SsdLoss
  BY <1>5, RebootInv, PowerLossInv, SsdLossInv
<1>6. CASE UNCHANGED vars
  BY <1>6, StutterInv
<1> QED
  BY <1>1, <1>2, <1>3, <1>4, <1>5, <1>6 DEF Next

\* The first boot finds every checkout where the build left it.
LEMMA InitInv == ASSUME Init  PROVE IInv
<1>1. repo \in Repos /\ index \in Indexes /\ state \in StateFiles /\ locks \subseteq Names
  BY DEF Init, Seed, NoState, Repos, Indexes, StateFiles
<1>2. flushed \in [repo : Repos, index : Indexes, locks : SUBSET Names, state : StateFiles]
  BY <1>1 DEF Init, OnDisk
<1>3. left \subseteq Names /\ reg \subseteq Names /\ cur \in Names /\ boots \in 1..MaxBoots
  BY DEF Init
<1>4. TypeOK
  BY <1>1, <1>2, <1>3 DEF Init, TypeOK
<1>5. \A n \in Names : repo[n] = "seed" /\ index[n] \in {"manifest", "copy"}
  BY DEF Init, Seed
<1> QED
  BY <1>4, <1>5 DEF Init, NoState, IInv, LoopIsWhole, StateIsTrue, BeforeState,
     ElsewhereIsUntouched, LocksAreHeld, UnitsInOrder, InstallRecovers

\* Every reachable state satisfies the inductive invariant.
THEOREM Invariance == Spec => []IInv
<1>1. Init => IInv
  BY InitInv
<1>2. IInv /\ [Next]_vars => IInv'
  BY StepInv
<1> QED
  BY <1>1, <1>2, PTL DEF Spec

\* The worker is told only of caches that are where its state file says.
THEOREM RegisteredAreThere == Spec => []RegisteredExists
<1>1. IInv => RegisteredExists
  BY DEF IInv, TypeOK, StateFiles, BeforeState, ElsewhereIsUntouched, StateIsTrue, RegisteredExists
<1> QED
  BY <1>1, Invariance, PTL

\* While no data is lost install fails only of a command of the boot itself or
\* on the lock that a stopped git has left.
THEOREM InterruptedInstallRecovers == Spec => []InstallRecovers
<1>1. IInv => InstallRecovers
  BY DEF IInv
<1> QED
  BY <1>1, Invariance, PTL

\* No checkout is left where no later boot looks.
THEOREM EverySeedIsMoved == Spec => []NothingLeftBehind
<1>1. IInv => NothingLeftBehind
  BY DEF IInv, UnitsInOrder, StateIsTrue, NothingLeftBehind
<1> QED
  BY <1>1, Invariance, PTL

\* install() changes no cache that a task has moved on.
THEOREM InstallLeavesLiveCaches == Spec => LiveCachesUntouched
<1>1. ASSUME IInv, [Next]_vars
      PROVE  [~worker /\ ~lost' =>
                \A n \in Names : index[n] = "task" => index'[n] = "task" /\ repo'[n] = repo[n]]_vars
  <2> SUFFICES ASSUME IInv, Next, ~worker, ~lost', NEW n \in Names, index[n] = "task"
               PROVE  index'[n] = "task" /\ repo'[n] = repo[n]
    BY <1>1
  <2>1. CASE DisksReady \/ StartWorker \/ FlushHome \/ FlushState \/ Reboot
    BY <2>1 DEF DisksReady, StartWorker, FlushHome, FlushState, Reboot, disks, history
  <2>2. CASE Install \/ CommandFails \/ RefreshFails
    <3>1. ~lost
      BY <2>2 DEF Install, AlreadyRegistered, SeedElsewhere, ReadManifest, MoveCache,
                  KeepIndex, LockIndex, RefreshIndex, WriteState, CommandFails,
                  RefreshFails, InstUnchanged, Untouched
    <3>2. state.exists \/ ~samedisk
      BY <3>1 DEF IInv, BeforeState
    <3>3. inst \notin {"move", "index", "refresh"}
      BY <3>1, <3>2 DEF IInv, LoopIsWhole
    <3> QED
      BY <2>2, <3>3 DEF Install, AlreadyRegistered, SeedElsewhere, ReadManifest, MoveCache,
                        KeepIndex, LockIndex, RefreshIndex, WriteState, CommandFails,
                  RefreshFails, InstUnchanged, Untouched
  <2>3. CASE PowerLoss
    <3>1. OnDisk' = OnDisk
      BY <2>3 DEF PowerLoss
    <3> QED
      BY <3>1 DEF OnDisk
  <2>4. CASE SsdLoss
    BY <2>4 DEF SsdLoss
  <2>5. ASSUME NEW m \in Names, TaskUsesCache(m) \/ WorkerEvicts(m)  PROVE FALSE
    BY <2>5 DEF TaskUsesCache, WorkerEvicts
  <2> QED
    BY <2>1, <2>2, <2>3, <2>4, <2>5 DEF Next
<1> QED
  BY <1>1, Invariance, PTL DEF Spec, LiveCachesUntouched

\* A lock that a stopped git has left is never taken away: install() fails on
\* it at every later boot, until what is on the disks is lost.
THEOREM LeftLockIsForGood == Spec => LeftLockHoldsUp
<1>1. ASSUME IInv, [Next]_vars, NEW n \in Names, HeldUp(n), ~lost'  PROVE HeldUp(n)'
  <2>1. ~lost
    BY <1>1 DEF Next, Install, DisksReady, StartWorker, AlreadyRegistered, SeedElsewhere,
       ReadManifest, MoveCache, KeepIndex, LockIndex, RefreshIndex, WriteState, CommandFails,
       RefreshFails, InstUnchanged, Untouched, TaskUsesCache, WorkerEvicts, FlushHome,
       FlushState, Boot, Reboot, PowerLoss, SsdLoss, vars, history
  <2>2. ~worker
    BY <1>1, <2>1 DEF IInv, BeforeState, HeldUp
  <2>3. CASE DisksReady \/ StartWorker \/ FlushHome \/ FlushState \/ Reboot \/ UNCHANGED vars
    BY <1>1, <2>3 DEF DisksReady, StartWorker, FlushHome, FlushState, Reboot, Boot, disks, vars,
       history, HeldUp
  <2>4. CASE Install \/ CommandFails \/ RefreshFails
    BY <1>1, <2>1, <2>4 DEF IInv, TypeOK, Indexes, LoopIsWhole, Install, AlreadyRegistered,
       Registered, SeedElsewhere, ReadManifest, MoveCache, KeepIndex, LockIndex, RefreshIndex,
       WriteState, CommandFails, RefreshFails, InstUnchanged, Untouched, HeldUp
  <2>5. CASE PowerLoss
    <3>1. OnDisk' = OnDisk
      BY <1>1, <2>5 DEF PowerLoss
    <3>2. locks' = locks /\ index' = index /\ state' = state
      BY <3>1 DEF OnDisk
    <3> QED
      BY <1>1, <2>5, <3>2 DEF PowerLoss, Boot, HeldUp
  <2>6. CASE SsdLoss
    BY <1>1, <2>6 DEF SsdLoss
  <2>7. ASSUME NEW m \in Names, TaskUsesCache(m) \/ WorkerEvicts(m)  PROVE FALSE
    BY <2>2, <2>7 DEF TaskUsesCache, WorkerEvicts
  <2> QED
    BY <1>1, <2>3, <2>4, <2>5, <2>6, <2>7 DEF Next
<1>2. ASSUME IInv, [Next]_vars
      PROVE  [\A n \in Names : HeldUp(n) /\ ~lost' => HeldUp(n)']_vars
  BY <1>1, <1>2
<1> QED
  BY <1>2, Invariance, PTL DEF Spec, LeftLockHoldsUp
=============================================================================
