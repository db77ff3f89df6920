---------------------------- MODULE SeedInstall ----------------------------
(* gecko_seed.py install, which the worker's unit runs before the worker at  *)
(* every boot: it moves the baked checkouts into the caches directory and    *)
(* registers them in the worker's state file.  The checkouts are on the file *)
(* system of /home, the state file on the boot disk, and the machine may go  *)
(* down between any two steps: a reboot writes everything out, a power loss  *)
(* keeps what each file system has flushed.  Any command of install may fail *)
(* too, and with it the boot: the worker's unit is not restarted.  The       *)
(* worker, its tasks and the disk service before it are external here.       *)
EXTENDS Naturals

CONSTANTS
  Names,    \* the manifest's cache_names
  MaxBoots  \* bound: boots of one machine

ASSUME SeedInstallAssumption == Names # {} /\ MaxBoots \in Nat \ {0}

VARIABLES
  samedisk, \* whether seed_root and the caches directory share a disk
  repo,     \* repo[n]: "seed" in seed_root, "cache" in caches, or "gone"
  locks,    \* the checkouts with a .git/index.lock
  index,    \* index[n]: whose ctime .git/index has: "manifest", "copy" of the
            \*   image, "refresh" or "task"
  state,    \* the state file: [exists, names]
  flushed,  \* [repo, index, locks, state] as the disks have them
  inst,     \* where install() is
  left,     \* the names its loop has yet to visit
  cur,      \* the name being visited
  reg,      \* the state it has gathered
  worker,   \* whether the worker runs
  broken,   \* history: a command of this boot's install failed
  lost,     \* history: a boot came up with less than the one before had
  torn,     \* history: git was stopped while it held a lock
  boots

disks == <<samedisk, repo, index, locks, state, flushed>>
history == <<broken, lost, torn>>
vars == <<disks, inst, left, cur, reg, worker, history, boots>>

NoState == [exists |-> FALSE, names |-> {}]
StateFiles == [exists : BOOLEAN, names : SUBSET Names]
Repos == [Names -> {"seed", "cache", "gone"}]
Indexes == [Names -> {"manifest", "copy", "refresh", "task"}]

TypeOK ==
  /\ {samedisk, worker, broken, lost, torn} \subseteq BOOLEAN
  /\ repo \in Repos
  /\ index \in Indexes
  /\ locks \subseteq Names
  /\ state \in StateFiles
  /\ flushed \in [repo : Repos, index : Indexes, locks : SUBSET Names,
                 state : StateFiles]
  /\ inst \in {"off", "check", "move", "index", "refresh", "done", "failed"}
  /\ left \subseteq Names
  /\ cur \in Names
  /\ reg \subseteq Names
  /\ boots \in 1..MaxBoots

OnDisk == [repo |-> repo, index |-> index, locks |-> locks, state |-> state]

Seed == [n \in Names |-> "seed"]
Init ==
  /\ samedisk \in BOOLEAN
  /\ repo = Seed
  /\ \E c \in {"manifest", "copy"} : index = [n \in Names |-> c]
  /\ locks = {}
  /\ state = NoState
  /\ flushed = OnDisk
  /\ worker = FALSE /\ broken = FALSE /\ lost = FALSE /\ torn = FALSE
  /\ inst = "off" /\ left = {} /\ reg = {}
  /\ cur = CHOOSE n \in Names : TRUE
  /\ boots = 1

---------------------------------------------------------------------------
(* The units: the disk service, install, the worker                         *)

DisksReady ==
  /\ inst = "off"
  /\ inst' = "check"
  /\ UNCHANGED <<disks, left, cur, reg, worker, history, boots>>

StartWorker ==
  /\ inst = "done" /\ ~worker
  /\ worker' = TRUE
  /\ UNCHANGED <<disks, inst, left, cur, reg, history, boots>>

---------------------------------------------------------------------------
(* install                                                                  *)

Untouched == UNCHANGED <<samedisk, flushed, worker, lost, boots>>
InstUnchanged == Untouched /\ UNCHANGED <<broken, torn>>

\* Mutant: install() registers the caches at every boot.
RegisteredNever == FALSE
Registered == state.exists

AlreadyRegistered ==
  /\ inst = "check" /\ Registered
  /\ inst' = "done"
  /\ InstUnchanged /\ UNCHANGED <<repo, index, locks, state, left, cur, reg>>

\* The seed is on another disk than the caches: tasks clone normally.
SeedElsewhere ==
  /\ inst = "check" /\ ~Registered /\ ~samedisk
  /\ inst' = "done"
  /\ InstUnchanged /\ UNCHANGED <<repo, index, locks, state, left, cur, reg>>

ReadManifest ==
  /\ inst = "check" /\ ~Registered /\ samedisk
  /\ inst' = "move"
  /\ left' = Names
  /\ reg' = {}
  /\ InstUnchanged /\ UNCHANGED <<repo, index, locks, state, cur>>

\* The seed is renamed unless the destination exists; with neither there,
\* rename raises.
\* Mutant: the rename is not skipped for a cache an earlier boot has moved.
MoveCacheAlways(n) ==
  /\ inst = "move" /\ n \in left
  /\ cur' = n
  /\ left' = left \ {n}
  /\ IF repo[n] = "seed"
        THEN repo' = [repo EXCEPT ![n] = "cache"] /\ inst' = "index"
        ELSE UNCHANGED repo /\ inst' = "failed"
  /\ InstUnchanged /\ UNCHANGED <<index, locks, state, reg>>
MoveCache(n) ==
  /\ inst = "move" /\ n \in left
  /\ cur' = n
  /\ left' = left \ {n}
  /\ repo' = [repo EXCEPT ![n] = IF @ = "seed" THEN "cache" ELSE @]
  /\ inst' = IF repo[n] = "gone" THEN "failed" ELSE "index"
  /\ InstUnchanged /\ UNCHANGED <<index, locks, state, reg>>

\* refresh_index, only of an index that is not the one baked.
KeepIndex ==
  /\ inst = "index" /\ index[cur] = "manifest"
  /\ reg' = reg \union {cur}
  /\ inst' = "move"
  /\ InstUnchanged /\ UNCHANGED <<repo, index, locks, state, left, cur>>

\* git update-index works on a lock file, and dies if there is one already.
\* Mutant: it waits for the lock.
LockIndexWaits ==
  /\ inst = "index" /\ index[cur] # "manifest"
  /\ cur \notin locks
  /\ locks' = locks \union {cur}
  /\ inst' = "refresh"
  /\ InstUnchanged /\ UNCHANGED <<repo, index, state, left, cur, reg>>
LockIndex ==
  /\ inst = "index" /\ index[cur] # "manifest"
  /\ locks' = locks \union {cur}
  /\ inst' = IF cur \in locks THEN "failed" ELSE "refresh"
  /\ InstUnchanged /\ UNCHANGED <<repo, index, state, left, cur, reg>>

RefreshIndex ==
  /\ inst = "refresh"
  /\ index' = [index EXCEPT ![cur] = "refresh"]
  /\ locks' = locks \ {cur}
  /\ reg' = reg \union {cur}
  /\ inst' = "move"
  /\ InstUnchanged /\ UNCHANGED <<repo, state, left, cur>>

\* The state goes to a temporary file that is renamed over the state file.
\* Mutant: it is written before the loop over the names.
WriteStateFirst ==
  /\ inst = "move" /\ ~state.exists
  /\ state' = [exists |-> TRUE, names |-> Names]
  /\ inst' = IF left = {} THEN "done" ELSE inst
  /\ InstUnchanged /\ UNCHANGED <<repo, index, locks, left, cur, reg>>
WriteState ==
  /\ inst = "move" /\ left = {}
  /\ state' = [exists |-> TRUE, names |-> reg]
  /\ inst' = "done"
  /\ InstUnchanged /\ UNCHANGED <<repo, index, locks, left, cur, reg>>

\* Reading the manifest or an index, mkdir, the rename, the write of the state
\* file: the command fails before it has changed anything.
CommandFails ==
  /\ inst \in {"check", "move", "index"}
  /\ inst = "check" => ~Registered
  /\ inst' = "failed" /\ broken' = TRUE
  /\ Untouched /\ UNCHANGED <<repo, index, locks, state, left, cur, reg, torn>>

\* git fails and takes its lock away, or is killed and leaves it; or the chown
\* of the refreshed index fails.
RefreshFails ==
  /\ inst = "refresh"
  /\ inst' = "failed" /\ broken' = TRUE
  /\ locks' \in {locks, locks \ {cur}}
  /\ torn' = (torn \/ cur \in locks')
  /\ index' \in {index} \union
                (IF cur \in locks' THEN {} ELSE {[index EXCEPT ![cur] = "refresh"]})
  /\ Untouched /\ UNCHANGED <<repo, state, left, cur, reg>>

Install ==
  \/ AlreadyRegistered \/ SeedElsewhere \/ ReadManifest
  \/ \E n \in Names : MoveCache(n)
  \/ KeepIndex \/ LockIndex \/ RefreshIndex \/ WriteState

---------------------------------------------------------------------------
(* The worker's tasks, the file systems and the power                       *)

\* A task that mounts a registered cache moves its checkout on.
TaskUsesCache(n) ==
  /\ worker /\ n \in state.names /\ repo[n] = "cache"
  /\ index' = [index EXCEPT ![n] = "task"]
  /\ UNCHANGED <<samedisk, repo, locks, state, flushed, inst, left, cur, reg,
                 worker, history, boots>>

\* The worker is short of disk, or asked to purge: the cache goes and the
\* state file with it is rewritten.  A worker without one writes its own.
WorkerEvicts(n) ==
  /\ worker
  /\ repo' = [repo EXCEPT ![n] = IF n \in state.names THEN "gone" ELSE @]
  /\ state' = [exists |-> TRUE, names |-> state.names \ {n}]
  /\ UNCHANGED <<samedisk, index, locks, flushed, inst, left, cur, reg, worker,
                 history, boots>>

FlushHome ==
  /\ flushed' = [OnDisk EXCEPT !.state = flushed.state]
  /\ UNCHANGED <<samedisk, repo, index, locks, state, inst, left, cur, reg,
                 worker, history, boots>>

FlushState ==
  /\ flushed' = [flushed EXCEPT !.state = state]
  /\ UNCHANGED <<samedisk, repo, index, locks, state, inst, left, cur, reg,
                 worker, history, boots>>

Boot ==
  /\ boots < MaxBoots
  /\ boots' = boots + 1
  /\ worker' = FALSE /\ inst' = "off" /\ broken' = FALSE
  /\ left' = {} /\ reg' = {}
  /\ UNCHANGED <<samedisk, cur>>

\* A reboot gives git the time to take its lock file away.
Reboot ==
  /\ Boot
  /\ locks' = locks \ (IF inst = "refresh" THEN {cur} ELSE {})
  /\ flushed' = [OnDisk EXCEPT !.locks = locks']
  /\ UNCHANGED <<repo, index, state, lost, torn>>

\* Each file system comes back as it was or as it was last flushed.
PowerLoss ==
  /\ Boot
  /\ \E now \in {OnDisk, flushed}, stateNow \in {state, flushed.state} :
        /\ repo' = now.repo
        /\ index' = now.index
        /\ locks' = now.locks
        /\ state' = stateNow
  /\ flushed' = OnDisk'
  /\ lost' = (lost \/ OnDisk' # OnDisk)
  /\ torn' = (torn \/ inst = "refresh")

\* The machine comes back on other SSDs: the seed is cloned to them anew.
SsdLoss ==
  /\ Boot
  /\ repo' = Seed
  /\ index' = [n \in Names |-> IF repo[n] = "seed" THEN index[n] ELSE "manifest"]
  /\ locks' = {}
  /\ UNCHANGED <<state, torn>>
  /\ flushed' = OnDisk'
  /\ lost' = TRUE

Next ==
  \/ DisksReady \/ Install \/ CommandFails \/ RefreshFails \/ StartWorker
  \/ \E n \in Names : TaskUsesCache(n) \/ WorkerEvicts(n)
  \/ FlushHome \/ FlushState
  \/ Reboot \/ PowerLoss \/ SsdLoss

Spec == Init /\ [][Next]_vars

\* systemd starts the units in order and waits for each.
FairSpec == Spec /\ WF_vars(DisksReady \/ Install \/ StartWorker)

---------------------------------------------------------------------------
\* install: the worker is never told of a cache that is not where the state
\* file says, wherever an earlier boot was interrupted or failed -- as long as
\* no boot has come up with less than the one before had.
RegisteredExists ==
  worker /\ ~lost => \A n \in state.names : repo[n] = "cache"

\* install: an interrupted or failed run is picked up by the next boot.  While
\* no data is lost, install fails because a command of this boot fails or on
\* the lock a stopped git has left on the checkout in hand, and on nothing else
\* that an earlier boot did.
InstallRecovers == inst = "failed" => broken \/ lost \/ (torn /\ cur \in locks)

\* install: no baked checkout is left in seed_root beside a state file, where
\* no later boot would look for it.
NothingLeftBehind ==
  worker /\ ~lost /\ samedisk => \A n \in Names : repo[n] # "seed"

\* install: "Run before the worker starts. Never touch live worker state" --
\* no step of it changes a cache that a task has moved on.
LiveCachesUntouched ==
  [][(~worker /\ ~lost' =>
       \A n \in Names : index[n] = "task" => index'[n] = "task" /\ repo'[n] = repo[n])]_vars

\* Whatever earlier boots were interrupted at, a boot whose commands all work
\* has its worker.  The one exception is a lock that git has left, on which
\* install ends: it waits for nothing.
WorkerStarts ==
  inst = "check" /\ ~lost ~> worker \/ broken \/ inst = "off" \/ (inst = "failed" /\ cur \in locks)

\* A checkout in which git was stopped holds up install for good: no later boot
\* takes the lock away, refreshes the index or writes the state file, short of
\* losing what is on the disks.
HeldUp(n) ==
  /\ samedisk /\ ~state.exists
  /\ n \in locks /\ index[n] # "manifest" /\ n \notin reg
  /\ ~(inst = "refresh" /\ cur = n)
LeftLockHoldsUp == [][\A n \in Names : HeldUp(n) /\ ~lost' => HeldUp(n)']_vars
=============================================================================
