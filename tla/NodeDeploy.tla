---------------------------- MODULE NodeDeploy ----------------------------
(* One machine of MDC1 from a PXE boot to a worker: OS-deploy.ps1 in WinPE,  *)
(* the two launchers of the deployed system (the first logon and the startup *)
(* task of the baked image), Get-Bootstrap.ps1 and bootstrap.ps1.  Drive D:  *)
(* keeps the image, the scripts, the applications and the secrets from one   *)
(* deployment to the next; C: keeps the system and its registry.  Power may  *)
(* be lost between any two steps.  The firmware, Windows Setup, Puppet, the  *)
(* share, GitHub and the operator are external.  Baked images only.          *)
EXTENDS Naturals, Sequences, FiniteSets, FiniteSetsExt

CONSTANTS
  Node,      \* this machine's short name
  Within,    \* Within[n]: the names that the entry n contains
  Branches, Main,
  Revs,      \* revisions of worker-images
  Text,      \* Text[r]: pools.yml at r, a sequence of pools
  NoDev,     \* a pool without dev:
  MaxMoves,  \* bound: pushes to branches
  MaxFaults, \* bound: requests, copies and Puppet runs that fail
  MaxLosses, \* bound: power losses
  MaxVisits  \* bound: deployments an operator asks for

PoolsOf(r) == {Text[r][i] : i \in DOMAIN Text[r]}
Pools == UNION {PoolsOf(r) : r \in Revs}

(* $node -match $shortname: an entry matches if it contains the name.        *)
Matches(n) == Node \in Within[n]
Listed(p) == \E j \in DOMAIN p.nodes : Matches(p.nodes[j])

(* Every text names the machine; an unlisted one would get a default.        *)
ASSUME NodeDeployAssumption ==
  /\ Main \in Branches /\ NoDev \notin Branches
  /\ {MaxMoves, MaxFaults, MaxLosses, MaxVisits} \subseteq Nat
  /\ \A p \in Pools : p.dev \in Branches \cup {NoDev} /\ p.nodes # <<>>
  /\ \A r \in Revs : Text[r] \in Seq(PoolsOf(r)) /\ \E p \in PoolsOf(r) : Listed(p)

VARIABLES
  head,    \* head[b]: the revision of branch b
  disk,    \* drive letters: "none", "half" (C: only) or "both"
  acl,     \* D: is restricted to SYSTEM and Administrators
  dd,      \* what is on D:
  os,      \* what is on C:
  esp,     \* there are boot files
  pxe,     \* the next boot is from the network
  at,      \* "off", "dead", "os", or where OS-deploy is in WinPE
  pe,      \* OS-deploy: [branch, dev, rev, pool, fresh]
  get,     \* get[x]: where the launcher x and its Get-Bootstrap are
  mutex,   \* the owner of MozillaDeployBootstrap, or "free"
  boot,    \* boot[x]: where the bootstrap.ps1 that x started is
  conf,    \* conf[x]: its parameters
  moves, faults, losses, visits

disks == <<disk, acl, dd, os, esp, pxe>>
procs == <<get, mutex, boot, conf>>
counts == <<moves, faults, losses, visits>>
vars == <<head, disks, at, pe, procs, counts>>

Launchers == {"logon", "task"}
NoPool == [name |-> "", nodes |-> <<>>, image |-> "", date |-> 0, dev |-> NoDev]
NoConf == [rev |-> "", pool |-> NoPool]
Confs == [rev : Revs, pool : Pools]
Secret(p) == <<p.name, p.date>>

Empty == [image |-> "", wim |-> "none", sum |-> FALSE, answer |-> FALSE,
          scripts |-> FALSE, launcher |-> NoConf, apps |-> FALSE, secrets |-> {}]
NoOS == [state |-> "none", conf |-> NoConf, stage |-> "none", reg |-> NoConf,
         task |-> FALSE, first |-> FALSE, vault |-> FALSE, answer |-> FALSE]
NoPE == [branch |-> Main, dev |-> FALSE, rev |-> "", pool |-> NoPool, fresh |-> FALSE]

GetSteps == {"idle", "launched", "held", "prepare", "starting", "waiting", "ended"}
BootSteps == {"off", "prereq", "registry", "clone", "puppet", "clean", "answers",
              "secrets", "mark", "wipe", "sequence", "restart", "ended"}
PESteps == {"resolve", "partition", "letters", "protect", "resync", "wipe", "image",
            "copying", "sum", "scripts", "apps", "secrets", "answer", "format",
            "launcher", "template", "apply", "applying", "bcdboot", "stage", "error"}

OnD == [image : {p.image : p \in Pools} \cup {""}, wim : {"none", "torn", "whole"},
        sum : BOOLEAN, answer : BOOLEAN, scripts : BOOLEAN,
        launcher : Confs \cup {NoConf}, apps : BOOLEAN,
        secrets : SUBSET {Secret(p) : p \in Pools}]
OnC == [state : {"none", "half", "ok"}, conf : Confs \cup {NoConf},
        stage : {"none", "setup", "inprogress", "complete"},
        reg : Confs \cup {NoConf}, task : BOOLEAN, first : BOOLEAN,
        vault : BOOLEAN, answer : BOOLEAN]

MachineOK ==
  /\ head \in [Branches -> Revs]
  /\ disk \in {"none", "half", "both"} /\ acl \in BOOLEAN
  /\ esp \in BOOLEAN /\ pxe \in BOOLEAN
  /\ dd \in OnD /\ os \in OnC
  /\ at \in {"off", "dead", "os"} \cup PESteps
  /\ pe \in [branch : Branches, dev : BOOLEAN, rev : Revs \cup {""},
             pool : Pools \cup {NoPool}, fresh : BOOLEAN]
  /\ get \in [Launchers -> GetSteps] /\ mutex \in Launchers \cup {"free"}
  /\ boot \in [Launchers -> BootSteps]
  /\ conf \in [Launchers -> Confs \cup {NoConf}]
CountsOK ==
  /\ moves \in 0..MaxMoves /\ faults \in 0..MaxFaults
  /\ losses \in 0..MaxLosses /\ visits \in 0..MaxVisits
TypeOK == MachineOK /\ CountsOK

NothingRuns ==
  /\ get' = [x \in Launchers |-> "idle"] /\ mutex' = "free"
  /\ boot' = [x \in Launchers |-> "off"] /\ conf' = [x \in Launchers |-> NoConf]

(* A new machine: an empty disk, so the firmware boots from the network.     *)
Init ==
  /\ head \in [Branches -> Revs]
  /\ disk = "none" /\ acl = FALSE /\ dd = Empty /\ os = NoOS
  /\ esp = FALSE /\ pxe = FALSE /\ at = "off" /\ pe = NoPE
  /\ get = [x \in Launchers |-> "idle"] /\ mutex = "free"
  /\ boot = [x \in Launchers |-> "off"] /\ conf = [x \in Launchers |-> NoConf]
  /\ moves = 0 /\ faults = 0 /\ losses = 0 /\ visits = 0

Fault ==
  /\ faults < MaxFaults /\ faults' = faults + 1
  /\ UNCHANGED <<moves, losses, visits>>

-----------------------------------------------------------------------------
(* OS-deploy.ps1 in WinPE                                                    *)

(* The loop over the pools goes on after the first match, and looks at the   *)
(* first node of every later pool only.                                      *)
Hits(t) ==
  LET first == Min({i \in DOMAIN t : Listed(t[i])})
  IN  {first} \cup {i \in DOMAIN t : i > first /\ Matches(t[i].nodes[1])}

(* The last hit counts, unless the loop meets a pool that is deployed from a *)
(* branch of its own before.                                                 *)
Selected(t, dev) ==
  LET devs == {i \in Hits(t) : ~dev /\ t[i].dev # NoDev}
  IN  t[IF devs = {} THEN Max(Hits(t)) ELSE Min(devs)]

(* The branch is resolved once and pools.yml read at that revision; a pool   *)
(* with dev: starts the script again with the revision of that branch.  When *)
(* the requests fail the script stops, or goes on without a pool.            *)
ReadPools ==
  /\ at = "resolve"
  /\ \/ LET rev == head[pe.branch]
            p == Selected(Text[rev], pe.dev)
        IN  /\ \/ /\ ~pe.dev /\ p.dev # NoDev
                  /\ pe' = [pe EXCEPT !.dev = TRUE, !.branch = p.dev]
                  /\ at' = at
               \/ /\ pe.dev \/ p.dev = NoDev
                  /\ pe' = [pe EXCEPT !.rev = rev, !.pool = p]
                  /\ at' = "partition"
            /\ UNCHANGED counts
     \/ Fault /\ at' \in {"partition", "error"} /\ UNCHANGED pe
  /\ UNCHANGED <<head, disks, procs>>

(* diskpart makes C: and then D:, unless both letters are there.             *)
Partition ==
  /\ at = "partition"
  /\ \/ disk = "both" /\ at' = "protect" /\ UNCHANGED disks
     \/ /\ disk # "both" /\ at' = "letters"
        /\ disk' = "half" /\ acl' = FALSE /\ dd' = Empty /\ os' = NoOS /\ esp' = FALSE
        /\ UNCHANGED pxe
  /\ UNCHANGED <<head, pe, procs, counts>>

Letters ==
  /\ at = "letters" /\ at' = "protect"
  /\ disk' = "both" /\ pe' = [pe EXCEPT !.fresh = TRUE]
  /\ UNCHANGED <<head, acl, dd, os, esp, pxe, procs, counts>>

ProtectProvisioningDrive ==
  /\ at = "protect" /\ at' = "resync"
  /\ acl' = TRUE /\ dd' = IF acl \/ pe.fresh THEN dd ELSE Empty
  /\ UNCHANGED <<head, disk, os, esp, pxe, pe, procs, counts>>

(* The image and its checksum decide for all that is cached.                 *)
Cached == pe.pool # NoPool /\ dd.image = pe.pool.image /\ dd.wim # "none" /\ dd.sum

Resync ==
  /\ at = "resync" /\ at' = IF Cached THEN "secrets" ELSE "wipe"
  /\ UNCHANGED <<head, disks, pe, procs, counts>>

(* D: after one more thing on it was removed: the launcher is a script, and  *)
(* the folder of the image goes last.                                        *)
OneLess(d) ==
  LET less == {[d EXCEPT !.wim = "none"], [d EXCEPT !.sum = FALSE],
               [d EXCEPT !.answer = FALSE],
               [d EXCEPT !.scripts = FALSE, !.launcher = NoConf],
               [d EXCEPT !.apps = FALSE], [d EXCEPT !.secrets = {}]} \ {d}
  IN  IF less = {} THEN {[d EXCEPT !.image = ""]} ELSE less

(* Without a pool, what is copied is of no use: the secrets are not found.   *)
WipeInPE ==
  /\ at = "wipe"
  /\ \/ dd # Empty /\ dd' \in OneLess(dd) /\ at' = at
     \/ /\ dd = Empty /\ UNCHANGED dd
        /\ at' = IF pe.pool = NoPool THEN "secrets" ELSE "image"
  /\ UNCHANGED <<head, disk, acl, os, esp, pxe, pe, procs, counts>>

(* Copy-Item from the share: an error is reported and the script goes on.    *)
CopyImage ==
  /\ \/ /\ at = "image" /\ at' = "copying" /\ UNCHANGED counts
        /\ dd' = [dd EXCEPT !.image = pe.pool.image, !.wim = "torn"]
     \/ /\ at = "copying" /\ at' = "sum"
        /\ \/ dd' = [dd EXCEPT !.wim = "whole"] /\ UNCHANGED counts
           \/ Fault /\ \E w \in {"none", "torn"} : dd' = [dd EXCEPT !.wim = w]
  /\ UNCHANGED <<head, disk, acl, os, esp, pxe, pe, procs>>

CopyRest ==
  /\ \/ at = "sum" /\ at' = "scripts" /\ dd' \in {dd, [dd EXCEPT !.sum = TRUE]}
     \/ at = "scripts" /\ at' = "apps" /\ dd' \in {dd, [dd EXCEPT !.scripts = TRUE]}
     \/ at = "apps" /\ at' = "secrets" /\ dd' \in {dd, [dd EXCEPT !.apps = TRUE]}
  /\ IF dd' = dd THEN Fault ELSE UNCHANGED counts
  /\ UNCHANGED <<head, disk, acl, os, esp, pxe, pe, procs>>

(* The secrets of the pool are refreshed also when nothing else is.          *)
RefreshSecrets ==
  /\ at = "secrets"
  /\ \/ /\ pe.pool # NoPool /\ at' = "answer" /\ UNCHANGED counts
        /\ dd' = [dd EXCEPT !.secrets = @ \cup {Secret(pe.pool)}]
     \/ pe.pool = NoPool /\ at' = "error" /\ UNCHANGED <<dd, counts>>
     \/ Fault /\ at' = "error" /\ UNCHANGED dd
  /\ UNCHANGED <<head, disk, acl, os, esp, pxe, pe, procs>>

\* Mutant: the answer file is downloaded when it is missing only, and one that
\* was given its password has no place for another.
AnswerOnce ==
  /\ at = "answer" /\ UNCHANGED counts
  /\ at' = IF dd.scripts /\ ~dd.answer THEN "format" ELSE "error"
  /\ dd' = [dd EXCEPT !.answer = TRUE]
  /\ UNCHANGED <<head, disk, acl, os, esp, pxe, pe, procs>>

(* The answer file and the cleanup script are downloaded into folders that   *)
(* must be there, and the file is given the password.                        *)
Answer ==
  /\ at = "answer"
  /\ \/ /\ dd.scripts /\ at' = "format" /\ UNCHANGED counts
        /\ dd' = [dd EXCEPT !.answer = TRUE]
     \/ ~dd.scripts /\ at' = "error" /\ UNCHANGED <<dd, counts>>
     \/ Fault /\ at' = "error" /\ UNCHANGED dd
  /\ UNCHANGED <<head, disk, acl, os, esp, pxe, pe, procs>>

Format ==
  /\ at = "format" /\ at' = "launcher" /\ os' = NoOS
  /\ UNCHANGED <<head, disk, acl, dd, esp, pxe, pe, procs, counts>>

(* Update-GetBoot: the old launcher goes first; the new one is the template  *)
(* of the pinned revision with the values of the pool.  When the retries are *)
(* used up the download does not throw, and the launcher is empty.           *)
RemoveLauncher ==
  /\ at = "launcher" /\ at' = "template"
  /\ dd' = [dd EXCEPT !.launcher = NoConf]
  /\ UNCHANGED <<head, disk, acl, os, esp, pxe, pe, procs, counts>>

\* Mutant: the template is downloaded from the branch.
UpdateGetBootFromBranch ==
  /\ at = "template" /\ at' = "apply"
  /\ dd' = [dd EXCEPT !.launcher = [rev |-> head[pe.branch], pool |-> pe.pool]]
  /\ UNCHANGED <<head, disk, acl, os, esp, pxe, pe, procs, counts>>

UpdateGetBoot ==
  /\ at = "template"
  /\ \/ /\ at' = "apply" /\ UNCHANGED counts
        /\ dd' = [dd EXCEPT !.launcher = [rev |-> pe.rev, pool |-> pe.pool]]
     \/ Fault /\ at' \in {"apply", "error"} /\ UNCHANGED dd
  /\ UNCHANGED <<head, disk, acl, os, esp, pxe, pe, procs>>

(* The image is checked against its sum, C: formatted and the image applied. *)
ApplyImage ==
  /\ \/ /\ at = "apply" /\ UNCHANGED counts
        /\ \/ /\ dd.wim = "whole" /\ dd.sum /\ at' = "applying"
              /\ os' = [NoOS EXCEPT !.state = "half"]
           \/ ~(dd.wim = "whole" /\ dd.sum) /\ at' = "error" /\ UNCHANGED os
     \/ /\ at = "applying"
        /\ \/ /\ at' = "bcdboot" /\ UNCHANGED counts
              /\ os' = [os EXCEPT !.state = "ok", !.task = TRUE,
                                  !.conf = [rev |-> pe.rev, pool |-> pe.pool]]
           \/ Fault /\ at' = "error" /\ UNCHANGED os
  /\ UNCHANGED <<head, disk, acl, dd, esp, pxe, pe, procs>>

Bcdboot ==
  /\ at = "bcdboot"
  /\ \/ at' = "stage" /\ esp' = TRUE /\ UNCHANGED counts
     \/ Fault /\ at' = "error" /\ UNCHANGED esp
  /\ UNCHANGED <<head, disk, acl, dd, os, pxe, pe, procs>>

(* The answer file is staged, the build access removed, and wpeutil reboots. *)
StageAnswer ==
  /\ at = "stage" /\ os' = [os EXCEPT !.answer = TRUE, !.first = TRUE]
  /\ \/ at' = "off" /\ UNCHANGED counts
     \/ Fault /\ at' = "error"
  /\ UNCHANGED <<head, disk, acl, dd, esp, pxe, pe, procs>>

OSDeploy ==
  \/ ReadPools \/ Partition \/ Letters \/ ProtectProvisioningDrive \/ Resync
  \/ WipeInPE \/ CopyImage \/ CopyRest \/ RefreshSecrets \/ Answer \/ Format
  \/ RemoveLauncher \/ UpdateGetBoot \/ ApplyImage \/ Bcdboot \/ StageAnswer

-----------------------------------------------------------------------------
(* The launchers and Get-Bootstrap.ps1                                       *)

Running(x) == boot[x] \notin {"off", "ended"}
Launched(x) == get[x] \in {"launched", "held", "prepare", "starting", "waiting"}

(* A launcher that is missing or empty ends at once.                         *)
Launch(x) ==
  IF dd.launcher = NoConf
  THEN get' = [get EXCEPT ![x] = "ended"] /\ UNCHANGED conf
  ELSE /\ get' = [get EXCEPT ![x] = "launched"]
       /\ conf' = [conf EXCEPT ![x] = dd.launcher]

(* The startup task of the baked image unregisters itself once the worker is *)
(* complete, and leaves a launcher or a bootstrap.ps1 that runs alone.       *)
RunTask ==
  /\ at = "os" /\ os.task /\ get["task"] = "idle"
  /\ IF os.stage = "complete" \/ Launched("logon") \/ \E x \in Launchers : Running(x)
     THEN get' = [get EXCEPT !["task"] = "ended"] /\ UNCHANGED conf
     ELSE Launch("task")
  /\ os' = [os EXCEPT !.task = (@ /\ os.stage # "complete")]
  /\ UNCHANGED <<head, disk, acl, dd, esp, pxe, at, pe, mutex, boot, counts>>

(* The first logon launches it once.                                         *)
FirstLogon ==
  /\ at = "os" /\ os.first /\ get["logon"] = "idle"
  /\ os' = [os EXCEPT !.first = FALSE] /\ Launch("logon")
  /\ UNCHANGED <<head, disk, acl, dd, esp, pxe, at, pe, mutex, boot, counts>>

TakeMutex(x) ==
  /\ get[x] = "launched"
  /\ IF mutex = "free"
     THEN mutex' = x /\ get' = [get EXCEPT ![x] = "held"]
     ELSE UNCHANGED mutex /\ get' = [get EXCEPT ![x] = "ended"]
  /\ UNCHANGED <<head, disks, at, pe, boot, conf, counts>>

Ends(x) == get' = [get EXCEPT ![x] = "ended"] /\ mutex' = "free"

\* Mutant: the mutex is relied on.
CheckStageOnly(x) ==
  /\ get[x] = "held"
  /\ IF os.stage = "complete"
     THEN Ends(x)
     ELSE get' = [get EXCEPT ![x] = "prepare"] /\ UNCHANGED mutex
  /\ UNCHANGED <<head, disks, at, pe, boot, conf, counts>>

CheckStage(x) ==
  /\ get[x] = "held"
  /\ IF os.stage = "complete" \/ \E y \in Launchers : Running(y)
     THEN Ends(x)
     ELSE get' = [get EXCEPT ![x] = "prepare"] /\ UNCHANGED mutex
  /\ UNCHANGED <<head, disks, at, pe, boot, conf, counts>>

(* bootstrap.ps1 is downloaded and the registry key made anew.               *)
Prepare(x) ==
  /\ get[x] = "prepare"
  /\ \/ Fault /\ Ends(x) /\ UNCHANGED os
     \/ /\ os' = [os EXCEPT !.stage = "none", !.reg = NoConf]
        /\ get' = [get EXCEPT ![x] = "starting"] /\ UNCHANGED <<mutex, counts>>
  /\ UNCHANGED <<head, disk, acl, dd, esp, pxe, at, pe, boot, conf>>

(* PsExec, which is among the applications, starts it.                       *)
StartBootstrap(x) ==
  /\ get[x] = "starting"
  /\ IF dd.apps
     THEN /\ boot' = [boot EXCEPT ![x] = "prereq"]
          /\ get' = [get EXCEPT ![x] = "waiting"] /\ UNCHANGED mutex
     ELSE Ends(x) /\ UNCHANGED boot
  /\ UNCHANGED <<head, disks, at, pe, conf, counts>>

BootstrapReturns(x) ==
  /\ get[x] = "waiting" /\ boot[x] = "ended" /\ Ends(x)
  /\ UNCHANGED <<head, disks, at, pe, boot, conf, counts>>

(* The task is stopped after three hours; what PsExec started goes on.       *)
TaskStopped ==
  /\ Launched("task") /\ Fault
  /\ get' = [get EXCEPT !["task"] = "ended"]
  /\ mutex' = IF mutex = "task" THEN "free" ELSE mutex
  /\ UNCHANGED <<head, disks, at, pe, boot, conf>>

-----------------------------------------------------------------------------
(* bootstrap.ps1                                                             *)

Step(x, from, to) == boot[x] = from /\ boot' = [boot EXCEPT ![x] = to]

(* What throws, or exits with 1, ends the script; nothing restarts it before *)
(* the next boot.                                                            *)
Gives(x, from) ==
  /\ from \in {"prereq", "clone", "clean", "answers", "secrets"}
  /\ Step(x, from, "ended") /\ Fault
  /\ UNCHANGED <<head, disks, at, pe, get, mutex, conf>>

GetPreRequ(x) ==
  /\ Step(x, "prereq", IF os.stage = "complete" THEN "ended" ELSE "registry")
  /\ UNCHANGED <<head, disks, at, pe, get, mutex, conf, counts>>

(* The parameters count, whatever the registry of the image held.            *)
SetRoninRegistry(x) ==
  /\ Step(x, "registry", "clone")
  /\ os' = [os EXCEPT !.reg = conf[x], !.stage = "setup"]
  /\ UNCHANGED <<head, disk, acl, dd, esp, pxe, at, pe, get, mutex, conf, counts>>

(* ronin_puppet is cloned and the secrets of the pool copied, if there are.  *)
\* Mutant: the file is vault.yaml, as in the first logon's command.
GetRoninVault(x) ==
  /\ Step(x, "clone", "puppet")
  /\ os' = [os EXCEPT !.vault = FALSE, !.stage = "inprogress"]
  /\ UNCHANGED <<head, disk, acl, dd, esp, pxe, at, pe, get, mutex, conf, counts>>

GetRonin(x) ==
  /\ Step(x, "clone", "puppet")
  /\ os' = [os EXCEPT !.vault = Secret(conf[x].pool) \in dd.secrets,
                      !.stage = "inprogress"]
  /\ UNCHANGED <<head, disk, acl, dd, esp, pxe, at, pe, get, mutex, conf, counts>>

(* Puppet needs the secrets; when it fails, the machine is deployed again.   *)
Puppet(x) ==
  /\ \/ os.vault /\ Step(x, "puppet", "clean") /\ UNCHANGED counts
     \/ ~os.vault /\ Step(x, "puppet", "wipe") /\ UNCHANGED counts
     \/ Fault /\ Step(x, "puppet", "wipe")
  /\ UNCHANGED <<head, disks, at, pe, get, mutex, conf>>

(* Remove-ProvisioningSecrets: C:, the answer files of D:, its secrets.      *)
\* Mutant: the secrets of C: are removed and those staged on D:.
RemoveSecretsButAnswers(x) ==
  /\ \/ /\ Step(x, "clean", "answers") /\ UNCHANGED dd
        /\ os' = [os EXCEPT !.vault = FALSE, !.answer = FALSE]
     \/ Step(x, "answers", "secrets") /\ UNCHANGED <<os, dd>>
     \/ /\ Step(x, "secrets", "mark") /\ UNCHANGED os
        /\ dd' = [dd EXCEPT !.secrets = {}]
  /\ UNCHANGED <<head, disk, acl, esp, pxe, at, pe, get, mutex, conf, counts>>

RemoveProvisioningSecrets(x) ==
  /\ \/ /\ Step(x, "clean", "answers") /\ UNCHANGED dd
        /\ os' = [os EXCEPT !.vault = FALSE, !.answer = FALSE]
     \/ /\ Step(x, "answers", "secrets") /\ UNCHANGED os
        /\ dd' = [dd EXCEPT !.answer = FALSE]
     \/ /\ Step(x, "secrets", "mark") /\ UNCHANGED os
        /\ dd' = [dd EXCEPT !.secrets = {}]
  /\ UNCHANGED <<head, disk, acl, esp, pxe, at, pe, get, mutex, conf, counts>>

MarkComplete(x) ==
  /\ Step(x, "mark", "restart") /\ os' = [os EXCEPT !.stage = "complete"]
  /\ UNCHANGED <<head, disk, acl, dd, esp, pxe, at, pe, get, mutex, conf, counts>>

(* Set-PXE empties D:, short of the PsExec that runs, and then asks the      *)
(* firmware for one boot from the network, which it may not find; it         *)
(* restarts the machine all the same.                                        *)
SetPXE(x) ==
  /\ \/ /\ dd # Empty /\ Step(x, "wipe", "wipe")
        /\ dd' \in OneLess(dd) /\ UNCHANGED <<pxe, counts>>
     \/ /\ dd \in {Empty, [Empty EXCEPT !.apps = TRUE]} /\ Step(x, "wipe", "sequence")
        /\ UNCHANGED <<dd, pxe, counts>>
     \/ /\ Step(x, "sequence", "restart") /\ UNCHANGED dd
        /\ \/ pxe' = TRUE /\ UNCHANGED counts
           \/ Fault /\ UNCHANGED pxe
  /\ UNCHANGED <<head, disk, acl, os, esp, at, pe, get, mutex, conf>>

Restart(x) ==
  /\ boot[x] = "restart" /\ at' = "off" /\ NothingRuns
  /\ UNCHANGED <<head, disks, pe, counts>>

Script(x) ==
  \/ TakeMutex(x) \/ CheckStage(x) \/ Prepare(x) \/ StartBootstrap(x) \/ BootstrapReturns(x)
  \/ (\E from \in BootSteps : Gives(x, from))
  \/ GetPreRequ(x) \/ SetRoninRegistry(x) \/ GetRonin(x) \/ Puppet(x)
  \/ RemoveProvisioningSecrets(x) \/ MarkComplete(x) \/ SetPXE(x) \/ Restart(x)

-----------------------------------------------------------------------------
(* The firmware, the operator, GitHub and the mains                          *)

PowerOn ==
  /\ at = "off" /\ pxe' = FALSE /\ pe' = NoPE
  /\ at' = IF pxe \/ ~esp THEN "resolve"
           ELSE IF os.state = "ok" THEN "os" ELSE "dead"
  /\ UNCHANGED <<head, disk, acl, dd, os, esp, procs, counts>>

PowerLoss ==
  /\ at \notin {"off", "dead"} /\ losses < MaxLosses
  /\ losses' = losses + 1 /\ at' = "off" /\ NothingRuns
  /\ UNCHANGED <<head, disks, pe, moves, faults, visits>>

Visit ==
  /\ at \in {"os", "dead", "error"} /\ visits < MaxVisits
  /\ visits' = visits + 1 /\ pxe' = TRUE /\ at' = "off" /\ NothingRuns
  /\ UNCHANGED <<head, disk, acl, dd, os, esp, pe, moves, faults, losses>>

Push ==
  /\ moves < MaxMoves /\ moves' = moves + 1
  /\ \E b \in Branches, r \in Revs : r # head[b] /\ head' = [head EXCEPT ![b] = r]
  /\ UNCHANGED <<disks, at, pe, procs, faults, losses, visits>>

Machine == OSDeploy \/ RunTask \/ FirstLogon \/ \E x \in Launchers : Script(x)

Next == Machine \/ TaskStopped \/ PowerOn \/ PowerLoss \/ Visit \/ Push

(* Scripts go on and power comes back; no push, visit or failure need come.  *)
Fairness ==
  /\ WF_vars(OSDeploy) /\ WF_vars(PowerOn) /\ WF_vars(RunTask) /\ WF_vars(FirstLogon)
  /\ \A x \in Launchers : WF_vars(Script(x))

Spec == Init /\ [][Next]_vars /\ Fairness
=============================================================================
