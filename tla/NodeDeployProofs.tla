-------------------------- MODULE NodeDeployProofs --------------------------
(* What holds of a machine's deployment for all names, texts, branches and   *)
(* numbers of pushes, faults, losses and visits.                             *)
EXTENDS NodeDeployInv, FiniteSetTheorems, WellFoundedInduction, TLAPS

-----------------------------------------------------------------------------
(* The search of pools.yml                                                   *)

\* Of the indices into a sequence there is a first.
LEMMA FirstIndex ==
  ASSUME NEW S, S \subseteq Nat, S # {}
  PROVE  Min(S) \in S
<1>1. PICK m \in S : \A k \in S : ~(<<k, m>> \in OpToRel(<, Nat))
  BY WFMin, NatLessThanWellFounded
<1>2. ASSUME NEW k \in S PROVE m =< k
  <2>1. m \in Nat /\ k \in Nat /\ ~(k < m)
    BY <1>1 DEF OpToRel
  <2> QED BY <2>1
<1> QED BY <1>2 DEF Min

\* And a last one.
LEMMA LastIndex ==
  ASSUME NEW n \in Nat, NEW S, S \subseteq 1..n, S # {}
  PROVE  Max(S) \in S
<1> DEFINE M == {n - x : x \in S}
<1>a. \A x \in S : n - x \in Nat
  OBVIOUS
<1>1. M \subseteq Nat /\ M # {}
  BY <1>a
<1>2. PICK m \in M : \A k \in M : ~(<<k, m>> \in OpToRel(<, Nat))
  BY <1>1, WFMin, NatLessThanWellFounded
<1>3. PICK x \in S : m = n - x
  OBVIOUS
<1>4. ASSUME NEW y \in S PROVE x >= y
  <2>1. n - y \in Nat /\ m \in Nat /\ n - y \in M
    BY <1>1
  <2>2. ~(n - y < m)
    BY <1>2, <2>1 DEF OpToRel
  <2> QED BY <1>3, <2>1, <2>2
<1> QED BY <1>4 DEF Max

\* The search of a text ends with one of its hits, which is one of its pools.
LEMMA SearchFinds ==
  ASSUME NEW r \in Revs, NEW dev \in BOOLEAN
  PROVE  /\ Selected(Text[r], dev) \in {Text[r][i] : i \in Hits(Text[r])}
         /\ Selected(Text[r], dev) \in PoolsOf(r)
         /\ \A i \in Hits(Text[r]) : Text[r][i] \in PoolsOf(r)
<1> DEFINE t == Text[r]
           own == {i \in DOMAIN t : Listed(t[i])}
           devs == {i \in Hits(t) : ~dev /\ t[i].dev # NoDev}
<1>1. t \in Seq(PoolsOf(r)) /\ Len(t) \in Nat /\ DOMAIN t = 1..Len(t)
  BY NodeDeployAssumption
<1>2. own # {} /\ own \subseteq Nat
  <2>1. PICK p \in PoolsOf(r) : Listed(p)
    BY NodeDeployAssumption
  <2>2. PICK i \in DOMAIN t : t[i] = p
    BY DEF PoolsOf
  <2> QED BY <1>1, <2>1, <2>2
<1>3. Min(own) \in own
  BY <1>2, FirstIndex
<1>4. Hits(t) \subseteq 1..Len(t) /\ Hits(t) # {}
  BY <1>1, <1>3 DEF Hits
<1>5. Max(Hits(t)) \in Hits(t)
  BY <1>1, <1>4, LastIndex
<1>6. devs # {} => Min(devs) \in Hits(t)
  <2>1. devs \subseteq Nat /\ devs \subseteq Hits(t)
    BY <1>1, <1>4
  <2> QED BY <2>1, FirstIndex
<1>7. Selected(t, dev) = t[IF devs = {} THEN Max(Hits(t)) ELSE Min(devs)]
  BY DEF Selected
<1>8. \A i \in Hits(t) : t[i] \in PoolsOf(r)
  BY <1>1, <1>4 DEF PoolsOf
<1> QED BY <1>5, <1>6, <1>7, <1>8

\* What was found is a pool of its revision.
LEMMA FoundIsListed ==
  ASSUME NEW c, Found(c)
  PROVE  c.rev \in Revs /\ c.pool \in PoolsOf(c.rev) /\ c.pool \in Pools
<1>1. c.rev \in Revs /\ c.pool \in PoolsOf(c.rev)
  BY SearchFinds DEF Found
<1> QED BY <1>1 DEF Pools

-----------------------------------------------------------------------------
(* The type invariant                                                        *)

\* An empty drive, and one from which one more thing was removed.
LEMMA DrivesType ==
  /\ Empty \in OnD /\ NoOS \in OnC /\ [NoOS EXCEPT !.state = "half"] \in OnC
  /\ \A d \in OnD : OneLess(d) \subseteq OnD
<1>1. Empty \in OnD /\ NoOS \in OnC /\ [NoOS EXCEPT !.state = "half"] \in OnC
  BY DEF OnD, OnC, Empty, NoOS
<1>2. ASSUME NEW d \in OnD PROVE OneLess(d) \subseteq OnD
  BY ZenonT(60) DEF OnD, OneLess
<1> QED BY <1>1, <1>2

\* One thing on a drive may change.
LEMMA OneOnD ==
  ASSUME NEW d \in OnD
  PROVE  /\ \A w \in {"none", "torn", "whole"} : [d EXCEPT !.wim = w] \in OnD
         /\ \A p \in Pools : /\ [d EXCEPT !.image = p.image, !.wim = "torn"] \in OnD
                            /\ [d EXCEPT !.secrets = @ \cup {Secret(p)}] \in OnD
         /\ [d EXCEPT !.sum = TRUE] \in OnD /\ [d EXCEPT !.scripts = TRUE] \in OnD
         /\ [d EXCEPT !.apps = TRUE] \in OnD /\ [d EXCEPT !.secrets = {}] \in OnD
         /\ \A b \in BOOLEAN : [d EXCEPT !.answer = b] \in OnD
         /\ \A c \in Confs \cup {NoConf} : [d EXCEPT !.launcher = c] \in OnD
<1>1. \A w \in {"none", "torn", "whole"} : [d EXCEPT !.wim = w] \in OnD
  BY DEF OnD
<1>2. ASSUME NEW p \in Pools PROVE [d EXCEPT !.image = p.image, !.wim = "torn"] \in OnD
  BY DEF OnD
<1>3. ASSUME NEW p \in Pools PROVE [d EXCEPT !.secrets = @ \cup {Secret(p)}] \in OnD
  <2>1. d.secrets \cup {Secret(p)} \in SUBSET {Secret(q) : q \in Pools}
    BY DEF OnD
  <2> QED BY <2>1 DEF OnD
<1>4. /\ [d EXCEPT !.sum = TRUE] \in OnD /\ [d EXCEPT !.scripts = TRUE] \in OnD
      /\ [d EXCEPT !.apps = TRUE] \in OnD /\ [d EXCEPT !.secrets = {}] \in OnD
  BY DEF OnD
<1>5. \A b \in BOOLEAN : [d EXCEPT !.answer = b] \in OnD
  BY DEF OnD
<1>6. \A c \in Confs \cup {NoConf} : [d EXCEPT !.launcher = c] \in OnD
  BY DEF OnD
<1> QED BY <1>1, <1>2, <1>3, <1>4, <1>5, <1>6

\* A step keeps the counters in their bounds.
LEMMA CountsType == CountsOK /\ [Next]_vars => CountsOK'
<1> SUFFICES ASSUME CountsOK, [Next]_vars PROVE CountsOK'
    OBVIOUS
<1>1. MaxMoves \in Nat /\ MaxFaults \in Nat /\ MaxLosses \in Nat /\ MaxVisits \in Nat
  BY NodeDeployAssumption
<1>2. UNCHANGED counts \/ Fault => CountsOK'
  <2>1. CASE UNCHANGED counts
    BY <2>1 DEF CountsOK, counts
  <2>2. CASE Fault
    BY <1>1, <2>2 DEF CountsOK, Fault
  <2> QED BY <2>1, <2>2
<1>3. OSDeploy => UNCHANGED counts \/ Fault
  BY DEF OSDeploy, ReadPools, Partition, Letters, ProtectProvisioningDrive, Resync,
         WipeInPE, CopyImage, CopyRest, RefreshSecrets, Answer, Format, RemoveLauncher,
         UpdateGetBoot, ApplyImage, Bcdboot, StageAnswer, counts
<1>4. RunTask \/ FirstLogon \/ TaskStopped \/ PowerOn => UNCHANGED counts \/ Fault
  BY DEF RunTask, FirstLogon, TaskStopped, PowerOn
<1>5. ASSUME NEW x \in Launchers, Script(x) PROVE UNCHANGED counts \/ Fault
  BY <1>5 DEF Script, TakeMutex, CheckStage, Prepare, StartBootstrap, BootstrapReturns, Gives, GetPreRequ,
         SetRoninRegistry, GetRonin, Puppet, RemoveProvisioningSecrets, MarkComplete,
         SetPXE, Restart
<1>6. Push \/ PowerLoss \/ Visit => CountsOK'
  BY <1>1 DEF Push, PowerLoss, Visit, CountsOK
<1>7. UNCHANGED vars => UNCHANGED counts
  BY DEF vars
<1> QED BY <1>2, <1>3, <1>4, <1>5, <1>6, <1>7 DEF Next, Machine

\* The steps of OS-deploy.ps1 keep the types, because what it pins was found.
LEMMA TypeInPE == MachineOK /\ Pinned /\ OSDeploy => MachineOK'
<1> SUFFICES ASSUME MachineOK, Pinned, OSDeploy PROVE MachineOK'
    OBVIOUS
<1> USE DEF MachineOK, PESteps, disks, procs
<1>0. pe.pool # NoPool => pe.rev \in Revs /\ pe.pool \in Pools
  BY FoundIsListed DEF Pinned
<1>1. CASE ReadPools
  <2>1. head[pe.branch] \in Revs
    OBVIOUS
  <2>2. Selected(Text[head[pe.branch]], pe.dev) \in Pools
    <3> DEFINE r == head[pe.branch]
    <3>1. r \in Revs
      OBVIOUS
    <3>2. ASSUME NEW rr \in Revs, NEW dev \in BOOLEAN
          PROVE  Selected(Text[rr], dev) \in PoolsOf(rr)
      BY SearchFinds
    <3>a. pe.dev \in BOOLEAN
      OBVIOUS
    <3> HIDE DEF r
    <3>3. Selected(Text[r], pe.dev) \in PoolsOf(r)
      <4> HIDE DEF MachineOK
      <4> QED BY <3>1, <3>2, <3>a, Zenon
    <3>4. Selected(Text[r], pe.dev) \in Pools
      BY <3>1, <3>3 DEF Pools
    <3> QED BY <3>4 DEF r
  <2>3. \A p \in Pools : p.dev # NoDev => p.dev \in Branches
    BY NodeDeployAssumption
  <2>4. pe' \in [branch : Branches, dev : BOOLEAN, rev : Revs \cup {""},
                 pool : Pools \cup {NoPool}, fresh : BOOLEAN]
    BY <1>1, <2>1, <2>2, <2>3 DEF ReadPools
  <2> QED BY <1>1, <2>4 DEF ReadPools
<1>2. CASE Partition \/ Letters \/ ProtectProvisioningDrive \/ Resync
  BY <1>2, DrivesType, ZenonT(60) DEF Partition, Letters, ProtectProvisioningDrive, Resync
<1>3. CASE WipeInPE
  BY <1>3, DrivesType, ZenonT(60) DEF WipeInPE
<1>4. CASE CopyImage
  <2>1. dd' \in OnD
    <3> dd \in OnD /\ (at = "image" => pe.pool \in Pools)
      BY <1>0 DEF Pinned
    <3>1. CASE at = "image"
      <4>1. dd' = [dd EXCEPT !.image = pe.pool.image, !.wim = "torn"] /\ pe.pool \in Pools
        BY <1>4, <3>1 DEF CopyImage
      <4> HIDE DEF MachineOK
      <4>2. \A d \in OnD : \A p \in Pools : [d EXCEPT !.image = p.image, !.wim = "torn"] \in OnD
        BY OneOnD
      <4> QED BY <4>1, <4>2
    <3>2. CASE at = "copying"
      <4>1. PICK w \in {"none", "torn", "whole"} : dd' = [dd EXCEPT !.wim = w]
        BY <1>4, <3>2 DEF CopyImage
      <4> HIDE DEF MachineOK
      <4> QED BY <4>1, OneOnD
    <3> QED BY <1>4, <3>1, <3>2 DEF CopyImage
  <2> QED BY <1>4, <2>1, ZenonT(60) DEF CopyImage
<1>5. CASE CopyRest
  <2>1. dd' \in OnD
    BY <1>5, OneOnD DEF CopyRest
  <2>2. at' \in {"scripts", "apps", "secrets"}
    BY <1>5 DEF CopyRest
  <2>3. UNCHANGED <<head, disk, acl, os, esp, pxe, pe, get, mutex, boot, conf>>
    BY <1>5 DEF CopyRest
  <2> QED BY <2>1, <2>2, <2>3, ZenonT(60)
<1>6. CASE RefreshSecrets
  <2>1. dd' \in OnD
    <3>1. dd \in OnD
      OBVIOUS
    <3> HIDE DEF MachineOK
    <3>2. CASE dd' = dd
      BY <3>1, <3>2
    <3>3. CASE pe.pool \in Pools /\ dd' = [dd EXCEPT !.secrets = @ \cup {Secret(pe.pool)}]
      <4>1. \A d \in OnD : \A p \in Pools : [d EXCEPT !.secrets = @ \cup {Secret(p)}] \in OnD
        BY OneOnD
      <4> QED BY <3>1, <3>3, <4>1
    <3> QED BY <1>6, <1>0, <3>2, <3>3 DEF RefreshSecrets
  <2> QED BY <1>6, <2>1, ZenonT(60) DEF RefreshSecrets
<1>7. CASE Answer
  <2>1. dd' \in OnD
    BY <1>7, OneOnD DEF Answer
  <2> QED BY <1>7, <2>1, ZenonT(60) DEF Answer
<1>8. CASE Format
  BY <1>8, DrivesType, ZenonT(60) DEF Format
<1>9. CASE RemoveLauncher
  BY <1>9, OneOnD, ZenonT(60) DEF RemoveLauncher
<1>10. CASE UpdateGetBoot
  <2>1. [rev |-> pe.rev, pool |-> pe.pool] \in Confs
    BY <1>0, <1>10 DEF UpdateGetBoot, Pinned, Confs
  <2>2. dd' \in OnD
    <3>1. dd \in OnD
      OBVIOUS
    <3> HIDE DEF MachineOK
    <3> QED BY <3>1, <1>10, <2>1, OneOnD DEF UpdateGetBoot
  <2> QED BY <1>10, <2>2, ZenonT(60) DEF UpdateGetBoot
<1>11. CASE ApplyImage
  <2>1. at = "applying" => [rev |-> pe.rev, pool |-> pe.pool] \in Confs
    BY <1>0 DEF Pinned, Confs
  <2>2. os' \in OnC
    <3>1. CASE at = "apply"
      BY <1>11, <3>1, DrivesType DEF ApplyImage
    <3>2. CASE at = "applying"
      BY <1>11, <3>2, <2>1, ZenonT(60) DEF ApplyImage, OnC
    <3> QED BY <1>11, <3>1, <3>2 DEF ApplyImage
  <2>3. at' \in {"applying", "error", "bcdboot"}
    BY <1>11 DEF ApplyImage
  <2>4. UNCHANGED <<head, disk, acl, dd, esp, pxe, pe, get, mutex, boot, conf>>
    BY <1>11 DEF ApplyImage
  <2> QED BY <2>2, <2>3, <2>4, ZenonT(60)
<1>12. CASE Bcdboot
  BY <1>12, ZenonT(60) DEF Bcdboot
<1>13. CASE StageAnswer
  BY <1>13, ZenonT(60) DEF StageAnswer, OnC
<1> QED
  BY <1>1, <1>2, <1>3, <1>4, <1>5, <1>6, <1>7, <1>8, <1>9, <1>10, <1>11, <1>12, <1>13
     DEF OSDeploy

\* So do the launchers and Get-Bootstrap.ps1.
LEMMA TypeOfLaunchers ==
  ASSUME MachineOK,
         RunTask \/ FirstLogon \/ TaskStopped
         \/ \E x \in Launchers : TakeMutex(x) \/ CheckStage(x) \/ Prepare(x) \/ StartBootstrap(x)
             \/ BootstrapReturns(x)
  PROVE  MachineOK'
<1> USE DEF MachineOK, disks, procs, GetSteps, BootSteps
<1>1. CASE RunTask
  <2>1. os' \in OnC
    BY <1>1 DEF RunTask, OnC
  <2>2. get' \in [Launchers -> GetSteps] /\ conf' \in [Launchers -> Confs \cup {NoConf}]
    <3>1. dd.launcher \in Confs \cup {NoConf} /\ "task" \in Launchers
      BY DEF OnD, Launchers
    <3> QED BY <1>1, <3>1 DEF RunTask, Launch
  <2> QED BY <1>1, <2>1, <2>2, ZenonT(60) DEF RunTask
<1>2. CASE FirstLogon
  <2>1. os' \in OnC
    BY <1>2 DEF FirstLogon, OnC
  <2>2. get' \in [Launchers -> GetSteps] /\ conf' \in [Launchers -> Confs \cup {NoConf}]
    <3>1. dd.launcher \in Confs \cup {NoConf} /\ "logon" \in Launchers
      BY DEF OnD, Launchers
    <3> QED BY <1>2, <3>1 DEF FirstLogon, Launch
  <2> QED BY <1>2, <2>1, <2>2, ZenonT(60) DEF FirstLogon
<1>3. CASE TaskStopped
  BY <1>3, ZenonT(60) DEF TaskStopped, Launchers
<1>4. ASSUME NEW x \in Launchers,
             TakeMutex(x) \/ CheckStage(x) \/ Prepare(x) \/ StartBootstrap(x)
             \/ BootstrapReturns(x)
      PROVE  MachineOK'
  <2>1. CASE TakeMutex(x)
    BY <2>1, ZenonT(60) DEF TakeMutex
  <2>2. CASE CheckStage(x) \/ BootstrapReturns(x)
    BY <2>2, ZenonT(60) DEF CheckStage, BootstrapReturns, Ends
  <2>3. CASE Prepare(x)
    <3>1. os' \in OnC
      BY <2>3, ZenonT(60) DEF Prepare, OnC
    <3>2. get' \in [Launchers -> GetSteps] /\ mutex' \in Launchers \cup {"free"}
      BY <2>3 DEF Prepare, Ends
    <3>3. UNCHANGED <<head, disk, acl, dd, esp, pxe, at, pe, boot, conf>>
      BY <2>3 DEF Prepare
    <3> QED BY <3>1, <3>2, <3>3, ZenonT(60)
  <2>4. CASE StartBootstrap(x)
    <3>1. get' \in [Launchers -> GetSteps] /\ mutex' \in Launchers \cup {"free"}
      BY <2>4 DEF StartBootstrap, Ends
    <3>2. boot' \in [Launchers -> BootSteps]
      BY <2>4 DEF StartBootstrap
    <3>3. UNCHANGED <<head, disk, acl, dd, os, esp, pxe, at, pe, conf>>
      BY <2>4 DEF StartBootstrap
    <3> QED BY <3>1, <3>2, <3>3, ZenonT(60)
  <2> QED BY <1>4, <2>1, <2>2, <2>3, <2>4
<1> QED BY <1>1, <1>2, <1>3, <1>4

\* And bootstrap.ps1.
LEMMA TypeOfBootstrap ==
  ASSUME MachineOK, NEW x \in Launchers,
         \/ \E from \in BootSteps : Gives(x, from)
         \/ GetPreRequ(x) \/ SetRoninRegistry(x) \/ GetRonin(x) \/ Puppet(x)
         \/ RemoveProvisioningSecrets(x) \/ MarkComplete(x) \/ SetPXE(x) \/ Restart(x)
  PROVE  MachineOK'
<1> USE DEF MachineOK, disks, procs, BootSteps
<1>1. CASE \E from \in BootSteps : Gives(x, from)
  BY <1>1 DEF Gives, Step
<1>2. CASE GetPreRequ(x) \/ Puppet(x)
  BY <1>2 DEF GetPreRequ, Puppet, Step
<1>3. CASE SetRoninRegistry(x)
  <2>1. os' \in OnC
    BY <1>3 DEF SetRoninRegistry, OnC
  <2> QED BY <1>3, <2>1, ZenonT(60) DEF SetRoninRegistry, Step
<1>4. CASE GetRonin(x)
  <2>1. os' \in OnC
    <3> DEFINE v == Secret(conf[x].pool) \in dd.secrets
    <3>1. v \in BOOLEAN
      <4> HIDE DEF MachineOK
      <4> QED OBVIOUS
    <3>2. os' = [os EXCEPT !.vault = v, !.stage = "inprogress"]
      BY <1>4 DEF GetRonin
    <3> HIDE DEF v
    <3> QED BY <3>1, <3>2 DEF OnC
  <2> QED BY <1>4, <2>1, ZenonT(60) DEF GetRonin, Step
<1>5. CASE RemoveProvisioningSecrets(x)
  <2>1. os' \in OnC
    BY <1>5, ZenonT(60) DEF RemoveProvisioningSecrets, OnC
  <2>2. dd' \in OnD
    BY <1>5, OneOnD DEF RemoveProvisioningSecrets
  <2>3. boot' \in [Launchers -> BootSteps]
    BY <1>5 DEF RemoveProvisioningSecrets, Step
  <2>4. UNCHANGED <<head, disk, acl, esp, pxe, at, pe, get, mutex, conf, counts>>
    BY <1>5 DEF RemoveProvisioningSecrets
  <2> QED BY <2>1, <2>2, <2>3, <2>4, ZenonT(60)
<1>6. CASE MarkComplete(x)
  BY <1>6, ZenonT(60) DEF MarkComplete, Step, OnC
<1>7. CASE SetPXE(x)
  <2>1. dd' \in OnD
    BY <1>7, DrivesType DEF SetPXE
  <2>2. boot' \in [Launchers -> BootSteps]
    BY <1>7 DEF SetPXE, Step
  <2>3. pxe' \in BOOLEAN /\ UNCHANGED <<head, disk, acl, os, esp, at, pe, get, mutex, conf>>
    BY <1>7 DEF SetPXE
  <2> QED BY <2>1, <2>2, <2>3, ZenonT(60)
<1>8. CASE Restart(x)
  BY <1>8, ZenonT(60) DEF Restart, NothingRuns, GetSteps
<1> QED BY <1>1, <1>2, <1>3, <1>4, <1>5, <1>6, <1>7, <1>8

\* Every step keeps the types.
LEMMA TypeStep == TypeOK /\ Pinned /\ [Next]_vars => TypeOK'
<1> SUFFICES ASSUME MachineOK, Pinned, [Next]_vars PROVE MachineOK'
    BY CountsType DEF TypeOK
<1>1. CASE OSDeploy
  BY <1>1, TypeInPE
<1>2. CASE RunTask \/ FirstLogon \/ TaskStopped \/ \E x \in Launchers : Script(x)
  BY <1>2, TypeOfLaunchers, TypeOfBootstrap DEF Script
<1>3. CASE PowerOn
  BY <1>3, NodeDeployAssumption DEF PowerOn, NoPE, MachineOK, PESteps, procs
<1>4. CASE PowerLoss
  BY <1>4 DEF PowerLoss, NothingRuns, MachineOK, disks, GetSteps, BootSteps
<1>5. CASE Visit
  BY <1>5 DEF Visit, NothingRuns, MachineOK, GetSteps, BootSteps
<1>6. CASE Push
  BY <1>6, ZenonT(60) DEF Push, MachineOK, disks, procs
<1>7. CASE UNCHANGED vars
  BY <1>7, ZenonT(60) DEF vars, MachineOK, disks, procs
<1> QED BY <1>1, <1>2, <1>3, <1>4, <1>5, <1>6, <1>7 DEF Next, Machine

-----------------------------------------------------------------------------
(* One bootstrap at a time                                                   *)

\* OS-deploy.ps1 runs in WinPE and touches no script of the deployed system.
LEMMA InPE == OSDeploy => at \in PESteps /\ at' \in PESteps \cup {"off"} /\ UNCHANGED procs
<1> SUFFICES ASSUME OSDeploy PROVE at \in PESteps /\ at' \in PESteps \cup {"off"} /\ UNCHANGED procs
    OBVIOUS
<1>1. UNCHANGED procs
  BY DEF OSDeploy, ReadPools, Partition, Letters, ProtectProvisioningDrive, Resync,
         WipeInPE, CopyImage, CopyRest, RefreshSecrets, Answer, Format, RemoveLauncher,
         UpdateGetBoot, ApplyImage, Bcdboot, StageAnswer
<1>2. at \in PESteps /\ at' \in PESteps \cup {"off"}
  BY DEF OSDeploy, ReadPools, Partition, Letters, ProtectProvisioningDrive, Resync,
         WipeInPE, CopyImage, CopyRest, RefreshSecrets, Answer, Format, RemoveLauncher,
         UpdateGetBoot, ApplyImage, Bcdboot, StageAnswer, PESteps
<1> QED BY <1>1, <1>2

\* bootstrap.ps1, but for its restart, and what ends it.
Works(x) ==
  \/ \E from \in BootSteps : Gives(x, from)
  \/ GetPreRequ(x) \/ SetRoninRegistry(x) \/ GetRonin(x) \/ Puppet(x)
  \/ RemoveProvisioningSecrets(x) \/ MarkComplete(x) \/ SetPXE(x)

\* It runs before such a step, and changes nothing of the launchers.
LEMMA WorksAlone ==
  ASSUME NEW x \in Launchers, Works(x)
  PROVE  /\ Running(x) /\ \E to \in BootSteps : boot' = [boot EXCEPT ![x] = to]
         /\ UNCHANGED <<head, at, pe, get, mutex, conf>>
<1>1. Running(x)
  BY DEF Works, Running, Gives, GetPreRequ, SetRoninRegistry, GetRonin, Puppet,
         RemoveProvisioningSecrets, MarkComplete, SetPXE, Step
<1>2. \E to \in BootSteps : boot' = [boot EXCEPT ![x] = to]
  BY DEF Works, BootSteps, Gives, GetPreRequ, SetRoninRegistry, GetRonin, Puppet,
         RemoveProvisioningSecrets, MarkComplete, SetPXE, Step
<1>3. UNCHANGED <<head, at, pe, get, mutex, conf>>
  BY DEF Works, Gives, GetPreRequ, SetRoninRegistry, GetRonin, Puppet,
         RemoveProvisioningSecrets, MarkComplete, SetPXE
<1> QED BY <1>1, <1>2, <1>3

Alone == Quiet /\ MutexHeld /\ PrepareAlone /\ AtMostOne

\* Every step leaves the scripts as the mutex and the look at the processes
\* arrange them.
LEMMA AloneStep == TypeOK /\ Alone /\ [Next]_vars => Alone'
<1> SUFFICES ASSUME MachineOK, Alone, [Next]_vars PROVE Alone'
    BY DEF TypeOK
<1> USE DEF Alone, Quiet, MutexHeld, PrepareAlone, AtMostOne, Running
<1>0. /\ get \in [Launchers -> GetSteps] /\ boot \in [Launchers -> BootSteps]
      /\ "task" \in Launchers /\ "logon" \in Launchers
      /\ \A x \in Launchers : x # "free"
  BY DEF MachineOK, Launchers
<1>1. CASE OSDeploy
  BY <1>1, InPE DEF PESteps, procs
<1>2. CASE RunTask \/ FirstLogon
  <2>1. at = "os" /\ at' = at /\ UNCHANGED <<mutex, boot>>
    BY <1>2 DEF RunTask, FirstLogon
  <2>2. \E x \in Launchers, w \in {"launched", "ended"} : get' = [get EXCEPT ![x] = w]
    BY <1>0, <1>2 DEF RunTask, FirstLogon, Launch
  <2> QED BY <1>0, <2>1, <2>2
<1>3. CASE TaskStopped
  BY <1>0, <1>3 DEF TaskStopped, Launched
<1>4. ASSUME NEW x \in Launchers, TakeMutex(x) \/ CheckStage(x) \/ BootstrapReturns(x)
      PROVE  Alone'
  <2>1. CASE TakeMutex(x)
    BY <1>0, <2>1 DEF TakeMutex, disks
  <2>2. CASE CheckStage(x)
    BY <1>0, <2>2 DEF CheckStage, Ends, disks
  <2>3. CASE BootstrapReturns(x)
    BY <1>0, <2>3 DEF BootstrapReturns, Ends, disks
  <2> QED BY <1>4, <2>1, <2>2, <2>3
<1>5. ASSUME NEW x \in Launchers, Prepare(x) \/ StartBootstrap(x) PROVE Alone'
  <2>1. get[x] \in {"prepare", "starting"} /\ mutex = x /\ at = "os" /\ at' = at
    BY <1>0, <1>5 DEF Prepare, StartBootstrap, disks
  <2>2. CASE Ends(x) /\ UNCHANGED boot
    BY <1>0, <2>1, <2>2 DEF Ends
  <2>3. CASE get' = [get EXCEPT ![x] = "starting"] /\ UNCHANGED <<mutex, boot>>
    BY <1>0, <2>1, <2>3
  <2>4. CASE /\ boot' = [boot EXCEPT ![x] = "prereq"]
             /\ get' = [get EXCEPT ![x] = "waiting"] /\ UNCHANGED mutex
    BY <1>0, <2>1, <2>4
  <2> QED BY <1>5, <2>2, <2>3, <2>4 DEF Prepare, StartBootstrap
<1>6. ASSUME NEW x \in Launchers, Works(x) PROVE Alone'
  BY <1>0, <1>6, WorksAlone
<1>7. CASE NothingRuns
  BY <1>7 DEF NothingRuns
<1>8. CASE PowerOn \/ Push \/ UNCHANGED vars
  BY <1>8 DEF PowerOn, Push, vars, procs
<1> QED
  BY <1>1, <1>2, <1>3, <1>4, <1>5, <1>6, <1>7, <1>8
     DEF Next, Machine, Script, Works, Restart, PowerLoss, Visit

-----------------------------------------------------------------------------
(* What the secrets, the pin, the launcher and the registry are              *)

\* What a drive loses, its launcher included.
LEMMA LessOnD == \A d \in OnD : \A e \in OneLess(d) : e.launcher \in {NoConf, d.launcher}
  BY ZenonT(60) DEF OnD, OneLess

\* The scripts of the deployed system leave the system as it was applied, and
\* no launcher on D: but the one that was there.
LEMMA SystemKept ==
  ASSUME MachineOK, RunTask \/ FirstLogon \/ TaskStopped \/ \E x \in Launchers : Script(x)
  PROVE  /\ os'.state = os.state /\ os'.conf = os.conf
         /\ dd'.launcher \in {NoConf, dd.launcher}
         /\ UNCHANGED pe /\ (at' = at \/ at' = "off")
<1> USE DEF Script, RunTask, FirstLogon, TaskStopped, TakeMutex, CheckStage, Prepare, StartBootstrap,
            BootstrapReturns, Gives, GetPreRequ, SetRoninRegistry, GetRonin, Puppet,
            RemoveProvisioningSecrets, MarkComplete, SetPXE, Restart, disks
<1>1. os'.state = os.state /\ os'.conf = os.conf
  BY ZenonT(60) DEF MachineOK, OnC
<1>2. dd'.launcher \in {NoConf, dd.launcher}
  BY LessOnD DEF MachineOK, OnD
<1>3. UNCHANGED pe /\ (at' = at \/ at' = "off")
  OBVIOUS
<1> QED BY <1>1, <1>2, <1>3

\* The secrets stay removed while Remove-ProvisioningSecrets goes on.
LEMMA CleanedStep == TypeOK /\ Alone /\ Cleaned /\ [Next]_vars => Cleaned'
<1> SUFFICES ASSUME MachineOK, Alone, Cleaned, [Next]_vars PROVE Cleaned'
    BY DEF TypeOK
<1>0. /\ boot \in [Launchers -> BootSteps] /\ os \in OnC /\ dd \in OnD
      /\ \A x, y \in Launchers : Running(x) /\ Running(y) => x = y
      /\ \A x, y \in Launchers : get[x] = "starting" => ~Running(y)
  BY DEF MachineOK, Alone, AtMostOne, PrepareAlone
<1>1. CASE OSDeploy
  <2>1. \A x \in Launchers : boot'[x] = "off"
    BY <1>1, InPE DEF Alone, Quiet, PESteps, procs
  <2> QED BY <2>1 DEF Cleaned
<1>2. CASE RunTask \/ FirstLogon
  BY <1>0, <1>2 DEF RunTask, FirstLogon, Cleaned, OnC
<1>3. CASE TaskStopped \/ PowerOn \/ Push \/ UNCHANGED vars
  BY <1>3 DEF TaskStopped, PowerOn, Push, vars, disks, procs, Cleaned
<1>4. ASSUME NEW x \in Launchers,
             TakeMutex(x) \/ CheckStage(x) \/ Prepare(x) \/ BootstrapReturns(x)
      PROVE  Cleaned'
  <2>1. os'.vault = os.vault /\ os'.answer = os.answer /\ UNCHANGED <<boot, dd>>
    BY <1>0, <1>4 DEF TakeMutex, CheckStage, Prepare, BootstrapReturns, disks, OnC
  <2> QED BY <2>1 DEF Cleaned
<1>5. ASSUME NEW x \in Launchers, StartBootstrap(x) PROVE Cleaned'
  <2>1. \A y \in Launchers : ~Running(y)
    BY <1>0, <1>5 DEF StartBootstrap
  <2>2. \A y \in Launchers : boot'[y] \in {"off", "ended", "prereq"}
    BY <1>0, <1>5, <2>1 DEF StartBootstrap, Running
  <2> QED BY <2>2 DEF Cleaned
<1>6. ASSUME NEW x \in Launchers, Works(x) PROVE Cleaned'
  <2>1. \A y \in Launchers \ {x} : ~Running(y) /\ boot'[y] = boot[y]
    BY <1>0, <1>6, WorksAlone
  <2>2. \A y \in Launchers \ {x} : boot'[y] \notin {"answers", "secrets", "mark"}
    BY <2>1 DEF Running
  <2>3. /\ boot'[x] \in {"answers", "secrets", "mark"} => ~os'.vault /\ ~os'.answer
        /\ boot'[x] \in {"secrets", "mark"} => ~dd'.answer
        /\ boot'[x] = "mark" => dd'.secrets = {}
    <3>1. CASE RemoveProvisioningSecrets(x)
      BY <1>0, <3>1, ZenonT(60) DEF RemoveProvisioningSecrets, Step, Cleaned, OnC, OnD
    <3>2. CASE ~RemoveProvisioningSecrets(x)
      <4>1. boot'[x] \notin {"answers", "secrets", "mark"}
        BY <1>0, <1>6, <3>2 DEF Works, Gives, GetPreRequ, SetRoninRegistry, GetRonin,
           Puppet, MarkComplete, SetPXE, Step
      <4> QED BY <4>1
    <3> QED BY <3>1, <3>2
  <2> QED BY <2>2, <2>3 DEF Cleaned
<1>7. CASE NothingRuns
  BY <1>7 DEF NothingRuns, Cleaned
<1> QED
  BY <1>1, <1>2, <1>3, <1>4, <1>5, <1>6, <1>7
     DEF Next, Machine, Script, Works, Restart, PowerLoss, Visit

\* What OS-deploy.ps1 pins is what the search finds.
LEMMA PinnedStep == TypeOK /\ Pinned /\ [Next]_vars => Pinned'
<1> SUFFICES ASSUME MachineOK, Pinned, [Next]_vars PROVE Pinned'
    BY DEF TypeOK
<1>1. CASE ReadPools
  <2> DEFINE r == head[pe.branch]
             p == Selected(Text[r], pe.dev)
  <2>1. r \in Revs /\ pe \in [branch : Branches, dev : BOOLEAN, rev : Revs \cup {""},
                              pool : Pools \cup {NoPool}, fresh : BOOLEAN]
    BY DEF MachineOK
  <2>2. pe.dev \in BOOLEAN
    BY <2>1
  <2> HIDE DEF r
  <2>3. p \in {Text[r][i] : i \in Hits(Text[r])}
    BY <2>1, <2>2, SearchFinds
  <2> HIDE DEF p
  <2>4. \/ /\ pe' = [pe EXCEPT !.dev = TRUE, !.branch = p.dev] /\ at' = "resolve"
        \/ pe' = [pe EXCEPT !.rev = r, !.pool = p] /\ at' = "partition"
        \/ pe' = pe /\ at' \in {"partition", "error"}
    BY <1>1 DEF ReadPools, r, p
  <2>5. pe'.pool # NoPool => Found(pe')
    <3>1. (pe'.rev = pe.rev /\ pe'.pool = pe.pool) \/ (pe'.rev = r /\ pe'.pool = p)
      BY <2>1, <2>4
    <3> QED BY <2>1, <2>3, <3>1, ZenonT(60) DEF Pinned, Found
  <2> QED BY <2>4, <2>5 DEF Pinned
<1>2. CASE OSDeploy /\ ~ReadPools
  <2>1. pe' = pe \/ (at' = "protect" /\ pe' = [pe EXCEPT !.fresh = TRUE])
    BY <1>2 DEF OSDeploy, Partition, Letters, ProtectProvisioningDrive, Resync,
         WipeInPE, CopyImage, CopyRest, RefreshSecrets, Answer, Format, RemoveLauncher,
         UpdateGetBoot, ApplyImage, Bcdboot, StageAnswer
  <2>2. pe'.pool = pe.pool /\ pe'.rev = pe.rev
    BY <2>1 DEF MachineOK
  <2>3. at' \in PESteps \ {"resolve", "partition", "letters", "protect", "resync", "wipe",
                           "secrets", "error"} => pe.pool # NoPool
    BY <1>2 DEF OSDeploy, Partition, Letters, ProtectProvisioningDrive, Resync,
         WipeInPE, CopyImage, CopyRest, RefreshSecrets, Answer, Format, RemoveLauncher,
         UpdateGetBoot, ApplyImage, Bcdboot, StageAnswer, PESteps, Pinned
  <2> QED BY <2>2, <2>3 DEF Pinned, Found
<1>3. CASE RunTask \/ FirstLogon \/ TaskStopped \/ \E x \in Launchers : Script(x)
  BY <1>3, SystemKept DEF Pinned, Found, PESteps
<1>4. CASE PowerOn
  BY <1>4 DEF PowerOn, NoPE, Pinned, PESteps
<1>5. CASE PowerLoss \/ Visit \/ Push \/ UNCHANGED vars
  BY <1>5 DEF PowerLoss, Visit, Push, vars, Pinned, Found, PESteps
<1> QED BY <1>1, <1>2, <1>3, <1>4, <1>5 DEF Next, Machine

\* The launcher on D: is of the system on C:.
LEMMA LauncherStep == TypeOK /\ Pinned /\ LauncherFits /\ [Next]_vars => LauncherFits'
<1> SUFFICES ASSUME MachineOK, Pinned, LauncherFits, [Next]_vars PROVE LauncherFits'
    BY DEF TypeOK
<1>0. os \in OnC /\ dd \in OnD
  BY DEF MachineOK
<1>1. CASE ReadPools \/ Resync \/ Bcdboot
  BY <1>1 DEF ReadPools, Resync, Bcdboot, LauncherFits, disks
<1>2. CASE Partition \/ Letters \/ ProtectProvisioningDrive
  <2>1. at' \in {"letters", "protect", "resync"}
    BY <1>2 DEF Partition, Letters, ProtectProvisioningDrive
  <2>2. UNCHANGED os \/ os'.state # "ok"
    BY <1>2 DEF Partition, Letters, ProtectProvisioningDrive, NoOS, disks
  <2>3. dd' = dd \/ dd'.launcher = NoConf
    <3>0. Empty.launcher = NoConf
      BY DEF Empty
    <3>1. CASE Partition
      <4>1. dd' = dd \/ dd' = Empty
        BY <3>1 DEF Partition, disks
      <4> QED BY <3>0, <4>1
    <3>2. CASE Letters
      BY <3>2 DEF Letters
    <3>3. CASE ProtectProvisioningDrive
      <4>1. dd' = dd \/ dd' = Empty
        BY <3>3 DEF ProtectProvisioningDrive
      <4> QED BY <3>0, <4>1
    <3> QED BY <1>2, <3>1, <3>2, <3>3
  <2> QED BY <2>1, <2>2, <2>3 DEF LauncherFits
<1>3. CASE WipeInPE \/ CopyImage \/ CopyRest \/ RefreshSecrets \/ Answer
  <2>1. dd'.launcher \in {NoConf, dd.launcher}
    <3>1. CASE WipeInPE
      BY <1>0, <3>1, LessOnD DEF WipeInPE
    <3>2. CASE CopyImage \/ CopyRest \/ RefreshSecrets \/ Answer
      BY <1>0, <3>2 DEF CopyImage, CopyRest, RefreshSecrets, Answer, OnD
    <3> QED BY <1>3, <3>1, <3>2
  <2>2. UNCHANGED os /\ at' \notin {"launcher", "template", "apply", "applying"}
    BY <1>3 DEF WipeInPE, CopyImage, CopyRest, RefreshSecrets, Answer
  <2> QED BY <2>1, <2>2 DEF LauncherFits
<1>4. CASE Format
  BY <1>4 DEF Format, LauncherFits, NoOS
<1>5. CASE RemoveLauncher \/ UpdateGetBoot
  <2>1. os' = os /\ os.state # "ok" /\ pe' = pe
    BY <1>5 DEF RemoveLauncher, UpdateGetBoot, LauncherFits
  <2>2. at' = "template" => dd'.launcher = NoConf
    BY <1>0, <1>5 DEF RemoveLauncher, UpdateGetBoot, OnD
  <2>3. at' \in {"apply", "applying"} =>
          dd'.launcher \in {NoConf, [rev |-> pe.rev, pool |-> pe.pool]}
    BY <1>0, <1>5 DEF RemoveLauncher, UpdateGetBoot, OnD, LauncherFits
  <2> QED BY <2>1, <2>2, <2>3 DEF LauncherFits
<1>6. CASE ApplyImage
  <2>1. CASE at = "apply"
    BY <1>6, <2>1 DEF ApplyImage, LauncherFits, NoOS
  <2>2. CASE at = "applying"
    <3> DEFINE c == [rev |-> pe.rev, pool |-> pe.pool]
    <3>1. Found(c) /\ dd.launcher \in {NoConf, c}
      BY <2>2 DEF Pinned, PESteps, LauncherFits, Found
    <3> HIDE DEF c
    <3>2. \/ os' = [os EXCEPT !.state = "ok", !.task = TRUE, !.conf = c]
          \/ UNCHANGED os
      BY <1>6, <2>2 DEF ApplyImage, c
    <3>3. os'.state = "ok" => os'.conf = c
      BY <1>0, <2>2, <3>2 DEF LauncherFits, OnC
    <3>4. at' \in {"bcdboot", "error"} /\ UNCHANGED dd
      BY <1>6, <2>2 DEF ApplyImage
    <3> QED BY <3>1, <3>3, <3>4 DEF LauncherFits
  <2> QED BY <1>6, <2>1, <2>2 DEF ApplyImage
<1>7. CASE StageAnswer
  <2>1. os'.state = os.state /\ os'.conf = os.conf
    BY <1>0, <1>7 DEF StageAnswer, OnC
  <2> QED BY <1>7, <2>1 DEF StageAnswer, LauncherFits
<1>8. CASE RunTask \/ FirstLogon \/ TaskStopped \/ \E x \in Launchers : Script(x)
  BY <1>8, SystemKept DEF LauncherFits
<1>9. CASE PowerOn \/ PowerLoss \/ Visit \/ Push \/ UNCHANGED vars
  BY <1>9 DEF PowerOn, PowerLoss, Visit, Push, vars, disks, LauncherFits
<1> QED
  BY <1>1, <1>2, <1>3, <1>4, <1>5, <1>6, <1>7, <1>8, <1>9 DEF Next, Machine, OSDeploy

\* What runs has the parameters of the system it runs in.
LEMMA ParamsStep ==
  TypeOK /\ Alone /\ LauncherFits /\ ParamsFit /\ [Next]_vars => ParamsFit'
<1> SUFFICES ASSUME MachineOK, Alone, LauncherFits, ParamsFit, [Next]_vars PROVE ParamsFit'
    BY DEF TypeOK
<1>0. /\ get \in [Launchers -> GetSteps] /\ boot \in [Launchers -> BootSteps]
      /\ conf \in [Launchers -> Confs \cup {NoConf}]
      /\ \A x \in Launchers : Launched(x) \/ Running(x) => at = "os"
      /\ \A x \in Launchers : Launched(x) \/ Running(x) => conf[x] = os.conf
      /\ at = "os" => os.state = "ok"
  BY DEF MachineOK, Alone, Quiet, Launched, Running, ParamsFit
<1>1. CASE OSDeploy
  BY <1>0, <1>1, InPE DEF PESteps, procs, ParamsFit, Launched, Running
<1>2. ASSUME NEW x \in Launchers,
             at = "os" /\ get[x] = "idle" /\ boot' = boot,
             \/ get' = [get EXCEPT ![x] = "ended"] /\ UNCHANGED conf
             \/ Launch(x),
             os'.state = os.state, os'.conf = os.conf
      PROVE  ParamsFit'
  <2>1. dd.launcher \in {NoConf, os.conf}
    BY <1>0, <1>2 DEF LauncherFits
  <2> QED BY <1>0, <1>2, <2>1 DEF Launch, ParamsFit, Launched, Running
<1>3. CASE RunTask
  <2>1. UNCHANGED boot /\ at = "os" /\ get["task"] = "idle" /\ "task" \in Launchers
    BY <1>3 DEF RunTask, Launchers
  <2> QED BY <1>2, <1>3, <2>1, SystemKept DEF RunTask
<1>4. CASE FirstLogon
  <2>1. UNCHANGED boot /\ at = "os" /\ get["logon"] = "idle" /\ "logon" \in Launchers
    BY <1>4 DEF FirstLogon, Launchers
  <2> QED BY <1>2, <1>4, <2>1, SystemKept DEF FirstLogon
<1>5. CASE TaskStopped
  <2>1. get' = [get EXCEPT !["task"] = "ended"] /\ UNCHANGED <<os, at, boot, conf>>
    BY <1>5 DEF TaskStopped, disks
  <2> QED BY <1>0, <2>1 DEF ParamsFit, Launched, Running
<1>6. ASSUME NEW x \in Launchers,
             TakeMutex(x) \/ CheckStage(x) \/ Prepare(x) \/ StartBootstrap(x)
             \/ BootstrapReturns(x)
      PROVE  ParamsFit'
  <2>1. os'.state = os.state /\ os'.conf = os.conf /\ UNCHANGED <<at, conf>> /\ Launched(x)
    BY <1>6, SystemKept DEF Script, TakeMutex, CheckStage, Prepare, StartBootstrap, BootstrapReturns, Launched
  <2>2. \A y \in Launchers \ {x} : get'[y] = get[y] /\ boot'[y] = boot[y]
    BY <1>0, <1>6 DEF TakeMutex, CheckStage, Prepare, StartBootstrap, BootstrapReturns, Ends
  <2> QED BY <1>0, <2>1, <2>2 DEF ParamsFit, Launched, Running
<1>7. ASSUME NEW x \in Launchers, Works(x) PROVE ParamsFit'
  <2>1. os'.state = os.state /\ os'.conf = os.conf
    BY <1>7, SystemKept DEF Script, Works
  <2> QED BY <1>0, <1>7, <2>1, WorksAlone DEF ParamsFit, Launched, Running
<1>8. CASE NothingRuns /\ at' = "off"
  BY <1>8 DEF NothingRuns, ParamsFit, Launched, Running
<1>9. CASE PowerOn \/ Push \/ UNCHANGED vars
  BY <1>9 DEF PowerOn, Push, vars, procs, disks, ParamsFit, Launched, Running
<1> QED
  BY <1>1, <1>3, <1>4, <1>5, <1>6, <1>7, <1>8, <1>9
     DEF Next, Machine, Script, Works, Restart, PowerLoss, Visit

\* A marked system is one, and configured as it was applied.
LEMMA RegistryStep ==
  TypeOK /\ Alone /\ LauncherFits /\ ParamsFit /\ RegistryFits /\ [Next]_vars => RegistryFits'
<1> SUFFICES ASSUME MachineOK, Alone, LauncherFits, ParamsFit, RegistryFits, [Next]_vars
             PROVE  RegistryFits'
    BY DEF TypeOK
<1> DEFINE Uses == {"clone", "puppet", "clean", "answers", "secrets", "mark"}
<1>0. /\ boot \in [Launchers -> BootSteps] /\ os \in OnC
      /\ \A x, y \in Launchers : Running(x) /\ Running(y) => x = y
      /\ \A x, y \in Launchers : get[x] \in {"prepare", "starting"} => ~Running(y)
      /\ \A x \in Launchers : Running(x) => conf[x] = os.conf /\ os.state = "ok"
      /\ \A x \in Launchers : boot[x] \in Uses => os.reg = os.conf
      /\ os.stage = "complete" => os.state = "ok" /\ os.reg = os.conf
  BY DEF MachineOK, Alone, Quiet, AtMostOne, PrepareAlone, ParamsFit, RegistryFits, Running
<1>1. CASE OSDeploy
  <2>1. \A x \in Launchers : boot'[x] = "off"
    BY <1>1, InPE DEF Alone, Quiet, PESteps, procs
  <2>2. os'.stage = "complete" => os'.state = "ok" /\ os'.reg = os'.conf
    <3>1. CASE Partition \/ Format
      BY <1>0, <3>1 DEF Partition, Format, NoOS, disks
    <3>2. CASE ApplyImage
      <4>1. CASE at = "apply"
        BY <1>0, <3>2, <4>1 DEF ApplyImage, NoOS
      <4>2. CASE at = "applying"
        <5>1. os.stage # "complete"
          BY <1>0, <4>2 DEF LauncherFits
        <5>2. os'.stage = os.stage
          BY <1>0, <3>2, <4>2 DEF ApplyImage, OnC
        <5> QED BY <5>1, <5>2
      <4> QED BY <3>2, <4>1, <4>2 DEF ApplyImage
    <3>3. CASE StageAnswer
      <4>1. /\ os'.stage = os.stage /\ os'.state = os.state /\ os'.reg = os.reg
            /\ os'.conf = os.conf
        BY <1>0, <3>3 DEF StageAnswer, OnC
      <4> QED BY <1>0, <4>1
    <3>4. CASE OSDeploy /\ ~(Partition \/ Format \/ ApplyImage \/ StageAnswer)
      <4>1. UNCHANGED os
        BY <3>4 DEF OSDeploy, ReadPools, Letters, ProtectProvisioningDrive, Resync, WipeInPE,
           CopyImage, CopyRest, RefreshSecrets, Answer, RemoveLauncher, UpdateGetBoot,
           Bcdboot, disks
      <4> QED BY <1>0, <4>1
    <3> QED BY <1>1, <3>1, <3>2, <3>3, <3>4
  <2> QED BY <2>1, <2>2 DEF RegistryFits
<1>2. CASE RunTask \/ FirstLogon
  <2>1. /\ os'.stage = os.stage /\ os'.state = os.state /\ os'.reg = os.reg
        /\ os'.conf = os.conf /\ UNCHANGED boot
    BY <1>0, <1>2 DEF RunTask, FirstLogon, OnC
  <2> QED BY <2>1 DEF RegistryFits
<1>3. CASE TaskStopped \/ PowerOn \/ Push \/ UNCHANGED vars
  BY <1>3 DEF TaskStopped, PowerOn, Push, vars, disks, procs, RegistryFits
<1>4. ASSUME NEW x \in Launchers, TakeMutex(x) \/ CheckStage(x) \/ BootstrapReturns(x)
      PROVE  RegistryFits'
  BY <1>4 DEF TakeMutex, CheckStage, BootstrapReturns, disks, RegistryFits
<1>5. ASSUME NEW x \in Launchers, Prepare(x) \/ StartBootstrap(x) PROVE RegistryFits'
  <2>1. \A y \in Launchers : ~Running(y)
    BY <1>0, <1>5 DEF Prepare, StartBootstrap
  <2>2. \A y \in Launchers : boot'[y] \in {"off", "ended", "prereq"}
    BY <1>0, <1>5, <2>1 DEF Prepare, StartBootstrap, Running
  <2>3. os' = os \/ os'.stage = "none"
    BY <1>0, <1>5 DEF Prepare, StartBootstrap, disks, OnC
  <2> QED BY <1>0, <2>2, <2>3 DEF RegistryFits
<1>6. ASSUME NEW x \in Launchers, Works(x) PROVE RegistryFits'
  <2>1. \A y \in Launchers \ {x} : ~Running(y) /\ boot'[y] = boot[y]
    BY <1>0, <1>6, WorksAlone
  <2>2. \A y \in Launchers \ {x} : boot'[y] \notin Uses
    BY <2>1 DEF Running
  <2>3. /\ boot'[x] \in Uses => os'.reg = os'.conf
        /\ os'.stage = "complete" => os'.state = "ok" /\ os'.reg = os'.conf
    <3>1. conf[x] = os.conf /\ os.state = "ok"
      BY <1>0, <1>6, WorksAlone
    <3>2. CASE SetRoninRegistry(x)
      BY <1>0, <3>1, <3>2 DEF SetRoninRegistry, Step, OnC
    <3>3. CASE GetRonin(x) \/ RemoveProvisioningSecrets(x) \/ MarkComplete(x)
      <4>1. os'.reg = os.reg /\ os'.conf = os.conf /\ os'.state = os.state
        BY <1>0, <3>3 DEF GetRonin, RemoveProvisioningSecrets, MarkComplete, OnC
      <4>2. boot[x] \in Uses
        BY <3>3 DEF GetRonin, RemoveProvisioningSecrets, MarkComplete, Step
      <4> QED BY <1>0, <3>1, <4>1, <4>2
    <3>4. CASE Works(x) /\ ~SetRoninRegistry(x)
               /\ ~(GetRonin(x) \/ RemoveProvisioningSecrets(x) \/ MarkComplete(x))
      <4>1. UNCHANGED os /\ (boot'[x] \in Uses => boot[x] \in Uses)
        BY <1>0, <3>4 DEF Works, Gives, GetPreRequ, Puppet, SetPXE, Step, disks
      <4> QED BY <1>0, <4>1
    <3> QED BY <1>6, <3>2, <3>3, <3>4
  <2> QED BY <2>2, <2>3 DEF RegistryFits
<1>7. CASE Restart("task") \/ Restart("logon") \/ PowerLoss \/ Visit
  BY <1>7 DEF Restart, PowerLoss, Visit, NothingRuns, disks, RegistryFits
<1> QED
  BY <1>1, <1>2, <1>3, <1>4, <1>5, <1>6, <1>7 DEF Next, Machine, Script, Works, Launchers

-----------------------------------------------------------------------------
(* Theorems                                                                  *)

\* The invariant is inductive, from a new machine on.
LEMMA Invariance == Spec => []IInv
<1>1. Init => IInv
  <2> SUFFICES ASSUME Init PROVE IInv
      OBVIOUS
  <2>1. TypeOK
    <3>1. CountsOK
      BY NodeDeployAssumption DEF Init, CountsOK
    <3>2. NoPE \in [branch : Branches, dev : BOOLEAN, rev : Revs \cup {""},
                   pool : Pools \cup {NoPool}, fresh : BOOLEAN]
      BY NodeDeployAssumption DEF NoPE
    <3>3. MachineOK
      BY <3>2, DrivesType DEF Init, MachineOK, GetSteps, BootSteps
    <3> QED BY <3>1, <3>3 DEF TypeOK
  <2>2. Quiet /\ MutexHeld /\ PrepareAlone /\ AtMostOne /\ Cleaned
    BY DEF Init, Quiet, MutexHeld, PrepareAlone, AtMostOne, Running, Cleaned
  <2>3. Pinned /\ LauncherFits /\ ParamsFit /\ RegistryFits
    BY DEF Init, NoPE, NoOS, Pinned, PESteps, LauncherFits, ParamsFit, RegistryFits, Launched,
           Running
  <2> QED BY <2>1, <2>2, <2>3 DEF IInv
<1>2. IInv /\ [Next]_vars => IInv'
  BY TypeStep, AloneStep, CleanedStep, PinnedStep, LauncherStep, ParamsStep, RegistryStep
     DEF IInv, Alone
<1> QED BY <1>1, <1>2, PTL DEF Spec

\* The type invariant: what OS-deploy.ps1 pins, hands on and repeats is of the
\* pools and revisions there are.
THEOREM TypeCorrect == Spec => []TypeOK
<1>1. IInv => TypeOK
  BY DEF IInv
<1> QED BY <1>1, Invariance, PTL

\* Of all that the launchers start, one bootstrap.ps1 runs at a time.
THEOREM OnlyOneBootstrap == Spec => []OneBootstrap
<1>1. ASSUME IInv PROVE OneBootstrap
  <2> DEFINE R == {x \in Launchers : Running(x)}
  <2>1. CASE R = {}
    BY <2>1, FS_EmptySet DEF OneBootstrap
  <2>2. ASSUME NEW x \in R PROVE OneBootstrap
    <3>1. R = {x}
      BY <1>1 DEF IInv, AtMostOne
    <3> QED BY <3>1, FS_Singleton, SMTT(30) DEF OneBootstrap
  <2> QED BY <2>1, <2>2
<1> QED BY <1>1, Invariance, PTL

\* No secret is left where a worker is marked complete, whatever interrupted
\* the attempts before.
THEOREM NoSecretLeft == Spec => SecretsGone
<1>1. IInv /\ [Next]_vars =>
        [os.stage # "complete" /\ os'.stage = "complete" =>
           ~os.vault /\ ~os.answer /\ ~dd.answer /\ dd.secrets = {}]_vars
  <2> SUFFICES ASSUME IInv, Next, os.stage # "complete", os'.stage = "complete"
               PROVE  ~os.vault /\ ~os.answer /\ ~dd.answer /\ dd.secrets = {}
      OBVIOUS
  <2>0. os \in OnC
    BY DEF IInv, TypeOK, MachineOK
  <2>1. \E x \in Launchers : MarkComplete(x)
    <3>1. ~OSDeploy
      <4>1. ~(Partition \/ Format \/ ApplyImage \/ StageAnswer)
        <5>1. ~Partition /\ ~Format
          BY <2>0 DEF Partition, Format, disks, NoOS
        <5>2. ~ApplyImage
          BY <2>0 DEF ApplyImage, NoOS, OnC
        <5>3. ~StageAnswer
          BY <2>0 DEF StageAnswer, OnC
        <5> QED BY <5>1, <5>2, <5>3
      <4>2. OSDeploy => Partition \/ Format \/ ApplyImage \/ StageAnswer \/ os' = os
        BY DEF OSDeploy, ReadPools, Letters, ProtectProvisioningDrive, Resync, WipeInPE,
           CopyImage, CopyRest, RefreshSecrets, Answer, RemoveLauncher, UpdateGetBoot,
           Bcdboot, disks
      <4> QED BY <4>1, <4>2
    <3>2. ~(RunTask \/ FirstLogon \/ TaskStopped \/ PowerOn \/ PowerLoss \/ Visit \/ Push)
      BY <2>0 DEF RunTask, FirstLogon, TaskStopped, PowerOn, PowerLoss, Visit, Push, disks, OnC
    <3>3. ASSUME NEW x \in Launchers, Script(x) PROVE MarkComplete(x)
      BY <2>0, <3>3 DEF Script, TakeMutex, CheckStage, Prepare, StartBootstrap, BootstrapReturns, Gives,
         GetPreRequ, SetRoninRegistry, GetRonin, Puppet, RemoveProvisioningSecrets, SetPXE,
         Restart, disks, OnC
    <3> QED BY <3>1, <3>2, <3>3 DEF Next, Machine
  <2> QED BY <2>1 DEF MarkComplete, Step, IInv, Cleaned
<1> QED BY <1>1, Invariance, PTL DEF Spec, SecretsGone

\* Where the search finds a pool that lists the machine by its own name, a
\* complete worker is configured for that pool as it was at the revision by
\* which its image was chosen: also when pools.yml moved, power was lost and
\* the launcher is of an earlier deployment.
THEOREM ListedIsConfigured ==
  ASSUME FindsItsOwn
  PROVE  Spec => []ConfiguredAsListed
<1>1. ASSUME IInv PROVE ConfiguredAsListed
  <2> SUFFICES ASSUME os.stage = "complete" PROVE ConfiguredAsListed
      BY DEF ConfiguredAsListed
  <2>1. os.reg = os.conf /\ Found(os.reg)
    BY <1>1 DEF IInv, RegistryFits, LauncherFits
  <2>2. \E j \in DOMAIN os.reg.pool.nodes : os.reg.pool.nodes[j] = Node
    BY <2>1 DEF Found, FindsItsOwn
  <2> QED BY <2>1, <2>2, FoundIsListed DEF ConfiguredAsListed
<1> QED BY <1>1, Invariance, PTL
=============================================================================
