--------------------------- MODULE NodeDeployInv ---------------------------
(* What must be true of one machine's deployment, whatever power losses,     *)
(* failed requests, pushes and new deployments come between its steps.       *)
EXTENDS NodeDeploy

\* Get-Bootstrap.ps1, the mutex and the look at the running processes: of the
\* first logon, the startup task and a task that was stopped while what it
\* started goes on, only one ever gets a bootstrap.ps1 to run.
OneBootstrap == Cardinality({x \in Launchers : Running(x)}) <= 1

\* OS-deploy.ps1's pin and its search, handed on through the launcher on D: and
\* the registry: a complete worker was set up for the pool that lists it under
\* its own name, as one revision of pools.yml has that pool, and by that same
\* revision its image was chosen -- no longer name that contains it, no older
\* launcher, no push in between.
ConfiguredAsListed ==
  os.stage = "complete" =>
    /\ os.reg = os.conf
    /\ os.reg.pool \in PoolsOf(os.reg.rev)
    /\ \E j \in DOMAIN os.reg.pool.nodes : os.reg.pool.nodes[j] = Node

\* Remove-ProvisioningSecrets: when a worker is marked complete, which no later
\* boot undoes or repeats, nothing is left to remove on C: or on D:, also after
\* attempts that were interrupted.
SecretsGone ==
  [][os.stage # "complete" /\ os'.stage = "complete" =>
       ~os.vault /\ ~os.answer /\ ~dd.answer /\ dd.secrets = {}]_vars

\* A machine that nothing fails on ends as a complete worker of an applied
\* image: also when pools.yml moves, the pool is deployed from a branch of its
\* own, or it is deployed again onto what the last deployment left on D:.
Complete == at = "os" /\ os.stage = "complete"
UndisturbedCompletes == [](faults = 0 /\ losses = 0) => <>[]Complete

\* Set-PXE in bootstrap.ps1: a failed Puppet run deploys the machine again, and
\* once nothing more fails it is not deployed again and again.
NoImageLoop == <>[](at \in {"off", "dead", "os", "error"})

-----------------------------------------------------------------------------
(* The inductive invariant                                                   *)

\* A condition on pools.yml: what the search finds lists the machine by its
\* own name, not by one that contains it.
FindsItsOwn ==
  \A r \in Revs : \A i \in Hits(Text[r]) :
    \E j \in DOMAIN Text[r][i].nodes : Text[r][i].nodes[j] = Node

\* A revision and a pool that the search may find in its pools.yml.
Found(c) == c.rev \in Revs /\ c.pool \in {Text[c.rev][i] : i \in Hits(Text[c.rev])}

\* Launchers and what they start run in the deployed system only.
Quiet == at # "os" => \A x \in Launchers : get[x] = "idle" /\ boot[x] = "off"

\* Who is past the mutex owns it, and who is past the look at the processes
\* is alone until it starts its own.
MutexHeld == \A x \in Launchers : get[x] \in {"held", "prepare", "starting", "waiting"} => mutex = x
PrepareAlone ==
  \A x, y \in Launchers : get[x] \in {"prepare", "starting"} => ~Running(y)
AtMostOne == \A x, y \in Launchers : Running(x) /\ Running(y) => x = y

\* The secrets go in the order of Remove-ProvisioningSecrets and do not return.
Cleaned ==
  \A x \in Launchers :
    /\ boot[x] \in {"answers", "secrets", "mark"} => ~os.vault /\ ~os.answer
    /\ boot[x] \in {"secrets", "mark"} => ~dd.answer
    /\ boot[x] = "mark" => dd.secrets = {}

\* What OS-deploy has pinned was found at one revision; without a pool it does
\* not get past the secrets.
Pinned ==
  /\ pe.pool # NoPool => Found(pe)
  /\ at \in PESteps \ {"resolve", "partition", "letters", "protect", "resync", "wipe",
                       "secrets", "error"} => pe.pool # NoPool

\* C: is empty when the launcher changes, and the launcher on D: is of the
\* system on C: from then on, if there is one.
LauncherFits ==
  /\ at \in {"launcher", "template", "apply", "applying"} => os.state # "ok"
  /\ at = "template" => dd.launcher = NoConf
  /\ at \in {"apply", "applying"} =>
       dd.launcher \in {NoConf, [rev |-> pe.rev, pool |-> pe.pool]}
  /\ os.state = "ok" => Found(os.conf) /\ dd.launcher \in {NoConf, os.conf}

\* The parameters and the registry are those of the system that runs.
ParamsFit ==
  /\ at = "os" => os.state = "ok"
  /\ \A x \in Launchers : Launched(x) \/ Running(x) => conf[x] = os.conf
RegistryFits ==
  /\ \A x \in Launchers :
       boot[x] \in {"clone", "puppet", "clean", "answers", "secrets", "mark"} => os.reg = os.conf
  /\ os.stage = "complete" => os.state = "ok" /\ os.reg = os.conf

IInv ==
  /\ TypeOK /\ Quiet /\ MutexHeld /\ PrepareAlone /\ AtMostOne
  /\ Cleaned /\ Pinned /\ LauncherFits /\ ParamsFit /\ RegistryFits
=============================================================================
