# A TLA+ verification of worker-images

worker-images builds the machine images that Mozilla's Taskcluster workers run,
tries each one out before it is promoted, and carries the scripts that set a
worker up when it boots.  Most of the repository is installation steps run once
in a build VM that is thrown away when one fails.  What is a concurrent or an
interruptible program, and is expensive and hard to test, is

- the code that *tries images out*: it has copies of mozilla-central test tasks
  created on staging machines, watches what becomes of them from a GitHub job
  with six hours to live, and turns what it saw into one red or green light;
- the code that *runs at a worker's boot*, where a reboot or a power loss can
  fall between any two commands and the disks remember.

The project models those two, what the first reports besides its light, and the
decisions that choose the tests, and proves properties of them.

## The system

| part | state | operations | what is hard | correct when |
|---|---|---|---|---|
| HW integration run, `ci/run-hw-os-integration.py` | one dict per pool: group id, last listing, blocked tasks, `done`, `timed_out`, verdict; a clock | pre-flight, trigger, discover, poll, find blocked, classify, exit | every request is answered at another moment; tasks are created, scheduled, cancelled and rerun between them; two clocks | a verdict is true when it is written, no failure is lost, the script ends before GitHub ends it |
| Cloud integration run, `ci/run-os-integration.py` | one group, a listing read page by page, a clock | discover, poll, exit | the queue moves between two pages | what it calls passed has passed; it ends in time |
| HW decision, `taskcluster/worker_images_taskgraph/transforms/hw_integration_test.py` | definitions fetched from one or more pushes | select, repair expired fetches, drop blocked copies, walk back over pushes | builds run and die and artifacts expire between its requests; ids of the pushlog are missing | it copies what was asked for, from the newest push that will do, and nothing that cannot run |
| HW pools, pre-flight and drift, `run-hw-os-integration.py` L72-620, `util/hw_pools.py` | `pools.yml` of the checkout and of each branch, two snapshots, a record per pool | resolve, snapshot, record, pre-flight, fire, snapshot again, compare | the file moves under the run; a branch cannot be read; workers are foreign or quarantined | all pools or none are fired at; a result is attributed to what was deployed; a change during the run is reported, and nothing else |
| HW scores, builds and baselines, L860-2150, `hw_baseline.py`, `hw_score_summary.py` | what was read of each task, caches of builds, frameworks and series | collect, describe, look up, compare, summarise, exit | every request may fail or raise, the first sample decides, caches last for the run | no number is lost, none is compared with another browser's, and none decides the light |
| Failure summaries, `failure_summary.py`, `alpha_failure_summary.py` | the failures found, the logs read | collect, quote, ask a model, write | four limits, one after the other; a request fails in the middle | every failure is listed, quoted or counted, whatever fails and whatever the model says |
| Cloud decision, `integration_test.py`, `optimize.py`, `util/fxci.py` | the worker manager's pools and their images, the copies, the revisions | read the pools, replicate, change the pool, restore the revision, optimise | pools and index move between its requests; two ways of comparing image names; a cache per process | a test is created exactly if a pool can try the image with it; the copies are of one revision |
| Linux disks and Gecko seed, `scripts/linux/common` | volume group, dm-clone and its metadata, a mount, a state file | boot service, background hydration, cache installation | a reboot or a power loss between any two steps, two scripts side by side, a device swapped under running tasks | nothing read is junk, nothing kept is lost, no task hangs for ever, the worker knows only caches that exist |
| MDC1 deployment, `provisioners/windows/MDC1Windows` | C: and its registry stage, D: with the cached image, scripts and secrets, a launcher, a mutex | partition, cache, apply, bootstrap over reboots, deploy again | power loss or a failed download between any two steps; two launchers of one bootstrap; D: outlives a deployment; nodes matched by name | the node gets its pool's configuration, is complete with no secret left, and is not deployed for ever |
| Baked WIM build, `provisioners/windows/win-hw-wim` | a build VM, a WIM, staged secrets | register, bake, capture, publish | the hand-over between the bake and the first boot | one VM at a time, no baked secret, the first boot does the rest |
| Packer templates, PowerShell modules, workflows, configuration, tests | none of their own | run once | | |

The parts meet in few places.  Both integration runs fire a Taskcluster *hook*,
whose *hook task* creates a *decision task* as the root of a new *task group*; the
decision creates the copies in that group, and the copies still depend on tasks of
mozilla-central.  The scripts see all of it through requests.  What the hardware run
fires at is decided by its pre-flight, what it says of a pool by the last listing,
and both summaries are written from that listing too.  The seed's boot service
leaves a mounted device to the hydration script, to `gecko_seed.py install` and to
the worker, which systemd starts in that order. `OS-deploy.ps1` leaves the MDC1
bootstrap a launcher on D:, an answer file on C: and the startup task that the baked
WIM brings along.

Every component is listed in `PROJECT.json`, with the reason when it is not
modelled, and every hazard at its line with the properties that watch it.

## Modules

| module | stands for |
|---|---|
| `TaskQueue` | Taskcluster, external: what hooks, task groups and upstream tasks may do, as the repository's clients have to expect it |
| `HwRun` | `main`, `find_task_group`, `monitor`, `wait_budget`, `refresh_run`, `find_blocked`, `tally`, `classify_run` of the hardware run, composed with `TaskQueue` |
| `HwRunProps` | what must be true of a hardware run |
| `HwVerdict` | its abstract specification: one end, one verdict per pool, each with a witness |
| `HwRunInv` | its inductive invariant |
| `CloudRun`, `CloudRunInv` | the cloud run composed with `TaskQueue`, its properties and its inductive invariant |
| `HwReplicate`, `HwReplicateInv` | the transform that chooses, repairs and drops the tests to copy onto a hardware pool, with the upstream tasks it asks about; its properties and its inductive invariant |
| `HwStaging`, `HwStagingInv` | what the hardware run knows of its pools: `util/hw_pools.py`, `preflight`, `snapshot_deployments`, `deployment_records`, `compare_deployments`, with `pools.yml` changing on its branches |
| `HwReport`, `HwReportInv` | what it makes of the results: `collect_scores`, `collect_builds`, `collect_baselines`, the comparison, `idle_note` and the exit code |
| `FailureSummary`, `FailureSummaryInv` | the failure summary of a hardware run and of an Azure alpha run |
| `CloudReplicate`, `CloudReplicateInv` | the transform that moves mozilla-central's tests to the alpha pools of an image, and the optimisation after it |
| `SeedOverlay` | what a task may take `/mnt` for: one disk that reads as the seed overlaid with what was written |
| `SeedDisk`, `SeedDiskInv` | `gecko-seed-disks.sh` and `gecko-seed-hydrate.sh` with the kernel, the tasks and the power |
| `SeedInstall`, `SeedInstallInv` | `gecko_seed.py install` in the order of its systemd units, with the worker, its tasks and the power |
| `NodeDeploy`, `NodeDeployInv` | one MDC1 machine: `OS-deploy.ps1` in WinPE, the first logon and the startup task, `Get-Bootstrap.ps1`, `bootstrap.ps1`, with power, pushes and operators |
| `MC...` | the instances TLC checks |
| `HwRunProofs`, `CloudProofs`, `HwReplicateProofs`, `HwStagingProofs`, `HwReportProofs`, `SeedDiskProofs`, `SeedInstallProofs`, `NodeDeployProofs` | the theorems; the first two begin with the same lemmas on `TaskQueue` |

`CloudProofs` is about three modules, `CloudRun`, `CloudReplicate` and
`FailureSummary`, and extends all of them; the names these would share (`Init`,
`Next`, `Spec`, `TypeOK`, `IInv`) begin with `Copy` in the second and with `Summary`
in the third.

An action is one request, one command or one stretch of code between two, with
the name of its function or command.  Nothing is read and used in the same step
when the code reads it in one request and uses it after another.

### `TaskQueue`

`hook[p]`, `task[p][x]` and `up[u]` are states of the queue's API; "cancelled"
is a task resolved without a run, which the API *reports* as `exception`
(`Reported`).  A hook may complete without a group and may fail after it made
one.  A decision creates its copies one by one, each depending on the decision
(so that a dying decision leaves nothing that can run) and on its upstreams,
which may die, be rerun, or wait on others.

### `HwRun`

`phase` is where `main` is, `at`, `todo`, `turn` and `scan` where a loop is.
`listed` is `run["tasks"]`, as the last answer gave it; `blocked`, `done`,
`timed_out` and `verdict` are the run's other keys.  `FindBlocked` looks at one
task at a time; each of its requests may fail and is then skipped.  A pool's
loop order is arbitrary, which covers the order of the command line.  Time
passes in sleeps only: requests are taken to be instantaneous against intervals
of 30 and 60 seconds and hours of waiting.  The pre-flight is one step with any
outcome here and `HwStaging`'s subject; so is `HwReport` what comes after the
verdicts.  Copies are not rerun; the queue stands still after the script ended,
because the properties are about what it then said.

### `CloudRun`

`pageOf` puts every task on a page of the listing, in any order and chosen at
the start; `ReadPage` is one request of `get_task_group_tasks`, and `had`
remembers what existed when a reading began.  The hook's log names the
decision's group, or no group but the hook task's own, which then is polled.

### `HwReplicate`

One decision for one pool, as the workflow fires one hook for each.  `source` is
the graph the tests come from (a push, or the curated cron graph), `tried` the
graphs taken so far, `cache` what `_repair_fetches` has read of each task, `plan`
the definitions it leaves and `copies` what is created.  A definition is the
task of each fetch and the dependencies; `Original`, `CopyIn` and `Candidates`
find a label's task in the source graph and in the graphs of
`fetch-repair-targets`.  `_artifact_expiries` is two requests, `ListArtifacts`
and, when that fails, `TaskState`, and any request may fail; the reads of one
repair come in any order.  A task supplies one fetched artifact, with one
expiry; a task that runs lists its artifacts without the one it has not uploaded
(external, as the queue is).  A push the index does not answer for is remembered
in `missed`; a decision whose routes cannot be read is one where no push
answers.  Which graphs can be read for a repair, and what
`latest.taskgraph.decision` points at, stay the same during the decision.  An
upstream that died is not rerun.

### `HwStaging`

`disk` is the checkout's `pools.yml`, `head[r]` that of branch `r`; `Lands` puts
another text on a branch between any two steps, and `had` remembers what a branch
has held.  A text is its entries in order, so that a name listed twice and an
entry without one are there, or one that does not parse (`sound`), or one without
pools.  A pool's entry is its machines, its `dev:` and one value for image,
source and versions; `bad` is the list of Known-BAD machines.  `FetchFirst` and
`FetchSecond` read one branch each: it is read, left out, or raises.
`Preflight(p)` is one answer of `listWorkers`: every machine is absent, free,
quarantined, or has a quarantine that is over (external); `alive`, `own` and
`told` remember what was true then and what the report says.  The wait is one
step that may end the script.  Notes on idle, missing and pending workers are
left out.

### `HwReport`

The last listing is fixed: a state, a last worker, a build and the original of every
task.  `Collect(t)` reads one blob, in any order of tasks; an entry is found by
`score_key`, its first sample says what it is and the others join. `Describe(p)`
asks for the builds not `known` yet by their task and artifact, with three answers
that fail each on its own.  `Perfherder(e)` is one entry's way through Treeherder's
list of frameworks (`ids`, read once or replaced by the built-in one), the list of
series (`tables`, kept when it was read) and one series; `Counterpart(e)` the other
kind of baseline.  `compare` multiplies both sides by the number of samples, so
means stay integers.  `Crash` is where nothing catches a broken connection.
`Platform` is a constant of a pool, where L1137 reads it of an entry's first task
(the copies of one pool have one platform), and `score_key` a pair, where the code
joins the two names with a space, which tells them apart as long as no application's
name has one.  Replicates, the spread shown beside a mean, links and layout are left
out.

### `FailureSummary`

One module for the two callers.  A log is the sequence of its lines; a line has a
PRIMARY or a SECONDARY marker or none, a number of characters (`Size`) and the last
200 of them (`Key`), by which `_dedupe` tells repetitions.  A text is a sequence of
lines each with as many of its characters as are in it, so that `Slice` cuts where
the code does, in characters and in the middle of a line.  `log_excerpt` keeps the
order of the code: unique failure lines cut in the middle by their number, the last
of the others, head and tail, and a cut in characters at the end of it all.  A line
counts with the character that ends it and the sections with one heading line each,
which is a character or two off the code's joins at an exact limit.
`Job` and `Group` are alpha's walk through jobs, their logs and the task groups
these name; a page that cannot be read loses its group.  The model's answer is any
set of the names it was given and one it made up, or nothing (external).  A list
comprehension is `Taken(s, S)`, the elements at the positions `S`, defined without
recursion so that it can be proved about.

### `CloudReplicate`

A worker type is the sequence of its parts, a pool a provisioner and a type, an
image a name with a normalised one.  `answer` is the first page of
`listWorkerPools`: per pool its launch configs, each with the keys that may name
an image (`ImageOf` takes the first).  The transforms are generators: the pools
are read before `replicate` copies anything, and every copy goes through
`ChangeWorkerPool`, `FetchRevisions` (once) and `RestoreRevision` before the next
is looked at.  `ReadPoolsAgain` is the optimisation's reading: taskgraph may load
a kind in a process of its own, so the cache of the transform may or may not serve
it (external).  `Rank` is the sorted order of the pools' names.  All `*_REV`
variables of one repository in one decision are one value, and `replicate` strips
them from every copy; the rewriting of scopes is left out.

### `SeedDisk`

The variables under "what a boot leaves to the next one" are on disk, the others
are lost.  A region of the device stands for its content: what the SSD held
before, the seed, or something written.  The filesystem writes
out in `Flush`, dm-clone its metadata in `Commit`, each in its own time: a write is
kept when both it and the metadata that says where it is are on disk (or after a
clean reboot); after a power loss any other write may be there or not.  A free
region is discarded by `Trim`.  Any command of either script may fail (`set
-e`), and systemd may start the service again in the same boot.  The trap that
resumes the device may fail as well (`|| true`), or the script be killed before it
runs: `stuck` remembers it.  Nothing is read, written or shut down on a suspended
device; it is left by a resume or a loss of power.  Sizes, the truncation of the
image, resizing and the freeing of regions are left out.

`SeedOverlay` is the disk a task sees.  It knows no device and no script: a region
reads as its last write at once, what was synced stays for ever, a reboot closes the
disk and syncs it, and a crash turns some of what was not synced back into the seed.
`Shown` maps a state of `SeedDisk` to it: what is read through `/mnt`, or would be if
the next boot's clone were there already.

### `SeedInstall`

`repo[n]` is a checkout in `seed_root`, in the caches or gone; `index[n]` is
whose ctime its index has; `state` is the worker's state file, on another file
system, so that `FlushHome` and `FlushState` make the two durable in their own
time.  `SsdLoss` is the machine coming back on other SSDs.  Each command of `install` may
fail (`CommandFails`), and so may git, which then takes its lock away or, killed,
leaves it, and the `chown` after it (`RefreshFails`); the boot then has no worker.
Three histories tell why an install failed: `broken`, a command of this boot did;
`torn`, git was once stopped with its lock in hand; `lost`, a boot came up with less
on its disks than the boot before had -- not the mere fact that power was lost.  A
write to a temporary file and its rename is one step, which happens or fails; a torn
state file is not modelled.

### `NodeDeploy`

`at` is where the machine is: off, dead (boot files without a system), in the
deployed system, or at a step of `OS-deploy.ps1`, whose variables are `pe`.  `dd`
is what D: holds and `os` what C: holds, each field on its own, because every
removal and copy can be the last before the power goes; a file that was being
written is torn.  `get` and `boot` are the two launchers and what each started;
`TaskStopped` ends the task and leaves its bootstrap running, as the job limit
of Task Scheduler does.  A revision stands for its `pools.yml` (`Text`), a
launcher for the revision and the pool written into it; `Matches` is PowerShell's
`-match` of the short name.  `Fault` is a request, copy, command or Puppet run
that fails, and what follows is what the code does then: throw, go on, or give up
without throwing.  Puppet is one step that needs the secrets.  `Prepare` fetches
`bootstrap.ps1` and makes the registry anew, `StartBootstrap` starts it, so that a
launcher can be stopped between the two; that PsExec starts and that its PowerShell
appears among the processes is one step.  `SetPXE` may leave the PsExec that runs on
D:, since `Remove-Item` goes on past a locked file.  Setup, names,
drivers and SSH are left out.

## What is checked

| run | instance | question |
|---|---|---|
| `hw_one_pool` | one pool, two copies, one behind a chain of two upstreams that are rerun; cancellation, failing requests; the job has run for 3 before the script starts, discovery takes up to 5 and then some, the wait of 14 is trimmed at 10, GitHub cancels at 13 | is a verdict true of what the queue did meanwhile, is no failure lost, does the wait end in its time, the script before GitHub ends it |
| `hw_two_pools` | two pools, one copy each; uncaught errors, a cancelled job | does the run implement `HwVerdict`; is what is given up as blocked really stuck; is a settled pool never timed out |
| `hw_staging` | five names, of which two are staging pools; the checkout is its branch's head or behind it; six texts of `pools.yml`, one of them broken and one empty; two changes | is nothing fired unless everything is fit, are records and reported changes true, is none missed |
| `hw_report` | two pools, four tasks; five blobs of two browsers, one without a number, one of a framework the built-in list lacks; six series; numbers exactly at, below and above the threshold | are all numbers kept and only like ones compared, is a warning right, is a tick earned |
| `failure_summary` | three hardware runs, three alpha attempts, two groups with a task that fails twice; sixteen logs, some with lines that are longer than their share of an excerpt; two quotations, excerpts of eight characters | is every failure listed, quoted or counted, does the list stand |
| `cloud_run` | two copies and the decision over two pages in every order; two attempts, a timeout of two intervals | is a listing torn between two requests good enough to judge by |
| `seed_disk` | three regions, two of them the seed's; three boots, two polls | is it one disk to a task, which loses nothing it kept, and what hangs, over every interruption and failing command |
| `seed_install` | two checkouts, three boots | does install pick up where it stopped or failed, with the one exception of a lock that git left, and leave a live worker alone |
| `cloud_replicate` | four tests (a base, a GPU, a builder of level 3, a Linux one without a kind), eight pools with the right, a wrong or an unreadable image; images asked for alone, two at once, none, or in another spelling; two decisions of which the second lacks a repository | are exactly the tests created that can try the image, are their revisions of one decision |
| `hw_replicate` | four pushes with a walk of two, scans of two ids for each; each earlier push unknown, idle, built or dead, the newest waiting, built or dead; a shared tool about to expire and a daily one that lives, or the reverse; a curated graph instead; three hours | can what is copied run and find its fetches, does the walk stop at the first push that will do |
| `node_deploy` | one machine, `nuc-1`, beside a `nuc-12`; two texts of `pools.yml`, of which the second moves the pool to a branch, a new image and new secrets; one push, one fault, one power loss, one deployment asked for by an operator | does only one bootstrap run, is a complete worker what `pools.yml` says with its secrets gone, does a machine get there when nothing fails and stop being deployed when no more does |
| `hw_timed_out_failure` | smallest instance | violated, see below |

### Bounds, and why they are enough

Two copies are the least that can be in different states when one is read; one
upstream can be dead, alive or late for either; two upstreams make a chain. The
pools share nothing but the clock and the exit code, so two of them show what one
can do to another.  The times are chosen so that every order of their sums occurs:
discovery shorter than, equal to and longer than its deadline, a wait that is and is
not trimmed, a deadline hit exactly and overshot.  Two pages are the least that can
be torn; with the decision on the first and on the second.  Three regions are one
the task writes, one nobody writes and one that is free; three boots allow an
interruption of a boot that itself repairs an interrupted one.  Two polls are one
that goes on and one that is the last.  Four pushes let a walk of two meet a gap, an
idle push and a dead one and still have one left; the hours let an artifact be
fresh, expire within the margin and be gone.  The five tests are one that is kept
everywhere by its mounted build, one that fetches from it too, and one for each
filter that can drop it.  Two changes of `pools.yml` are one before and one after
any reading, or two between; two pools share a branch, and one follows another.  Two
samples are the least that can disagree with the first one of their entry, three
speeds and one threshold put a mean on every side of it.  Logs of up to nine lines
are longer than every limit on its own and all of them together, and lines of one,
two and six characters shorter than, exactly and longer than their share of an
excerpt of eight.  One reconfiguration is one between the two readings of the pools,
two decisions one move of the index between any two copies.  One push of `pools.yml`
falls between any two reads of a deployment or between two deployments; one fault
and one loss can be of the same deployment or of one and the next, and the one an
operator asks for finds whatever they left. A failing Puppet run starts another
deployment by itself, within these bounds. The proofs below remove these bounds for
what they cover.

### Fairness

`HwRun` and `CloudRun` assume weak fairness of the script's own steps: the
interpreter goes on.  Nothing is assumed of the queue, so `Terminates` holds with
tasks that never move.  `SeedDisk` assumes weak fairness of each of the two scripts,
which systemd runs to their end, and none of dm-clone: hydration may never make
progress and the script still ends (`HydrateEnds`), and no task hangs in a suspended
device unless its resume failed (`SuspensionEnds`).  `SeedInstall` assumes that
systemd starts its units in order, and nothing of the commands that fail.
`NodeDeploy` assumes that each script goes on and that a machine that is off comes
back on; nothing of the operator, of pushes and of faults.

### Findings

- `hw_timed_out_failure`: a pool that outran the wait with a failed task in its
  listing is inconclusive, and the job green "because nothing failed".

Met while modelling, without a run of their own.

*The hardware run.*  `refresh_run` reads one answer of `listTaskGroup`; tasks, or
the decision, on a later page do not exist for it, though L820 polls "until all
are resolved" and the cloud run does follow the token (`OnePage` excludes this).
When no pool got a group the job is red (L2069), though red is said to mean that a
task ran and did not pass (L2151).  `find_blocked` looks at direct dependencies
only, so a task waiting on a task that waits on a dead one is waited for until the
timeout, which it is there to avoid (L727).  A task cancelled before it ran
is an `exception` and turns the hardware job red; a task given up as blocked can
run after all when its upstream is rerun; an empty group is green with a warning
although the head of the script calls it a failure; without the job's start time
the wait is not trimmed to the job.

*The cloud run.*  A hook whose decision
selects nothing is judged by its own group and green; a group finished in the
last reading after the timeout is red with a summary that says "Passed"; a task
created between two pages on a page already read is missed when the decision is
on a later one; tasks behind a dead upstream are waited for until the timeout.

*The hardware decision.*  When the build of the newest push died and the tests
fetch from it, its artifact counts as expired and `_repair_fetches` (L500) refuses
the pool before `_drop_blocked` can say that every test is blocked; that refusal
is not retried, so `blocked-walkback`, which `kind.yml` (L54) gives for this case,
does not apply.  The walk may reach further than `blocked-walkback`
pushes, since each fall-back starts a scan of its own with the limit reduced by
one only; a build that finishes between the listing and the question for its
state counts as expired; and a fetch is repaired in the cached definition, which
would matter to two pools of one decision that stage the same worker type.

*The cloud decision.*  The index is asked once for the tests and again for the
revisions; when it moves in between, the copies have the revisions of a decision
they are not copies of, against the docstring of `_fetch_gecko_revision_env`.  An
image asked for in another spelling than the pools' (`win11-64-25h2-alpha` in
`test/params`, `win11_64_25h2_alpha` in the pools) is matched by the transform and
then removed whole by the optimisation.  Of two images asked for at once, a test
goes to one pool only.  Only the first page of `listWorkerPools` is read, and an
Azure image with a hyphen in its name is none.

*Pools, pre-flight, drift.*  A quarantine whose date has passed still counts; an
active Known-BAD node of the pool itself is said to be "assigned elsewhere"; only
the first answer of `listWorkers` is read.  The docstring of `preflight` (L161)
skips a pool that is not fit, `main` stops for all.  The first snapshot is taken
before the pre-flight, so the report's "between triggering and results" is a
little wider.  A checkout behind its branch makes a record that is stale and no
drift; a change that is taken back is not seen; a broken `pools.yml` raises
through `fetch_registry`, which calls itself never fatal (L429, L439).

*Scores.*  An entry is one application and suite, and `setdefault` keeps the first
sample's options: a suite run with and without an extra option, as `kind.yml`
(L46-51) selects `speedometer3` and `speedometer3-no-nv`, is one average compared
with the series of whichever came first, though the docstring of `_signature`
(`hw_baseline.py`, L113) says that the two split alike.  `collect_scores` and
`collect_baselines` say "Never fatal" (L1105, L1246), but a connection error in
`fetch_perfherder` (L881) or a body that breaks off in `hw_baseline._get` ends the
script before its verdicts.  `idle_note` counts suites where it says tasks.  A
production mean of zero is shown as "+0.0%".  Once Treeherder could not be asked,
the built-in frameworks stand for the whole run.

*Failure summaries.*  A configuration that is not as expected, or a failing `gh`,
replaces the whole list by one line.  A row links to the last failure of its name.
A failure line repeated at the end does not count as the last one.  `MAX_PRIMARY` is
there because "the first failure and the last are both worth having" (L71), and the
final cut is said to keep the failure lines (L205), but they are not truncated and
the cut is at 24000 characters: fifty of them that are longer than 461 on average
lose the last one, and the excerpt then ends in "... excerpt truncated ...".
`FirstAndLastAreQuoted` says that nothing but such lines does this.

*MDC1 deployment.*  C: is formatted (L990) as soon as it is not empty, before the
WIM is looked for, against the comment (L1044) "so we never wipe C: then find no
WIM".  What is on D: is kept when the image and its sum are there (L910): a WIM torn
by a power loss beside its sum, or scripts and applications that were not copied
any more, stay so at every later deployment, which then ends in an error.
`Invoke-DownloadWithRetryGithub` falls out of its loop without throwing when the
retries are used up: the launcher is then empty, or `pools.yml` unread, in which
case D: is wiped before the missing secrets stop the script, also of a worker that
was complete.  A failing bootstrap says "retry on next boot" and nothing reboots.
`Set-PXE` wipes D: before it asks the firmware for a network boot that may not be
found.  The secrets are removed before `complete` is written, so that a power loss
in between costs another deployment.  A deployment interrupted before C: is
formatted leaves the old complete worker to boot with fresh secrets on D:, and one
interrupted between the format and `bcdboot` leaves a machine that needs an
operator.  The search of `pools.yml` goes on after its match (L728): the first
node of every later pool is matched too, and an earlier entry that contains the
name wins; no name in the repository's `pools.yml` is part of another entry.

*The boot scripts.*  A service that fails after the mount is a success when
started again in the same boot, with `/home` unbound.  A boot that is stopped while
it makes the volumes leaves a machine whose service fails at every later boot
(`HalfMadeIsForGood`): `vgcreate` is only run when there is no volume group.  When
the resume of the trap fails too, or the script is killed before it, `/mnt` stays
suspended until the power goes, and a shutdown hangs on it.  `install` does not
recover from a lock file that git left when it was stopped in the index refresh,
whether or not any data was lost (`LeftLockIsForGood`), nor from a state file that
outlived its SSDs.

## What is proved

For every value of the constants (sets of any size; only the tasks, and where it
says so the pools, are finite):

| theorem | states | assumes |
|---|---|---|
| `HwRunProofs!TypeCorrect` | `TypeOK` | |
| `HwRunProofs!Invariance`, `DoneIsResolved`, `PassSound`, `FailuresAreRed` | `IInv`, `DoneMeansResolved`, `PassIsSound`, `NoFailureIsLost` | `OnePage` |
| `HwRunProofs!BlockedStaysBlocked` | `BlockedNeverRuns` | `OnePage`, no reruns of upstreams |
| `HwRunProofs!SettledInTime` | `SettledIsNotTimedOut` | `OnePage`, `DepsWaitForNothing`, no failing request, no reruns of upstreams |
| `HwRunProofs!SummaryIsWritten` | `NeverCancelled` | finitely many pools, `JobIsLongEnough` |
| `HwRunProofs!WaitEnds`, `EndsOnce` | `WaitEndsInTime`; there is an exit code exactly when the run has ended | |
| `HwRunProofs!Refines` | `HwRun` implements `HwVerdict` | `OnePage` |
| `HwStagingProofs` | `TypeOK`, `IInv`, `AllOrNone`, `RecordWasTrue`, `DriftIsReal`, `DriftIsNotMissed` | |
| `HwReportProofs` | `TypeOK`, `IInv`, `EverySampleCounts`, `OneBrowserPerEntry`, `OneBuildOneName`, `TickIsEarned`, `WarnedIsSlower` | |
| `CloudProofs`, of `CloudRun` | `TypeOK`, `PassedIsTrue`, `PassedIsWhole`, `RedIsTrue`, `OnlyCompletedHooks`, `EndsInTime` | |
| `CloudProofs`, of `CloudReplicate` | `CopyIInv`, `OneRevision`, `TestedIffItCan` | |
| `CloudProofs`, of `FailureSummary` | `SummaryIInv`, `QuotedOrCounted`, `FirstAndLastAreQuoted`, `ListStands` | |
| `CloudProofs!FailuresAreListed` | `EveryFailureIsListed` | `JobsConclude` |
| `HwReplicateProofs` | `TypeOK`, `DecisionInv`, `WaitsOnWhatItNames`, `FetchesOutliveTheWait`, `NothingDoomed`, `FirstThatWillDo`, `LooksFarEnough`, `RunsOnlyTheChosen` | |
| `SeedDiskProofs` | `TypeOK`, `NoJunkRead`, `KeptIsRead`, `LinearIsWhole`, `FailureIsExplained`, `HalfMadeStays` | |
| `SeedDiskProofs!Refines` | `SeedDisk` implements `SeedOverlay` | |
| `SeedInstallProofs` | `RegisteredExists`, `InstallRecovers`, `NothingLeftBehind`, `LiveCachesUntouched`, `LeftLockHoldsUp` | |
| `NodeDeployProofs` | `TypeOK`, `IInv`, `OneBootstrap`, `SecretsGone` | |
| `NodeDeployProofs!ListedIsConfigured` | `ConfiguredAsListed` | `FindsItsOwn` |

`OnePage` says that a group fits in one answer of `listTaskGroup`, `FindsItsOwn`
that whatever the search of `pools.yml` may end with lists the machine by its own
name, `JobsConclude` that a job of GitHub Actions ends as a success, a failure,
cancelled, skipped or timed out: `collect` looks for two of these by name, and a
sixth would not be listed.  `MCNodeDeploy` and `MCFailureSummary` state the last two
as assumptions for TLC to evaluate.

`DepsWaitForNothing` says that no upstream of a copy waits on another task;
`find_blocked` looks one step only, and behind a longer chain a pool can be settled
and unseen, as told under the findings.  `JobIsLongEnough` is two inequalities of
the constants: the discovery of all pools, each with its timeout and one interval,
ends before the job's limit, and so does the wait with one interval after it.  With
the repository's numbers (1800 seconds and 10 for discovery, a ceiling of 20700, 300
between two looks, a job of 21600) it holds with a known start stamp for up to
eleven pools, if the steps before the script take less than 1690 seconds; without a
stamp the wait is not trimmed, and it holds only for a `--timeout` that leaves room
for both.  The instance of `hw_one_pool` meets it.  How long a request
takes is in neither the model nor the inequality.

Every type invariant, `OnlyCompletedHooks`, `EndsInTime`, `WaitsOnWhatItNames`,
`RunsOnlyTheChosen`, `OneBrowserPerEntry`, `LinearIsWhole`, `FailureIsExplained`,
`HalfMadeStays`, `NothingLeftBehind`, `LeftLockHoldsUp`, `DoneMeansResolved`,
`RedIsTrue`, `LooksFarEnough` and `OneBuildOneName` are proved and need no run.
Some properties carry a condition of their own: `PassedIsWhole` speaks of listings
with the decision on the first page, `WaitEndsInTime` of jobs whose start is known,
those of `SeedInstall` of machines that lost nothing below it (`~lost`: every boot
so far came up with what the one before had on its disks; a loss of power that takes
nothing back, or falls between a lock and its removal, is not excluded).

### Along which argument

*Hardware run.*  A verdict is computed from a listing that may be hours old.
Three facts keep it true: a resolved state never changes (`ListedIsTrue`); a
decision creates no task once it has resolved, so a listing that shows it
resolved misses none (`ListedIsWhole`, and here `OnePage` is needed); and a task
runs only after all it depends on completed (`ReadyBeforeRun`), so a dead
dependency seen before or after the listing means the same (`BlockedIsDead`).
`NobodyForgotten` says that a round through the open runs misses none.  The
refinement maps the queue's tasks, not the script's listing, to `HwVerdict`'s
witnesses, so that `Report` is a step of `Conclude` only because the invariant
says that what was read is true.

That GitHub does not cancel the job first (`SummaryIsWritten`) is an argument on the
clock alone.  `OnTime` says for every place in `main` how late it can be there: so
many pools looked at cost at most so many timeouts (`DiscoveryEnd`, which needs
that the pools are finite), and `WaitIsTrimmed` where the wait ends.
`SettledInTime` follows one pool through the last round: what is settled can only
stay so, so the listing of the last round shows every task resolved or blocked, and
`find_blocked`, if all its requests are answered, knows each of the blocked ones
(`SettledIsSeen`).

*Cloud run.*  A page is true of its moment (`ReadIsTrue`); every task that
existed when the reading began is listed once its page is read
(`HadIsListed`); and if the decision was completed on the first page nothing
appears afterwards (`NoneIsMissed`).

*Decision.*  A reading is older than the copies made from it.  It stands
(`ReadingsStand`): a live artifact outlives the hour of the repair by the
margin, and a task not built yet has either still to be built, or died, or has
an artifact younger than the repair.  The states read last leave out those that
died, and because a copy depends on all it fetches (`WaitsOnWhatItNames`) the
two together say that it can run.  The pushes tried descend from the newest
(`WalkDescends`), so those before the source count, with the refused ones, to
no more than `Walkback`: a push that near is always among the `Limit` newest
that the last scan found.

*Pools and drift.*  What a branch holds it has held (`HeadIsHad`), so a snapshot
is of texts the branch has had (`ReadingsTrue`), the records are made once from
the first snapshot and the checkout (`RecordsFit`) and the changes from the two
(`DriftFits`).  That no change is missed comes from comparing what was recorded
with what was compared.  `GateFits` carries the outcome of the pre-flight to the
hooks; the step that matters is that a worker which claims is seen as active or
said to be foreign.

*Report.*  A sample is filed under the key of its own blob (`Keyed`), which makes
an entry's first sample as good as any other for browser and suite, and leaves the
extra options out, as told above.  What a pool says of a build is what is
known of its task, and that never changes (`FromKnown`).  A comparison flags only
what is comparable (`AllSound`), and the rows and the warnings are computed from
the same comparisons (`RowsAreStatuses`).  For a warning to be right the sum of the
samples has to be what it is divided by: the sum is a fold over a finite set, and
that it does not depend on the order is proved by a least counterexample.

*Cloud decision.*  A copy goes to a pool its test was given (`CopiesArePlaced`), and
until the loop is over each test is still to come, in hand, copied or without a pool
(`NoneIsForgotten`).  If a pool could try the image, then the one that is chosen
matches by normalised names (`ChosenMatches`), hence by raw ones where names are
spelled alike, and the optimisation leaves it.  The revisions are one answer, read
before the first copy (`RevisionsAreRead`).

*Failure summaries.*  What was found is at any time the failed jobs visited and the
failing tasks of the groups listed (`FoundSoFar`), or all of a hardware run
(`HardwareIsCounted`); what was written is a list of all of it (`ListIsWhole`), and
what was asked is what would be asked now (`PromptIsBuilt`).  The rest is about
sequences: `Taken` gives as many elements as there are positions (`TakenIs`), in
order (`NthGrows`), so that the first and the last distinct failure line are the
ends of the list that `window` cuts in the middle.  A slice from the start of a text
keeps every line that ends before the cut (`SliceIs`, `StillBegins`), and as many
lines as `MaxPrimary`, their heading and the line between them end before it when
none is longer than its share (`FewAreShort`): so both ends are there
(`BothEndsAre`), or one of those lines is long.  A run's tasks are counted over
the flattened list of its pools (`FlattenIs`).

*Disks.*  dm-clone reads a region from the SSD when its bitmap says so and from the
image otherwise; the invariant is that either holds the seed or a write wherever the
filesystem has something (`DeviceIsSound`), and that the same is true of the bitmap
on disk, which the next boot starts from (`DiskIsSound`). `FreshDisks` covers the
making of the volumes, and tells a half-made set by the boot that was stopped in it;
`ScriptsFit` ties the two scripts to the device.  In the refinement every step of
the two scripts and of dm-clone is a stutter of `SeedOverlay`, or its `Open`: the
two invariants say for each of them that `Shown` is as before, on the device and,
when the machine goes down, on the disks.  A write, a flush, a reboot and a loss of
power are the four other steps; of the last, `PowerLossShows` tells region by region
what was lost.  `NoJunkRead` follows from the refinement, whose regions read as the
seed or a write, and has no run of its own.

*Installation.*  What install has gathered, has in hand and has yet to visit is
every name (`LoopIsWhole`); the state file is written last (`StateIsTrue`).  A lock is
held by the refresh that runs or was left by one that stopped (`LocksAreHeld`), so
that a lock on the checkout in hand is the only thing an earlier boot leaves that
ends install, short of a loss; and since only a refresh
takes a lock away, and none is reached while there is one, it does so for good.

*Deployment.*  The mutex alone does not make one bootstrap, since what a stopped
launcher started goes on without it: who is past the mutex owns it (`MutexHeld`),
and who is past the look at the processes finds none until it starts its own
(`PrepareAlone`), because between the two nobody else can start one.  So
Remove-ProvisioningSecrets meets no other script that brings secrets back
(`Cleaned`).  What `OS-deploy.ps1` pins it found at one revision (`Pinned`); C: is
formatted before the launcher on D: changes and made a system after, so that the
launcher is of the system whatever step is the last before the power goes
(`LauncherFits`), and with it the parameters (`ParamsFit`) and the registry
(`RegistryFits`).  The lemma on the search (`SearchFinds`) needs that the texts
name the machine: `Min` and `Max` of the hits exist.

### Only model-checked

All liveness: `Terminates`, `SuspensionEnds`, `HydrateEnds`, `WorkerStarts`,
`UndisturbedCompletes`, `NoImageLoop`, which is out of the prover's reach.  Of the
checked safety properties each has a theorem, `SettledIsNotTimedOut` one without
chains of upstreams and reruns only.  The library's
induction theorems take an operator as a parameter, which the provers cannot
instantiate; where an induction over data was needed (the sum of an entry's samples,
the flattening of a run's lists, the n-th of some numbers) it is a least
counterexample among the natural numbers (`LeastOf`), from
`NatLessThanWellFounded`.

## Not modelled

- The setup-media path of `OS-deploy.ps1`, machines with two disks, machines that
  `pools.yml` does not list, the checks of empty parameters: the baked image on one
  disk is the path the pools take.
- The baked WIM's build: what it does between two reboots is a long sequence of
  vendor commands whose failures the scripts mostly do not look at.  What it leaves
  for the first boot is in `NodeDeploy`.  The stress tests and utilities of MDC1
  are run by hand.
- `ci/test-gecko-seed.py`, which boots images by hand to try the seed out.
- The layout of both summaries, the tables, the links and the prompt's wording.
- Straight-line installation scripts, Packer templates, PowerShell modules,
  declarative workflows, image definitions, tests: run once, in a VM that is
  thrown away, or data.

## Plan

1. `WimBake`: the build VM's life cycle and its secrets, handing over to
   `NodeDeploy`; the setup-media path as a second kind of image.
2. Theorems: `SettledIsNotTimedOut` with chains of upstreams, for the pools whose
   chains `find_blocked` does see through.

The hazards without a property, and the limits of those with one, are in
`PROJECT.json`.
