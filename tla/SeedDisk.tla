------------------------------ MODULE SeedDisk ------------------------------
(* The boot of a Linux worker whose image carries a Gecko seed: the service  *)
(* script gecko-seed-disks.sh, which puts the seed filesystem on the local   *)
(* SSDs through dm-clone (or on the boot disk when there are none), and      *)
(* gecko-seed-hydrate.sh, which copies it over in the background and then    *)
(* swaps the clone for a plain linear device.  Tasks write meanwhile, and    *)
(* the machine may reboot or lose power between any two steps.  dm-clone,    *)
(* LVM and ext4 are external: a region of the device stands for its content. *)
EXTENDS Naturals

CONSTANTS
  Regions,     \* the regions dm-clone tracks
  SeedRegions, \* those the seed filesystem uses; the rest is free space
  MaxPolls,    \* the polls of the hydration before it times out (180)
  MaxBoots     \* bound: boots of one machine

ASSUME SeedDiskAssumption ==
  /\ SeedRegions \subseteq Regions
  /\ {MaxPolls, MaxBoots} \subseteq Nat \ {0}

VARIABLES
  \* What a boot leaves to the next one.
  ssd,       \* whether the machine has local SSDs
  volumes,   \* the SSDs: 0 blank, 1 volume group, 2 metadata volume, 3 both
  metadata,  \* clone_metadata: "blank" (as the device came), "zero", "bitmap"
  bitmap,    \* the regions the metadata on disk calls hydrated
  dest,      \* dest[r]: what lv_instance_storage holds
  image,     \* image[r]: what /opt/gecko-home.ext4 holds
  kept,      \* the regions with a write that is certainly on disk
  cut,       \* history: the making of the volumes was once interrupted
  boots,     \* boots so far
  \* What is lost with a boot.
  pc,        \* where gecko-seed-disks.sh is
  hyd,       \* where gecko-seed-hydrate.sh is
  polls,     \* its attempt
  table,     \* the device under /mnt: "none", "clone", "linear" or "loop"
  loaded,    \* whether a linear table waits for the next resume
  suspended, \* whether the device is suspended
  hydrating, \* whether dm-clone copies regions in the background
  incore,    \* the regions dm-clone calls hydrated, on disk or not yet
  mounted,   \* whether /mnt is mounted
  bound,     \* whether /home is the one on /mnt
  used,      \* the regions the filesystem uses
  broken,    \* history: a command of the service failed in this boot
  stuck      \* history: so did the resume of the other script's trap

persistent == <<ssd, volumes, metadata, bitmap, dest, image, kept, cut, boots>>
device == <<table, loaded, suspended, hydrating, incore>>
volatile == <<pc, hyd, polls, device, mounted, bound, used, broken, stuck>>
vars == <<persistent, volatile>>

Contents == {"blank", "seed", "new"}

TypeOK ==
  /\ ssd \in BOOLEAN
  /\ volumes \in 0..3
  /\ metadata \in {"blank", "zero", "bitmap"}
  /\ bitmap \subseteq Regions
  /\ dest \in [Regions -> Contents]
  /\ image \in [Regions -> Contents]
  /\ kept \subseteq Regions
  /\ cut \in BOOLEAN
  /\ boots \in 1..MaxBoots
  /\ pc \in {"start", "lvmeta", "lvdata", "dd", "create", "mount", "hydrate",
             "home", "ok", "failed"}
  /\ hyd \in {"off", "trim", "enable", "poll", "suspend", "load", "resume",
              "detach", "done", "failed"}
  /\ polls \in 0..MaxPolls
  /\ table \in {"none", "clone", "linear", "loop"}
  /\ {loaded, suspended, hydrating, mounted, bound, broken, stuck} \subseteq BOOLEAN
  /\ incore \subseteq Regions
  /\ used \subseteq Regions

\* Everything a boot starts from but what is on the disks.
Boot ==
  /\ pc' = "start" /\ hyd' = "off" /\ polls' = 0
  /\ table' = "none" /\ incore' = {}
  /\ loaded' = FALSE /\ suspended' = FALSE /\ hydrating' = FALSE
  /\ mounted' = FALSE /\ bound' = FALSE /\ broken' = FALSE /\ stuck' = FALSE

Init ==
  /\ ssd \in BOOLEAN
  /\ volumes = 0 /\ metadata = "blank" /\ bitmap = {}
  /\ dest = [r \in Regions |-> "blank"]
  /\ image = [r \in Regions |-> IF r \in SeedRegions THEN "seed" ELSE "blank"]
  /\ kept = {} /\ cut = FALSE /\ boots = 1
  /\ pc = "start" /\ hyd = "off" /\ polls = 0
  /\ table = "none" /\ incore = {}
  /\ loaded = FALSE /\ suspended = FALSE /\ hydrating = FALSE
  /\ mounted = FALSE /\ bound = FALSE /\ broken = FALSE /\ stuck = FALSE
  /\ used = SeedRegions

---------------------------------------------------------------------------
(* gecko-seed-disks.sh                                                      *)

DisksUnchanged == UNCHANGED <<ssd, image, kept, cut, boots, hyd, polls, loaded,
                              suspended, hydrating, bound, used, broken, stuck>>

\* The service ran to its end in this boot, is inactive, and is wanted again.
Rerun ==
  /\ pc \in {"ok", "failed"}
  /\ pc' = "start"
  /\ UNCHANGED <<persistent, hyd, polls, device, mounted, bound, used, broken,
                 stuck>>

AlreadyMounted ==
  /\ pc = "start" /\ mounted
  /\ pc' = "ok"
  /\ UNCHANGED <<persistent, hyd, polls, device, mounted, bound, used, broken,
                 stuck>>

VgCreate ==
  /\ pc = "start" /\ ~mounted /\ ssd /\ volumes = 0
  /\ volumes' = 1
  /\ pc' = "lvmeta"
  /\ DisksUnchanged /\ UNCHANGED <<metadata, bitmap, dest, table, incore, mounted>>

LvCreateMetadata ==
  /\ pc = "lvmeta"
  /\ volumes' = 2
  /\ pc' = "lvdata"
  /\ DisksUnchanged /\ UNCHANGED <<metadata, bitmap, dest, table, incore, mounted>>

LvCreateStorage ==
  /\ pc = "lvdata"
  /\ volumes' = 3
  /\ pc' = "dd"
  /\ DisksUnchanged /\ UNCHANGED <<metadata, bitmap, dest, table, incore, mounted>>

ZeroMetadata ==
  /\ pc = "dd"
  /\ metadata' = "zero" /\ bitmap' = {}
  /\ pc' = "create"
  /\ DisksUnchanged /\ UNCHANGED <<volumes, dest, table, incore, mounted>>

\* Mutant: the metadata is zeroed at every boot.
ReuseVolumesZeroing ==
  /\ pc = "start" /\ ~mounted /\ ssd /\ volumes > 0
  /\ pc' = IF volumes = 3 THEN "dd" ELSE "create"
  /\ UNCHANGED <<persistent, hyd, polls, device, mounted, bound, used, broken,
                 stuck>>
\* The volume group is there, so an earlier boot made the volumes.
ReuseVolumes ==
  /\ pc = "start" /\ ~mounted /\ ssd /\ volumes > 0
  /\ pc' = "create"
  /\ UNCHANGED <<persistent, hyd, polls, device, mounted, bound, used, broken,
                 stuck>>

\* dmsetup create, and blockdev and losetup before it.  Zeroed metadata is
\* formatted with no region hydrated; metadata nobody zeroed is taken for
\* zeroed or refused.  A device that exists already is refused as well.
CreateClone ==
  /\ pc = "create" /\ table = "none" /\ volumes = 3
  /\ metadata' = "bitmap"
  /\ incore' = bitmap
  /\ table' = "clone"
  /\ pc' = "mount"
  /\ DisksUnchanged /\ UNCHANGED <<volumes, bitmap, dest, mounted>>

CreateFails ==
  /\ pc = "create"
  /\ table # "none" \/ volumes < 3 \/ metadata = "blank"
  /\ pc' = "failed"
  /\ UNCHANGED <<persistent, hyd, polls, device, mounted, bound, used, broken,
                 stuck>>

\* mount and resize2fs
MountClone ==
  /\ pc = "mount"
  /\ mounted' = TRUE
  /\ pc' = "hydrate"
  /\ DisksUnchanged /\ UNCHANGED <<volumes, metadata, bitmap, dest, table, incore>>

\* systemd-run: from here on the two scripts run side by side.
StartHydrate ==
  /\ pc = "hydrate"
  /\ hyd' = "trim"
  /\ pc' = "home"
  /\ UNCHANGED <<persistent, polls, device, mounted, bound, used, broken,
                 stuck>>

\* No SSD: the image itself, grown to the disk's free space, is mounted.
MountImage ==
  /\ pc = "start" /\ ~mounted /\ ~ssd
  /\ table' = "loop"
  /\ mounted' = TRUE
  /\ pc' = "home"
  /\ DisksUnchanged /\ UNCHANGED <<volumes, metadata, bitmap, dest, incore>>

\* cp -au /home, mount --bind, mkdir: they hang while the device is suspended.
BindHome ==
  /\ pc = "home" /\ ~suspended
  /\ bound' = TRUE
  /\ pc' = "ok"
  /\ UNCHANGED <<persistent, hyd, polls, device, mounted, used, broken, stuck>>

Making ==
  \/ pc \in {"lvmeta", "lvdata", "dd"}
  \/ pc = "create" /\ metadata # "bitmap"

\* set -e: any command may be the last one.
DisksFail ==
  /\ pc \notin {"ok", "failed"}
  /\ pc' = "failed"
  /\ broken' = TRUE
  /\ cut' = (cut \/ Making)
  /\ UNCHANGED <<ssd, volumes, metadata, bitmap, dest, image, kept, boots, hyd,
                 polls, device, mounted, bound, used, stuck>>

DisksScript ==
  \/ AlreadyMounted \/ VgCreate \/ LvCreateMetadata \/ LvCreateStorage
  \/ ZeroMetadata \/ ReuseVolumes \/ CreateClone \/ CreateFails
  \/ MountClone \/ StartHydrate \/ MountImage \/ BindHome

---------------------------------------------------------------------------
(* gecko-seed-hydrate.sh                                                    *)

SwapUnchanged == UNCHANGED <<ssd, volumes, metadata, image, kept, cut, boots, pc,
                             mounted, bound, used, broken>>
HydrateUnchanged == SwapUnchanged /\ UNCHANGED stuck

\* fstrim: the discard of free space marks it hydrated without a copy.
Trim ==
  /\ hyd = "trim"
  /\ incore' = incore \union (Regions \ used)
  /\ dest' = [r \in Regions |-> IF r \in used THEN dest[r] ELSE "blank"]
  /\ hyd' = "enable"
  /\ HydrateUnchanged
  /\ UNCHANGED <<bitmap, polls, table, loaded, suspended, hydrating>>

EnableHydration ==
  /\ hyd = "enable"
  /\ hydrating' = TRUE
  /\ hyd' = "poll"
  /\ HydrateUnchanged
  /\ UNCHANGED <<bitmap, dest, polls, table, loaded, suspended, incore>>

\* Mutant: the swap does not wait for the last region.
HydratedAny == incore # {}
Hydrated == incore = Regions

\* Mutant: the attempts are not counted.
PollForever ==
  /\ hyd = "poll" /\ ~Hydrated
  /\ HydrateUnchanged
  /\ UNCHANGED <<bitmap, dest, hyd, polls, device>>
PollAgain ==
  /\ hyd = "poll" /\ polls < MaxPolls /\ ~Hydrated
  /\ polls' = polls + 1
  /\ HydrateUnchanged
  /\ UNCHANGED <<bitmap, dest, hyd, device>>

PollTimeout ==
  /\ hyd = "poll" /\ polls = MaxPolls
  /\ hyd' = "failed"
  /\ HydrateUnchanged
  /\ UNCHANGED <<bitmap, dest, polls, device>>

PollComplete ==
  /\ hyd = "poll" /\ polls < MaxPolls /\ Hydrated
  /\ hyd' = "suspend"
  /\ HydrateUnchanged
  /\ UNCHANGED <<bitmap, dest, polls, device>>

\* Suspending waits for the copies in flight and commits the metadata.
Suspend ==
  /\ hyd = "suspend"
  /\ suspended' = TRUE
  /\ bitmap' = incore
  /\ hyd' = "load"
  /\ HydrateUnchanged
  /\ UNCHANGED <<dest, polls, table, loaded, hydrating, incore>>

LoadLinear ==
  /\ hyd = "load"
  /\ loaded' = TRUE
  /\ hyd' = "resume"
  /\ HydrateUnchanged
  /\ UNCHANGED <<bitmap, dest, polls, table, suspended, hydrating, incore>>

\* dmsetup resume: the table that is loaded, if one is, becomes the live one.
Resumes ==
  /\ suspended' = FALSE
  /\ loaded' = FALSE
  /\ table' = IF loaded THEN "linear" ELSE table
  /\ hydrating' = (hydrating /\ ~loaded)

Resume ==
  /\ hyd = "resume"
  /\ Resumes
  /\ hyd' = "detach"
  /\ HydrateUnchanged
  /\ UNCHANGED <<bitmap, dest, polls, incore>>

DetachSource ==
  /\ hyd = "detach"
  /\ hyd' = "done"
  /\ HydrateUnchanged
  /\ UNCHANGED <<bitmap, dest, polls, device>>

\* set -e, and the trap that resumes what was suspended -- unless the resume
\* fails as well (|| true), or the script is killed before it gets to it.
\* Mutant: no trap.
HydrateFailsUntrapped ==
  /\ hyd \notin {"off", "done", "failed"}
  /\ hyd' = "failed"
  /\ UNCHANGED <<device, stuck>>
  /\ SwapUnchanged
  /\ UNCHANGED <<bitmap, dest, polls, incore>>
HydrateFails ==
  /\ hyd \notin {"off", "done", "failed"}
  /\ hyd' = "failed"
  /\ \/ hyd \in {"load", "resume"} /\ Resumes /\ UNCHANGED stuck
     \/ /\ UNCHANGED <<suspended, loaded, table, hydrating>>
        /\ stuck' = (hyd \in {"load", "resume"})
  /\ SwapUnchanged
  /\ UNCHANGED <<bitmap, dest, polls, incore>>

HydrateScript ==
  \/ Trim \/ EnableHydration \/ PollAgain \/ PollTimeout \/ PollComplete
  \/ Suspend \/ LoadLinear \/ Resume \/ DetachSource

---------------------------------------------------------------------------
(* The kernel, the tasks and the power                                      *)

\* dm-clone copies one region in the background.
HydrateRegion(r) ==
  /\ hydrating /\ table = "clone" /\ ~suspended
  /\ r \notin incore
  /\ dest' = [dest EXCEPT ![r] = image[r]]
  /\ incore' = incore \union {r}
  /\ UNCHANGED <<ssd, volumes, metadata, bitmap, image, kept, cut, boots, pc,
                 hyd, polls, table, loaded, suspended, hydrating, mounted, bound,
                 used, broken, stuck>>

\* What a read of region r through /mnt returns.
Visible(r) ==
  CASE table = "loop"   -> image[r]
    [] table = "linear" -> dest[r]
    [] table = "clone"  -> IF r \in incore THEN dest[r] ELSE image[r]
    [] OTHER            -> "blank"

\* A task, a login or Docker writes; the clone's write goes to the SSD and
\* hydrates its region.
Write(r) ==
  /\ mounted /\ ~suspended
  /\ used' = used \union {r}
  /\ IF table = "loop"
        THEN image' = [image EXCEPT ![r] = "new"] /\ UNCHANGED <<dest, incore>>
        ELSE /\ dest' = [dest EXCEPT ![r] = "new"]
             /\ incore' = IF table = "clone" THEN incore \union {r} ELSE incore
             /\ UNCHANGED image
  /\ UNCHANGED <<ssd, volumes, metadata, bitmap, kept, cut, boots, pc, hyd,
                 polls, table, loaded, suspended, hydrating, mounted, bound, broken,
                 stuck>>

Written == {r \in used : Visible(r) = "new"}

\* The filesystem writes out.  What lands in a region that the clone's metadata
\* does not yet call hydrated would be read from the image after a power loss.
Flush ==
  /\ mounted /\ ~suspended
  /\ kept' = kept \union {r \in Written : table = "clone" => r \in bitmap}
  /\ UNCHANGED <<ssd, volumes, metadata, bitmap, dest, image, cut, boots, volatile>>

\* dm-clone commits its metadata by itself, after the data it speaks of.
Commit ==
  /\ table = "clone"
  /\ bitmap' = incore
  /\ UNCHANGED <<ssd, volumes, metadata, dest, image, kept, cut, boots, volatile>>

\* Shutting down writes everything out: it hangs on a suspended device until
\* the power goes.
CleanReboot ==
  /\ boots < MaxBoots /\ ~suspended
  /\ boots' = boots + 1
  /\ kept' = IF mounted THEN kept \union Written ELSE kept
  /\ bitmap' = IF table = "clone" THEN incore ELSE bitmap
  /\ cut' = (cut \/ Making)
  /\ Boot
  /\ UNCHANGED <<ssd, volumes, metadata, dest, image, used>>

\* Power is lost, or the kernel panics (errors=panic): a write that was not
\* certainly on disk may be there or not.
PowerLoss ==
  /\ boots < MaxBoots
  /\ boots' = boots + 1
  /\ \E lost \in SUBSET (Regions \ kept) :
        LET Reverted(disk) ==
              [r \in Regions |-> IF r \in lost /\ disk[r] = "new" /\ r \in SeedRegions
                                   THEN "seed" ELSE disk[r]]
        IN IF table = "loop"
             THEN image' = Reverted(image) /\ UNCHANGED dest
             ELSE dest' = Reverted(dest) /\ UNCHANGED image
  /\ used' = SeedRegions \union kept
  /\ cut' = (cut \/ Making)
  /\ Boot
  /\ metadata' \in {metadata} \union (IF metadata = "zero" THEN {"blank"} ELSE {})
  /\ UNCHANGED <<ssd, volumes, bitmap, kept>>

Next ==
  \/ DisksScript \/ DisksFail \/ Rerun
  \/ HydrateScript \/ HydrateFails
  \/ \E r \in Regions : HydrateRegion(r) \/ Write(r)
  \/ Flush \/ Commit \/ CleanReboot \/ PowerLoss

Spec == Init /\ [][Next]_vars

\* systemd runs the two scripts, and dm-clone's worker copies, to their end.
FairSpec ==
  /\ Spec
  /\ WF_vars(DisksScript)
  /\ WF_vars(HydrateScript)

---------------------------------------------------------------------------
\* gecko-seed-disks.sh and -hydrate.sh: what the filesystem uses is read as
\* the seed or as what was written, through every change of the device under
\* it, every reboot and every power loss, and never as what the SSD held.
NoJunkRead == mounted => \A r \in used : Visible(r) # "blank"

\* A write that reached the SSD is never undone by the copy of the seed: not
\* by the hydration, nor by the swap, nor by the clone of a later boot.
KeptIsRead == mounted => \A r \in kept : Visible(r) = "new"

\* The source image is dropped, and the device made linear, only when the
\* metadata a later boot reads no longer needs the image for any region.
LinearIsWhole ==
  table = "linear" \/ loaded => bitmap = Regions /\ incore = Regions

\* The service fails of a command of this boot, or because an earlier boot was
\* stopped while it made the volumes; a whole set of volumes is always taken up.
FailureIsExplained == pc = "failed" => broken \/ cut

\* And then for good: no later boot makes the volume that is missing.
HalfMade == volumes \in 1..2 /\ pc \notin {"lvmeta", "lvdata"}
HalfMadeStays == [][HalfMade => HalfMade' /\ ~mounted']_vars

\* A device suspended for the swap is live again, whatever fails in between:
\* tasks on /mnt hang for good only if the resume itself fails or is killed.
SuspensionEnds == suspended ~> ~suspended \/ stuck

\* The copy ends, in success or in its timeout.
HydrateEnds == hyd = "trim" ~> hyd \in {"off", "done", "failed"}

---------------------------------------------------------------------------
\* The regions that are read from the SSDs, or will be once /mnt is there.
FromSsd ==
  CASE table = "clone"  -> incore
    [] table = "linear" -> Regions
    [] OTHER            -> IF ssd THEN bitmap ELSE {}

Shown(r) == IF r \in FromSsd THEN dest[r] ELSE image[r]

Overlay == INSTANCE SeedOverlay WITH open <- mounted, content <- [r \in used |-> Shown(r)]

\* Whatever is below /mnt -- the clone at any point of its copy, the linear
\* device, the image -- and whatever fails or is interrupted, a task reads what
\* was last written, by itself or before, or else the seed; only a loss of power
\* takes back writes, and none that reached the disk.
ImplementsOverlay == Overlay!Spec
=============================================================================
