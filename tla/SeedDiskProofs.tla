--------------------------- MODULE SeedDiskProofs ---------------------------
(* Theorems of SeedDisk, for every set of regions and any number of polls    *)
(* and boots: whatever is interrupted, lost or fails, what is read from the  *)
(* disk under /mnt is the seed or what was written.                          *)
EXTENDS SeedDiskInv, TLAPS

\* What the constants are assumed to be, in the form the proofs cite.
LEMMA Bounds == MaxPolls \in Nat \ {0} /\ MaxBoots \in Nat \ {0} /\ SeedRegions \subseteq Regions
  BY SeedDiskAssumption

USE Bounds

\* Nothing is mounted yet, and the image holds the seed.
LEMMA InitInv == ASSUME Init PROVE IInv
<1>1. TypeOK
  <2>1. bitmap \subseteq Regions /\ kept \subseteq Regions /\ incore \subseteq Regions
        /\ used \subseteq Regions
    BY DEF Init
  <2>2. {loaded, suspended, hydrating, mounted, bound, broken, stuck} \subseteq BOOLEAN
    BY DEF Init
  <2>3. dest \in [Regions -> Contents] /\ image \in [Regions -> Contents]
    BY DEF Init, Contents
  <2>4. boots \in 1..MaxBoots /\ polls \in 0..MaxPolls /\ volumes \in 0..3
    BY DEF Init
  <2> QED
    BY <2>1, <2>2, <2>3, <2>4 DEF Init, TypeOK
<1>2. ScriptsFit /\ FreshDisks
  BY DEF Init, ScriptsFit, FreshDisks, Hydrating
<1>3. ImageIsSeed
  BY DEF Init, ImageIsSeed
<1>4. DiskIsSound /\ DeviceIsSound /\ FailureIsExplained
  BY DEF Init, DiskIsSound, DeviceIsSound, FailureIsExplained
<1> QED
  BY <1>1, <1>2, <1>3, <1>4 DEF IInv

\* The metadata is zeroed only on volumes nothing was ever kept on.
LEMMA ZeroMetadataInv ==
  ASSUME IInv, ZeroMetadata  PROVE IInv'
<1> USE DEF ZeroMetadata, DisksUnchanged
<1>1. TypeOK'
  <2>1. bitmap' \subseteq Regions /\ kept' \subseteq Regions /\ incore' \subseteq Regions
        /\ used' \subseteq Regions
    BY DEF IInv, TypeOK
  <2>2. {loaded', suspended', hydrating', mounted', bound', broken', stuck'} \subseteq BOOLEAN
    BY DEF IInv, TypeOK
  <2>3. dest' \in [Regions -> Contents] /\ image' \in [Regions -> Contents]
    BY DEF IInv, TypeOK, Contents
  <2>4. boots' \in 1..MaxBoots /\ polls' \in 0..MaxPolls /\ volumes' \in 0..3
    BY DEF IInv, TypeOK
  <2> QED
    BY <2>1, <2>2, <2>3, <2>4 DEF IInv, TypeOK
<1>2. kept = {} /\ ~mounted /\ table = "none"
  BY DEF IInv, ScriptsFit, FreshDisks
<1>3. ScriptsFit' /\ FreshDisks'
  BY <1>2 DEF IInv, TypeOK, ScriptsFit, FreshDisks, Hydrating, Making
<1>4. ImageIsSeed'
  BY DEF IInv, ImageIsSeed
<1>5. DiskIsSound'
  BY <1>2 DEF IInv, DiskIsSound
<1>6. DeviceIsSound' /\ FailureIsExplained'
  BY <1>2 DEF IInv, DeviceIsSound, FailureIsExplained
<1> QED
  BY <1>1, <1>3, <1>4, <1>5, <1>6 DEF IInv

\* What is read now is what is flushed, so the next boot finds it.
LEMMA CleanRebootInv ==
  ASSUME IInv, CleanReboot  PROVE IInv'
<1> USE DEF CleanReboot, Boot
<1>0. kept \subseteq kept' /\ kept' \subseteq used /\ (mounted => Written \subseteq kept')
      /\ kept' \subseteq kept \union Written
  BY DEF IInv, DiskIsSound, Written
<1>1. TypeOK'
  <2>1. bitmap' \subseteq Regions /\ kept' \subseteq Regions /\ incore' \subseteq Regions
        /\ used' \subseteq Regions
    BY <1>0 DEF IInv, TypeOK
  <2>2. {loaded', suspended', hydrating', mounted', bound', broken', stuck'} \subseteq BOOLEAN
    BY DEF IInv, TypeOK
  <2>3. dest' \in [Regions -> Contents] /\ image' \in [Regions -> Contents]
    BY DEF IInv, TypeOK, Contents
  <2>4. boots' \in 1..MaxBoots /\ polls' \in 0..MaxPolls /\ volumes' \in 0..3
    BY DEF IInv, TypeOK
  <2> QED
    BY <2>1, <2>2, <2>3, <2>4 DEF IInv, TypeOK
<1>2. ScriptsFit'
  BY DEF IInv, TypeOK, ScriptsFit, Hydrating
<1>3. FreshDisks'
  BY DEF IInv, TypeOK, ScriptsFit, FreshDisks, Hydrating, Making
<1>4. ImageIsSeed'
  BY DEF IInv, ImageIsSeed
<1>5. DiskIsSound'
  <2>1. ssd /\ mounted => \A r \in Written : r \in bitmap' /\ dest[r] = "new"
    BY DEF IInv, TypeOK, ScriptsFit, ImageIsSeed, DiskIsSound, DeviceIsSound, Written, Visible
  <2>2. ~ssd /\ mounted => \A r \in Written : image[r] = "new"
    BY DEF IInv, TypeOK, ScriptsFit, Written, Visible
  <2>3. bitmap \subseteq bitmap'
    BY DEF IInv, TypeOK, DeviceIsSound
  <2>4. ssd => \A r \in bitmap' \intersect SeedRegions : dest[r] # "blank"
    BY DEF IInv, DiskIsSound, DeviceIsSound
  <2>5. mounted => used \subseteq SeedRegions \union Written
    <3>1. ASSUME mounted, NEW r \in used \ SeedRegions  PROVE Visible(r) = "new"
      BY <3>1 DEF IInv, TypeOK, Contents, ScriptsFit, ImageIsSeed, DeviceIsSound, Visible
    <3> QED
      BY <3>1 DEF Written
  <2> QED
    BY <1>0, <2>1, <2>2, <2>3, <2>4, <2>5 DEF IInv, TypeOK, DiskIsSound
<1>6. DeviceIsSound' /\ FailureIsExplained'
  BY DEF DeviceIsSound, FailureIsExplained
<1> QED
  BY <1>1, <1>2, <1>3, <1>4, <1>5, <1>6 DEF IInv

\* Only what was not kept can revert, and it reverts to the seed.
LEMMA PowerLossInv ==
  ASSUME IInv, PowerLoss  PROVE IInv'
<1> USE DEF PowerLoss, Boot
<1>1. TypeOK'
  <2>1. bitmap' \subseteq Regions /\ kept' \subseteq Regions /\ incore' \subseteq Regions
        /\ used' \subseteq Regions
    BY DEF IInv, TypeOK
  <2>2. {loaded', suspended', hydrating', mounted', bound', broken', stuck'} \subseteq BOOLEAN
    BY DEF IInv, TypeOK
  <2>3. dest' \in [Regions -> Contents] /\ image' \in [Regions -> Contents]
    BY DEF IInv, TypeOK, Contents
  <2>4. boots' \in 1..MaxBoots /\ polls' \in 0..MaxPolls /\ volumes' \in 0..3
    BY DEF IInv, TypeOK
  <2> QED
    BY <2>1, <2>2, <2>3, <2>4 DEF IInv, TypeOK
<1>2. ScriptsFit'
  BY DEF IInv, TypeOK, ScriptsFit, Hydrating
<1>3. FreshDisks'
  BY DEF IInv, TypeOK, ScriptsFit, FreshDisks, Hydrating, Making
<1>4. ImageIsSeed'
  BY DEF IInv, TypeOK, ScriptsFit, ImageIsSeed
<1>5. DiskIsSound'
  BY DEF IInv, TypeOK, ScriptsFit, DiskIsSound
<1>6. DeviceIsSound' /\ FailureIsExplained'
  BY DEF DeviceIsSound, FailureIsExplained
<1> QED
  BY <1>1, <1>2, <1>3, <1>4, <1>5, <1>6 DEF IInv

\* A second start in a boot begins over with everything else as it was.
LEMMA RerunInv ==
  ASSUME IInv, Rerun  PROVE IInv'
  BY DEF Rerun, persistent, device, IInv, TypeOK, ScriptsFit, FreshDisks,
         ImageIsSeed, DiskIsSound, DeviceIsSound, FailureIsExplained, Making,
         Hydrating, Contents

\* A mounted /mnt ends the service with nothing changed.
LEMMA AlreadyMountedInv ==
  ASSUME IInv, AlreadyMounted  PROVE IInv'
  BY DEF AlreadyMounted, persistent, device, IInv, TypeOK, ScriptsFit,
         FreshDisks, ImageIsSeed, DiskIsSound, DeviceIsSound,
         FailureIsExplained, Making, Hydrating, Contents

\* A new volume group holds nothing that was kept.
LEMMA VgCreateInv ==
  ASSUME IInv, VgCreate  PROVE IInv'
  BY DEF VgCreate, DisksUnchanged, IInv, TypeOK, ScriptsFit, FreshDisks,
         ImageIsSeed, DiskIsSound, DeviceIsSound, FailureIsExplained, Making,
         Hydrating, Contents

\* The metadata volume is made before anything uses it.
LEMMA LvCreateMetadataInv ==
  ASSUME IInv, LvCreateMetadata  PROVE IInv'
  BY DEF LvCreateMetadata, DisksUnchanged, IInv, TypeOK, ScriptsFit,
         FreshDisks, ImageIsSeed, DiskIsSound, DeviceIsSound,
         FailureIsExplained, Making, Hydrating, Contents

\* The storage volume is made before anything uses it.
LEMMA LvCreateStorageInv ==
  ASSUME IInv, LvCreateStorage  PROVE IInv'
  BY DEF LvCreateStorage, DisksUnchanged, IInv, TypeOK, ScriptsFit, FreshDisks,
         ImageIsSeed, DiskIsSound, DeviceIsSound, FailureIsExplained, Making,
         Hydrating, Contents

\* Volumes of an earlier boot are taken as they are.
LEMMA ReuseVolumesInv ==
  ASSUME IInv, ReuseVolumes  PROVE IInv'
  BY DEF ReuseVolumes, persistent, device, IInv, TypeOK, ScriptsFit,
         FreshDisks, ImageIsSeed, DiskIsSound, DeviceIsSound,
         FailureIsExplained, Making, Hydrating, Contents

\* The clone starts from the regions the metadata calls hydrated.
LEMMA CreateCloneInv ==
  ASSUME IInv, CreateClone  PROVE IInv'
  BY DEF CreateClone, DisksUnchanged, IInv, TypeOK, ScriptsFit, FreshDisks,
         ImageIsSeed, DiskIsSound, DeviceIsSound, FailureIsExplained, Making,
         Hydrating, Contents

\* A device that could not be made leaves the disks as they were.
LEMMA CreateFailsInv ==
  ASSUME IInv, CreateFails  PROVE IInv'
  BY DEF CreateFails, persistent, device, IInv, TypeOK, ScriptsFit, FreshDisks,
         ImageIsSeed, DiskIsSound, DeviceIsSound, FailureIsExplained, Making,
         Hydrating, Contents

\* What the clone shows is what was kept or the seed.
LEMMA MountCloneInv ==
  ASSUME IInv, MountClone  PROVE IInv'
  BY DEF MountClone, DisksUnchanged, IInv, TypeOK, ScriptsFit, FreshDisks,
         ImageIsSeed, DiskIsSound, DeviceIsSound, FailureIsExplained, Making,
         Hydrating, Contents

\* The hydration starts beside the service with the device live.
LEMMA StartHydrateInv ==
  ASSUME IInv, StartHydrate  PROVE IInv'
  BY DEF StartHydrate, persistent, device, IInv, TypeOK, ScriptsFit,
         FreshDisks, ImageIsSeed, DiskIsSound, DeviceIsSound,
         FailureIsExplained, Making, Hydrating, Contents

\* Without SSDs the image itself is read and written.
LEMMA MountImageInv ==
  ASSUME IInv, MountImage  PROVE IInv'
  BY DEF MountImage, DisksUnchanged, IInv, TypeOK, ScriptsFit, FreshDisks,
         ImageIsSeed, DiskIsSound, DeviceIsSound, FailureIsExplained, Making,
         Hydrating, Contents

\* The bind mount changes nothing below it.
LEMMA BindHomeInv ==
  ASSUME IInv, BindHome  PROVE IInv'
  BY DEF BindHome, persistent, device, IInv, TypeOK, ScriptsFit, FreshDisks,
         ImageIsSeed, DiskIsSound, DeviceIsSound, FailureIsExplained, Making,
         Hydrating, Contents

\* A command that fails leaves the device as it was.
LEMMA DisksFailInv ==
  ASSUME IInv, DisksFail  PROVE IInv'
  BY DEF DisksFail, persistent, device, IInv, TypeOK, ScriptsFit, FreshDisks,
         ImageIsSeed, DiskIsSound, DeviceIsSound, FailureIsExplained, Making,
         Hydrating, Contents

\* Only free space is marked hydrated without a copy.
LEMMA TrimInv ==
  ASSUME IInv, Trim  PROVE IInv'
  BY DEF Trim, HydrateUnchanged, SwapUnchanged, IInv, TypeOK, ScriptsFit,
         FreshDisks, ImageIsSeed, DiskIsSound, DeviceIsSound,
         FailureIsExplained, Making, Hydrating, Contents

\* Enabling the copy changes no region.
LEMMA EnableHydrationInv ==
  ASSUME IInv, EnableHydration  PROVE IInv'
  BY DEF EnableHydration, HydrateUnchanged, SwapUnchanged, IInv, TypeOK,
         ScriptsFit, FreshDisks, ImageIsSeed, DiskIsSound, DeviceIsSound,
         FailureIsExplained, Making, Hydrating, Contents

\* A poll only reads, and there are at most MaxPolls.
LEMMA PollAgainInv ==
  ASSUME IInv, PollAgain  PROVE IInv'
  BY DEF PollAgain, device, HydrateUnchanged, SwapUnchanged, Hydrated, IInv,
         TypeOK, ScriptsFit, FreshDisks, ImageIsSeed, DiskIsSound,
         DeviceIsSound, FailureIsExplained, Making, Hydrating, Contents

\* The timeout leaves the clone in place.
LEMMA PollTimeoutInv ==
  ASSUME IInv, PollTimeout  PROVE IInv'
  BY DEF PollTimeout, device, HydrateUnchanged, SwapUnchanged, IInv, TypeOK,
         ScriptsFit, FreshDisks, ImageIsSeed, DiskIsSound, DeviceIsSound,
         FailureIsExplained, Making, Hydrating, Contents

\* The loop is left for the swap only with every region hydrated.
LEMMA PollCompleteInv ==
  ASSUME IInv, PollComplete  PROVE IInv'
  BY DEF PollComplete, device, HydrateUnchanged, SwapUnchanged, Hydrated, IInv,
         TypeOK, ScriptsFit, FreshDisks, ImageIsSeed, DiskIsSound,
         DeviceIsSound, FailureIsExplained, Making, Hydrating, Contents

\* Suspending commits what dm-clone knows, and all is hydrated by then.
LEMMA SuspendInv ==
  ASSUME IInv, Suspend  PROVE IInv'
  BY DEF Suspend, HydrateUnchanged, SwapUnchanged, IInv, TypeOK, ScriptsFit,
         FreshDisks, ImageIsSeed, DiskIsSound, DeviceIsSound,
         FailureIsExplained, Making, Hydrating, Contents

\* The linear table is loaded inside the suspended window.
LEMMA LoadLinearInv ==
  ASSUME IInv, LoadLinear  PROVE IInv'
  BY DEF LoadLinear, HydrateUnchanged, SwapUnchanged, IInv, TypeOK, ScriptsFit,
         FreshDisks, ImageIsSeed, DiskIsSound, DeviceIsSound,
         FailureIsExplained, Making, Hydrating, Contents

\* The table that is loaded goes live, and by then it needs no image.
LEMMA ResumeInv ==
  ASSUME IInv, Resume  PROVE IInv'
  BY DEF Resume, HydrateUnchanged, SwapUnchanged, Resumes, IInv, TypeOK,
         ScriptsFit, FreshDisks, ImageIsSeed, DiskIsSound, DeviceIsSound,
         FailureIsExplained, Making, Hydrating, Contents

\* The image is dropped from a device that no longer reads it.
LEMMA DetachSourceInv ==
  ASSUME IInv, DetachSource  PROVE IInv'
  BY DEF DetachSource, device, HydrateUnchanged, SwapUnchanged, IInv, TypeOK,
         ScriptsFit, FreshDisks, ImageIsSeed, DiskIsSound, DeviceIsSound,
         FailureIsExplained, Making, Hydrating, Contents

\* The trap resumes the device, whichever table is loaded; if it cannot, the
\* device stays suspended and its metadata whole.
LEMMA HydrateFailsInv ==
  ASSUME IInv, HydrateFails  PROVE IInv'
<1>0. UNCHANGED <<persistent, pc, polls, incore, mounted, bound, used, broken>>
  BY DEF HydrateFails, SwapUnchanged, persistent
<1>1. TypeOK'
  <2>1. stuck' \in BOOLEAN
    <3>1. stuck \in BOOLEAN
      BY DEF IInv, TypeOK
    <3>2. UNCHANGED stuck \/ stuck' = (hyd \in {"load", "resume"})
      BY DEF HydrateFails
    <3>3. (hyd \in {"load", "resume"}) \in BOOLEAN
      OBVIOUS
    <3> QED
      BY <3>1, <3>2, <3>3, Zenon
  <2>2. {loaded', suspended', hydrating'} \subseteq BOOLEAN /\ hyd' = "failed"
    BY DEF HydrateFails, Resumes, IInv, TypeOK
  <2>3. table' \in {"none", "clone", "linear", "loop"} /\ UNCHANGED <<bitmap, dest, image>>
    BY DEF HydrateFails, Resumes, SwapUnchanged, IInv, TypeOK
  <2> QED
    BY <1>0, <2>1, <2>2, <2>3 DEF IInv, TypeOK, persistent
<1>2. ScriptsFit'
  <2>1. CASE hyd \in {"load", "resume"} /\ Resumes /\ UNCHANGED stuck
    BY <1>0, <2>1 DEF HydrateFails, Resumes, IInv, TypeOK, persistent, ScriptsFit, Hydrating
  <2>2. CASE UNCHANGED <<suspended, loaded, table, hydrating>> /\ stuck' = (hyd \in {"load", "resume"})
    <3>1. hyd # "failed"
      BY DEF HydrateFails
    <3>2. ~suspended \/ stuck'
      BY <2>2, <3>1 DEF IInv, ScriptsFit
    <3>3. hyd' = "failed" /\ hyd # "off"
      BY DEF HydrateFails
    <3> QED
      BY <1>0, <2>2, <3>2, <3>3 DEF IInv, persistent, ScriptsFit, Hydrating
  <2> QED
    BY <2>1, <2>2 DEF HydrateFails
<1>3. FreshDisks' /\ ImageIsSeed' /\ DiskIsSound' /\ FailureIsExplained'
  BY <1>0 DEF HydrateFails, Resumes, IInv, TypeOK, persistent, ScriptsFit, FreshDisks,
     ImageIsSeed, DiskIsSound, FailureIsExplained, Making, Hydrating
<1>4. DeviceIsSound'
  BY <1>0 DEF HydrateFails, Resumes, IInv, TypeOK, persistent, ScriptsFit, DeviceIsSound,
     Hydrating, Contents
<1> QED
  BY <1>1, <1>2, <1>3, <1>4 DEF IInv

\* What is written out is what is visible, and the metadata says where.
LEMMA FlushInv ==
  ASSUME IInv, Flush  PROVE IInv'
  BY DEF Flush, volatile, device, Written, Visible, IInv, TypeOK, ScriptsFit,
         FreshDisks, ImageIsSeed, DiskIsSound, DeviceIsSound,
         FailureIsExplained, Making, Hydrating, Contents

\* The metadata that is committed is of regions whose data is there.
LEMMA CommitInv ==
  ASSUME IInv, Commit  PROVE IInv'
  BY DEF Commit, volatile, device, IInv, TypeOK, ScriptsFit, FreshDisks,
         ImageIsSeed, DiskIsSound, DeviceIsSound, FailureIsExplained, Making,
         Hydrating, Contents

\* A copy never lands on a region that was written.
LEMMA HydrateRegionInv ==
  ASSUME IInv, NEW r \in Regions, HydrateRegion(r)  PROVE IInv'
  BY DEF HydrateRegion, IInv, TypeOK, ScriptsFit, FreshDisks, ImageIsSeed,
         DiskIsSound, DeviceIsSound, FailureIsExplained, Making, Hydrating,
         Contents

\* A write hydrates its region, so no later copy undoes it.
LEMMA WriteInv ==
  ASSUME IInv, NEW r \in Regions, Write(r)  PROVE IInv'
  BY DEF Write, IInv, TypeOK, ScriptsFit, FreshDisks, ImageIsSeed, DiskIsSound,
         DeviceIsSound, FailureIsExplained, Making, Hydrating, Contents

\* A step that changes nothing keeps the invariant.
LEMMA StutterInv == ASSUME IInv, UNCHANGED vars  PROVE IInv'
  BY DEF vars, persistent, volatile, device, IInv, TypeOK, ScriptsFit,
         FreshDisks, ImageIsSeed, DiskIsSound, DeviceIsSound,
         FailureIsExplained, Making

\* The invariant is kept by every step of the two scripts, of dm-clone, of the
\* tasks and of the power.
LEMMA StepInv == ASSUME IInv, [Next]_vars  PROVE IInv'
<1>1. CASE DisksScript \/ DisksFail \/ Rerun
    BY <1>1, RerunInv, AlreadyMountedInv, VgCreateInv,
       LvCreateMetadataInv, LvCreateStorageInv, ZeroMetadataInv,
       ReuseVolumesInv, CreateCloneInv, CreateFailsInv, MountCloneInv,
       StartHydrateInv, MountImageInv, BindHomeInv, DisksFailInv DEF
       DisksScript
<1>2. CASE HydrateScript \/ HydrateFails
    BY <1>2, TrimInv, EnableHydrationInv, PollAgainInv, PollTimeoutInv,
       PollCompleteInv, SuspendInv, LoadLinearInv, ResumeInv,
       DetachSourceInv, HydrateFailsInv DEF HydrateScript
<1>3. ASSUME NEW r \in Regions, HydrateRegion(r) \/ Write(r)  PROVE IInv'
    BY <1>3, HydrateRegionInv, WriteInv
<1>4. CASE Flush \/ Commit \/ CleanReboot \/ PowerLoss
    BY <1>4, FlushInv, CommitInv, CleanRebootInv, PowerLossInv
<1>5. CASE UNCHANGED vars
    BY <1>5, StutterInv
<1> QED
    BY <1>1, <1>2, <1>3, <1>4, <1>5 DEF Next

\* Every reachable state satisfies the inductive invariant.
THEOREM Invariance == Spec => []IInv
<1>1. Init => IInv
  BY InitInv
<1>2. IInv /\ [Next]_vars => IInv'
  BY StepInv
<1> QED
  BY <1>1, <1>2, PTL DEF Spec

\* Type correctness of the boot, its two scripts and the disks.
THEOREM DiskTypeCorrect == Spec => []TypeOK
<1>1. IInv => TypeOK
  BY DEF IInv
<1> QED
  BY <1>1, Invariance, PTL

\* Through every change of the device, reboot, power loss and failed command,
\* what the filesystem uses is read as the seed or as what was written.
THEOREM NothingButSeedOrWritten == Spec => []NoJunkRead
<1>1. IInv => NoJunkRead
  <2> SUFFICES ASSUME IInv, mounted, NEW r \in used  PROVE Visible(r) # "blank"
    BY DEF NoJunkRead
  <2>1. CASE table = "clone"
    <3>1. CASE r \in incore
      BY <2>1, <3>1 DEF IInv, DeviceIsSound, Visible
    <3>2. CASE r \notin incore
      BY <2>1, <3>2 DEF IInv, ImageIsSeed, DeviceIsSound, Visible
    <3> QED
      BY <3>1, <3>2
  <2>2. CASE table # "clone"
    BY <2>2 DEF IInv, TypeOK, ScriptsFit, DeviceIsSound, Visible
  <2> QED
    BY <2>1, <2>2
<1> QED
  BY <1>1, Invariance, PTL

\* A write that reached the disk stays, whatever device a later boot reads it
\* through.
THEOREM KeptStays == Spec => []KeptIsRead
<1>1. IInv => KeptIsRead
  BY DEF IInv, TypeOK, ScriptsFit, DiskIsSound, DeviceIsSound, Visible, KeptIsRead
<1> QED
  BY <1>1, Invariance, PTL

\* The seed image is let go only when no boot needs it again.
THEOREM SwapIsWhole == Spec => []LinearIsWhole
<1>1. IInv => LinearIsWhole
  BY DEF IInv, ScriptsFit, DeviceIsSound, LinearIsWhole
<1> QED
  BY <1>1, Invariance, PTL

\* Only volumes that were once left half made keep the service from its end.
THEOREM VolumesExplainFailure == Spec => []FailureIsExplained
<1>1. IInv => FailureIsExplained
  BY DEF IInv
<1> QED
  BY <1>1, Invariance, PTL

\* Half-made volumes stay half made, and /mnt is not mounted again.
THEOREM HalfMadeIsForGood == Spec => HalfMadeStays
<1>1. IInv /\ [Next]_vars => [HalfMade => HalfMade' /\ ~mounted']_vars
  <2> SUFFICES ASSUME IInv, Next, HalfMade  PROVE HalfMade' /\ ~mounted'
    OBVIOUS
  <2>1. /\ volumes \in 1..2 /\ pc \notin {"lvmeta", "lvdata", "dd", "mount"}
        /\ ssd /\ ~mounted /\ hyd \notin Hydrating /\ table \notin {"clone", "linear"}
    BY DEF IInv, TypeOK, ScriptsFit, FreshDisks, HalfMade
  <2>2. CASE DisksScript \/ DisksFail \/ Rerun
    <3>1. CASE AlreadyMounted \/ VgCreate \/ LvCreateMetadata \/ LvCreateStorage
               \/ ZeroMetadata \/ CreateClone \/ MountClone \/ MountImage
      BY <2>1, <3>1 DEF AlreadyMounted, VgCreate, LvCreateMetadata, LvCreateStorage, ZeroMetadata,
         CreateClone, MountClone, MountImage
    <3>2. CASE ReuseVolumes \/ CreateFails \/ StartHydrate \/ BindHome \/ Rerun \/ DisksFail
      <4>1. UNCHANGED <<volumes, mounted>>
        BY <3>2 DEF ReuseVolumes, CreateFails, StartHydrate, BindHome, Rerun, DisksFail, persistent
      <4>2. pc' \in {"create", "failed", "home", "ok", "start"}
        BY <3>2 DEF ReuseVolumes, CreateFails, StartHydrate, BindHome, Rerun, DisksFail
      <4> QED
        BY <2>1, <4>1, <4>2 DEF HalfMade
    <3> QED
      BY <2>2, <3>1, <3>2 DEF DisksScript
  <2>3. CASE HydrateScript \/ HydrateFails
    <3>1. UNCHANGED <<volumes, pc, mounted>>
      BY <2>3 DEF HydrateScript, HydrateFails, Trim, EnableHydration, PollAgain, PollTimeout,
         PollComplete, Suspend, LoadLinear, Resume, DetachSource, HydrateUnchanged, SwapUnchanged
    <3> QED
      BY <2>1, <3>1 DEF HalfMade
  <2>4. ASSUME NEW r \in Regions, HydrateRegion(r) \/ Write(r)  PROVE FALSE
    BY <2>1, <2>4 DEF HydrateRegion, Write
  <2>5. CASE Flush \/ Commit \/ CleanReboot \/ PowerLoss
    BY <2>1, <2>5 DEF Flush, Commit, CleanReboot, PowerLoss, Boot, HalfMade
  <2> QED
    BY <2>2, <2>3, <2>4, <2>5 DEF Next
<1> QED
  BY <1>1, Invariance, PTL DEF Spec, HalfMadeStays

---------------------------------------------------------------------------
(* The disk that tasks see                                                  *)

\* What is shown is the seed or a write, and a write that is kept is shown.
LEMMA ShownIs ==
  ASSUME IInv
  PROVE  /\ \A r \in used : Shown(r) \in {"seed", "new"}
         /\ \A r \in kept : Shown(r) = "new"
         /\ kept \subseteq used /\ SeedRegions \subseteq used /\ used \subseteq Regions
<1>1. \A r \in used : r \in Regions /\ dest[r] \in Contents /\ image[r] \in Contents
  BY DEF IInv, TypeOK
<1>2. ASSUME NEW r \in used PROVE Shown(r) # "blank"
  <2>1. CASE table = "clone"
    <3>1. Shown(r) = IF r \in incore THEN dest[r] ELSE image[r]
      BY <2>1 DEF Shown, FromSsd
    <3>2. r \in incore => dest[r] # "blank"
      BY <2>1 DEF IInv, DeviceIsSound
    <3>3. r \notin incore => image[r] # "blank"
      BY <2>1 DEF IInv, DeviceIsSound, ImageIsSeed
    <3> QED BY <3>1, <3>2, <3>3
  <2>2. CASE table = "linear"
    BY <1>1, <2>2 DEF IInv, DeviceIsSound, Shown, FromSsd
  <2>3. CASE table = "loop"
    BY <2>3 DEF IInv, ScriptsFit, DeviceIsSound, Shown, FromSsd
  <2>4. CASE table = "none"
    <3>1. r \in SeedRegions \/ r \in kept
      BY <2>4 DEF IInv, ScriptsFit, DiskIsSound
    <3>2. Shown(r) = IF ssd /\ r \in bitmap THEN dest[r] ELSE image[r]
      BY <2>4 DEF Shown, FromSsd
    <3>3. CASE r \in kept
      BY <3>2, <3>3 DEF IInv, DiskIsSound
    <3>4. CASE r \notin kept
      BY <3>1, <3>2, <3>4 DEF IInv, DiskIsSound, ImageIsSeed
    <3> QED BY <3>3, <3>4
  <2> QED BY <2>1, <2>2, <2>3, <2>4 DEF IInv, TypeOK
<1>3. \A r \in kept : Shown(r) = "new"
  BY DEF IInv, TypeOK, ScriptsFit, DiskIsSound, DeviceIsSound, Shown, FromSsd
<1> QED BY <1>1, <1>2, <1>3 DEF Contents, Shown, IInv, TypeOK, DiskIsSound

\* /mnt shows what a read through it returns.
LEMMA ShownIsVisible ==
  ASSUME IInv, mounted PROVE \A r \in used : Shown(r) = Visible(r)
BY DEF IInv, TypeOK, ScriptsFit, Shown, FromSsd, Visible

\* A step that leaves what is shown is none of the disk's.
LEMMA SameDisk ==
  ASSUME UNCHANGED <<mounted, used, kept>>, \A r \in used : Shown(r)' = Shown(r)
  PROVE  UNCHANGED Overlay!disk
BY DEF Overlay!disk

\* Neither of the two scripts nor dm-clone's copy changes what is shown; they only
\* open it.
LEMMA DisksScriptShows ==
  ASSUME IInv, DisksScript \/ DisksFail \/ Rerun
  PROVE  UNCHANGED Overlay!disk \/ Overlay!Open
<1>1. CASE ZeroMetadata
  <2>1. ssd /\ bitmap = {} /\ bitmap' = {}
    BY <1>1 DEF ZeroMetadata, IInv, ScriptsFit, FreshDisks
  <2> QED BY <1>1, <2>1, SameDisk DEF ZeroMetadata, DisksUnchanged, Shown, FromSsd
<1>2. CASE CreateClone
  <2>1. ssd
    BY <1>2 DEF CreateClone, IInv, ScriptsFit
  <2> QED BY <1>2, <2>1, SameDisk DEF CreateClone, DisksUnchanged, Shown, FromSsd
<1>3. CASE MountClone
  <2>1. ~mounted /\ mounted' = TRUE /\ UNCHANGED <<used, kept>> /\ \A r \in used : Shown(r)' = Shown(r)
    BY <1>3 DEF MountClone, DisksUnchanged, IInv, ScriptsFit, Shown, FromSsd
  <2> QED BY <2>1 DEF Overlay!Open
<1>4. CASE MountImage
  <2>1. ~mounted /\ mounted' = TRUE /\ UNCHANGED <<used, kept>> /\ ~ssd /\ table' = "loop"
    BY <1>4 DEF MountImage, DisksUnchanged
  <2>2. \A r \in used : Shown(r)' = Shown(r)
    BY <1>4, <2>1 DEF MountImage, DisksUnchanged, IInv, ScriptsFit, Shown, FromSsd
  <2> QED BY <2>1, <2>2 DEF Overlay!Open
<1>5. CASE VgCreate \/ LvCreateMetadata \/ LvCreateStorage
  BY <1>5, SameDisk DEF VgCreate, LvCreateMetadata, LvCreateStorage, DisksUnchanged, Shown, FromSsd
<1>6. CASE AlreadyMounted \/ ReuseVolumes \/ CreateFails \/ StartHydrate \/ BindHome \/ Rerun \/ DisksFail
  <2>1. UNCHANGED <<mounted, used, kept, ssd, table, incore, bitmap, dest, image>>
    BY <1>6 DEF AlreadyMounted, ReuseVolumes, CreateFails, StartHydrate, BindHome, Rerun, DisksFail,
                persistent, device
  <2> QED BY <2>1, SameDisk DEF Shown, FromSsd
<1> QED BY <1>1, <1>2, <1>3, <1>4, <1>5, <1>6 DEF DisksScript

\* The second script discards, waits and swaps without a change of what is shown:
\* what is discarded is not used, and what is swapped is whole.
LEMMA HydrateScriptShows ==
  ASSUME IInv, HydrateScript \/ HydrateFails PROVE UNCHANGED Overlay!disk
<1>1. CASE Trim
  <2>1. table = "clone" /\ used \subseteq Regions
    BY <1>1 DEF Trim, IInv, TypeOK, ScriptsFit, Hydrating
  <2> QED BY <1>1, <2>1, SameDisk DEF Trim, HydrateUnchanged, SwapUnchanged, Shown, FromSsd
<1>2. CASE Suspend
  <2>1. table = "clone"
    BY <1>2 DEF Suspend, IInv, ScriptsFit, Hydrating
  <2> QED BY <1>2, <2>1, SameDisk DEF Suspend, HydrateUnchanged, SwapUnchanged, Shown, FromSsd
<1>3. CASE Resume \/ HydrateFails
  <2>1. UNCHANGED <<mounted, used, kept, ssd, incore, bitmap, dest, image>>
    BY <1>3 DEF Resume, HydrateFails, HydrateUnchanged, SwapUnchanged
  <2>2. UNCHANGED table \/ (table = "clone" /\ table' = "linear" /\ incore = Regions)
    BY <1>3 DEF Resume, HydrateFails, Resumes, IInv, ScriptsFit, Hydrating
  <2>3. used \subseteq Regions
    BY DEF IInv, TypeOK
  <2> QED BY <2>1, <2>2, <2>3, SameDisk DEF Shown, FromSsd
<1>4. CASE EnableHydration \/ PollAgain \/ PollTimeout \/ PollComplete \/ LoadLinear \/ DetachSource
  <2>1. UNCHANGED <<mounted, used, kept, ssd, table, incore, bitmap, dest, image>>
    BY <1>4 DEF EnableHydration, PollAgain, PollTimeout, PollComplete, LoadLinear, DetachSource,
                HydrateUnchanged, SwapUnchanged, device
  <2> QED BY <2>1, SameDisk DEF Shown, FromSsd
<1> QED BY <1>1, <1>2, <1>3, <1>4 DEF HydrateScript

\* dm-clone copies to the SSD the very content it showed from the image.
LEMMA CopyShows ==
  ASSUME IInv, NEW r \in Regions, HydrateRegion(r) PROVE UNCHANGED Overlay!disk
BY SameDisk DEF HydrateRegion, IInv, TypeOK, Shown, FromSsd

\* A task's write is what is shown from then on, of its region and of no other.
LEMMA WriteShows ==
  ASSUME IInv, NEW r \in Regions, Write(r) PROVE Overlay!Write(r)
<1>1. mounted /\ UNCHANGED <<mounted, kept, ssd, table, bitmap>> /\ used' = used \union {r}
  BY DEF Write
<1>2. table \in {"clone", "linear", "loop"} /\ (table = "loop" <=> ~ssd)
  BY <1>1 DEF IInv, TypeOK, ScriptsFit
<1>3. ASSUME NEW x \in used' PROVE Shown(x)' = IF x = r THEN "new" ELSE Shown(x)
  <2>1. x \in Regions
    BY <1>1 DEF IInv, TypeOK
  <2>2. CASE table = "loop"
    BY <1>1, <1>2, <2>1, <2>2 DEF Write, IInv, TypeOK, Shown, FromSsd
  <2>3. CASE table = "clone"
    BY <1>1, <2>1, <2>3 DEF Write, IInv, TypeOK, Shown, FromSsd
  <2>4. CASE table = "linear"
    BY <1>1, <2>1, <2>4 DEF Write, IInv, TypeOK, Shown, FromSsd
  <2> QED BY <1>2, <2>2, <2>3, <2>4
<1> DEFINE shown == [x \in used |-> Shown(x)]
<1>4. shown' = [x \in used' |-> IF x = r THEN "new" ELSE shown[x]]
  BY <1>1, <1>3
<1> QED BY <1>1, <1>4 DEF Overlay!Write

\* What is flushed is what is shown as written.
LEMMA WrittenIs == ASSUME IInv, mounted PROVE Written = Overlay!Written
BY ShownIsVisible DEF Written, Overlay!Written

\* A flush shows what it showed, and keeps some of what it shows as written.
LEMMA FlushShows ==
  ASSUME IInv, Flush PROVE Overlay!Sync
<1>1. \A r \in used : Shown(r)' = Shown(r)
  BY DEF Flush, volatile, device, Shown, FromSsd
<1>2. mounted /\ UNCHANGED <<mounted, used>>
  BY DEF Flush, volatile
<1> DEFINE synced == {r \in Written : table = "clone" => r \in bitmap}
<1>3. kept' = kept \union synced /\ synced \in SUBSET Overlay!Written
  BY WrittenIs DEF Flush
<1> QED BY <1>1, <1>2, <1>3 DEF Overlay!Sync

\* What the metadata says is nothing a task can see while the clone is there.
LEMMA CommitShows ==
  ASSUME IInv, Commit PROVE UNCHANGED Overlay!disk
<1>1. \A r \in used : Shown(r)' = Shown(r)
  BY DEF Commit, volatile, device, Shown, FromSsd
<1>2. UNCHANGED <<mounted, used, kept>>
  BY DEF Commit, volatile
<1> QED BY <1>1, <1>2, SameDisk

\* A clean reboot keeps it too, and the metadata says where to read it.
LEMMA RebootShows ==
  ASSUME IInv, CleanReboot PROVE Overlay!Reboot
<1>1. \A r \in used : Shown(r)' = Shown(r)
  BY DEF CleanReboot, Boot, Shown, FromSsd, IInv, TypeOK, ScriptsFit, DeviceIsSound
<1>2. mounted' = FALSE /\ UNCHANGED used /\ kept' = IF mounted THEN kept \union Written ELSE kept
  BY DEF CleanReboot, Boot
<1> QED BY <1>1, <1>2, WrittenIs DEF Overlay!Reboot

\* When the power goes a region that is used and not kept shows its write still, or
\* the seed, whether the write was lost or what the metadata says of it.
LEMMA PowerLossShows ==
  ASSUME IInv, PowerLoss PROVE Overlay!Crash
<1>1. /\ mounted' = FALSE /\ used' = SeedRegions \union kept /\ UNCHANGED <<kept, ssd, bitmap>>
      /\ table' = "none"
  BY DEF PowerLoss, Boot
<1>2. used' \subseteq used /\ used' \subseteq Regions
  BY <1>1, ShownIs
<1>3. ASSUME NEW r \in used' PROVE Shown(r)' = Shown(r) \/ (r \notin kept /\ Shown(r)' = "seed")
  <2>1. r \in Regions /\ r \in used /\ (r \notin kept => r \in SeedRegions)
    BY <1>1, <1>2
  <2>2. CASE ~ssd
    <3>1. Shown(r) = image[r] /\ Shown(r)' = image'[r]
      BY <1>1, <2>2 DEF Shown, FromSsd, IInv, ScriptsFit
    <3>2. image'[r] = image[r] \/ (r \notin kept /\ image'[r] = "seed")
      BY <2>1 DEF PowerLoss, IInv, TypeOK
    <3> QED BY <3>1, <3>2
  <2>3. CASE ssd
    <3>1. table # "loop" /\ UNCHANGED image
      BY <2>3 DEF PowerLoss, IInv, ScriptsFit
    <3>2. dest'[r] = dest[r] \/ (r \notin kept /\ dest'[r] = "seed")
      BY <2>1, <3>1 DEF PowerLoss, IInv, TypeOK
    <3>3. Shown(r)' = IF r \in bitmap THEN dest'[r] ELSE image[r]
      BY <1>1, <2>3, <3>1 DEF Shown, FromSsd
    <3>4. CASE r \in bitmap
      <4>1. Shown(r) = dest[r]
        BY <2>1, <2>3, <3>1, <3>4 DEF Shown, FromSsd, IInv, TypeOK, DeviceIsSound
      <4> QED BY <3>2, <3>3, <3>4, <4>1
    <3>5. CASE r \notin bitmap
      <4>1. r \notin kept
        BY <2>3, <3>5 DEF IInv, DiskIsSound
      <4>2. image[r] = "seed"
        BY <2>1, <2>3, <4>1 DEF IInv, TypeOK, Contents, ImageIsSeed
      <4> QED BY <3>3, <3>5, <4>1, <4>2
    <3> QED BY <3>4, <3>5
  <2> QED BY <2>2, <2>3
<1> DEFINE shown == [r \in used |-> Shown(r)]
           lost == {r \in used' : Shown(r)' # Shown(r)}
<1>4. lost \in SUBSET (used \ kept)
  BY <1>2, <1>3
<1>5. shown' = [r \in used' |-> IF r \in lost THEN "seed" ELSE shown[r]]
  BY <1>2, <1>3
<1> QED BY <1>1, <1>4, <1>5 DEF Overlay!Crash

\* The boots of a seeded worker implement a disk that reads as the seed overlaid
\* with what was written, for any set of regions: the copy, the swap of the device,
\* failing commands and reboots are nothing a task can see, and a loss of power
\* takes back only what had not reached the disk.
THEOREM Refines == Spec => ImplementsOverlay
<1>1. Init => Overlay!Init
  <2> SUFFICES ASSUME Init PROVE Overlay!Init
    OBVIOUS
  <2>1. \A r \in used : Shown(r) = "seed"
    BY DEF Init, Shown, FromSsd
  <2> QED BY <2>1 DEF Init, Overlay!Init
<1>2. IInv /\ [Next]_vars => [Overlay!Next]_(Overlay!disk)
  <2> SUFFICES ASSUME IInv, [Next]_vars PROVE Overlay!Next \/ UNCHANGED Overlay!disk
    OBVIOUS
  <2>1. CASE DisksScript \/ DisksFail \/ Rerun
    BY <2>1, DisksScriptShows DEF Overlay!Next
  <2>2. CASE HydrateScript \/ HydrateFails
    BY <2>2, HydrateScriptShows
  <2>3. ASSUME NEW r \in Regions, HydrateRegion(r) \/ Write(r)
        PROVE  Overlay!Next \/ UNCHANGED Overlay!disk
    BY <2>3, CopyShows, WriteShows DEF Overlay!Next
  <2>4. CASE Flush \/ Commit \/ CleanReboot \/ PowerLoss
    BY <2>4, FlushShows, CommitShows, RebootShows, PowerLossShows DEF Overlay!Next
  <2>5. CASE UNCHANGED vars
    <3>1. UNCHANGED <<mounted, used, kept, ssd, table, incore, bitmap, dest, image>>
      BY <2>5 DEF vars, persistent, volatile, device
    <3> QED BY <3>1, SameDisk DEF Shown, FromSsd
  <2> QED BY <2>1, <2>2, <2>3, <2>4, <2>5 DEF Next
<1> QED BY <1>1, <1>2, Invariance, PTL DEF Spec, ImplementsOverlay, Overlay!Spec
=============================================================================
