---------------------------- MODULE SeedDiskInv ----------------------------
(* The inductive invariant of SeedDisk.                                      *)
EXTENDS SeedDisk

Hydrating == {"trim", "enable", "poll", "suspend", "load", "resume"}

\* Where the two scripts are tells what is under /mnt.
ScriptsFit ==
  /\ pc \in {"lvmeta", "lvdata", "dd"} => ssd /\ table = "none" /\ ~mounted
  /\ pc \in {"create", "mount"} => ssd /\ ~mounted
  /\ pc = "mount" => table = "clone"
  /\ pc = "hydrate" => mounted /\ table = "clone" /\ hyd = "off"
  /\ mounted => table # "none"
  /\ table \in {"clone", "linear"} => ssd
  /\ table = "loop" => ~ssd
  /\ hyd \in Hydrating => table = "clone"
  /\ hyd # "off" => mounted
  /\ hyd \in {"suspend", "load", "resume"} => incore = Regions
  /\ hyd \in {"load", "resume"} => suspended
  /\ suspended => hyd \in {"load", "resume"} \/ stuck
  /\ suspended => table = "clone" /\ bitmap = Regions /\ incore = Regions
  /\ loaded => suspended
  /\ stuck => hyd = "failed"

\* A machine whose volumes are not all made has nothing on them, and unless
\* this boot is at it, one that was stopped.
FreshDisks ==
  /\ volumes # 0 => ssd
  /\ table \in {"clone", "linear"} => volumes = 3
  /\ pc = "lvmeta" => volumes = 1
  /\ pc = "lvdata" => volumes = 2
  /\ volumes \in 1..2 => pc \in {"lvmeta", "lvdata"} \/ cut
  /\ volumes > 0 /\ metadata # "bitmap" => Making \/ cut
  /\ pc = "create" => volumes # 0 /\ (metadata = "blank" => cut)
  /\ table # "none" /\ ~mounted => pc = "mount" \/ broken
  /\ pc = "dd" => volumes = 3
  /\ volumes < 3 \/ pc \in {"lvmeta", "lvdata", "dd"} => metadata = "blank"
  /\ ssd /\ metadata # "bitmap" => kept = {} /\ bitmap = {} /\ table = "none"

\* The seed in the image: whole, on a machine with SSDs never written, and
\* nowhere but in its own regions.
ImageIsSeed ==
  /\ \A r \in SeedRegions : image[r] # "blank"
  /\ ssd => \A r \in Regions : image[r] # "new"
  /\ \A r \in Regions \ SeedRegions : image[r] # "seed" /\ dest[r] # "seed"

\* What the next boot finds if the power goes now.
DiskIsSound ==
  /\ SeedRegions \subseteq used /\ kept \subseteq used
  /\ mounted \/ used \subseteq SeedRegions \union kept
  /\ ssd => \A r \in bitmap \intersect SeedRegions : dest[r] # "blank"
  /\ ssd => \A r \in kept : r \in bitmap /\ dest[r] = "new"
  /\ ~ssd => \A r \in kept : image[r] = "new"

\* What this boot reads.
DeviceIsSound ==
  /\ table = "clone" => bitmap \subseteq incore
  /\ table = "clone" => \A r \in incore \intersect used : dest[r] # "blank"
  /\ table = "clone" => \A r \in used \ SeedRegions : r \in incore
  /\ table = "linear" => bitmap = Regions /\ incore = Regions
  /\ table = "linear" => \A r \in used : dest[r] # "blank"
  /\ table = "loop" => \A r \in used : image[r] # "blank"

IInv ==
  /\ TypeOK
  /\ ScriptsFit
  /\ FreshDisks
  /\ ImageIsSeed
  /\ DiskIsSound
  /\ DeviceIsSound
  /\ FailureIsExplained
=============================================================================
