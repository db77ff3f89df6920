---------------------------- MODULE SeedOverlay ----------------------------
(* What a task may take /mnt for, whatever is below it: one disk that reads  *)
(* as the seed overlaid with what was written.  A region reads as its last   *)
(* write at once; what was synced stays for ever; when the power goes, what  *)
(* was not may be there or be the seed again.                                *)

CONSTANTS
  SeedRegions, \* the regions the seed uses
  Regions      \* all of them

VARIABLES
  open,    \* whether the disk can be read and written
  used,    \* the regions that have something
  content, \* content[r]: what region r, used, reads as
  kept     \* those whose write is synced

disk == <<open, used, content, kept>>

Written == {r \in used : content[r] = "new"}

Init ==
  /\ open = FALSE /\ used = SeedRegions /\ kept = {}
  /\ content = [r \in used |-> "seed"]

Open ==
  /\ ~open /\ open' = TRUE
  /\ UNCHANGED <<used, content, kept>>

Write(r) ==
  /\ open
  /\ used' = used \union {r}
  /\ content' = [x \in used' |-> IF x = r THEN "new" ELSE content[x]]
  /\ UNCHANGED <<open, kept>>

Sync ==
  /\ open
  /\ \E synced \in SUBSET Written : kept' = kept \union synced
  /\ UNCHANGED <<open, used, content>>

Reboot ==
  /\ open' = FALSE
  /\ kept' = IF open THEN kept \union Written ELSE kept
  /\ UNCHANGED <<used, content>>

Crash ==
  /\ open' = FALSE
  /\ used' = SeedRegions \union kept
  /\ \E lost \in SUBSET (used \ kept) :
       content' = [r \in used' |-> IF r \in lost THEN "seed" ELSE content[r]]
  /\ UNCHANGED kept

Next == Open \/ (\E r \in Regions : Write(r)) \/ Sync \/ Reboot \/ Crash

Spec == Init /\ [][Next]_disk
=============================================================================
