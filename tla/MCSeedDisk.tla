----------------------------- MODULE MCSeedDisk -----------------------------
EXTENDS SeedDiskInv, TLC

CONSTANTS r1, r2, r3
=============================================================================
