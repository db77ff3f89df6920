--------------------------- MODULE MCSeedInstall ---------------------------
EXTENDS SeedInstallInv, TLC

CONSTANTS n1, n2
=============================================================================
