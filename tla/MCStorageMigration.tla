------------------------- MODULE MCStorageMigration -------------------------
EXTENDS StorageMigration

CONSTANTS f1, m1, east, west
=============================================================================
