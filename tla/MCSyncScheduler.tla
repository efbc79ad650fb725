--------------------------- MODULE MCSyncScheduler ---------------------------
(* Constants for checking SyncScheduler.tla with TLC.                       *)
EXTENDS SyncScheduler
=============================================================================
