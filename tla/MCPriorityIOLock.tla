-------------------------- MODULE MCPriorityIOLock --------------------------
(* Model values for checking PriorityIOLock.tla with TLC. *)
EXTENDS PriorityIOLock

CONSTANTS halt, drain, drive, turn
=============================================================================
