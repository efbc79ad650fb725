--------------------------- MODULE MCAgentBridge ---------------------------
(* Model values for checking AgentBridge.tla with TLC.                      *)
EXTENDS AgentBridge

CONSTANTS h1, c1, c2, t1, t2, q1, bash
=============================================================================
