----------------------------- MODULE MCAgentTab -----------------------------
(* Model checking of a tab alone, for what a replaced agent does to its    *)
(* session file.                                                           *)
EXTENDS AgentTab, TLC
=============================================================================
