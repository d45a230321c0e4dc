--------------------------- MODULE MCAgentCommands ---------------------------
(* Small instances of AgentCommands.                                         *)
EXTENDS AgentCommands, TLC

CONSTANTS h1, h2, c1, c2
=============================================================================
