---------------------------- MODULE MC_AgentPanes ----------------------------
(* Two agents: the root of the grid and a pane split off it.               *)
EXTENDS AgentPanes

MCAgents == 1 .. 2
=============================================================================
