------------------------------ MODULE MCRunner ------------------------------
(* Two agents and one protected entry: an alert of one agent's call can be *)
(* about what a leftover of the other one deleted.                         *)
EXTENDS Runner

CONSTANTS a1, a2, i1

MCAgents == {a1, a2}
MCItems == {i1}
=============================================================================
