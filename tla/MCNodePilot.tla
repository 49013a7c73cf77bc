---------------------------- MODULE MCNodePilot ----------------------------
(* NodePilot on the queues and hosts of MCOrchestrator. *)
EXTENDS NodePilot, MCOrchestrator

\* The same for the whole program.
WithoutEnded == <<firstVars, secondVars, file, paused, os, journal, cli>>
=============================================================================
