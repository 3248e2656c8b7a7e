------------------------------- MODULE MCTasks -------------------------------
(* Instances of Tasks for TLC.                                             *)
EXTENDS Tasks
=============================================================================
