------------------------------ MODULE MCSwarm -------------------------------
(* Instances of Swarm for TLC.                                              *)
EXTENDS Swarm
=============================================================================
