----------------------------- MODULE MCSession ------------------------------
(* Instances of Session for TLC.                                             *)
EXTENDS Session, TLC

\* API threads do the same; for runs without temporal properties.
ClientsAlike == Permutations(Clients)
=============================================================================
