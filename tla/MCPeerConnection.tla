-------------------------- MODULE MCPeerConnection --------------------------
(* Instances of PeerConnection for TLC.                                     *)
EXTENDS PeerConnection

\* A whole piece, a block that ends beyond it.
MCBlocks == {<<0, 2>>, <<1, 2>>}
=============================================================================
