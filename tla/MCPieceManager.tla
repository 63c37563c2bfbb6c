--------------------------- MODULE MCPieceManager ---------------------------
(* Instances of PieceManager for TLC.                                       *)
EXTENDS PieceManager

\* Piece 0 has two blocks and crosses two files, piece 1 has one block.
MCSegments == [p \in Pieces |-> IF p = 0 THEN 2 ELSE 1]
MCPriority == [p \in Pieces |-> p]
=============================================================================
