--------------------------- MODULE MCFileMapping ----------------------------
(* Instances of FileMapping for TLC.                                        *)
EXTENDS FileMapping

MCLengths == 0 .. 4
MCPieceLengths == 1 .. 4
=============================================================================
