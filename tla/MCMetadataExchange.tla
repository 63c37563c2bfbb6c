------------------------- MODULE MCMetadataExchange -------------------------
(* Instances of MetadataExchange for TLC.                                    *)
EXTENDS MetadataExchange

\* Two pieces, the second one short.
MCInfo == <<"a", "b", "a">>
=============================================================================
