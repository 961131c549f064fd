--------------------------- MODULE MCConnectionPool ---------------------------
(* Two connections; a chunk with two listed markets and one that is not.      *)
EXTENDS ConnectionPool

CONSTANTS a, b, unlisted

MCChunk == <<a, unlisted, b, a>>
=============================================================================
