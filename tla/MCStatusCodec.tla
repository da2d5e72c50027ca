--------------------------- MODULE MCStatusCodec ---------------------------
(* Listings of up to three services whose conf paths are 1 or 8 bytes     *)
(* long (their records pad to 16 and 24 bytes), against a reply size limit *)
(* of 34 bytes: two 1-byte records fill it exactly, and any longer listing *)
(* overflows, so both sides of the ENOSPC test are reached.               *)
EXTENDS StatusCodec

MCPathLens == {1, 8}
MCPids == {-1, 7}
=============================================================================
