--------------------------- MODULE MCRateLimiter ---------------------------
(* The instance of RateLimiter for TLC: a MiB is 5 bytes and a chunk 4, so *)
(* that the bucket holds little more than one chunk.                        *)
EXTENDS RateLimiter

CONSTANTS s1, s2
=============================================================================
