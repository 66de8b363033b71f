--------------------------- MODULE MCContentFabric ----------------------------
(* Sizes in units of 128 KB: chunks of two units, a threshold of eight.  note *)
(* is of just the threshold; film needs five chunks, the last one short.      *)
EXTENDS ContentFabric, TLC

CONSTANTS u, v, note, film

MCBytes == (note :> 8) @@ (film :> 9)

\* The first and the third chunk of film have the same bytes.
MCChunkHash(c, o) == <<c, IF o = 4 THEN 0 ELSE o>>
==============================================================================
