--------------------------- MODULE MCStorageEngine ----------------------------
(* Two records of one collection, so that a collection outlives one of them *)
(* and not the other; two callers of which one reads and the other deletes  *)
(* and writes again.                                                        *)
EXTENDS StorageEngine, TLC

CONSTANTS a, b, content, x, y, p, q

(* The code treats callers, records and payloads alike.                     *)
Interchangeable ==
    Permutations(Client) \cup Permutations(RecordId) \cup Permutations(Payload)
==============================================================================
