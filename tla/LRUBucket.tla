------------------------------ MODULE LRUBucket ------------------------------
(***************************************************************************)
(* The promise of KBucket.Insert (innercore/kbucket.go), as one atomic     *)
(* step: at most K entries, one per id, least recently seen first; a known *)
(* id is updated and moved to the tail, a new one is appended when there   *)
(* is room and rejected otherwise.                                         *)
(***************************************************************************)
EXTENDS Naturals, Sequences

CONSTANTS K,       \* capacity of the bucket
          Entry    \* the entries that can be inserted: records with a field id

VARIABLE order     \* the entries, least recently seen first

Knows(id) == \E i \in DOMAIN order : order[i].id = id

\* The entry at index i moves to the tail, as e.
MovedToTail(i, e) ==
    [j \in DOMAIN order |-> IF j < i THEN order[j]
                            ELSE IF j < Len(order) THEN order[j + 1] ELSE e]

Insert(e) ==
    \/ \E i \in DOMAIN order : order[i].id = e.id /\ order' = MovedToTail(i, e)
    \/ ~Knows(e.id) /\ Len(order) < K /\ order' = Append(order, e)
    \/ ~Knows(e.id) /\ Len(order) = K /\ order' = order

Next == \E e \in Entry : Insert(e)
Spec == [][Next]_order
==============================================================================
