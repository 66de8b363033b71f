------------------------------ MODULE MCLookup -------------------------------
(* A chain of peers that ends in a cycle: a lookup may start with nobody,   *)
(* with a peer of the network table only or with known peers, may learn     *)
(* new peers in every round, and may run out of rounds or out of time.      *)
EXTENDS Lookup, TLC, SequencesExt

CONSTANTS me, n1, n2, n3, n4, n5, n6, content, none

MCTables == {{}, {me, n1}}
MCAnswer ==
    (me :> {n1}) @@ (n1 :> {n2, n3}) @@ (n2 :> {me, n4}) @@ (n3 :> {n4})
    @@ (n4 :> {n5}) @@ (n5 :> {n1}) @@ (n6 :> {})
\* By descending score; two supernodes instead of five.
MCRanking == <<n6, n5, n3, n1, n4, me, n2>>
MCElect ==
    [T \in SUBSET Node |->
        LET ranked == SelectSeq(MCRanking, LAMBDA p : p \in T)
        IN  SubSeq(ranked, 1, IF Len(ranked) < 2 THEN Len(ranked) ELSE 2)]
==============================================================================
