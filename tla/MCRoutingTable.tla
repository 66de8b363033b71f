--------------------------- MODULE MCRoutingTable ----------------------------
EXTENDS RoutingTable, TLC

CONSTANTS s1, s2, s3, r1, m1, a, b, c, d

Peer(id, score) == [id |-> id, score |-> score]

\* Two known peers and one free slot: a is announced again with better
\* capabilities while c and d are new, so that one of them is rejected.
MCInitial == <<Peer(a, 1), Peer(b, 2)>>
MCSeed == [s \in Seeder |-> IF s = s1 THEN Peer(a, 9)
                             ELSE IF s = s2 THEN Peer(c, 5) ELSE Peer(d, 5)]
==============================================================================
