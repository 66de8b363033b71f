----------------------------- MODULE MCPublisher -----------------------------
EXTENDS Publisher

CONSTANTS me, p1, p2, meta, manifest, chunk1

\* No own id, alone, and a reply that repeats peers and was not sorted.
MCLookupResults == {<<>>, <<me>>, <<p1, me, p1>>, <<p1, p2, p1, p2, me>>}
==============================================================================
