-------------------------- MODULE MCPendingLookups ---------------------------
(* Two concurrent lookups ask the same peer, as the goroutines of          *)
(* DHTPublisher.publish do: their request ids share the byte and collide   *)
(* when the clock does not advance between them.                           *)
EXTENDS PendingLookups, TLC

CONSTANTS c1, c2, p1, k1, k2

MCTarget == (c1 :> p1) @@ (c2 :> p1)
MCLookupOf == (c1 :> k1) @@ (c2 :> k2)
MCFirstByte == (p1 :> 7)
==============================================================================
