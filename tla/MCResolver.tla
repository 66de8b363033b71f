------------------------------ MODULE MCResolver --------------------------------
(* Two goroutines and two other nodes, which share the blank name that ".mtd"   *)
(* asks for, and the name of a service.  A unit of time is fifteen seconds.     *)
EXTENDS Resolver, TLC

CONSTANTS me, far, wide, g1, g2, host, blank

keys == {".mtd", "svc.chat.mtd"}
kinds == [k \in keys |-> IF k = "svc.chat.mtd" THEN "service" ELSE "device"]
hosts == [k \in keys |-> blank]

symmetry == Permutations({g1, g2}) \cup Permutations({far, wide})
==============================================================================
