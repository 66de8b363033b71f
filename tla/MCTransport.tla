----------------------------- MODULE MCTransport ------------------------------
(* One other node.  As many chance failures as make a peer unhealthy; two     *)
(* requests, so that an application's send meets a packet that comes in.      *)
EXTENDS Transport

CONSTANTS me, far
==============================================================================
