-------------------------- MODULE MCServiceRegistry --------------------------
EXTENDS ServiceRegistry, TLC

CONSTANTS games, chat, d1, d2, d3, all, flat, w1, sweep

\* d1 announces the role "game"; d2 the role "chat", but the network table
\* does not know it; d3 is known but its role may offer nothing.
MCAllowed == (d1 :> {games, chat}) @@ (d2 :> {chat}) @@ (d3 :> {})
MCDepth == [r \in Reader |-> IF r = all THEN 3 ELSE 1]
==============================================================================
