----------------------------- MODULE FindNodeRPC -----------------------------
(***************************************************************************)
(* What a caller of InnerCore.SendFindNodeAndWait (innercore/rpc.go) may   *)
(* rely on: a call either gives up without peers, or, once its FIND_NODE   *)
(* has left the node, returns what the asked peer answered to exactly this *)
(* question.  A call that was started always returns.  How the answer      *)
(* travels (request ids, registry of channels, UDP) is hidden.             *)
(***************************************************************************)
CONSTANTS Call,          \* the calls of SendFindNodeAndWait
          AnswerTo(_),   \* AnswerTo(c): the peers the target of c knows near c's key
          NoPeers        \* the nil slice: an error, a timeout or an empty answer

VARIABLES phase,         \* phase[c]: how far call c is
          outcome        \* outcome[c]: what c returned, NoPeers until then

vars == <<phase, outcome>>

Init ==
    /\ phase = [c \in Call |-> "idle"]
    /\ outcome = [c \in Call |-> NoPeers]

Ask(c) ==
    /\ phase[c] = "idle"
    /\ phase' = [phase EXCEPT ![c] = "asking"]
    /\ UNCHANGED outcome

\* The FIND_NODE leaves the node.
Transmit(c) ==
    /\ phase[c] = "asking"
    /\ phase' = [phase EXCEPT ![c] = "sent"]
    /\ UNCHANGED outcome

\* A call may give up at any point after it was started.
GiveUp(c) ==
    /\ phase[c] \in {"asking", "sent"}
    /\ phase' = [phase EXCEPT ![c] = "returned"]
    /\ UNCHANGED outcome

\* Only a transmitted question can be answered, and only by its own target.
Return(c) ==
    /\ phase[c] = "sent"
    /\ phase' = [phase EXCEPT ![c] = "returned"]
    /\ outcome' = [outcome EXCEPT ![c] = AnswerTo(c)]

Next == \E c \in Call : Ask(c) \/ Transmit(c) \/ GiveUp(c) \/ Return(c)

Spec == Init /\ [][Next]_vars

FairSpec ==
    Spec /\ \A c \in Call : WF_vars(Transmit(c) \/ GiveUp(c) \/ Return(c))
==============================================================================
