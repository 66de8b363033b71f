------------------------ MODULE PendingLookups_proofs ------------------------
(***************************************************************************)
(* Proofs about PendingLookups for every set of calls, peers and ids and   *)
(* for both kinds of clock.                                                *)
(***************************************************************************)
EXTENDS PendingLookups, TLAPS

\* Every variable keeps its type in every step (rpc.go, innercore.go).
LEMMA TypeStep == TypeOK /\ [Next]_vars => TypeOK'
<1> SUFFICES ASSUME TypeOK, [Next]_vars PROVE TypeOK'
  OBVIOUS
<1> USE ConstantsAssumption DEF TypeOK, RequestId, Body, Request, Reply, Statement
<1>1. ASSUME NEW c \in Call, NewRequest(c) PROVE TypeOK'
  <2>1. PICK now \in {clock + 1} \cup (IF StrictClock THEN {} ELSE {clock}) :
             /\ clock' = now
             /\ reqId' = [reqId EXCEPT
                            ![c] = [tick |-> now, byte |-> FirstByte[Target[c]]]]
    BY <1>1 DEF NewRequest
  <2>2. now \in Nat /\ FirstByte[Target[c]] \in Nat
    OBVIOUS
  <2>3. QED
    BY <1>1, <2>1, <2>2 DEF NewRequest, Goto
<1>2. ASSUME NEW c \in Call, Register(c) PROVE TypeOK'
  BY <1>2 DEF Register, Goto, Put
<1>3. ASSUME NEW c \in Call, Transmit(c) PROVE TypeOK'
  <2>1. FindNode(reqId[c], Target[c], LookupOf[c]) \in Request
    BY DEF FindNode
  <2>2. QED
    BY <1>3, <2>1 DEF Transmit, Goto
<1>4. ASSUME NEW c \in Call, SendFails(c) PROVE TypeOK'
  BY <1>4 DEF SendFails, Goto
<1>5. ASSUME NEW c \in Call, TakeReply(c) PROVE TypeOK'
  BY <1>5 DEF TakeReply, Goto
<1>6. ASSUME NEW c \in Call, TimeoutFires(c) PROVE TypeOK'
  BY <1>6 DEF TimeoutFires, Goto
<1>7. ASSUME NEW c \in Call, Cancel(c) PROVE TypeOK'
  BY <1>7 DEF Cancel, Goto, Cancelled
<1>8. ASSUME NEW m \in net, HandleFindNode(m) PROVE TypeOK'
  <2>1. m \in Request
    BY <1>8 DEF HandleFindNode
  <2>2. \A b \in {Answer(m.to, m.key), NoPeers} : FindNodeReply(m.id, b) \in Reply
    BY <2>1 DEF FindNodeReply, Answer
  <2>3. QED
    BY <1>8, <2>2 DEF HandleFindNode, AfterReceiving
<1>9. ASSUME NEW m \in net, ResolvePending(m) PROVE TypeOK'
  <2>1. m \in Reply
    BY <1>9 DEF ResolvePending
  <2>2. QED
    BY <1>9, <2>1 DEF ResolvePending, AfterReceiving, EntriesOf
<1>10. ASSUME NEW m \in net, Lose(m) PROVE TypeOK'
  BY <1>10 DEF Lose
<1>11. ASSUME NEW x \in inHand, DeliverReply(x) PROVE TypeOK'
  BY <1>11 DEF DeliverReply
<1>12. ASSUME UNCHANGED vars PROVE TypeOK'
  BY <1>12 DEF vars
<1>13. QED
  BY <1>1, <1>2, <1>3, <1>4, <1>5, <1>6, <1>7, <1>8, <1>9, <1>10, <1>11, <1>12
     DEF Next, CallStep

\* Type correctness of the registry, the channels and the network.
THEOREM TypeCorrect == Spec => []TypeOK
<1>1. Init => TypeOK
  BY DEF Init, TypeOK, RequestId, Body, Statement
<1>2. QED
  BY <1>1, TypeStep, PTL DEF Spec
------------------------------------------------------------------------------
\* NewRequest gives an id to a call that nothing refers to yet.
LEMMA NewRequestStep ==
  ASSUME IInv, TypeOK', NEW c \in Call, NewRequest(c)
  PROVE  IInv'
<1> USE DEF IInv
<1>1. /\ pc[c] = "new" /\ pc' = [pc EXCEPT ![c] = "register"]
      /\ \A d \in Call \ {c} : reqId'[d] = reqId[d]
      /\ UNCHANGED <<pending, chan, inHand, net, outcome>>
  BY DEF NewRequest, Goto, TypeOK
<1>2. \A b, id : Answers(b, id) => Answers(b, id)'
  BY <1>1 DEF Answers, TypeOK
<1>3. EntryInv'
  BY <1>1 DEF EntryInv, TypeOK
<1>4. HandInv'
  BY <1>1 DEF HandInv, TypeOK
<1>5. FreshInv'
  BY <1>1 DEF FreshInv, TypeOK
<1>6. NetInv'
  BY <1>1, <1>2 DEF NetInv
<1>7. ValueInv'
  <2>1. \A x \in inHand : x.call # c
    BY <1>1 DEF HandInv
  <2>2. chan[c] = {} /\ outcome[c] = NoPeers
    BY <1>1 DEF FreshInv
  <2>3. \A x \in inHand : Answers(x.body, reqId[x.call])'
    BY <1>1, <1>2, <2>1 DEF ValueInv, TypeOK
  <2>4. \A d \in Call : \A b \in chan[d] : Answers(b, reqId[d])'
    BY <1>1, <1>2, <2>2 DEF ValueInv
  <2>5. \A d \in Call : Answers(outcome[d], reqId[d])'
    <3>1. Answers(NoPeers, reqId[c])'
      BY DEF Answers
    <3>2. QED
      BY <1>1, <1>2, <2>2, <3>1 DEF ValueInv
  <2>6. QED
    BY <1>1, <2>3, <2>4, <2>5 DEF ValueInv
<1>8. QED
  BY <1>3, <1>4, <1>5, <1>6, <1>7

\* Answers only grows while ids stay and no call becomes new.
LEMMA AnswersStable ==
  ASSUME reqId' = reqId, \A c \in Call : pc[c] # "new" => pc'[c] # "new",
         NEW b, NEW id, Answers(b, id)
  PROVE  Answers(b, id)'
BY DEF Answers
------------------------------------------------------------------------------
\* Registering c's channel: no entry, message in hand or value is c's yet.
LEMMA RegisterStep ==
  ASSUME IInv, TypeOK', NEW c \in Call, Register(c)
  PROVE  IInv'
<1> USE DEF IInv
<1>1. /\ pc[c] = "register" /\ pc' = [pc EXCEPT ![c] = "send"]
      /\ pending' = Put(reqId[c], c)
      /\ UNCHANGED <<reqId, clock, chan, inHand, net, outcome>>
  BY DEF Register, Goto
<1>2. \A b, id : Answers(b, id) => Answers(b, id)'
  BY <1>1 DEF Answers, TypeOK
<1>3. EntryInv'
  BY <1>1 DEF EntryInv, FreshInv, Put, TypeOK
<1>4. HandInv'
  BY <1>1 DEF HandInv, Put, TypeOK
<1>5. FreshInv'
  BY <1>1 DEF FreshInv, TypeOK
<1>6. NetInv' /\ ValueInv'
  BY <1>1, <1>2 DEF NetInv, ValueInv
<1>7. QED
  BY <1>3, <1>4, <1>5, <1>6

\* Sending: the FIND_NODE in the network asks c's own question.
LEMMA SendStep ==
  ASSUME IInv, TypeOK', NEW c \in Call, Transmit(c) \/ SendFails(c)
  PROVE  IInv'
<1> USE DEF IInv
<1>1. /\ pc[c] = "send"
      /\ pc' \in {[pc EXCEPT ![c] = "await"], [pc EXCEPT ![c] = "abort"]}
      /\ net' \subseteq net \cup {FindNode(reqId[c], Target[c], LookupOf[c])}
      /\ UNCHANGED <<reqId, pending, chan, inHand, outcome>>
  BY DEF Transmit, SendFails, Goto
<1>2. \A b, id : Answers(b, id) => Answers(b, id)'
  BY <1>1 DEF Answers, TypeOK
<1>3. EntryInv' /\ HandInv' /\ FreshInv'
  BY <1>1 DEF EntryInv, HandInv, FreshInv, TypeOK
<1>4. NetInv'
  <2>1. Answers(AnswerTo(c), reqId[c])
    BY <1>1 DEF Answers
  <2>2. QED
    BY <1>1, <1>2, <2>1 DEF NetInv, FindNode, AnswerTo
<1>5. ValueInv'
  BY <1>1, <1>2 DEF ValueInv
<1>6. QED
  BY <1>3, <1>4, <1>5

\* Leaving the select with the reply: only the buffer held something for c.
LEMMA TakeReplyStep ==
  ASSUME IInv, TypeOK', NEW c \in Call, TakeReply(c)
  PROVE  IInv'
<1> USE DEF IInv
<1>1. PICK b \in chan[c] : outcome' = [outcome EXCEPT ![c] = b]
  BY DEF TakeReply
<1>2. /\ pc[c] = "await" /\ pc' = [pc EXCEPT ![c] = "returned"]
      /\ chan' = [chan EXCEPT ![c] = {}]
      /\ UNCHANGED <<reqId, pending, inHand, net>>
  BY DEF TakeReply, Goto
<1>3. \A v, id : Answers(v, id) => Answers(v, id)'
  BY <1>2 DEF Answers, TypeOK
<1>4. EntryInv' /\ HandInv' /\ FreshInv'
  BY <1>1, <1>2 DEF EntryInv, HandInv, FreshInv, TypeOK
<1>5. NetInv'
  BY <1>2, <1>3 DEF NetInv
<1>6. ValueInv'
  <2>1. Answers(b, reqId[c])
    BY DEF ValueInv
  <2>2. \A x \in inHand : Answers(x.body, reqId[x.call])'
    BY <1>2, <1>3 DEF ValueInv
  <2>3. \A d \in Call : \A v \in chan[d] : Answers(v, reqId[d])'
    BY <1>2, <1>3 DEF ValueInv, TypeOK
  <2>4. \A d \in Call : Answers(outcome[d], reqId[d])'
    BY <1>1, <1>2, <1>3, <2>1 DEF ValueInv, TypeOK
  <2>5. QED
    BY <1>2, <2>2, <2>3, <2>4 DEF ValueInv
<1>7. QED
  BY <1>4, <1>5, <1>6

\* A timeout, and the cancellation that removes every entry under c's id.
LEMMA GiveUpStep ==
  ASSUME IInv, TypeOK', NEW c \in Call, TimeoutFires(c) \/ Cancel(c)
  PROVE  IInv'
<1> USE DEF IInv
<1>1. /\ pc[c] \notin {"new", "register"}
      /\ \/ pc' = [pc EXCEPT ![c] = "timeout"] /\ pending' = pending
         \/ pc' = [pc EXCEPT ![c] = "returned"] /\ pending' = Cancelled(reqId[c])
      /\ pc[c] # "returned"
      /\ UNCHANGED <<reqId, chan, inHand, net, outcome>>
  BY DEF TimeoutFires, Cancel, Goto
<1>2. \A b, id : Answers(b, id) => Answers(b, id)'
  BY <1>1 DEF Answers, TypeOK
<1>3. EntryInv'
  BY <1>1 DEF EntryInv, Cancelled, EntriesOf, TypeOK
<1>4. HandInv' /\ FreshInv'
  BY <1>1 DEF HandInv, FreshInv, Cancelled, TypeOK
<1>5. NetInv' /\ ValueInv'
  BY <1>1, <1>2 DEF NetInv, ValueInv
<1>6. QED
  BY <1>3, <1>4, <1>5

\* The peer's handler, and the loss of a datagram.
LEMMA NetworkStep ==
  ASSUME IInv, TypeOK', NEW m \in net, HandleFindNode(m) \/ Lose(m)
  PROVE  IInv'
<1> USE DEF IInv
<1>1. UNCHANGED <<pc, reqId, pending, chan, inHand, outcome>>
  BY DEF HandleFindNode, Lose
<1>2. \A b, id : Answers(b, id)' <=> Answers(b, id)
  BY <1>1 DEF Answers
<1>3. EntryInv' /\ HandInv' /\ FreshInv'
  BY <1>1 DEF EntryInv, HandInv, FreshInv
<1>4. ValueInv'
  BY <1>1, <1>2 DEF ValueInv
<1>5. NetInv'
  <2>1. CASE Lose(m)
    BY <1>2, <2>1 DEF NetInv, Lose
  <2>2. CASE HandleFindNode(m)
    <3>1. PICK b \in {Answer(m.to, m.key), NoPeers} :
               net' \subseteq net \cup {FindNodeReply(m.id, b)}
      BY <2>2 DEF HandleFindNode, AfterReceiving
    <3>2. Answers(b, m.id)
      BY <2>2 DEF HandleFindNode, NetInv, Answers
    <3>3. QED
      BY <1>2, <3>1, <3>2 DEF NetInv, FindNodeReply
  <2>3. QED
    BY <2>1, <2>2
<1>6. QED
  BY <1>3, <1>4, <1>5

\* resolvePendingLookup moves the channel from the registry to the hands of
\* the receive loop: under one id there is one channel, and it is empty.
LEMMA ResolveStep ==
  ASSUME IInv, TypeOK', NEW m \in net, ResolvePending(m)
  PROVE  IInv'
<1> USE DEF IInv
<1>1. /\ m.type = "FIND_NODE_REPLY"
      /\ inHand' = {[call |-> e.call, body |-> m.body] : e \in EntriesOf(m.id)}
      /\ pending' = pending \ EntriesOf(m.id)
      /\ net' \subseteq net
      /\ UNCHANGED <<pc, reqId, chan, outcome>>
  BY DEF ResolvePending, AfterReceiving
<1>2. \A b, id : Answers(b, id)' <=> Answers(b, id)
  BY <1>1 DEF Answers
<1>3. EntryInv' /\ FreshInv'
  BY <1>1 DEF EntryInv, FreshInv
<1>4. \A x \in inHand' : \E e \in EntriesOf(m.id) : x = [call |-> e.call, body |-> m.body]
  BY <1>1
<1>5. HandInv'
  BY <1>1, <1>4 DEF HandInv, EntryInv, EntriesOf
<1>6. NetInv'
  BY <1>1, <1>2 DEF NetInv
<1>7. ValueInv'
  <2>1. Answers(m.body, m.id)
    BY <1>1 DEF NetInv
  <2>2. \A x \in inHand' : x.body = m.body /\ reqId[x.call] = m.id
    BY <1>4 DEF EntryInv, EntriesOf
  <2>3. QED
    BY <1>1, <1>2, <2>1, <2>2 DEF ValueInv
<1>8. QED
  BY <1>3, <1>5, <1>6, <1>7

\* The send into the channel: nobody else holds anything for that call.
LEMMA DeliverStep ==
  ASSUME IInv, TypeOK', NEW x \in inHand, DeliverReply(x)
  PROVE  IInv'
<1> USE DEF IInv
<1>1. /\ chan' = [chan EXCEPT ![x.call] = {x.body}]
      /\ inHand' = inHand \ {x}
      /\ UNCHANGED <<pc, reqId, pending, net, outcome>>
  BY DEF DeliverReply
<1>2. \A b, id : Answers(b, id)' <=> Answers(b, id)
  BY <1>1 DEF Answers
<1>3. EntryInv' /\ HandInv' /\ FreshInv'
  BY <1>1 DEF EntryInv, HandInv, FreshInv, TypeOK
<1>4. NetInv'
  BY <1>1, <1>2 DEF NetInv
<1>5. ValueInv'
  BY <1>1, <1>2 DEF ValueInv, TypeOK
<1>6. QED
  BY <1>3, <1>4, <1>5

\* Nothing disturbs the inductive invariant.
LEMMA IInvStep == IInv /\ [Next]_vars => IInv'
<1> SUFFICES ASSUME IInv, [Next]_vars PROVE IInv'
  OBVIOUS
<1>1. TypeOK'
  BY TypeStep DEF IInv
<1>2. ASSUME NEW c \in Call, CallStep(c) PROVE IInv'
  BY <1>1, <1>2, NewRequestStep, RegisterStep, SendStep, TakeReplyStep, GiveUpStep
     DEF CallStep
<1>3. ASSUME NEW m \in net, HandleFindNode(m) \/ ResolvePending(m) \/ Lose(m)
      PROVE IInv'
  BY <1>1, <1>3, NetworkStep, ResolveStep
<1>4. ASSUME NEW x \in inHand, DeliverReply(x) PROVE IInv'
  BY <1>1, <1>4, DeliverStep
<1>5. CASE UNCHANGED vars
  <2>1. \A b, id : Answers(b, id)' <=> Answers(b, id)
    BY <1>5 DEF vars, Answers
  <2>2. EntryInv' /\ HandInv' /\ FreshInv'
    BY <1>5 DEF vars, IInv, EntryInv, HandInv, FreshInv
  <2>3. NetInv' /\ ValueInv'
    BY <1>5, <2>1 DEF vars, IInv, NetInv, ValueInv
  <2>4. QED
    BY <1>1, <2>2, <2>3 DEF IInv
<1>6. QED
  BY <1>2, <1>3, <1>4, <1>5 DEF Next

\* The invariant from which the three safety properties follow.
THEOREM InductiveInvariant == Spec => []IInv
<1>1. Init => IInv
  <2> SUFFICES ASSUME Init PROVE IInv
    OBVIOUS
  <2>1. TypeOK
    BY DEF Init, TypeOK, RequestId, Body, Statement
  <2>2. EntryInv /\ HandInv /\ FreshInv
    BY DEF Init, EntryInv, HandInv, FreshInv
  <2>3. NetInv /\ ValueInv
    BY DEF Init, NetInv, ValueInv, Answers
  <2>4. QED
    BY <2>1, <2>2, <2>3 DEF IInv
<1>2. QED
  BY <1>1, IInvStep, PTL DEF Spec

\* The receive loop never blocks on a channel (innercore.go, "non-blocking
\* because channel is buffered(1)").
THEOREM NeverBlocks == Spec => []HandlerNeverBlocks
<1>1. IInv => HandlerNeverBlocks
  BY DEF IInv, HandInv, HandlerNeverBlocks
<1>2. QED
  BY <1>1, InductiveInvariant, PTL

\* No entry of the registry outlives its call.
THEOREM NoLeak == Spec => []NoOrphanEntry
<1>1. IInv => NoOrphanEntry
  BY DEF IInv, EntryInv, NoOrphanEntry
<1>2. QED
  BY <1>1, InductiveInvariant, PTL

\* A call that shares its id with no other returns its own peer's answer or
\* nothing.
THEOREM Integrity == Spec => []ReplyIntegrity
<1>1. IInv => ReplyIntegrity
  BY DEF IInv, ValueInv, Answers, ReplyIntegrity
<1>2. QED
  BY <1>1, InductiveInvariant, PTL
------------------------------------------------------------------------------
\* With a clock that always advances, ids of started calls are distinct.
LEMMA UniqueIdsInvariant ==
  ASSUME StrictClock
  PROVE  Spec => []UniqueIds
<1>1. Init => UniqueIds
  BY DEF Init, UniqueIds
<1>2. TypeOK /\ UniqueIds /\ [Next]_vars => UniqueIds'
  <2> SUFFICES ASSUME TypeOK, UniqueIds, [Next]_vars PROVE UniqueIds'
    OBVIOUS
  <2> USE DEF UniqueIds
  <2>1. ASSUME NEW c \in Call, NewRequest(c) PROVE UniqueIds'
    <3>1. /\ pc[c] = "new" /\ pc' = [pc EXCEPT ![c] = "register"]
          /\ clock' = clock + 1
          /\ reqId' = [reqId EXCEPT
                         ![c] = [tick |-> clock + 1, byte |-> FirstByte[Target[c]]]]
      BY <2>1 DEF NewRequest, Goto
    <3>2. clock \in Nat /\ \A d \in Call : reqId[d].tick \in Nat
      BY DEF TypeOK, RequestId
    <3>3. \A d \in Call : reqId'[d].tick <= clock'
      BY <3>1, <3>2 DEF TypeOK
    <3>4. \A d \in Call \ {c} : pc'[d] = pc[d] /\ reqId'[d] = reqId[d] /\ reqId'[d].tick # reqId'[c].tick
      BY <3>1, <3>2 DEF TypeOK
    <3>5. QED
      BY <3>3, <3>4
  <2>2. ASSUME \A c \in Call : ~NewRequest(c) PROVE UniqueIds'
    <3>1. UNCHANGED <<reqId, clock>>
      BY <2>2 DEF Next, CallStep, vars, Register, Transmit, SendFails, TakeReply,
         TimeoutFires, Cancel, HandleFindNode, ResolvePending, Lose, DeliverReply
    <3>2. \A c \in Call : pc[c] = "new" => pc'[c] = "new"
      BY <2>2 DEF Next, CallStep, vars, Register, Transmit, SendFails, TakeReply,
         TimeoutFires, Cancel, HandleFindNode, ResolvePending, Lose, DeliverReply,
         Goto, TypeOK
    <3>3. QED
      BY <3>1, <3>2
  <2>3. QED
    BY <2>1, <2>2
<1>3. QED
  BY <1>1, <1>2, TypeCorrect, PTL DEF Spec

\* A step of the registry is a step of the abstract call or changes nothing
\* the caller sees.
LEMMA RPCStep ==
  ASSUME IInv, UniqueIds, [Next]_vars
  PROVE  [RPC!Next]_(RPC!vars)
<1> USE DEF RPC!Next, RPC!vars, IInv, TypeOK
<1>1. ASSUME NEW c \in Call, NewRequest(c) PROVE RPC!Ask(c)
  BY <1>1 DEF NewRequest, Goto, Phase, PhaseOf, RPC!Ask
<1>2. ASSUME NEW c \in Call, Register(c) \/ SendFails(c) \/ TimeoutFires(c)
      PROVE  UNCHANGED RPC!vars
  BY <1>2 DEF Register, SendFails, TimeoutFires, Goto, Phase, PhaseOf
<1>3. ASSUME NEW c \in Call, Transmit(c) PROVE RPC!Transmit(c)
  BY <1>3 DEF Transmit, Goto, Phase, PhaseOf, RPC!Transmit
<1>4. ASSUME NEW c \in Call, TakeReply(c) PROVE RPC!Return(c) \/ RPC!GiveUp(c)
  <2>1. PICK b \in chan[c] : outcome' = [outcome EXCEPT ![c] = b]
    BY <1>4 DEF TakeReply
  <2>2. pc[c] = "await" /\ Phase[c] = "sent" /\ Phase' = [Phase EXCEPT ![c] = "returned"]
    BY <1>4 DEF TakeReply, Goto, Phase, PhaseOf
  <2>3. b = NoPeers \/ b = AnswerTo(c)
    BY <2>2 DEF ValueInv, Answers, UniqueIds
  <2>4. outcome[c] = NoPeers
    BY <2>2 DEF FreshInv
  <2>5. QED
    BY <2>1, <2>2, <2>3, <2>4 DEF RPC!Return, RPC!GiveUp
<1>5. ASSUME NEW c \in Call, Cancel(c) PROVE RPC!GiveUp(c)
  BY <1>5 DEF Cancel, Goto, Phase, PhaseOf, RPC!GiveUp
<1>6. ASSUME NEW m \in net, HandleFindNode(m) \/ ResolvePending(m) \/ Lose(m)
      PROVE  UNCHANGED RPC!vars
  BY <1>6 DEF HandleFindNode, ResolvePending, Lose, Phase
<1>7. ASSUME NEW x \in inHand, DeliverReply(x) PROVE UNCHANGED RPC!vars
  BY <1>7 DEF DeliverReply, Phase
<1>8. CASE UNCHANGED vars
  BY <1>8 DEF vars, Phase
<1>9. QED
  BY <1>1, <1>2, <1>3, <1>4, <1>5, <1>6, <1>7, <1>8 DEF Next, CallStep

\* With distinct readings of the clock, SendFindNodeAndWait over the registry
\* and UDP implements the call of FindNodeRPC (safety; its fairness is
\* checked by TLC).
THEOREM Implements ==
  ASSUME StrictClock
  PROVE  Spec => RPC!Spec
<1>1. Init => RPC!Init
  BY DEF Init, RPC!Init, Phase, PhaseOf
<1>2. QED
  BY <1>1, RPCStep, InductiveInvariant, UniqueIdsInvariant, PTL DEF Spec, RPC!Spec
==============================================================================
