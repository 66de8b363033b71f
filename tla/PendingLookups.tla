--------------------------- MODULE PendingLookups ----------------------------
(***************************************************************************)
(* The bridge between SendFindNodeAndWait and the UDP receive loop of one  *)
(* node: the registry pendingLookups of InnerCore (innercore/innercore.go) *)
(* and its users in innercore/rpc.go.                                      *)
(*                                                                         *)
(* A call of SendFindNodeAndWait registers a channel under a request id,   *)
(* sends a FIND_NODE and waits for the channel or for two seconds.  The    *)
(* receive loop, one other goroutine, takes the channel out of the         *)
(* registry when a FIND_NODE_REPLY arrives, releases the lock and only     *)
(* then sends into the channel.  UDP loses, duplicates and reorders.       *)
(*                                                                         *)
(* A request id is the reading of the nanosecond clock and the first byte  *)
(* of the target, so two calls started on the same reading of the clock    *)
(* share an id when their targets share the byte.                          *)
(***************************************************************************)
EXTENDS Naturals

CONSTANTS Call,        \* calls of SendFindNodeAndWait; a goroutine of Lookup makes one
          Peer,        \* remote nodes
          LookupId,    \* ids looked up (the lookup_id of the payload)
          Target,      \* Target[c]: the peer call c asks
          LookupOf,    \* LookupOf[c]: the id call c asks about
          FirstByte,   \* FirstByte[p]: target[0] of the request id
          StrictClock, \* TRUE: two readings of the clock always differ
          NoPeers      \* the nil slice

ASSUME ConstantsAssumption ==
    /\ Target \in [Call -> Peer]
    /\ LookupOf \in [Call -> LookupId]
    /\ FirstByte \in [Peer -> Nat]
    /\ StrictClock \in BOOLEAN
    /\ NoPeers \notin Peer \X LookupId

VARIABLES pc,       \* pc[c]: the statement of SendFindNodeAndWait call c is at
          reqId,    \* reqId[c]: the request id of c
          clock,    \* the last reading of time.Now().UnixNano()
          pending,  \* pendingLookups: the entries [id, call], call names the channel
          chan,     \* chan[c]: the buffer of c's channel, of capacity one
          inHand,   \* what the receive loop has taken out and not yet sent
          net,      \* datagrams in flight
          outcome   \* outcome[c]: what c returned

vars == <<pc, reqId, clock, pending, chan, inHand, net, outcome>>

------------------------------------------------------------------------------
RequestId == [tick : Nat, byte : Nat]
Answer(p, k) == <<p, k>>                   \* the peers p knows near k
AnswerTo(c) == Answer(Target[c], LookupOf[c])
Body == (Peer \X LookupId) \cup {NoPeers}

FindNode(id, p, k) == [type |-> "FIND_NODE", id |-> id, to |-> p, key |-> k]
FindNodeReply(id, b) == [type |-> "FIND_NODE_REPLY", id |-> id, body |-> b]
Request == [type : {"FIND_NODE"}, id : RequestId, to : Peer, key : LookupId]
Reply == [type : {"FIND_NODE_REPLY"}, id : RequestId, body : Body]

Statement == {"new", "register", "send", "await", "abort", "timeout", "returned"}

Init ==
    /\ pc = [c \in Call |-> "new"]
    /\ reqId = [c \in Call |-> [tick |-> 0, byte |-> 0]]
    /\ clock = 1
    /\ pending = {}
    /\ chan = [c \in Call |-> {}]
    /\ inHand = {}
    /\ net = {}
    /\ outcome = [c \in Call |-> NoPeers]

Goto(c, from, to) ==
    /\ pc[c] = from
    /\ pc' = [pc EXCEPT ![c] = to]

------------------------------------------------------------------------------
(* The registry.  Each operation is one critical section of                *)
(* pendingLookupsMu.                                                       *)

EntriesOf(id) == {e \in pending : e.id = id}

\* pendingLookups[requestID] = ch overwrites the entry of an equal id.
Put(id, c) == (pending \ EntriesOf(id)) \cup {[id |-> id, call |-> c]}

Cancelled_KeepsEntry(id) == pending
Cancelled(id) == pending \ EntriesOf(id)

------------------------------------------------------------------------------
(* SendFindNodeAndWait                                                     *)

\* requestID := "fnw-<UnixNano>-<target[0]>"
NewRequest(c) ==
    /\ Goto(c, "new", "register")
    /\ \E now \in {clock + 1} \cup (IF StrictClock THEN {} ELSE {clock}) :
          /\ clock' = now
          /\ reqId' = [reqId EXCEPT
                         ![c] = [tick |-> now, byte |-> FirstByte[Target[c]]]]
    /\ UNCHANGED <<pending, chan, inHand, net, outcome>>

Register(c) ==
    /\ Goto(c, "register", "send")
    /\ pending' = Put(reqId[c], c)
    /\ UNCHANGED <<reqId, clock, chan, inHand, net, outcome>>

Transmit(c) ==
    /\ Goto(c, "send", "await")
    /\ net' = net \cup {FindNode(reqId[c], Target[c], LookupOf[c])}
    /\ UNCHANGED <<reqId, clock, pending, chan, inHand, outcome>>

\* msgSender returned an error.
SendFails(c) ==
    /\ Goto(c, "send", "abort")
    /\ UNCHANGED <<reqId, clock, pending, chan, inHand, net, outcome>>

\* case peers := <-replyCh
TakeReply(c) ==
    /\ Goto(c, "await", "returned")
    /\ \E b \in chan[c] : outcome' = [outcome EXCEPT ![c] = b]
    /\ chan' = [chan EXCEPT ![c] = {}]
    /\ UNCHANGED <<reqId, clock, pending, inHand, net>>

\* case <-time.After(2s).  The select may also pick it when a reply is there.
TimeoutFires(c) ==
    /\ Goto(c, "await", "timeout")
    /\ UNCHANGED <<reqId, clock, pending, chan, inHand, net, outcome>>

\* cancelPendingLookup, after an error or after the timeout; returns nil.
Cancel(c) ==
    /\ Goto(c, "abort", "returned") \/ Goto(c, "timeout", "returned")
    /\ pending' = Cancelled(reqId[c])
    /\ UNCHANGED <<reqId, clock, chan, inHand, net, outcome>>

------------------------------------------------------------------------------
(* HandleKademliaPacket and resolvePendingLookup                           *)

\* After a datagram was received another copy of it may still be in flight.
AfterReceiving(m) == {net, net \ {m}}

\* A peer answers with what it knows near the key, or with an empty list.
\* The reply carries the request id of the question.
HandleFindNode_WrongId(m) ==
    /\ m.type = "FIND_NODE"
    /\ \E rest \in AfterReceiving(m), b \in {Answer(m.to, m.key), NoPeers},
          c \in Call :
          net' = rest \cup {FindNodeReply(reqId[c], b)}
    /\ UNCHANGED <<pc, reqId, clock, pending, chan, inHand, outcome>>

HandleFindNode(m) ==
    /\ m.type = "FIND_NODE"
    /\ \E rest \in AfterReceiving(m), b \in {Answer(m.to, m.key), NoPeers} :
          net' = rest \cup {FindNodeReply(m.id, b)}
    /\ UNCHANGED <<pc, reqId, clock, pending, chan, inHand, outcome>>

\* The critical section of resolvePendingLookup: look up and delete.  The
\* loop handles one packet at a time, so it is free only with empty hands.
\* An undecodable reply resolves with nil, the body NoPeers.
ResolvePending_KeepsEntry(m) ==
    /\ m.type = "FIND_NODE_REPLY"
    /\ inHand = {}
    /\ inHand' = {[call |-> e.call, body |-> m.body] : e \in EntriesOf(m.id)}
    /\ net' \in AfterReceiving(m)
    /\ UNCHANGED <<pc, reqId, clock, pending, chan, outcome>>

ResolvePending(m) ==
    /\ m.type = "FIND_NODE_REPLY"
    /\ inHand = {}
    /\ inHand' = {[call |-> e.call, body |-> m.body] : e \in EntriesOf(m.id)}
    /\ pending' = pending \ EntriesOf(m.id)
    /\ net' \in AfterReceiving(m)
    /\ UNCHANGED <<pc, reqId, clock, chan, outcome>>

\* ch <- peers, after the unlock.  It blocks while the buffer is full.
DeliverReply(x) ==
    /\ chan[x.call] = {}
    /\ chan' = [chan EXCEPT ![x.call] = {x.body}]
    /\ inHand' = inHand \ {x}
    /\ UNCHANGED <<pc, reqId, clock, pending, net, outcome>>

\* UDP loses a datagram.
Lose(m) ==
    /\ net' = net \ {m}
    /\ UNCHANGED <<pc, reqId, clock, pending, chan, inHand, outcome>>

------------------------------------------------------------------------------
CallStep(c) ==
    \/ NewRequest(c) \/ Register(c)
    \/ Transmit(c) \/ SendFails(c)
    \/ TakeReply(c) \/ TimeoutFires(c) \/ Cancel(c)

Next ==
    \/ \E c \in Call : CallStep(c)
    \/ \E m \in net : HandleFindNode(m) \/ ResolvePending(m) \/ Lose(m)
    \/ \E x \in inHand : DeliverReply(x)

Spec == Init /\ [][Next]_vars

\* The goroutines of this node run and its timers fire; nothing is assumed
\* of the network, of the peers, or of new calls being made.
Fairness ==
    /\ \A c \in Call : WF_vars(CallStep(c) /\ pc[c] # "new")
    /\ WF_vars(\E x \in inHand : DeliverReply(x))

FairSpec == Spec /\ Fairness

------------------------------------------------------------------------------
(* Properties                                                              *)

TypeOK ==
    /\ pc \in [Call -> Statement]
    /\ reqId \in [Call -> RequestId]
    /\ clock \in Nat
    /\ pending \subseteq [id : RequestId, call : Call]
    /\ chan \in [Call -> SUBSET Body]
    /\ inHand \subseteq [call : Call, body : Body]
    /\ net \subseteq Request \cup Reply
    /\ outcome \in [Call -> Body]

\* The receive loop never blocks on a channel: whatever the interleaving of
\* replies, duplicates, timeouts and cancellations, the buffer of a channel
\* in hand is empty.  A blocked send would stop all packet handling of the
\* node (innercore.go: "non-blocking because channel is buffered(1)").
HandlerNeverBlocks == \A x \in inHand : chan[x.call] = {}

\* The registry does not leak: an entry belongs to a call that has not
\* returned, so a node without running lookups has an empty registry, even
\* when request ids collide and one call cancels the entry of another.
NoOrphanEntry ==
    \A e \in pending : pc[e.call] \notin {"new", "register", "returned"}

\* A call whose request id is its own returns nothing but the answer of the
\* peer it asked to the question it asked, however late, duplicated or
\* reordered the replies to other calls are.
ReplyIntegrity ==
    \A c \in Call :
        (\A d \in Call \ {c} : reqId[d] # reqId[c])
            => outcome[c] \in {NoPeers, AnswerTo(c)}

\* The receive loop always becomes free again.
ReceiveLoopRecovers == inHand # {} ~> inHand = {}

\* With distinct readings of the clock the registry implements the abstract
\* call: nothing but the own answer is returned, and every call returns.
PhaseOf(s) ==
    IF s = "new" THEN "idle"
    ELSE IF s \in {"await", "timeout"} THEN "sent"
    ELSE IF s = "returned" THEN "returned"
    ELSE "asking"

Phase == [c \in Call |-> PhaseOf(pc[c])]

RPC == INSTANCE FindNodeRPC WITH phase <- Phase, outcome <- outcome
ImplementsRPC == RPC!FairSpec
------------------------------------------------------------------------------
(* The inductive invariant behind HandlerNeverBlocks, NoOrphanEntry and    *)
(* ReplyIntegrity; proved in PendingLookups_proofs.                        *)

\* A call owns its channel alone: at most one of the registry, the hands of
\* the receive loop and the buffer holds something for it.
EntryInv ==
    \A e \in pending :
        /\ pc[e.call] \in {"send", "await", "abort", "timeout"}
        /\ reqId[e.call] = e.id
        /\ chan[e.call] = {}

HandInv ==
    \A x \in inHand :
        /\ pc[x.call] \notin {"new", "register"}
        /\ chan[x.call] = {}
        /\ \A e \in pending : e.call # x.call
        /\ \A y \in inHand : y.call = x.call => y = x

FreshInv ==
    \A c \in Call :
        /\ pc[c] \in {"new", "register"} => chan[c] = {}
        /\ pc[c] # "returned" => outcome[c] = NoPeers

\* b is an answer to a question sent under id.
Answers(b, id) ==
    \/ b = NoPeers
    \/ \E c \in Call : pc[c] # "new" /\ reqId[c] = id /\ b = AnswerTo(c)

NetInv ==
    \A m \in net :
        /\ m.type = "FIND_NODE" => Answers(Answer(m.to, m.key), m.id)
        /\ m.type = "FIND_NODE_REPLY" => Answers(m.body, m.id)

ValueInv ==
    /\ \A x \in inHand : Answers(x.body, reqId[x.call])
    /\ \A c \in Call : \A b \in chan[c] : Answers(b, reqId[c])
    /\ \A c \in Call : Answers(outcome[c], reqId[c])

IInv == TypeOK /\ EntryInv /\ HandInv /\ FreshInv /\ NetInv /\ ValueInv

\* Under a strict clock no two started calls share a request id.
UniqueIds ==
    /\ \A c \in Call : reqId[c].tick <= clock
    /\ \A c, d \in Call :
          (pc[c] # "new" /\ pc[d] # "new" /\ reqId[c] = reqId[d]) => c = d
==============================================================================
