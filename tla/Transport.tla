------------------------------ MODULE Transport -------------------------------
(***************************************************************************)
(* Layers 1 and 4 of one node: the network table (network/network.go), the *)
(* receive loop and SendPacket (message/message.go) and what the Kademlia  *)
(* handler sends in answer (innercore/rpc.go), from the start-up sequence  *)
(* of integration.Init to Stop.  Three goroutines touch the table: the     *)
(* receive loop (rx), an application that sends (tx), and the listener of  *)
(* discovery.  Each step is one critical section or one system call.       *)
(* Other nodes run the same program and are reduced to their answers.      *)
(***************************************************************************)
EXTENDS Naturals, FiniteSets, Bags

CONSTANTS Self,         \* this node
          Remote,       \* the other nodes
          Absent,       \* no entry in the table
          Idle,         \* a goroutine between two jobs
          MaxRequests,  \* bound on packets sent unasked
          MaxFailures   \* bound on writes that fail by chance

Node == {Self} \cup Remote

ASSUME TransportAssumption ==
    /\ Self \notin Remote
    /\ MaxRequests \in Nat /\ MaxFailures \in Nat

VARIABLES
    phase,     \* how far integration.Init and Stop have come
    table,     \* network.networkTable.peers
    air,       \* the datagrams on their way, a bag
    rx,        \* the receive loop: Idle, or its step, packet and send
    tx,        \* the application's SendPacket: Idle, or its step, target and kind
    requests,  \* packets sent unasked so far, by anyone
    chance,    \* writes that failed by chance so far
    fails      \* history: failures recorded for a peer since its last UpdateNode

vars == <<phase, table, air, rx, tx, requests, chance, fails>>

------------------------------------------------------------------------------
(* The network table.  Health is in tenths.                                *)

Sub(x, y) == IF x < y THEN 0 ELSE x - y
Least(x, y) == IF x < y THEN x ELSE y

Known(p) == table[p] # Absent

UpdateNode_KeepsCapabilities(p, about) ==
    /\ table' = [table EXCEPT ![p] =
           [about |-> IF Known(p) THEN @.about ELSE about, health |-> 10, status |-> "alive"]]
    /\ fails' = [fails EXCEPT ![p] = 0]

\* Capabilities, name and score become those of the caller, which are empty
\* when a packet and not an announcement introduced the peer.
UpdateNode(p, about) ==
    /\ table' = [table EXCEPT ![p] = [about |-> about, health |-> 10, status |-> "alive"]]
    /\ fails' = [fails EXCEPT ![p] = 0]

RecordSuccess(p) ==
    /\ table' = IF Known(p) THEN [table EXCEPT ![p].health = Least(10, @ + 1)] ELSE table
    /\ UNCHANGED fails

AtMostThreeTenths_Half(h) == {h <= 5}

\* Sums of 0.1 and 0.3 come out on either side of 0.3.
AtMostThreeTenths(h) == IF h = 3 THEN {TRUE, FALSE} ELSE {h < 3}

RecordFailure(p) ==
    /\ Known(p)
    /\ LET h == Sub(table[p].health, 3)
       IN  \E low \in AtMostThreeTenths(h) :
             table' = [table EXCEPT ![p].health = h,
                                    ![p].status = IF low THEN "unhealthy" ELSE @]
    /\ fails' = [fails EXCEPT ![p] = @ + 1]

------------------------------------------------------------------------------
(* Packets.  A STORE that carries a chunk of 256 KB exceeds any datagram.  *)

Request == {"PING", "FIND_NODE", "STORE", "CHUNK", "MESSAGE"}
Kind == Request \cup {"FIND_NODE_REPLY", "ACK"}
Packet == [from : Node, to : Node, kind : Kind]
Oversize(kind) == kind = "CHUNK"

ReplyTo_PongToo(kind) ==
    CASE kind \in {"PING", "STORE"} -> {"PING", "FIND_NODE_REPLY"}
      [] kind = "FIND_NODE" -> {"FIND_NODE_REPLY"}
      [] OTHER -> {}

\* What HandleKademliaPacket sends through SendPacket.
ReplyTo(kind) ==
    CASE kind \in {"PING", "STORE"} -> {"PING"}
      [] kind = "FIND_NODE" -> {"FIND_NODE_REPLY"}
      [] OTHER -> {}

Kademlia == {"PING", "FIND_NODE", "FIND_NODE_REPLY", "STORE"}

Datagrams(from, to, kinds) == SetToBag({[from |-> from, to |-> to, kind |-> k] : k \in kinds})
Without(pkt) == air (-) SetToBag({pkt})

------------------------------------------------------------------------------
(* Start-up and shutdown.                                                  *)

Phase == {"init", "registered", "known", "listening", "serving", "closed", "crashed"}
Stopped == phase \in {"closed", "crashed"}
HasSocket == phase \in {"listening", "serving"}

Init ==
    /\ phase = "init"
    /\ table = [p \in Node |-> Absent]
    /\ air = EmptyBag
    /\ rx = Idle /\ tx = Idle
    /\ requests = 0 /\ chance = 0
    /\ fails = [p \in Node |-> 0]

Goto(from, to) ==
    /\ phase = from
    /\ phase' = to
    /\ UNCHANGED <<air, rx, tx, requests, chance>>

RegisterSelf == Goto("registered", "known") /\ UpdateNode(Self, "announced")

\* The callback is set; the socket is open and the receive loop runs; only
\* then msgService is assigned.
StartUp ==
    \/ /\ Goto("init", "registered") \/ Goto("known", "listening")
                                    \/ Goto("listening", "serving")
       /\ UNCHANGED <<table, fails>>
    \/ RegisterSelf

\* Stop closes the socket; the goroutines run on.
Stop == Goto("serving", "closed") /\ UNCHANGED <<table, fails>>

\* listenLoop of discovery hears an announcement; it drops those of its own
\* node and those that come before the callback is there.
HearAnnouncement(p) ==
    /\ phase \notin {"init", "crashed"}
    /\ UpdateNode(p, "announced")
    /\ UNCHANGED <<phase, air, rx, tx, requests, chance>>

------------------------------------------------------------------------------
(* SendPacket in three steps: GetPeer, the write, and the feedback.        *)

Write(to, kinds) ==
    /\ phase = "serving" /\ ~\E k \in kinds : Oversize(k)
    /\ air' = air (+) Datagrams(Self, to, kinds)
    /\ UNCHANGED chance

WriteByChanceFails ==
    /\ phase = "serving"
    /\ chance < MaxFailures
    /\ chance' = chance + 1
    /\ UNCHANGED air

WriteFails(kinds) ==
    \/ WriteByChanceFails
    \/ /\ phase = "closed" \/ (phase = "serving" /\ \E k \in kinds : Oversize(k))
       /\ UNCHANGED <<air, chance>>

\* An unknown target is an error without any effect.
AppSends(p, kind) ==
    /\ phase \in {"serving", "closed"}
    /\ tx = Idle /\ requests < MaxRequests
    /\ requests' = requests + 1
    /\ tx' = IF Known(p) THEN [step |-> "write", peer |-> p, kind |-> kind] ELSE Idle
    /\ UNCHANGED <<phase, table, air, rx, chance, fails>>

AppWrites ==
    /\ tx # Idle /\ tx.step = "write"
    /\ \/ Write(tx.peer, {tx.kind}) /\ tx' = [tx EXCEPT !.step = "credit"]
       \/ WriteFails({tx.kind}) /\ tx' = [tx EXCEPT !.step = "blame"]
    /\ UNCHANGED <<phase, table, rx, requests, fails>>

AppFeedback ==
    /\ tx # Idle /\ tx.step \in {"credit", "blame"}
    /\ IF tx.step = "credit" THEN RecordSuccess(tx.peer) ELSE RecordFailure(tx.peer)
    /\ tx' = Idle
    /\ UNCHANGED <<phase, air, rx, requests, chance>>

------------------------------------------------------------------------------
(* The receive loop.                                                       *)

At(step) == phase # "crashed" /\ rx # Idle /\ rx.step = step
Step(step) == rx' = [rx EXCEPT !.step = step]

\* GetPeer: whether the sender is new is decided here, the entry written later.
Receive(pkt) ==
    /\ HasSocket /\ rx = Idle
    /\ BagIn(pkt, air) /\ pkt.to = Self
    /\ air' = Without(pkt)
    /\ rx' = [step |-> IF Known(pkt.from) THEN "credit" ELSE "seed", packet |-> pkt]
    /\ UNCHANGED <<phase, table, tx, requests, chance, fails>>

AutoSeed ==
    /\ At("seed")
    /\ UpdateNode(rx.packet.from, "blank")
    /\ Step("credit")
    /\ UNCHANGED <<phase, air, tx, requests, chance>>

\* RecordSuccess, then the switch on the type.
Credit ==
    /\ At("credit")
    /\ RecordSuccess(rx.packet.from)
    /\ IF rx.packet.kind \in Kademlia THEN Step("handle")
       ELSE IF rx.packet.kind = "MESSAGE" THEN Step("ack")
       ELSE rx' = Idle
    /\ UNCHANGED <<phase, air, tx, requests, chance>>

\* sendRaw: no look at the table, no feedback, errors ignored.
SendAck ==
    /\ At("ack")
    /\ rx' = Idle
    /\ \/ HasSocket /\ air' = air (+) Datagrams(Self, rx.packet.from, {"ACK"})
       \/ UNCHANGED air
    /\ UNCHANGED <<phase, table, tx, requests, chance, fails>>

Handle ==
    /\ At("handle")
    /\ RecordSuccess(rx.packet.from)
    /\ Step(IF ReplyTo(rx.packet.kind) = {} THEN "recredit" ELSE "reply")
    /\ UNCHANGED <<phase, air, tx, requests, chance>>

Reply ==
    /\ At("reply")
    /\ LET answer == ReplyTo(rx.packet.kind)
       IN  \/ Write(rx.packet.from, answer) /\ Step("replied")
           \/ WriteFails(answer) /\ Step("failed")
    /\ UNCHANGED <<phase, table, tx, requests, fails>>

\* SendPacket dereferences msgService before message.Init assigned it.
NilService ==
    /\ At("reply") /\ phase = "listening"
    /\ phase' = "crashed"
    /\ UNCHANGED <<table, air, rx, tx, requests, chance, fails>>

ReplyFeedback ==
    /\ At("replied") \/ At("failed")
    /\ IF rx.step = "replied" THEN RecordSuccess(rx.packet.from) ELSE RecordFailure(rx.packet.from)
    /\ Step("recredit")
    /\ UNCHANGED <<phase, air, tx, requests, chance>>

Recredit ==
    /\ At("recredit")
    /\ RecordSuccess(rx.packet.from)
    /\ rx' = Idle
    /\ UNCHANGED <<phase, air, tx, requests, chance>>

ReceiveLoop ==
    \/ \E pkt \in BagToSet(air) : Receive(pkt)
    \/ AutoSeed \/ Credit \/ SendAck \/ Handle \/ Reply \/ NilService
    \/ ReplyFeedback \/ Recredit

------------------------------------------------------------------------------
(* The network and the other nodes.                                        *)

RemoteAsks(p, kind) ==
    /\ requests < MaxRequests /\ ~Oversize(kind)
    /\ requests' = requests + 1
    /\ air' = air (+) Datagrams(p, Self, {kind})
    /\ UNCHANGED <<phase, table, rx, tx, chance, fails>>

RemoteAnswers(pkt) ==
    /\ pkt.to \in Remote
    /\ air' = Without(pkt) (+)
           Datagrams(pkt.to, Self, IF pkt.kind = "MESSAGE" THEN {"ACK"} ELSE ReplyTo(pkt.kind))
    /\ UNCHANGED <<phase, table, rx, tx, requests, chance, fails>>

\* Lost on the way, or longer than the buffer of the receive loop.
Lose(pkt) ==
    /\ air' = Without(pkt)
    /\ UNCHANGED <<phase, table, rx, tx, requests, chance, fails>>

Environment ==
    \/ \E p \in Remote, kind \in Request : RemoteAsks(p, kind)
    \/ \E pkt \in BagToSet(air) : RemoteAnswers(pkt) \/ Lose(pkt)

Application ==
    \/ \E p \in Node, kind \in Request : AppSends(p, kind)
    \/ AppWrites \/ AppFeedback

Next ==
    \/ StartUp \/ Stop
    \/ \E p \in Remote : HearAnnouncement(p)
    \/ Application \/ ReceiveLoop \/ Environment

Spec == Init /\ [][Next]_vars

\* Init runs on, and peers announce themselves every five seconds, so that some
\* announcement arrives in the end.
FairSpec == Spec /\ WF_vars(StartUp) /\ \A p \in Remote : WF_vars(HearAnnouncement(p))

------------------------------------------------------------------------------
(* Properties                                                              *)

Entry == [about : {"announced", "blank"}, health : 0..10, status : {"alive", "unhealthy"}]

TypeOK ==
    /\ phase \in Phase
    /\ table \in [Node -> Entry \cup {Absent}]
    /\ IsABag(air) /\ BagToSet(air) \subseteq Packet
    /\ rx = Idle \/ rx \in [step : {"seed", "credit", "ack", "handle", "reply", "replied",
                                     "failed", "recredit"}, packet : Packet]
    /\ tx = Idle \/ tx \in [step : {"write", "credit", "blame"}, peer : Node, kind : Request]
    /\ requests \in 0..MaxRequests /\ chance \in 0..MaxFailures
    /\ fails \in [Node -> Nat]

\* A peer loses health by failed sends alone, three tenths each, and is called
\* unhealthy only after three of them since its last announcement - whichever
\* way the ten credits and blames of the goroutines interleave, and although a
\* blame may arrive after the announcement that followed the failure.
UnhealthyIsEarned ==
    \A p \in Node : Known(p) =>
        /\ table[p].health + 3 * fails[p] >= 10
        /\ table[p].status = "unhealthy" => fails[p] >= 3

Copies(bag) == UNION {{pkt} \X (1..bag[pkt]) : pkt \in BagToSet(bag)}
Received == IF rx # Idle /\ rx.step \in {"seed", "credit", "ack", "handle", "reply"} THEN 1 ELSE 0
Unwritten == IF tx # Idle /\ tx.step = "write" THEN 1 ELSE 0
Outstanding == Cardinality(Copies(air)) + Received + Unwritten

\* Every packet that is answered is answered by at most one packet: those in
\* the air, in the receive loop and in a send never outnumber the requests
\* that were made unasked.  (A STORE is answered by a PING, and a PING by a
\* PING for ever, so that the number does not fall again either, but by loss.)
NoAmplification == Outstanding <= requests

\* What happens to another node's entry heals: again and again it is called
\* alive and holds what the node announced, unless this node stops.  (The node's
\* own entry does not heal: it drops its own announcements.)
RemoteRecovers ==
    \A p \in Remote :
        []<>(Known(p) /\ ~Stopped => table[p].status = "alive" /\ table[p].about = "announced")
==============================================================================
