--------------------------- MODULE Transport_proofs ----------------------------
(***************************************************************************)
(* Theorems about the network table of Transport for any nodes and any     *)
(* number of packets and failures: a peer that is called unhealthy has     *)
(* earned it, and answers never outnumber what was asked.                  *)
(***************************************************************************)
EXTENDS Transport, FiniteSetTheorems, TLAPS

------------------------------------------------------------------------------
(* The inductive invariant.                                                *)

TableType == table \in [Node -> Entry \cup {Absent}] /\ fails \in [Node -> Nat]
IInv == TableType /\ UnhealthyIsEarned

------------------------------------------------------------------------------
(* The operations of the table.                                            *)

\* What a change has to show for the one entry it writes.
LEMMA OneEntry ==
    ASSUME IInv, NEW p \in Node, NEW entry \in Entry, NEW n \in Nat,
           table' = [table EXCEPT ![p] = entry], fails' = [fails EXCEPT ![p] = n],
           entry.health + 3 * n >= 10, entry.status = "unhealthy" => n >= 3
    PROVE  IInv'
<1>1. TableType'
  BY DEF IInv, TableType
<1>2. \A q \in Node : table'[q] = (IF q = p THEN entry ELSE table[q])
                      /\ fails'[q] = (IF q = p THEN n ELSE fails[q])
  BY DEF IInv, TableType
<1> QED BY <1>1, <1>2 DEF IInv, UnhealthyIsEarned, Known

LEMMA Unchanged == ASSUME IInv, UNCHANGED <<table, fails>> PROVE IInv'
BY DEF IInv, TableType, UnhealthyIsEarned, Known

LEMMA UpdateKeeps ==
    ASSUME IInv, NEW p, NEW about \in {"announced", "blank"}, UpdateNode(p, about)
    PROVE  IInv'
<1>1. CASE p \in Node
  <2> DEFINE entry == [about |-> about, health |-> 10, status |-> "alive"]
  <2>1. entry \in Entry /\ entry.health = 10 /\ entry.status = "alive"
    BY DEF Entry
  <2>2. table' = [table EXCEPT ![p] = entry] /\ fails' = [fails EXCEPT ![p] = 0]
    BY DEF UpdateNode
  <2> HIDE DEF entry
  <2>3. entry.health + 3 * 0 >= 10 /\ (entry.status = "unhealthy" => 0 >= 3)
    BY <2>1
  <2> QED BY <1>1, <2>1, <2>2, <2>3, OneEntry
<1>2. CASE p \notin Node
  <2>1. table' = table /\ fails' = fails
    BY <1>2 DEF UpdateNode, IInv, TableType
  <2> QED BY <2>1, Unchanged
<1> QED BY <1>1, <1>2

LEMMA SuccessKeeps ==
    ASSUME IInv, NEW p, RecordSuccess(p)
    PROVE  IInv'
<1>1. CASE p \in Node /\ Known(p)
  <2>1. table[p] \in Entry /\ fails[p] \in Nat
    BY <1>1 DEF IInv, TableType, Known
  <2>2. table[p].health \in 0..10 /\ table[p].about \in {"announced", "blank"}
        /\ table[p].status \in {"alive", "unhealthy"}
    BY <2>1 DEF Entry
  <2>3. PICK h : h = Least(10, table[p].health + 1)
    OBVIOUS
  <2>4. h \in 0..10 /\ h >= table[p].health
    BY <2>2, <2>3 DEF Least
  <2>5. PICK entry : entry = [table[p] EXCEPT !.health = h]
    OBVIOUS
  <2>6. entry \in Entry /\ entry.health = h /\ entry.status = table[p].status
    BY <2>1, <2>4, <2>5 DEF Entry
  <2>7. table' = [table EXCEPT ![p] = entry]
    BY <1>1, <2>3, <2>5 DEF RecordSuccess
  <2>8. fails' = [fails EXCEPT ![p] = fails[p]]
    BY <1>1 DEF RecordSuccess, IInv, TableType
  <2>9. h + 3 * fails[p] >= 10 /\ (entry.status = "unhealthy" => fails[p] >= 3)
    BY <1>1, <2>1, <2>2, <2>4, <2>6 DEF IInv, UnhealthyIsEarned
  <2> QED BY <1>1, <2>1, <2>6, <2>7, <2>8, <2>9, OneEntry
<1>2. CASE ~(p \in Node /\ Known(p))
  <2>1. table' = table /\ fails' = fails
    BY <1>2 DEF RecordSuccess, IInv, TableType, Known
  <2> QED BY <2>1, Unchanged
<1> QED BY <1>1, <1>2

\* A peer is at most three tenths healthy only after three failures, even where
\* the sum of tenths falls on the wrong side.
LEMMA FailureKeeps ==
    ASSUME IInv, NEW p, RecordFailure(p)
    PROVE  IInv'
<1>0. PICK h : h = Sub(table[p].health, 3)
  OBVIOUS
<1>1. PICK low \in AtMostThreeTenths(h) :
          table' = [table EXCEPT ![p].health = h,
                                 ![p].status = IF low THEN "unhealthy" ELSE @]
  BY <1>0 DEF RecordFailure
<1>2. Known(p) /\ fails' = [fails EXCEPT ![p] = @ + 1]
  BY DEF RecordFailure
<1>3. CASE p \in Node
  <2>1. table[p] \in Entry /\ fails[p] \in Nat
    BY <1>2, <1>3 DEF IInv, TableType, Known
  <2>2. table[p].health \in 0..10 /\ table[p].about \in {"announced", "blank"}
        /\ table[p].status \in {"alive", "unhealthy"}
    BY <2>1 DEF Entry
  <2>3. h \in 0..10 /\ h >= table[p].health - 3
    BY <1>0, <2>2 DEF Sub
  <2>4. low => h <= 3
    <3>1. CASE h = 3
      BY <3>1
    <3>2. CASE h # 3
      <4>1. low => h < 3
        BY <1>1, <3>2, Zenon DEF AtMostThreeTenths
      <4> QED BY <2>3, <4>1
    <3> QED BY <3>1, <3>2
  <2>5. PICK entry : entry = [table[p] EXCEPT !.health = h,
                                              !.status = IF low THEN "unhealthy" ELSE @]
    OBVIOUS
  <2>6. entry = [about |-> table[p].about, health |-> h,
                 status |-> IF low THEN "unhealthy" ELSE table[p].status]
    BY <2>1, <2>5 DEF Entry
  <2>7. entry \in Entry
    BY <2>2, <2>3, <2>6 DEF Entry
  <2>8. table' = [table EXCEPT ![p] = entry]
    BY <1>1, <1>3, <2>5 DEF IInv, TableType
  <2>9. fails' = [fails EXCEPT ![p] = fails[p] + 1] /\ fails[p] + 1 \in Nat
    BY <1>2, <2>1
  <2>10. /\ table[p].health + 3 * fails[p] >= 10
         /\ table[p].status = "unhealthy" => fails[p] >= 3
    BY <1>2, <1>3 DEF IInv, UnhealthyIsEarned
  <2>11. entry.health + 3 * (fails[p] + 1) >= 10
    <3>1. h + 3 * (fails[p] + 1) >= 10
      BY <2>1, <2>2, <2>3, <2>10
    <3>2. entry.health = h
      BY <2>6
    <3> QED BY <3>1, <3>2
  <2>12. low => fails[p] + 1 >= 3
    <3>1. h + 3 * (fails[p] + 1) >= 10
      BY <2>6, <2>11
    <3>2. h <= 3 => fails[p] + 1 >= 3
      BY <2>1, <2>3, <3>1
    <3> QED BY <2>4, <3>2, Zenon
  <2>13. entry.status = "unhealthy" => fails[p] + 1 >= 3
    BY <2>1, <2>6, <2>10, <2>12
  <2> QED BY <1>3, <2>7, <2>8, <2>9, <2>11, <2>13, OneEntry
<1>4. CASE p \notin Node
  <2>1. table' = table /\ fails' = fails
    BY <1>1, <1>2, <1>4 DEF IInv, TableType
  <2> QED BY <2>1, Unchanged
<1> QED BY <1>3, <1>4

------------------------------------------------------------------------------
(* The steps.                                                              *)

LEMMA InvInit == Init => IInv
BY DEF Init, IInv, TableType, UnhealthyIsEarned, Known

LEMMA StepStartUp == ASSUME IInv, StartUp \/ Stop PROVE IInv'
<1>1. CASE RegisterSelf
  BY <1>1, UpdateKeeps DEF RegisterSelf
<1>2. CASE UNCHANGED <<table, fails>>
  BY <1>2, Unchanged
<1> QED BY <1>1, <1>2 DEF StartUp, Stop

LEMMA StepApplication == ASSUME IInv, Application PROVE IInv'
<1>1. CASE AppFeedback
  BY <1>1, SuccessKeeps, FailureKeeps DEF AppFeedback
<1>2. CASE ~AppFeedback
  <2>1. UNCHANGED <<table, fails>>
    BY <1>2 DEF Application, AppSends, AppWrites
  <2> QED BY <2>1, Unchanged
<1> QED BY <1>1, <1>2

LEMMA StepReceiveLoop == ASSUME IInv, ReceiveLoop PROVE IInv'
<1>1. CASE AutoSeed
  BY <1>1, UpdateKeeps DEF AutoSeed
<1>2. CASE Credit \/ Handle \/ Recredit
  BY <1>2, SuccessKeeps DEF Credit, Handle, Recredit
<1>3. CASE ReplyFeedback
  BY <1>3, SuccessKeeps, FailureKeeps DEF ReplyFeedback
<1>4. CASE (\E pkt \in BagToSet(air) : Receive(pkt)) \/ SendAck \/ Reply \/ NilService
  <2>1. UNCHANGED <<table, fails>>
    BY <1>4 DEF Receive, SendAck, Reply, NilService
  <2> QED BY <2>1, Unchanged
<1> QED BY <1>1, <1>2, <1>3, <1>4 DEF ReceiveLoop

LEMMA Inductive == IInv /\ [Next]_vars => IInv'
<1> SUFFICES ASSUME IInv, [Next]_vars PROVE IInv'
  OBVIOUS
<1>1. CASE \E p \in Remote : HearAnnouncement(p)
  BY <1>1, UpdateKeeps DEF HearAnnouncement
<1>2. CASE Environment
  <2>1. UNCHANGED <<table, fails>>
    BY <1>2 DEF Environment, RemoteAsks, RemoteAnswers, Lose
  <2> QED BY <2>1, Unchanged
<1>3. CASE UNCHANGED vars
  BY <1>3, Unchanged DEF vars
<1> QED BY <1>1, <1>2, <1>3, StepStartUp, StepApplication, StepReceiveLoop DEF Next

\* Whichever way the credits and the blames of the receive loop, of the
\* application and of discovery interleave, a peer that is called unhealthy has
\* failed three times since it was last announced.
THEOREM EarnedByFailures == Spec => []UnhealthyIsEarned
<1>1. IInv => UnhealthyIsEarned
  BY DEF IInv
<1> QED BY <1>1, InvInit, Inductive, PTL DEF Spec

------------------------------------------------------------------------------
(* Counting the packets of a bag: each copy is a pair of its own.          *)

FiniteBag(bag) == IsABag(bag) /\ IsFiniteSet(Copies(bag))

LEMMA CopyOf ==
    ASSUME NEW bag, NEW x
    PROVE  x \in Copies(bag) <=> \E pkt \in BagToSet(bag) : \E n \in 1..bag[pkt] : x = <<pkt, n>>
BY DEF Copies

LEMMA CountIsNat == ASSUME NEW bag, FiniteBag(bag) PROVE Cardinality(Copies(bag)) \in Nat
BY FS_CardinalityType DEF FiniteBag

LEMMA AddOne ==
    ASSUME NEW bag, FiniteBag(bag), NEW pkt
    PROVE  /\ FiniteBag(bag (+) SetToBag({pkt}))
           /\ Cardinality(Copies(bag (+) SetToBag({pkt}))) = Cardinality(Copies(bag)) + 1
<1> DEFINE more == bag (+) SetToBag({pkt})
           n == IF pkt \in DOMAIN bag THEN bag[pkt] ELSE 0
<1>1. \A d \in DOMAIN bag : bag[d] \in Nat /\ bag[d] > 0
  BY DEF FiniteBag, IsABag
<1>2. n \in Nat
  BY <1>1
<1>3. more = [d \in DOMAIN bag \cup {pkt} |-> IF d = pkt THEN n + 1 ELSE bag[d]]
  BY <1>1 DEF (+), SetToBag
<1> HIDE DEF more, n
<1>4. DOMAIN more = DOMAIN bag \cup {pkt} /\ more[pkt] = n + 1
      /\ \A d \in DOMAIN bag : d # pkt => more[d] = bag[d]
  BY <1>3
<1>5. IsABag(more)
  <2>1. \A d \in DOMAIN more : more[d] \in {k \in Nat : k > 0}
    BY <1>1, <1>2, <1>4
  <2>2. more = [d \in DOMAIN more |-> more[d]]
    BY <1>3
  <2> QED BY <2>1, <2>2 DEF IsABag
<1>6. Copies(more) = Copies(bag) \cup {<<pkt, n + 1>>}
  <2>1. ASSUME NEW x \in Copies(more) PROVE x \in Copies(bag) \cup {<<pkt, n + 1>>}
    <3>0. PICK d \in DOMAIN more : \E k \in 1..more[d] : x = <<d, k>>
      BY CopyOf DEF BagToSet
    <3>1. PICK k \in 1..more[d] : x = <<d, k>>
      BY <3>0
    <3>2. CASE d # pkt
      <4>1. d \in DOMAIN bag /\ k \in 1..bag[d]
        BY <1>4, <3>2
      <4> QED BY <3>1, <4>1, CopyOf DEF BagToSet
    <3>3. CASE d = pkt /\ k # n + 1
      <4>1. k \in 1..n
        BY <1>2, <1>4, <3>3
      <4>2. pkt \in DOMAIN bag /\ n = bag[pkt]
        BY <4>1 DEF n
      <4> QED BY <3>1, <3>3, <4>1, <4>2, CopyOf DEF BagToSet
    <3>4. CASE d = pkt /\ k = n + 1
      BY <3>1, <3>4
    <3> QED BY <3>2, <3>3, <3>4
  <2>2. ASSUME NEW x \in Copies(bag) PROVE x \in Copies(more)
    <3>0. PICK d \in DOMAIN bag : \E k \in 1..bag[d] : x = <<d, k>>
      BY CopyOf DEF BagToSet
    <3>1. PICK k \in 1..bag[d] : x = <<d, k>>
      BY <3>0
    <3>2. d \in DOMAIN more /\ k \in 1..more[d]
      <4>1. CASE d = pkt
        <5>1. n = bag[d]
          BY <4>1 DEF n
        <5> QED BY <1>1, <1>4, <4>1, <5>1
      <4>2. CASE d # pkt
        BY <1>4, <4>2
      <4> QED BY <4>1, <4>2
    <3> QED BY <3>1, <3>2, CopyOf DEF BagToSet
  <2>3. <<pkt, n + 1>> \in Copies(more)
    <3>1. pkt \in DOMAIN more /\ n + 1 \in 1..more[pkt]
      BY <1>2, <1>4
    <3> QED BY <3>1, CopyOf DEF BagToSet
  <2> QED BY <2>1, <2>2, <2>3
<1>7. <<pkt, n + 1>> \notin Copies(bag)
  <2> SUFFICES ASSUME <<pkt, n + 1>> \in Copies(bag) PROVE FALSE
    OBVIOUS
  <2>0. PICK d \in DOMAIN bag : \E k \in 1..bag[d] : <<pkt, n + 1>> = <<d, k>>
    BY CopyOf DEF BagToSet
  <2>1. PICK k \in 1..bag[d] : <<pkt, n + 1>> = <<d, k>>
    BY <2>0
  <2>2. pkt \in DOMAIN bag /\ n + 1 \in 1..bag[pkt]
    BY <2>1
  <2>3. n = bag[pkt]
    BY <2>2 DEF n
  <2> QED BY <1>2, <2>2, <2>3
<1>8. IsFiniteSet(Copies(more)) /\ Cardinality(Copies(more)) = Cardinality(Copies(bag)) + 1
  BY <1>6, <1>7, FS_AddElement DEF FiniteBag
<1> QED BY <1>5, <1>8 DEF FiniteBag, more

LEMMA TakeOne ==
    ASSUME NEW bag, FiniteBag(bag), NEW pkt \in BagToSet(bag)
    PROVE  /\ FiniteBag(bag (-) SetToBag({pkt}))
           /\ Cardinality(Copies(bag (-) SetToBag({pkt}))) = Cardinality(Copies(bag)) - 1
<1> DEFINE less == bag (-) SetToBag({pkt})
           left == {d \in DOMAIN bag : d # pkt \/ bag[d] > 1}
           n == bag[pkt]
<1>1. /\ \A d \in DOMAIN bag : bag[d] \in Nat /\ bag[d] > 0
      /\ pkt \in DOMAIN bag
  BY DEF FiniteBag, IsABag, BagToSet
<1>2. less = [d \in left |-> IF d = pkt THEN n - 1 ELSE bag[d]]
  <2> DEFINE B == [d \in DOMAIN bag |-> IF d \in {pkt} THEN bag[d] - 1 ELSE bag[d]]
  <2>1. less = [d \in {e \in DOMAIN B : B[e] > 0} |-> B[d]]
    BY <1>1 DEF (-), SetToBag
  <2>2. {e \in DOMAIN B : B[e] > 0} = left
    BY <1>1
  <2>3. \A d \in left : B[d] = IF d = pkt THEN n - 1 ELSE bag[d]
    OBVIOUS
  <2> HIDE DEF B, less, left
  <2> QED BY <2>1, <2>2, <2>3
<1> HIDE DEF less
<1>3. DOMAIN less = left /\ \A d \in left : less[d] = IF d = pkt THEN n - 1 ELSE bag[d]
  BY <1>2
<1>4. IsABag(less)
  <2>1. \A d \in DOMAIN less : less[d] \in {k \in Nat : k > 0}
    BY <1>1, <1>3
  <2>2. less = [d \in DOMAIN less |-> less[d]]
    BY <1>2
  <2> QED BY <2>1, <2>2 DEF IsABag
<1>5. Copies(less) = Copies(bag) \ {<<pkt, n>>}
  <2>1. ASSUME NEW x \in Copies(less) PROVE x \in Copies(bag) \ {<<pkt, n>>}
    <3>0. PICK d \in DOMAIN less : \E k \in 1..less[d] : x = <<d, k>>
      BY CopyOf DEF BagToSet
    <3>1. PICK k \in 1..less[d] : x = <<d, k>>
      BY <3>0
    <3>2. d \in DOMAIN bag /\ k \in 1..bag[d] /\ (d = pkt => k # n)
      BY <1>1, <1>3, <3>1
    <3> QED BY <3>1, <3>2, CopyOf DEF BagToSet
  <2>2. ASSUME NEW x \in Copies(bag), x # <<pkt, n>> PROVE x \in Copies(less)
    <3>0. PICK d \in DOMAIN bag : \E k \in 1..bag[d] : x = <<d, k>>
      BY CopyOf DEF BagToSet
    <3>1. PICK k \in 1..bag[d] : x = <<d, k>>
      BY <3>0
    <3>2. d = pkt => k # n
      BY <2>2, <3>1
    <3>3. d \in left /\ k \in 1..less[d]
      BY <1>1, <1>3, <3>1, <3>2
    <3> QED BY <1>3, <3>1, <3>3, CopyOf DEF BagToSet
  <2> QED BY <2>1, <2>2
<1>6. <<pkt, n>> \in Copies(bag)
  <2>1. n \in 1..bag[pkt]
    BY <1>1
  <2> QED BY <1>1, <2>1, CopyOf DEF BagToSet
<1>7. IsFiniteSet(Copies(less)) /\ Cardinality(Copies(less)) = Cardinality(Copies(bag)) - 1
  BY <1>5, <1>6, FS_RemoveElement DEF FiniteBag
<1> QED BY <1>4, <1>7 DEF FiniteBag, less

LEMMA AddNone == ASSUME NEW bag, FiniteBag(bag) PROVE bag (+) SetToBag({}) = bag
<1>1. bag = [d \in DOMAIN bag |-> bag[d]] /\ \A d \in DOMAIN bag : bag[d] \in Nat
  BY DEF FiniteBag, IsABag
<1> QED BY <1>1 DEF (+), SetToBag
LEMMA AddAtMostOne ==
    ASSUME NEW bag, FiniteBag(bag), NEW from, NEW to, NEW kinds,
           \A j, k \in kinds : j = k
    PROVE  LET more == bag (+) Datagrams(from, to, kinds)
           IN  /\ FiniteBag(more)
               /\ Cardinality(Copies(more)) \in {Cardinality(Copies(bag)), Cardinality(Copies(bag)) + 1}
<1>1. CASE kinds = {}
  <2>1. Datagrams(from, to, kinds) = SetToBag({})
    BY <1>1 DEF Datagrams
  <2>2. bag (+) Datagrams(from, to, kinds) = bag
    BY <2>1, AddNone
  <2> QED BY <2>2
<1>2. CASE kinds # {}
  <2>1. PICK k \in kinds : kinds = {k}
    BY <1>2
  <2>2. Datagrams(from, to, kinds) = SetToBag({[from |-> from, to |-> to, kind |-> k]})
    BY <2>1 DEF Datagrams
  <2> QED BY <2>2, AddOne
<1> QED BY <1>1, <1>2

LEMMA OneAnswer == ASSUME NEW kind PROVE \A j, k \in ReplyTo(kind) : j = k
<1>1. CASE kind \in {"PING", "STORE"}
  BY <1>1 DEF ReplyTo
<1>2. CASE kind \notin {"PING", "STORE"} /\ kind = "FIND_NODE"
  BY <1>2 DEF ReplyTo
<1>3. CASE kind \notin {"PING", "STORE"} /\ kind # "FIND_NODE"
  BY <1>3 DEF ReplyTo
<1> QED BY <1>1, <1>2, <1>3

------------------------------------------------------------------------------
(* No amplification: the measure falls or stays but for a new request.     *)

\* The shapes the updates of a goroutine need, and the counted packets.
CountInv ==
    /\ FiniteBag(air) /\ requests \in Nat
    /\ rx # Idle => rx = [step |-> rx.step, packet |-> rx.packet]
    /\ tx # Idle => tx = [step |-> tx.step, peer |-> tx.peer, kind |-> tx.kind]
    /\ NoAmplification

InAir == Cardinality(Copies(air))

LEMMA Measure ==
    ASSUME CountInv
    PROVE  /\ InAir \in Nat /\ Received \in {0, 1} /\ Unwritten \in {0, 1}
           /\ InAir + Received + Unwritten <= requests
BY CountIsNat DEF CountInv, InAir, Received, Unwritten, NoAmplification, Outstanding

\* What a step has to show.
LEMMA Balance ==
    ASSUME CountInv, FiniteBag(air'), requests' \in Nat,
           rx' # Idle => rx' = [step |-> rx'.step, packet |-> rx'.packet],
           tx' # Idle => tx' = [step |-> tx'.step, peer |-> tx'.peer, kind |-> tx'.kind],
           InAir' + Received' + Unwritten' - requests' <= InAir + Received + Unwritten - requests
    PROVE  CountInv'
<1>1. InAir' \in Nat /\ Received' \in Nat /\ Unwritten' \in Nat
  BY CountIsNat DEF InAir, Received, Unwritten
<1>2. InAir' + Received' + Unwritten' <= requests'
  BY <1>1, Measure DEF CountInv
<1> QED BY <1>2 DEF CountInv, NoAmplification, Outstanding, InAir

\* The steps of a goroutine that touch neither the air nor the requests.
LEMMA QuietStep ==
    ASSUME CountInv, UNCHANGED <<air, requests>>,
           rx' = rx \/ rx' = Idle \/ \E step : rx' = [rx EXCEPT !.step = step] /\ rx # Idle,
           tx' = tx \/ tx' = Idle \/ \E step : tx' = [tx EXCEPT !.step = step] /\ tx # Idle,
           Received' <= Received, Unwritten' <= Unwritten
    PROVE  CountInv'
<1>1. rx' # Idle => rx' = [step |-> rx'.step, packet |-> rx'.packet]
  BY DEF CountInv
<1>2. tx' # Idle => tx' = [step |-> tx'.step, peer |-> tx'.peer, kind |-> tx'.kind]
  BY DEF CountInv
<1>3. FiniteBag(air') /\ requests' \in Nat /\ InAir' = InAir
  BY DEF CountInv, InAir
<1>4. InAir \in Nat /\ Received' \in {0, 1} /\ Unwritten' \in {0, 1}
      /\ Received \in {0, 1} /\ Unwritten \in {0, 1} /\ requests \in Nat
  BY Measure DEF Received, Unwritten, CountInv
<1>5. InAir' + Received' + Unwritten' - requests' <= InAir + Received + Unwritten - requests
  BY <1>3, <1>4
<1> QED BY <1>1, <1>2, <1>3, <1>5, Balance

LEMMA CountKept == ASSUME CountInv, UNCHANGED <<air, rx, tx, requests>> PROVE CountInv'
BY DEF CountInv, NoAmplification, Outstanding, Received, Unwritten

LEMMA CountInit == Init => CountInv
<1> SUFFICES ASSUME Init PROVE CountInv
  OBVIOUS
<1>1. air = SetToBag({}) /\ IsABag(air) /\ Copies(air) = {}
  BY DEF Init, EmptyBag, SetToBag, IsABag, Copies, BagToSet
<1>2. FiniteBag(air) /\ Cardinality(Copies(air)) = 0
  BY <1>1, FS_EmptySet DEF FiniteBag
<1>3. Outstanding = 0 /\ requests = 0
  BY <1>2 DEF Init, Outstanding, Received, Unwritten
<1> QED BY <1>2, <1>3 DEF Init, CountInv, NoAmplification
LEMMA CountApplication == ASSUME CountInv, Application PROVE CountInv'
<1>0. /\ InAir \in Nat /\ Received \in {0, 1} /\ Unwritten \in {0, 1} /\ requests \in Nat
      /\ FiniteBag(air)
  BY Measure DEF CountInv
<1>1. ASSUME NEW p \in Node, NEW kind \in Request, AppSends(p, kind) PROVE CountInv'
  <2>1. Received' = Received /\ InAir' = InAir /\ requests' = requests + 1 /\ FiniteBag(air')
        /\ rx' = rx /\ Unwritten = 0
    BY <1>0, <1>1 DEF AppSends, Received, InAir, Unwritten
  <2>2. rx' # Idle => rx' = [step |-> rx'.step, packet |-> rx'.packet]
    BY <2>1 DEF CountInv
  <2>3. tx' # Idle => tx' = [step |-> tx'.step, peer |-> tx'.peer, kind |-> tx'.kind]
    BY <1>1 DEF AppSends
  <2>4. Unwritten' \in {0, 1}
    BY DEF Unwritten
  <2> QED BY <1>0, <2>1, <2>2, <2>3, <2>4, Balance
<1>2. CASE AppWrites
  <2>1. Received' = Received /\ requests' = requests /\ Unwritten = 1 /\ tx # Idle /\ rx' = rx
    BY <1>2 DEF AppWrites, Received, Unwritten
  <2>2. PICK step \in {"credit", "blame"} : tx' = [tx EXCEPT !.step = step]
    BY <1>2 DEF AppWrites
  <2>3. tx' = [step |-> step, peer |-> tx.peer, kind |-> tx.kind]
    BY <2>1, <2>2 DEF CountInv
  <2>4. Unwritten' = 0
    BY <2>3 DEF Unwritten
  <2>5. air' = air \/ air' = air (+) Datagrams(Self, tx.peer, {tx.kind})
    BY <1>2 DEF AppWrites, Write, WriteFails, WriteByChanceFails
  <2>6. FiniteBag(air') /\ InAir' \in {InAir, InAir + 1}
    BY <1>0, <2>5, AddAtMostOne DEF InAir
  <2>7. rx' # Idle => rx' = [step |-> rx'.step, packet |-> rx'.packet]
    BY <2>1 DEF CountInv
  <2>8. tx' = [step |-> tx'.step, peer |-> tx'.peer, kind |-> tx'.kind]
    BY <2>3
  <2> QED BY <1>0, <2>1, <2>4, <2>6, <2>7, <2>8, Balance
<1>3. CASE AppFeedback
  <2>1. UNCHANGED <<air, requests, rx>> /\ tx' = Idle
    BY <1>3 DEF AppFeedback
  <2>2. Received' = Received /\ Unwritten' = 0
    BY <2>1 DEF Received, Unwritten
  <2> QED BY <1>0, <2>1, <2>2, QuietStep
<1> QED BY <1>1, <1>2, <1>3 DEF Application

\* The steps of the receive loop that send or take up nothing.
LEMMA CountQuietReceiver ==
    ASSUME CountInv, AutoSeed \/ Credit \/ Handle \/ NilService \/ ReplyFeedback \/ Recredit
    PROVE  CountInv'
<1>0. Received \in {0, 1} /\ Unwritten \in {0, 1}
  BY Measure
<1>1. UNCHANGED <<air, requests, tx>>
  BY DEF AutoSeed, Credit, Handle, NilService, ReplyFeedback, Recredit
<1>2. Unwritten' = Unwritten
  BY <1>1 DEF Unwritten
<1>3. CASE rx' = Idle \/ rx' = rx
  <2>1. Received' <= Received
    BY <1>0, <1>3 DEF Received
  <2> QED BY <1>0, <1>1, <1>2, <1>3, <2>1, QuietStep
<1>4. CASE ~(rx' = Idle \/ rx' = rx)
  <2>1. PICK step : Step(step) /\ rx # Idle
                    /\ (Received = 1 \/ step = "recredit")
    <3>1. CASE AutoSeed
      BY <3>1 DEF AutoSeed, At, Received
    <3>2. CASE Credit
      BY <1>4, <3>2 DEF Credit, At, Received
    <3>3. CASE Handle
      BY <3>3 DEF Handle, At, Received
    <3>4. CASE NilService \/ Recredit
      BY <1>4, <3>4 DEF NilService, Recredit
    <3>5. CASE ReplyFeedback
      BY <3>5 DEF ReplyFeedback, At
    <3> QED BY <3>1, <3>2, <3>3, <3>4, <3>5
  <2>2. rx' = [step |-> step, packet |-> rx.packet]
    BY <2>1 DEF Step, CountInv
  <2>3. Received' <= Received
    <3>1. CASE Received = 1
      BY <3>1 DEF Received
    <3>2. CASE step = "recredit"
      BY <1>0, <2>2, <3>2 DEF Received
    <3> QED BY <2>1, <3>1, <3>2
  <2>4. rx' = [rx EXCEPT !.step = step] /\ rx # Idle
    BY <2>1 DEF Step
  <2>5. \E to : rx' = [rx EXCEPT !.step = to] /\ rx # Idle
    BY <2>4
  <2>6. tx' = tx /\ Unwritten' <= Unwritten
    BY <1>0, <1>1, <1>2
  <2> QED BY <1>1, <2>3, <2>5, <2>6, QuietStep, Zenon
<1> QED BY <1>3, <1>4

LEMMA CountReceiver == ASSUME CountInv, ReceiveLoop PROVE CountInv'
<1>0. /\ InAir \in Nat /\ Received \in {0, 1} /\ Unwritten \in {0, 1} /\ requests \in Nat
      /\ FiniteBag(air)
  BY Measure DEF CountInv
<1>1. ASSUME NEW pkt \in BagToSet(air), Receive(pkt) PROVE CountInv'
  <2>1. Received = 0 /\ requests' = requests /\ tx' = tx /\ air' = air (-) SetToBag({pkt})
    BY <1>1 DEF Receive, Received, Without
  <2>2. FiniteBag(air') /\ InAir' = InAir - 1
    BY <1>0, <2>1, TakeOne DEF InAir
  <2>3. Received' \in {0, 1} /\ Unwritten' = Unwritten
    BY <2>1 DEF Received, Unwritten
  <2>4. rx' # Idle => rx' = [step |-> rx'.step, packet |-> rx'.packet]
    BY <1>1 DEF Receive
  <2>5. tx' # Idle => tx' = [step |-> tx'.step, peer |-> tx'.peer, kind |-> tx'.kind]
    BY <2>1 DEF CountInv
  <2> QED BY <1>0, <2>1, <2>2, <2>3, <2>4, <2>5, Balance
<1>2. CASE SendAck
  <2>1. Received = 1 /\ requests' = requests /\ tx' = tx /\ rx' = Idle
    BY <1>2 DEF SendAck, At, Received
  <2>2. air' = air \/ air' = air (+) Datagrams(Self, rx.packet.from, {"ACK"})
    BY <1>2 DEF SendAck
  <2>3. FiniteBag(air') /\ InAir' \in {InAir, InAir + 1}
    BY <1>0, <2>2, AddAtMostOne DEF InAir
  <2>4. Received' = 0 /\ Unwritten' = Unwritten
    BY <2>1 DEF Received, Unwritten
  <2>5. tx' # Idle => tx' = [step |-> tx'.step, peer |-> tx'.peer, kind |-> tx'.kind]
    BY <2>1 DEF CountInv
  <2> QED BY <1>0, <2>1, <2>3, <2>4, <2>5, Balance
<1>3. CASE Reply
  <2>1. Received = 1 /\ requests' = requests /\ tx' = tx /\ rx # Idle
    BY <1>3 DEF Reply, At, Received
  <2>2. PICK step \in {"replied", "failed"} : rx' = [rx EXCEPT !.step = step]
    BY <1>3 DEF Reply, Step
  <2>3. rx' = [step |-> step, packet |-> rx.packet]
    BY <2>1, <2>2 DEF CountInv
  <2>4. Received' = 0 /\ Unwritten' = Unwritten
    BY <2>1, <2>3 DEF Received, Unwritten
  <2>5. air' = air \/ air' = air (+) Datagrams(Self, rx.packet.from, ReplyTo(rx.packet.kind))
    BY <1>3 DEF Reply, Write, WriteFails, WriteByChanceFails
  <2>6. FiniteBag(air') /\ InAir' \in {InAir, InAir + 1}
    BY <1>0, <2>5, AddAtMostOne, OneAnswer DEF InAir
  <2>7. tx' # Idle => tx' = [step |-> tx'.step, peer |-> tx'.peer, kind |-> tx'.kind]
    BY <2>1 DEF CountInv
  <2>8. rx' = [step |-> rx'.step, packet |-> rx'.packet]
    BY <2>3
  <2> QED BY <1>0, <2>1, <2>4, <2>6, <2>7, <2>8, Balance
<1> QED BY <1>1, <1>2, <1>3, CountQuietReceiver DEF ReceiveLoop

LEMMA CountEnvironment == ASSUME CountInv, Environment PROVE CountInv'
<1>0. /\ InAir \in Nat /\ Received \in {0, 1} /\ Unwritten \in {0, 1} /\ requests \in Nat
      /\ FiniteBag(air)
  BY Measure DEF CountInv
<1>1. UNCHANGED <<rx, tx>> /\ Received' = Received /\ Unwritten' = Unwritten
  BY DEF Environment, RemoteAsks, RemoteAnswers, Lose, Received, Unwritten
<1>2. /\ rx' # Idle => rx' = [step |-> rx'.step, packet |-> rx'.packet]
      /\ tx' # Idle => tx' = [step |-> tx'.step, peer |-> tx'.peer, kind |-> tx'.kind]
  BY <1>1 DEF CountInv
<1>3. ASSUME NEW p \in Remote, NEW kind \in Request, RemoteAsks(p, kind) PROVE CountInv'
  <2>1. requests' = requests + 1 /\ air' = air (+) Datagrams(p, Self, {kind})
    BY <1>3 DEF RemoteAsks
  <2>2. FiniteBag(air') /\ InAir' \in {InAir, InAir + 1}
    BY <1>0, <2>1, AddAtMostOne DEF InAir
  <2> QED BY <1>0, <1>1, <1>2, <2>1, <2>2, Balance
<1>4. ASSUME NEW pkt \in BagToSet(air), RemoteAnswers(pkt) PROVE CountInv'
  <2> DEFINE rest == air (-) SetToBag({pkt})
             kinds == IF pkt.kind = "MESSAGE" THEN {"ACK"} ELSE ReplyTo(pkt.kind)
  <2>1. requests' = requests /\ air' = rest (+) Datagrams(pkt.to, Self, kinds)
    BY <1>4 DEF RemoteAnswers, Without
  <2>2. FiniteBag(rest) /\ Cardinality(Copies(rest)) = InAir - 1
    BY <1>0, TakeOne DEF InAir
  <2>3. \A j, k \in kinds : j = k
    BY OneAnswer
  <2> HIDE DEF rest, kinds
  <2>4. FiniteBag(air') /\ InAir' \in {InAir - 1, InAir}
    BY <1>0, <2>1, <2>2, <2>3, AddAtMostOne DEF InAir
  <2> QED BY <1>0, <1>1, <1>2, <2>1, <2>4, Balance
<1>5. ASSUME NEW pkt \in BagToSet(air), Lose(pkt) PROVE CountInv'
  <2>1. requests' = requests /\ air' = air (-) SetToBag({pkt})
    BY <1>5 DEF Lose, Without
  <2>2. FiniteBag(air') /\ InAir' = InAir - 1
    BY <1>0, <2>1, TakeOne DEF InAir
  <2> QED BY <1>0, <1>1, <1>2, <2>1, <2>2, Balance
<1> QED BY <1>3, <1>4, <1>5 DEF Environment

LEMMA CountInductive == CountInv /\ [Next]_vars => CountInv'
<1> SUFFICES ASSUME CountInv, [Next]_vars PROVE CountInv'
  OBVIOUS
<1>1. CASE StartUp \/ Stop \/ \E p \in Remote : HearAnnouncement(p)
  <2>1. UNCHANGED <<air, rx, tx, requests>>
    BY <1>1 DEF StartUp, RegisterSelf, Stop, Goto, HearAnnouncement
  <2> QED BY <2>1, CountKept
<1>2. CASE UNCHANGED vars
  BY <1>2, CountKept DEF vars
<1> QED BY <1>1, <1>2, CountApplication, CountReceiver, CountEnvironment DEF Next

\* Whatever is lost, answered or sent, and by whomever, the packets in the air,
\* in the receive loop and in a send never outnumber those that were sent unasked.
THEOREM AnswersNeverOutnumber == Spec => []NoAmplification
<1>1. CountInv => NoAmplification
  BY DEF CountInv
<1> QED BY <1>1, CountInit, CountInductive, PTL DEF Spec

------------------------------------------------------------------------------
(* Types.                                                                  *)

RxStep == {"seed", "credit", "ack", "handle", "reply", "replied", "failed", "recredit"}
RxType == rx = Idle \/ rx \in [step : RxStep, packet : Packet]
TxType == tx = Idle \/ tx \in [step : {"write", "credit", "blame"}, peer : Node, kind : Request]
AirType == BagToSet(air) \subseteq Packet
BoundType == phase \in Phase /\ requests \in 0..MaxRequests /\ chance \in 0..MaxFailures

Typed == RxType /\ TxType /\ AirType /\ BoundType

LEMMA BagDomains ==
    ASSUME NEW b, NEW c
    PROVE  /\ BagToSet(b (+) c) = BagToSet(b) \cup BagToSet(c)
           /\ BagToSet(b (-) c) \subseteq BagToSet(b)
BY DEF BagToSet, (+), (-)

LEMMA DatagramsArePackets ==
    ASSUME NEW from \in Node, NEW to \in Node, NEW kinds \in SUBSET Kind
    PROVE  BagToSet(Datagrams(from, to, kinds)) \subseteq Packet
BY DEF Datagrams, SetToBag, BagToSet, Packet

LEMMA ReplyKinds == ASSUME NEW kind PROVE ReplyTo(kind) \subseteq Kind
<1>1. CASE kind \in {"PING", "STORE"}
  BY <1>1 DEF ReplyTo, Kind, Request
<1>2. CASE kind \notin {"PING", "STORE"} /\ kind = "FIND_NODE"
  BY <1>2 DEF ReplyTo, Kind
<1>3. CASE kind \notin {"PING", "STORE"} /\ kind # "FIND_NODE"
  BY <1>3 DEF ReplyTo
<1> QED BY <1>1, <1>2, <1>3

LEMMA BoundsHold == ASSUME Typed, [Next]_vars PROVE BoundType'
<1>1. CASE phase' = phase /\ requests' \in {requests, requests + 1} /\ requests' <= MaxRequests
           /\ chance' \in {chance, chance + 1} /\ chance' <= MaxFailures
  BY <1>1, TransportAssumption DEF Typed, BoundType
<1>2. CASE phase' \in Phase /\ UNCHANGED <<requests, chance>>
  BY <1>2 DEF Typed, BoundType
<1>3. CASE StartUp \/ Stop
  BY <1>2, <1>3 DEF StartUp, Stop, RegisterSelf, Goto, Phase
<1>4. requests <= MaxRequests /\ chance <= MaxFailures /\ requests \in Nat /\ chance \in Nat
      /\ phase \in Phase
  BY TransportAssumption DEF Typed, BoundType
<1>5. CASE Application
  <2>1. ASSUME NEW p \in Node, NEW kind \in Request, AppSends(p, kind) PROVE BoundType'
    BY <1>1, <1>4, <2>1, TransportAssumption DEF AppSends
  <2>2. CASE AppWrites
    BY <1>1, <1>4, <2>2, TransportAssumption DEF AppWrites, Write, WriteFails, WriteByChanceFails
  <2>3. CASE AppFeedback
    BY <1>2, <1>4, <2>3 DEF AppFeedback
  <2> QED BY <1>5, <2>1, <2>2, <2>3 DEF Application
<1>6. CASE ReceiveLoop
  <2>1. CASE Reply
    BY <1>1, <1>4, <2>1, TransportAssumption DEF Reply, Write, WriteFails, WriteByChanceFails
  <2>2. CASE NilService
    BY <1>2, <2>2 DEF NilService, Phase
  <2>3. CASE ~Reply /\ ~NilService
    <3>1. UNCHANGED <<phase, requests, chance>>
      BY <1>6, <2>3 DEF ReceiveLoop, Receive, AutoSeed, Credit, SendAck, Handle, ReplyFeedback, Recredit
    <3> QED BY <1>2, <1>4, <3>1
  <2> QED BY <2>1, <2>2, <2>3
<1>7. CASE Environment
  <2>1. UNCHANGED <<phase, chance>> /\ requests' \in {requests, requests + 1} /\ requests' <= MaxRequests
    <3>1. CASE \E p \in Remote, kind \in Request : RemoteAsks(p, kind)
      <4>1. UNCHANGED <<phase, chance>> /\ requests' = requests + 1 /\ requests < MaxRequests
        BY <3>1 DEF RemoteAsks
      <4> QED BY <1>4, <4>1, TransportAssumption
    <3>2. CASE \E pkt \in BagToSet(air) : RemoteAnswers(pkt) \/ Lose(pkt)
      <4>1. UNCHANGED <<phase, chance, requests>>
        BY <3>2 DEF RemoteAnswers, Lose
      <4> QED BY <1>4, <4>1
    <3> QED BY <1>7, <3>1, <3>2 DEF Environment
  <2> QED BY <1>1, <1>4, <2>1
<1>8. CASE (\E p \in Remote : HearAnnouncement(p)) \/ UNCHANGED vars
  BY <1>2, <1>4, <1>8 DEF HearAnnouncement, vars
<1> QED BY <1>3, <1>5, <1>6, <1>7, <1>8 DEF Next

LEMMA ApplicationHolds == ASSUME Typed, [Next]_vars PROVE TxType'
<1>1. CASE UNCHANGED tx
  BY <1>1 DEF Typed, TxType
<1>2. ASSUME NEW p \in Node, NEW kind \in Request, AppSends(p, kind) PROVE TxType'
  BY <1>2 DEF AppSends, TxType
<1>3. CASE AppWrites
  BY <1>3 DEF AppWrites, Typed, TxType
<1>4. CASE AppFeedback
  BY <1>4 DEF AppFeedback, TxType
<1>5. CASE StartUp \/ Stop \/ (\E p \in Remote : HearAnnouncement(p)) \/ ReceiveLoop
           \/ Environment \/ UNCHANGED vars
  <2>1. UNCHANGED tx
    BY <1>5 DEF StartUp, Stop, RegisterSelf, Goto, HearAnnouncement, ReceiveLoop, Receive, AutoSeed,
       Credit, SendAck, Handle, Reply, NilService, ReplyFeedback, Recredit, Environment, RemoteAsks,
       RemoteAnswers, Lose, vars
  <2> QED BY <1>1, <2>1
<1> QED BY <1>2, <1>3, <1>4, <1>5 DEF Next, Application

LEMMA ReceiverHolds == ASSUME Typed, [Next]_vars PROVE RxType'
<1>1. ASSUME UNCHANGED rx PROVE RxType'
  BY <1>1 DEF Typed, RxType
<1>2. ASSUME rx # Idle, NEW step \in RxStep, Step(step) PROVE RxType'
  BY <1>2 DEF Step, Typed, RxType
<1>3. ASSUME NEW pkt \in BagToSet(air), Receive(pkt) PROVE RxType'
  <2>1. pkt \in Packet
    BY DEF Typed, AirType
  <2> QED BY <1>3, <2>1 DEF Receive, RxType, RxStep
<1>4. CASE AutoSeed \/ Credit \/ Handle \/ Reply \/ ReplyFeedback
  <2>1. rx # Idle /\ (rx' = Idle \/ \E step \in RxStep : Step(step))
    BY <1>4 DEF AutoSeed, Credit, Handle, Reply, ReplyFeedback, At, RxStep
  <2> QED BY <1>2, <2>1 DEF RxType
<1>5. CASE SendAck \/ Recredit
  BY <1>5 DEF SendAck, Recredit, RxType
<1>6. CASE StartUp \/ Stop \/ (\E p \in Remote : HearAnnouncement(p)) \/ Application \/ NilService
           \/ Environment \/ UNCHANGED vars
  <2>1. UNCHANGED rx
    BY <1>6 DEF StartUp, Stop, RegisterSelf, Goto, HearAnnouncement, Application, AppSends, AppWrites,
       AppFeedback, NilService, Environment, RemoteAsks, RemoteAnswers, Lose, vars
  <2> QED BY <1>1, <2>1
<1> QED BY <1>3, <1>4, <1>5, <1>6 DEF Next, ReceiveLoop

LEMMA AirHolds == ASSUME Typed, [Next]_vars PROVE AirType'
<1>0. Self \in Node /\ Remote \subseteq Node
  BY DEF Node
<1>1. ASSUME BagToSet(air') \subseteq BagToSet(air) PROVE AirType'
  BY <1>1 DEF Typed, AirType
<1>2. ASSUME NEW rest, BagToSet(rest) \subseteq BagToSet(air), NEW from \in Node, NEW to \in Node,
             NEW kinds \in SUBSET Kind, air' = rest (+) Datagrams(from, to, kinds)
      PROVE  AirType'
  BY <1>2, BagDomains, DatagramsArePackets DEF Typed, AirType
<1>3. ASSUME NEW pkt PROVE BagToSet(Without(pkt)) \subseteq BagToSet(air)
  BY BagDomains DEF Without
<1>4. ASSUME rx # Idle PROVE rx.packet.from \in Node
  BY <1>4 DEF Typed, RxType, Packet
<1>5. CASE AppWrites
  <2>1. tx # Idle /\ tx.peer \in Node /\ {tx.kind} \subseteq Kind
    BY <1>5 DEF AppWrites, Typed, TxType, Kind
  <2>2. air' = air (+) Datagrams(Self, tx.peer, {tx.kind}) \/ air' = air
    BY <1>5 DEF AppWrites, Write, WriteFails, WriteByChanceFails
  <2> QED BY <1>0, <1>1, <1>2, <2>1, <2>2
<1>6. CASE Reply
  <2>1. rx # Idle /\ ReplyTo(rx.packet.kind) \subseteq Kind
    BY <1>6, ReplyKinds DEF Reply, At
  <2>2. air' = air (+) Datagrams(Self, rx.packet.from, ReplyTo(rx.packet.kind)) \/ air' = air
    BY <1>6 DEF Reply, Write, WriteFails, WriteByChanceFails
  <2> QED BY <1>0, <1>1, <1>2, <1>4, <2>1, <2>2
<1>7. CASE SendAck
  <2>1. rx # Idle /\ {"ACK"} \subseteq Kind
    BY <1>7 DEF SendAck, At, Kind
  <2>2. air' = air (+) Datagrams(Self, rx.packet.from, {"ACK"}) \/ air' = air
    BY <1>7 DEF SendAck
  <2> QED BY <1>0, <1>1, <1>2, <1>4, <2>1, <2>2
<1>8. ASSUME NEW p \in Remote, NEW kind \in Request, RemoteAsks(p, kind) PROVE AirType'
  <2>1. {kind} \subseteq Kind /\ air' = air (+) Datagrams(p, Self, {kind})
    BY <1>8 DEF RemoteAsks, Kind
  <2> QED BY <1>0, <1>2, <2>1
<1>9. ASSUME NEW pkt \in BagToSet(air), RemoteAnswers(pkt) PROVE AirType'
  <2> DEFINE kinds == IF pkt.kind = "MESSAGE" THEN {"ACK"} ELSE ReplyTo(pkt.kind)
  <2>1. pkt.to \in Node /\ kinds \in SUBSET Kind
    BY <1>0, <1>9, ReplyKinds DEF RemoteAnswers, Kind
  <2>2. air' = Without(pkt) (+) Datagrams(pkt.to, Self, kinds)
    BY <1>9 DEF RemoteAnswers
  <2> HIDE DEF kinds
  <2> QED BY <1>0, <1>2, <1>3, <2>1, <2>2
<1>10. ASSUME NEW pkt, Receive(pkt) \/ Lose(pkt) PROVE AirType'
  BY <1>1, <1>3, <1>10 DEF Receive, Lose
<1>11. CASE StartUp \/ Stop \/ (\E p \in Remote : HearAnnouncement(p)) \/ AppFeedback
            \/ (\E p \in Node, kind \in Request : AppSends(p, kind))
            \/ AutoSeed \/ Credit \/ Handle \/ NilService \/ ReplyFeedback \/ Recredit
            \/ UNCHANGED vars
  <2>1. UNCHANGED air
    BY <1>11 DEF StartUp, Stop, RegisterSelf, Goto, HearAnnouncement, AppFeedback, AppSends, AutoSeed,
       Credit, Handle, NilService, ReplyFeedback, Recredit, vars
  <2> QED BY <1>1, <2>1
<1> QED BY <1>5, <1>6, <1>7, <1>8, <1>9, <1>10, <1>11 DEF Next, Application, ReceiveLoop, Environment

\* Every packet in the air is between nodes, and the goroutines hold what their
\* steps take them to hold, whatever is received, answered or lost.
THEOREM TypeCorrect == Spec => []TypeOK
<1>1. Init => Typed
  <2>1. BagToSet(EmptyBag) = {}
    BY DEF BagToSet, EmptyBag, SetToBag
  <2> QED BY <2>1, TransportAssumption DEF Init, Typed, RxType, TxType, AirType, BoundType, Phase
<1>2. Typed /\ [Next]_vars => Typed'
  BY BoundsHold, ApplicationHolds, ReceiverHolds, AirHolds DEF Typed
<1>3. IInv /\ CountInv /\ Typed => TypeOK
  BY DEF IInv, TableType, CountInv, FiniteBag, Typed, RxType, TxType, AirType, BoundType, RxStep, TypeOK
<1> QED BY <1>1, <1>2, <1>3, InvInit, Inductive, CountInit, CountInductive, PTL DEF Spec
==============================================================================
