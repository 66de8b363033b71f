--------------------------- MODULE InnerCore_proofs ----------------------------
(***************************************************************************)
(* Theorems about two parts of InnerCore: RoutingTable, for any seeders,   *)
(* readers and ticks, any capacity and any scores: the bucket an Insert    *)
(* releases is in order and implements LRUBucket, and the last election    *)
(* leaves the right supernodes; and Lookup, for any network, any answers,  *)
(* any elections of others and any bounds on rounds and time: a lookup is  *)
(* over in time, does not stop early unless an election emptied the list   *)
(* under it, and returns nobody that nobody named.                         *)
(***************************************************************************)
EXTENDS RoutingTable, Lookup, FiniteSetTheorems, TLAPS

------------------------------------------------------------------------------
(* RoutingTable: the inductive invariant.                                  *)

DistinctIds(s) == \A i, j \in DOMAIN s : s[i].id = s[j].id => i = j

\* b.mu is held exactly between the stores of an Insert.
HolderInv ==
    /\ \A t \in Thread : pc[t] \in {"shift", "fill"} => t \in Seeder
    /\ \A s \in Seeder : pc[s] \in {"shift", "fill"} <=> bmu = s

\* The array after FindPeer found its peer at index i of the settled bucket and
\* ShiftSlot has come to at[s] ...
Shifted(s, i) ==
    /\ i <= at[s] /\ settled[i].id = Seed[s].id
    /\ \A j \in 1..len : slots[j] = IF j < i THEN settled[j]
                                   ELSE IF j < at[s] THEN settled[j + 1]
                                   ELSE IF j = i THEN Seed[s] ELSE settled[j]
Shifting(s) ==
    /\ len = Len(settled) /\ at[s] \in 1..len
    /\ \E i \in 1..len : Shifted(s, i)

\* ... and after GrowSlice.
Filling(s) ==
    /\ len = Len(settled) + 1
    /\ \A j \in 1..Len(settled) : slots[j] = settled[j] /\ settled[j].id # Seed[s].id

StoresInv ==
    /\ settled \in Seq(Entry) /\ Len(settled) <= K /\ DistinctIds(settled)
    /\ bmu = Free => settled = Bucket
    /\ \A s \in Seeder : (pc[s] = "shift" => Shifting(s)) /\ (pc[s] = "fill" => Filling(s))

\* The lists of supernodes that are right for a bucket.
Tops(s) == {Top(r) : r \in Rankings(s)}

\* A SeedPeer or a tick of the maintenance loop has its election to come: the
\* bucket may change, or have changed, since ic.supernodes was computed.
Pending == \E w \in Electing : pc[w] \in {"shift", "fill", "elect"}

Scanned(w) ==
    /\ want[w] = len /\ Len(snap[w]) <= len
    /\ \A i \in 1..Len(snap[w]) : snap[w][i] = slots[i]
Published(w) ==
    /\ ranked[w] \in Tops(Bucket) /\ Len(supers) <= Len(ranked[w])
    /\ \A i \in 1..Len(supers) : supers[i] = ranked[w][i]

\* Without an election to come, the one under way works on the bucket as it is,
\* and the last one that is over did.
ElectionInv ==
    /\ \A w \in Electing : pc[w] \in {"scan", "publish"} <=> icWriter = w
    /\ ~Pending =>
         /\ icWriter = Free => supers \in Tops(Bucket)
         /\ \A w \in Electing : (pc[w] = "scan" => Scanned(w)) /\ (pc[w] = "publish" => Published(w))

TypeInv ==
    /\ pc \in [Thread -> {"start", "shift", "fill", "elect", "scan", "publish", "done"}]
    /\ slots \in [1..K -> Entry \cup {Nil}]
    /\ len \in 0..K
    /\ bmu \in Seeder \cup {Free}
    /\ icWriter \in Electing \cup {Free} /\ icReaders \subseteq Reader
    /\ at \in [Seeder -> 0..K]
    /\ want \in [Thread -> 0..K]
    /\ snap \in [Thread -> Seq(Entry \cup {Nil})]
    /\ ranked \in [Electing -> Seq(Entry)]
    /\ supers \in Seq(Entry)
    /\ crashed \in BOOLEAN

IInv == TypeInv /\ HolderInv /\ StoresInv /\ ElectionInv

------------------------------------------------------------------------------
(* Sequences, and the orders of an election.                               *)

LEMMA PrefixIsSeq ==
    ASSUME NEW S, NEW n \in Nat, NEW f, \A i \in 1..n : f[i] \in S
    PROVE  /\ [i \in 1..n |-> f[i]] \in Seq(S)
           /\ Len([i \in 1..n |-> f[i]]) = n
           /\ DOMAIN [i \in 1..n |-> f[i]] = 1..n
OBVIOUS

LEMMA SeqIsPrefix ==
    ASSUME NEW S, NEW s \in Seq(S)
    PROVE  /\ Len(s) \in Nat /\ DOMAIN s = 1..Len(s)
           /\ s = [i \in 1..Len(s) |-> s[i]]
           /\ \A i \in 1..Len(s) : s[i] \in S
OBVIOUS

LEMMA TopsType ==
    ASSUME NEW S, NEW s \in Seq(S), NEW x \in Tops(s)
    PROVE  x \in Seq(S)
<1>1. PICK r \in Rankings(s) : x = Top(r)
  BY DEF Tops
<1>2. PICK p \in Bijection(DOMAIN s, DOMAIN s) : r = [i \in DOMAIN s |-> s[p[i]]]
  BY <1>1 DEF Rankings
<1>3. p \in [DOMAIN s -> DOMAIN s]
  BY <1>2 DEF Bijection, Injection, Surjection
<1>4. DOMAIN s = 1..Len(s) /\ Len(s) \in Nat /\ \A i \in 1..Len(s) : s[i] \in S
  BY SeqIsPrefix
<1>5. r = [i \in 1..Len(s) |-> s[p[i]]] /\ \A i \in 1..Len(s) : s[p[i]] \in S
  BY <1>2, <1>3, <1>4
<1>6. r \in Seq(S) /\ \A i \in 1..Len(r) : r[i] \in S /\ Len(r) \in Nat
  BY <1>4, <1>5
<1> DEFINE n == IF Len(r) < MaxSupernodes THEN Len(r) ELSE MaxSupernodes
<1>7. n \in Nat /\ n <= Len(r)
  BY <1>6, RoutingAssumption
<1>8. x = [i \in 1..n |-> r[i]]
  BY <1>1 DEF Top
<1> HIDE DEF n
<1> QED BY <1>6, <1>7, <1>8, PrefixIsSeq

------------------------------------------------------------------------------
(* Who is who.                                                             *)

LEMMA Threads ==
    /\ Seeder \subseteq Electing /\ Electing \subseteq Thread /\ Reader \subseteq Thread
    /\ Elector \subseteq Electing /\ Elector \cap Seeder = {} /\ Reader \cap Electing = {}
    /\ \A t \in Thread : t # Free
    /\ \A s \in Seeder : Seed[s] \in Entry
BY RoutingAssumption DEF Thread, Electing, Entry, Range

LEMMA Moved ==
    ASSUME TypeInv, NEW t \in Thread, NEW from, NEW to, Goto(t, from, to)
    PROVE  /\ pc[t] = from /\ pc'[t] = to
           /\ \A u \in Thread \ {t} : pc'[u] = pc[u]
BY DEF Goto, TypeInv

LEMMA MovedType ==
    ASSUME TypeInv, NEW t \in Thread, NEW from,
           NEW to \in {"start", "shift", "fill", "elect", "scan", "publish", "done"},
           Goto(t, from, to)
    PROVE  pc' \in [Thread -> {"start", "shift", "fill", "elect", "scan", "publish", "done"}]
BY DEF Goto, TypeInv

LEMMA BucketIsSeq ==
    ASSUME TypeInv
    PROVE  /\ Bucket \in Seq(Entry \cup {Nil}) /\ Len(Bucket) = len /\ DOMAIN Bucket = 1..len
           /\ \A i \in 1..len : Bucket[i] = slots[i]
<1>1. len \in Nat /\ \A i \in 1..len : slots[i] \in Entry \cup {Nil}
  BY RoutingAssumption DEF TypeInv
<1> QED BY <1>1, PrefixIsSeq DEF Bucket

LEMMA InvInit == Init => IInv
<1> SUFFICES ASSUME Init PROVE IInv
  OBVIOUS
<1> USE Threads
<1>1. /\ Initial \in Seq(Entry) /\ Len(Initial) \in Nat /\ Len(Initial) <= K /\ K \in Nat
      /\ DOMAIN Initial = 1..Len(Initial) /\ \A i \in 1..Len(Initial) : Initial[i] \in Entry
  <2>1. Initial \in Seq(Range(Initial)) /\ Range(Initial) \subseteq Entry /\ Len(Initial) <= K /\ K \in Nat
    BY RoutingAssumption DEF Entry
  <2> QED BY <2>1, SeqIsPrefix
<1>2. slots \in [1..K -> Entry \cup {Nil}] /\ len = Len(Initial) /\ \A i \in 1..len : slots[i] = Initial[i]
  BY <1>1 DEF Init
<1>3. Bucket = Initial
  BY <1>1, <1>2, SeqIsPrefix DEF Bucket
<1>4. TypeInv
  <2>1. supers \in Seq(Entry)
    <3>1. supers \in Tops(Initial)
      BY DEF Init, Tops
    <3> QED BY <1>1, <3>1, TopsType
  <2>2. crashed \in BOOLEAN
    BY Zenon DEF Init
  <2>3. /\ len \in 0..K /\ at \in [Seeder -> 0..K] /\ want \in [Thread -> 0..K]
    BY <1>1 DEF Init
  <2>4. /\ snap \in [Thread -> Seq(Entry \cup {Nil})] /\ ranked \in [Electing -> Seq(Entry)]
    BY DEF Init
  <2> QED BY <1>2, <2>1, <2>2, <2>3, <2>4 DEF Init, TypeInv
<1>5. HolderInv
  BY DEF Init, HolderInv
<1>6. StoresInv
  <2>1. DistinctIds(Initial)
    BY RoutingAssumption DEF DistinctIds
  <2> QED BY <1>1, <1>3, <2>1 DEF Init, StoresInv
<1>7. ElectionInv
  BY <1>3 DEF Init, ElectionInv, Tops
<1> QED BY <1>4, <1>5, <1>6, <1>7 DEF IInv

------------------------------------------------------------------------------
(* KBucket.Insert.                                                         *)

\* While an Insert runs, and when it is over, its election is to come.
LEMMA InsertKeepsElection ==
    ASSUME TypeInv, ElectionInv, NEW s \in Seeder,
           NEW from \in {"start", "shift", "fill"}, NEW to \in {"shift", "fill", "elect"},
           Goto(s, from, to), UNCHANGED icWriter
    PROVE  ElectionInv'
<1>1. s \in Electing /\ s \in Thread /\ Electing \subseteq Thread
  BY Threads
<1>2. pc[s] = from /\ pc'[s] = to /\ \A u \in Electing \ {s} : pc'[u] = pc[u]
  BY <1>1, Moved
<1>3. Pending'
  BY <1>1, <1>2 DEF Pending
<1>4. \A w \in Electing : pc'[w] \in {"scan", "publish"} <=> icWriter' = w
  BY <1>2 DEF ElectionInv
<1> QED BY <1>3, <1>4 DEF ElectionInv

\* The holder of b.mu goes on, ...
LEMMA HolderGoesOn ==
    ASSUME TypeInv, HolderInv, NEW s \in Seeder, NEW from \in {"start", "shift", "fill"},
           NEW to \in {"shift", "fill"}, Goto(s, from, to),
           bmu = Free \/ bmu = s, bmu' = s
    PROVE  HolderInv' /\ \A u \in Seeder \ {s} : pc'[u] \notin {"shift", "fill"}
<1>1. s \in Thread /\ Seeder \subseteq Thread /\ \A t \in Thread : t # Free
  BY Threads
<1>2. pc[s] = from /\ pc'[s] = to /\ \A u \in Thread \ {s} : pc'[u] = pc[u]
  BY <1>1, Moved
<1> QED BY <1>1, <1>2 DEF HolderInv

\* ... or releases it.
LEMMA HolderLeaves ==
    ASSUME TypeInv, HolderInv, NEW s \in Seeder, NEW from \in {"start", "shift", "fill"},
           Goto(s, from, "elect"), bmu = Free \/ bmu = s, bmu' = Free
    PROVE  HolderInv' /\ \A u \in Seeder : pc'[u] \notin {"shift", "fill"}
<1>1. s \in Thread /\ Seeder \subseteq Thread /\ \A t \in Thread : t # Free
  BY Threads
<1>2. pc[s] = from /\ pc'[s] = "elect" /\ \A u \in Thread \ {s} : pc'[u] = pc[u]
  BY <1>1, Moved
<1> QED BY <1>1, <1>2 DEF HolderInv

LEMMA SettledFacts ==
    ASSUME IInv
    PROVE  /\ settled \in Seq(Entry) /\ Len(settled) \in Nat /\ DOMAIN settled = 1..Len(settled)
           /\ Len(settled) <= K /\ \A i \in 1..Len(settled) : settled[i] \in Entry
           /\ K \in Nat \ {0} /\ len \in Nat /\ len <= K
           /\ bmu = Free => len = Len(settled) /\ \A i \in 1..len : slots[i] = settled[i]
<1>1. settled \in Seq(Entry) /\ Len(settled) <= K
  BY DEF IInv, StoresInv
<1>2. K \in Nat \ {0} /\ len \in Nat /\ len <= K
  BY RoutingAssumption DEF IInv, TypeInv
<1>3. bmu = Free => len = Len(settled) /\ \A i \in 1..len : slots[i] = settled[i]
  BY BucketIsSeq DEF IInv, StoresInv
<1> QED BY <1>1, <1>2, <1>3, SeqIsPrefix

LEMMA StepFindPeer == ASSUME IInv, NEW s \in Seeder, FindPeer(s) PROVE IInv'
<1> USE DEF IInv
<1>1. PICK i \in Position(Seed[s].id) :
         at' = [at EXCEPT ![s] = i] /\ slots' = [slots EXCEPT ![i] = Seed[s]]
  BY DEF FindPeer
<1>2. /\ Goto(s, "start", "shift") /\ bmu = Free /\ bmu' = s
      /\ UNCHANGED <<len, settled, icWriter, icReaders, want, snap, ranked, supers, crashed>>
  BY DEF FindPeer, scanVars, electVars
<1>3. i \in 1..len /\ slots[i].id = Seed[s].id /\ Seed[s] \in Entry /\ s \in Thread
  BY Threads DEF Position
<1>4. HolderInv' /\ \A u \in Seeder \ {s} : pc'[u] \notin {"shift", "fill"}
  BY <1>2, HolderGoesOn
<1>5. ElectionInv'
  BY <1>2, InsertKeepsElection
<1>6. TypeInv'
  <2>1. pc' \in [Thread -> {"start", "shift", "fill", "elect", "scan", "publish", "done"}]
    BY <1>2, <1>3, MovedType
  <2>2. at' \in [Seeder -> 0..K] /\ slots' \in [1..K -> Entry \cup {Nil}]
    BY <1>1, <1>3, SettledFacts DEF TypeInv
  <2> QED BY <1>2, <2>1, <2>2 DEF TypeInv
<1>7. Shifted(s, i)'
  BY <1>1, <1>2, <1>3, SettledFacts DEF Shifted, TypeInv
<1>8. pc'[s] = "shift" /\ at'[s] = i /\ len' = Len(settled')
  BY <1>1, <1>2, <1>3, Moved, SettledFacts DEF TypeInv
<1>9. Shifting(s)'
  BY <1>2, <1>3, <1>7, <1>8 DEF Shifting
<1>10. StoresInv'
  <2>1. bmu' # Free
    BY <1>2, <1>3, Threads
  <2> QED BY <1>2, <1>4, <1>8, <1>9, <2>1 DEF StoresInv
<1> QED BY <1>4, <1>5, <1>6, <1>10

\* copy moves the next element down: the loop invariant of Shifted.
LEMMA StepShiftSlot == ASSUME IInv, NEW s \in Seeder, ShiftSlot(s) PROVE IInv'
<1> USE DEF IInv
<1>1. /\ Goto(s, "shift", "shift") /\ at[s] < len
      /\ slots' = [slots EXCEPT ![at[s]] = slots[at[s] + 1]]
      /\ at' = [at EXCEPT ![s] = at[s] + 1]
      /\ UNCHANGED <<len, bmu, settled, icWriter, icReaders, want, snap, ranked, supers, crashed>>
  BY DEF ShiftSlot, scanVars, electVars
<1>2. s \in Thread /\ pc[s] = "shift" /\ pc'[s] = "shift"
  BY <1>1, Threads, Moved
<1>3. bmu = s /\ bmu # Free /\ Shifting(s)
  BY <1>2, Threads DEF HolderInv, StoresInv
<1>4. HolderInv' /\ \A u \in Seeder \ {s} : pc'[u] \notin {"shift", "fill"}
  BY <1>1, <1>3, HolderGoesOn
<1>5. ElectionInv'
  BY <1>1, InsertKeepsElection
<1>6. at[s] \in 1..len /\ len = Len(settled) /\ len \in Nat /\ len <= K /\ K \in Nat
  BY <1>3, SettledFacts DEF Shifting
<1>7. TypeInv'
  <2>1. pc' \in [Thread -> {"start", "shift", "fill", "elect", "scan", "publish", "done"}]
    BY <1>1, <1>2, MovedType
  <2>2. at' \in [Seeder -> 0..K]
    BY <1>1, <1>6 DEF TypeInv
  <2>3. at[s] + 1 \in 1..K
    BY <1>1, <1>6
  <2>4. slots' \in [1..K -> Entry \cup {Nil}]
    BY <1>1, <2>3 DEF TypeInv
  <2> QED BY <1>1, <2>1, <2>2, <2>4 DEF TypeInv
<1>8. PICK i \in 1..len : Shifted(s, i)
  BY <1>3 DEF Shifting
<1>9. at'[s] = at[s] + 1
  BY <1>1 DEF TypeInv
<1>10. Shifted(s, i)'
  <2>1. i <= at[s] /\ settled[i].id = Seed[s].id
    BY <1>8 DEF Shifted
  <2>2. ASSUME NEW j \in 1..len
        PROVE  slots'[j] = IF j < i THEN settled[j]
                           ELSE IF j < at[s] + 1 THEN settled[j + 1]
                           ELSE IF j = i THEN Seed[s] ELSE settled[j]
    <3>1. slots'[j] = IF j = at[s] THEN slots[at[s] + 1] ELSE slots[j]
      BY <1>1, <1>6 DEF TypeInv
    <3>2. slots[at[s] + 1] = settled[at[s] + 1]
      BY <1>1, <1>6, <1>8, <2>1 DEF Shifted
    <3> QED BY <1>6, <1>8, <2>1, <3>1, <3>2 DEF Shifted
  <2> QED BY <1>1, <1>6, <1>9, <2>1, <2>2 DEF Shifted
<1>11. Shifting(s)'
  BY <1>1, <1>6, <1>9, <1>10 DEF Shifting
<1>12. StoresInv'
  BY <1>1, <1>2, <1>3, <1>4, <1>11 DEF StoresInv
<1> QED BY <1>4, <1>5, <1>7, <1>12

\* Unlock records the bucket, ...
LEMMA Unlocked ==
    ASSUME Unlock, len' \in 0..K, \A j \in 1..len' : slots'[j] \in Entry
    PROVE  /\ settled' \in Seq(Entry) /\ Len(settled') = len' /\ DOMAIN settled' = 1..len'
           /\ settled' = Bucket' /\ \A j \in 1..len' : settled'[j] = slots'[j]
<1>1. len' \in Nat /\ Bucket' = [j \in 1..len' |-> slots'[j]] /\ settled' = Bucket'
  BY RoutingAssumption DEF Unlock, Bucket
<1> QED BY <1>1, PrefixIsSeq

\* ... which is in order when its ids are distinct.
LEMMA UnlockStores ==
    ASSUME Unlock, len' \in 0..K, \A j \in 1..len' : slots'[j] \in Entry,
           \A i, j \in 1..len' : slots'[i].id = slots'[j].id => i = j,
           \A u \in Seeder : pc'[u] \notin {"shift", "fill"}
    PROVE  StoresInv'
<1>1. /\ settled' \in Seq(Entry) /\ Len(settled') = len' /\ DOMAIN settled' = 1..len'
      /\ settled' = Bucket' /\ \A j \in 1..len' : settled'[j] = slots'[j]
  BY Unlocked
<1>2. Len(settled') <= K
  BY <1>1, RoutingAssumption
<1>3. DistinctIds(settled)'
  BY <1>1 DEF DistinctIds
<1> QED BY <1>1, <1>2, <1>3 DEF StoresInv

\* The stores of an Insert that found its peer at index i make up one move.
LEMMA TailMoves ==
    ASSUME IInv, NEW s \in Seeder, PutTail(s)
    PROVE  \E i \in 1..Len(settled) :
              /\ settled[i].id = Seed[s].id /\ len' = Len(settled)
              /\ \A j \in 1..Len(settled) :
                    slots'[j] = IF j < i THEN settled[j]
                                ELSE IF j < Len(settled) THEN settled[j + 1] ELSE Seed[s]
<1> USE DEF IInv
<1>1. /\ Goto(s, "shift", "elect") /\ at[s] = len
      /\ slots' = [slots EXCEPT ![len] = Seed[s]] /\ len' = len
  BY DEF PutTail
<1>2. Shifting(s)
  BY <1>1, Threads, Moved DEF StoresInv
<1>3. PICK i \in 1..len : Shifted(s, i)
  BY <1>2 DEF Shifting
<1>4. len = Len(settled) /\ len \in Nat /\ len <= K /\ K \in Nat
  BY <1>2, SettledFacts DEF Shifting
<1>5. ASSUME NEW j \in 1..len
      PROVE  slots'[j] = IF j < i THEN settled[j]
                         ELSE IF j < len THEN settled[j + 1] ELSE Seed[s]
  <2>1. slots'[j] = IF j = len THEN Seed[s] ELSE slots[j]
    BY <1>1, <1>4 DEF TypeInv
  <2>2. slots[j] = IF j < i THEN settled[j]
                   ELSE IF j < at[s] THEN settled[j + 1]
                   ELSE IF j = i THEN Seed[s] ELSE settled[j]
    BY <1>3 DEF Shifted
  <2> QED BY <1>1, <1>4, <2>1, <2>2
<1>6. settled[i].id = Seed[s].id
  BY <1>3 DEF Shifted
<1> QED BY <1>1, <1>4, <1>5, <1>6

LEMMA StepPutTail == ASSUME IInv, NEW s \in Seeder, PutTail(s) PROVE IInv'
<1> USE DEF IInv
<1>1. /\ Goto(s, "shift", "elect") /\ Unlock /\ bmu' = Free /\ at' = [at EXCEPT ![s] = 0]
      /\ slots' = [slots EXCEPT ![len] = Seed[s]]
      /\ UNCHANGED <<len, icWriter, icReaders, want, snap, ranked, supers, crashed>>
  BY DEF PutTail, scanVars, electVars, Unlock
<1>2. s \in Thread /\ pc[s] = "shift" /\ bmu = s /\ Seed[s] \in Entry
  BY <1>1, Threads, Moved DEF HolderInv
<1>3. HolderInv' /\ \A u \in Seeder : pc'[u] \notin {"shift", "fill"}
  BY <1>1, <1>2, HolderLeaves
<1>4. ElectionInv'
  BY <1>1, InsertKeepsElection
<1>5. TypeInv'
  <2>1. pc' \in [Thread -> {"start", "shift", "fill", "elect", "scan", "publish", "done"}]
    BY <1>1, <1>2, MovedType
  <2>2. 0 \in 0..K
    BY SettledFacts
  <2>3. slots' \in [1..K -> Entry \cup {Nil}] /\ at' \in [Seeder -> 0..K]
    BY <1>1, <1>2, <2>2 DEF TypeInv
  <2> QED BY <1>1, <2>1, <2>3 DEF TypeInv
<1>6. PICK i \in 1..Len(settled) :
              /\ settled[i].id = Seed[s].id /\ len' = Len(settled)
              /\ \A j \in 1..Len(settled) :
                    slots'[j] = IF j < i THEN settled[j]
                                ELSE IF j < Len(settled) THEN settled[j + 1] ELSE Seed[s]
  BY TailMoves
<1>7. \A j \in 1..len' : slots'[j] \in Entry
  BY <1>2, <1>6, SettledFacts
<1>8. ASSUME NEW j \in 1..len', NEW k \in 1..len', slots'[j].id = slots'[k].id, j < k
      PROVE  FALSE
  <2>1. \A a, b \in 1..Len(settled) : settled[a].id = settled[b].id => a = b
    BY SettledFacts DEF StoresInv, DistinctIds
  <2>2. CASE k = Len(settled)
    <3>1. settled[IF j < i THEN j ELSE j + 1].id = settled[i].id
      BY <1>6, <1>8, <2>2, SettledFacts
    <3> QED BY <1>6, <1>8, <2>1, <2>2, <3>1, SettledFacts
  <2>3. CASE k < Len(settled)
    <3>1. settled[IF j < i THEN j ELSE j + 1].id = settled[IF k < i THEN k ELSE k + 1].id
      BY <1>6, <1>8, <2>3, SettledFacts
    <3> QED BY <1>6, <1>8, <2>1, <2>3, <3>1, SettledFacts
  <2> QED BY <1>6, <2>2, <2>3, SettledFacts
<1>9. \A j, k \in 1..len' : slots'[j].id = slots'[k].id => j = k
  <2> SUFFICES ASSUME NEW j \in 1..len', NEW k \in 1..len', slots'[j].id = slots'[k].id
               PROVE  j = k
    OBVIOUS
  <2>1. ~(j < k) /\ ~(k < j)
    BY <1>8
  <2> QED BY <2>1, <1>6, SettledFacts
<1>10. StoresInv'
  <2>1. len' \in 0..K
    BY <1>5 DEF TypeInv
  <2> QED BY <1>1, <1>3, <1>7, <1>9, <2>1, UnlockStores
<1> QED BY <1>3, <1>4, <1>5, <1>10

\* A new id: the bucket grows by one entry, whose slot is filled later ...
LEMMA StepGrowSlice == ASSUME IInv, NEW s \in Seeder, GrowSlice(s) PROVE IInv'
<1> USE DEF IInv
<1>1. /\ Goto(s, "start", "fill") /\ bmu = Free /\ bmu' = s /\ len < K /\ len' = len + 1
      /\ Position(Seed[s].id) = {}
      /\ UNCHANGED <<slots, at, settled, icWriter, icReaders, want, snap, ranked, supers, crashed>>
  BY DEF GrowSlice, scanVars, electVars
<1>2. s \in Thread /\ s # Free /\ pc'[s] = "fill"
  BY <1>1, Threads, Moved
<1>3. HolderInv' /\ \A u \in Seeder \ {s} : pc'[u] \notin {"shift", "fill"}
  BY <1>1, HolderGoesOn
<1>4. ElectionInv'
  BY <1>1, InsertKeepsElection
<1>5. TypeInv'
  <2>1. pc' \in [Thread -> {"start", "shift", "fill", "elect", "scan", "publish", "done"}]
    BY <1>1, <1>2, MovedType
  <2>2. len' \in 0..K
    BY <1>1, SettledFacts
  <2> QED BY <1>1, <2>1, <2>2 DEF TypeInv
<1>6. Filling(s)'
  BY <1>1, SettledFacts DEF Filling, Position
<1>7. StoresInv'
  BY <1>1, <1>2, <1>3, <1>6 DEF StoresInv
<1> QED BY <1>3, <1>4, <1>5, <1>7

\* ... or at once: either way one append.
LEMMA Appended ==
    ASSUME IInv, NEW s \in Seeder, Unlock, len' = Len(settled) + 1, len' <= K,
           slots' = [slots EXCEPT ![len'] = Seed[s]],
           \A j \in 1..Len(settled) : slots[j] = settled[j] /\ settled[j].id # Seed[s].id,
           \A u \in Seeder : pc'[u] \notin {"shift", "fill"}
    PROVE  /\ StoresInv' /\ slots' \in [1..K -> Entry \cup {Nil}] /\ len' \in 0..K
           /\ settled' = Append(settled, Seed[s])
<1> USE DEF IInv
<1> DEFINE n == Len(settled)
<1>1. n \in Nat /\ K \in Nat /\ len' = n + 1 /\ len' \in 1..K /\ settled \in Seq(Entry)
      /\ \A j \in 1..n : settled[j] \in Entry
  BY SettledFacts
<1>2. Seed[s] \in Entry
  BY Threads
<1>3. slots' \in [1..K -> Entry \cup {Nil}]
      /\ \A j \in 1..n : slots'[j] = settled[j]
      /\ slots'[n + 1] = Seed[s]
  BY <1>1, <1>2 DEF TypeInv
<1>4. \A j \in 1..len' : slots'[j] \in Entry
  BY <1>1, <1>2, <1>3
<1>5. \A a, b \in 1..n : settled[a].id = settled[b].id => a = b
  BY SettledFacts DEF StoresInv, DistinctIds
<1>6. \A a, b \in 1..len' : slots'[a].id = slots'[b].id => a = b
  BY <1>1, <1>3, <1>5
<1>7. len' \in 0..K
  BY <1>1
<1>8. StoresInv'
  BY <1>4, <1>6, <1>7, UnlockStores
<1>9. /\ settled' \in Seq(Entry) /\ Len(settled') = n + 1
      /\ \A j \in 1..n : settled'[j] = settled[j]
      /\ settled'[n + 1] = Seed[s]
  BY <1>1, <1>3, <1>4, <1>7, Unlocked
<1>10. settled' = Append(settled, Seed[s])
  BY <1>1, <1>2, <1>9
<1> QED BY <1>3, <1>7, <1>8, <1>10

LEMMA StepFillSlot ==
    ASSUME IInv, NEW s \in Seeder, FillSlot(s)
    PROVE  IInv' /\ settled' = Append(settled, Seed[s])
           /\ Len(settled) < K /\ \A j \in 1..Len(settled) : settled[j].id # Seed[s].id
<1> USE DEF IInv
<1>1. /\ Goto(s, "fill", "elect") /\ Unlock /\ bmu' = Free
      /\ slots' = [slots EXCEPT ![len] = Seed[s]]
      /\ UNCHANGED <<len, at, icWriter, icReaders, want, snap, ranked, supers, crashed>>
  BY DEF FillSlot, scanVars, electVars, Unlock
<1>2. s \in Thread /\ pc[s] = "fill" /\ bmu = s
  BY <1>1, Threads, Moved DEF HolderInv
<1>3. HolderInv' /\ \A u \in Seeder : pc'[u] \notin {"shift", "fill"}
  BY <1>1, <1>2, HolderLeaves
<1>4. ElectionInv'
  BY <1>1, InsertKeepsElection
<1>5. Filling(s)
  BY <1>2 DEF StoresInv
<1>6. /\ StoresInv' /\ slots' \in [1..K -> Entry \cup {Nil}] /\ len' \in 0..K
      /\ settled' = Append(settled, Seed[s])
  <2>1. len' = Len(settled) + 1 /\ len' <= K /\ len' = len
    BY <1>1, <1>5, SettledFacts DEF Filling
  <2>2. \A j \in 1..Len(settled) : slots[j] = settled[j] /\ settled[j].id # Seed[s].id
    BY <1>5 DEF Filling
  <2> QED BY <1>1, <1>3, <2>1, <2>2, Appended
<1>7. TypeInv'
  <2>1. pc' \in [Thread -> {"start", "shift", "fill", "elect", "scan", "publish", "done"}]
    BY <1>1, <1>2, MovedType
  <2> QED BY <1>1, <1>6, <2>1 DEF TypeInv
<1>8. Len(settled) < K /\ \A j \in 1..Len(settled) : settled[j].id # Seed[s].id
  <2>1. len = Len(settled) + 1 /\ \A j \in 1..Len(settled) : settled[j].id # Seed[s].id
    BY <1>5 DEF Filling
  <2>2. Len(settled) \in Nat /\ len <= K /\ K \in Nat
    BY SettledFacts
  <2> QED BY <2>1, <2>2
<1> QED BY <1>3, <1>4, <1>6, <1>7, <1>8

LEMMA StepAppendPeer ==
    ASSUME IInv, NEW s \in Seeder, AppendPeer(s)
    PROVE  IInv' /\ settled' = Append(settled, Seed[s])
           /\ Len(settled) < K /\ \A j \in 1..Len(settled) : settled[j].id # Seed[s].id
<1> USE DEF IInv
<1>1. /\ Goto(s, "start", "elect") /\ bmu = Free /\ Unlock /\ bmu' = Free
      /\ Position(Seed[s].id) = {} /\ len < K /\ len' = len + 1
      /\ slots' = [slots EXCEPT ![len + 1] = Seed[s]]
      /\ UNCHANGED <<at, icWriter, icReaders, want, snap, ranked, supers, crashed>>
  BY DEF AppendPeer, scanVars, electVars, Unlock
<1>2. s \in Thread
  BY Threads
<1>3. HolderInv' /\ \A u \in Seeder : pc'[u] \notin {"shift", "fill"}
  BY <1>1, HolderLeaves
<1>4. ElectionInv'
  BY <1>1, InsertKeepsElection
<1>5. len = Len(settled) /\ Len(settled) < K
      /\ \A j \in 1..Len(settled) : slots[j] = settled[j] /\ settled[j].id # Seed[s].id
  BY <1>1, SettledFacts DEF Position
<1>6. /\ StoresInv' /\ slots' \in [1..K -> Entry \cup {Nil}] /\ len' \in 0..K
      /\ settled' = Append(settled, Seed[s])
  <2>1. len' = Len(settled) + 1 /\ len' <= K
    BY <1>1, <1>5, SettledFacts
  <2> QED BY <1>1, <1>3, <1>5, <2>1, Appended
<1>7. TypeInv'
  <2>1. pc' \in [Thread -> {"start", "shift", "fill", "elect", "scan", "publish", "done"}]
    BY <1>1, <1>2, MovedType
  <2> QED BY <1>1, <1>6, <2>1 DEF TypeInv
<1> QED BY <1>3, <1>4, <1>5, <1>6, <1>7

\* A full bucket: only the program counter moves.
LEMMA StepRejectPeer == ASSUME IInv, NEW s \in Seeder, RejectPeer(s) PROVE IInv'
<1> USE DEF IInv
<1>1. /\ Goto(s, "start", "elect") /\ bmu = Free
      /\ UNCHANGED <<slots, len, bmu, at, settled, icWriter, icReaders, want, snap, ranked,
                     supers, crashed>>
  BY DEF RejectPeer, bucketVars, scanVars, electVars
<1>2. s \in Thread
  BY Threads
<1>3. HolderInv' /\ \A u \in Seeder : pc'[u] \notin {"shift", "fill"}
  BY <1>1, HolderLeaves
<1>4. ElectionInv'
  BY <1>1, InsertKeepsElection
<1>5. TypeInv'
  <2>1. pc' \in [Thread -> {"start", "shift", "fill", "elect", "scan", "publish", "done"}]
    BY <1>1, <1>2, MovedType
  <2> QED BY <1>1, <2>1 DEF TypeInv
<1>6. StoresInv'
  BY <1>1, <1>3 DEF StoresInv, Bucket
<1> QED BY <1>3, <1>4, <1>5, <1>6

------------------------------------------------------------------------------
(* updateSupernodeList and getAlphaClosest.                                *)

\* A thread that only reads the bucket leaves the locks of Insert alone.
LEMMA ReadersLeaveBucket ==
    ASSUME IInv, NEW t \in Thread, NEW from, NEW to,
           Goto(t, from, to), {from, to} \cap {"shift", "fill"} = {}, UNCHANGED bucketVars
    PROVE  HolderInv' /\ StoresInv'
<1> USE DEF IInv
<1>1. UNCHANGED <<slots, len, bmu, at, settled>>
  BY DEF bucketVars
<1>2. pc[t] = from /\ pc'[t] = to /\ \A u \in Thread \ {t} : pc'[u] = pc[u]
  BY Moved
<1>3. \A u \in Thread : pc'[u] # pc[u] => pc[u] \notin {"shift", "fill"} /\ pc'[u] \notin {"shift", "fill"}
  BY <1>2
<1>4. Seeder \subseteq Thread
  BY Threads
<1>5. HolderInv'
  BY <1>1, <1>3, <1>4 DEF HolderInv
<1>6. StoresInv'
  <2>1. \A s \in Seeder : (pc'[s] = "shift" => Shifting(s)') /\ (pc'[s] = "fill" => Filling(s)')
    BY <1>1, <1>3, <1>4 DEF StoresInv, Shifting, Shifted, Filling
  <2>2. (bmu' = Free => settled' = Bucket') /\ DistinctIds(settled)'
    BY <1>1 DEF StoresInv, Bucket, DistinctIds
  <2> QED BY <1>1, <2>1, <2>2 DEF StoresInv
<1> QED BY <1>5, <1>6

\* With no thread moving, too.
LEMMA CopiesLeaveBucket ==
    ASSUME IInv, UNCHANGED pc, UNCHANGED bucketVars
    PROVE  HolderInv' /\ StoresInv'
BY DEF IInv, bucketVars, HolderInv, StoresInv, Shifting, Shifted, Filling, Bucket, DistinctIds

LEMMA ScanFacts ==
    ASSUME IInv, NEW t \in Thread
    PROVE  /\ snap[t] \in Seq(Entry \cup {Nil}) /\ Len(snap[t]) \in Nat
           /\ want[t] \in 0..K /\ want[t] \in Nat /\ DOMAIN snap[t] = 1..Len(snap[t])
           /\ \A i \in 1..Len(snap[t]) : snap[t][i] \in Entry \cup {Nil}
           /\ snap[t] = [i \in 1..Len(snap[t]) |-> snap[t][i]]
<1>1. snap[t] \in Seq(Entry \cup {Nil}) /\ want[t] \in 0..K
  BY DEF IInv, TypeInv
<1>2. want[t] \in Nat
  BY <1>1, RoutingAssumption
<1> QED BY <1>1, <1>2, SeqIsPrefix

LEMMA StepElectLock == ASSUME IInv, NEW s \in Electing, ElectLock(s) PROVE IInv'
<1> USE DEF IInv
<1>1. /\ Goto(s, "elect", "scan") /\ icWriter = Free /\ icWriter' = s
      /\ want' = [want EXCEPT ![s] = len] /\ snap' = [snap EXCEPT ![s] = <<>>]
      /\ UNCHANGED bucketVars
      /\ UNCHANGED <<slots, len, bmu, at, settled, icReaders, ranked, supers, crashed>>
  BY DEF ElectLock, bucketVars, electVars
<1>2. s \in Thread /\ Electing \subseteq Thread /\ \A t \in Thread : t # Free
  BY Threads
<1>3. pc[s] = "elect" /\ pc'[s] = "scan" /\ \A u \in Thread \ {s} : pc'[u] = pc[u]
  BY <1>1, <1>2, Moved
<1>4. HolderInv' /\ StoresInv'
  BY <1>1, <1>2, ReadersLeaveBucket
<1>5. TypeInv'
  <2>1. pc' \in [Thread -> {"start", "shift", "fill", "elect", "scan", "publish", "done"}]
    BY <1>1, <1>2, MovedType
  <2>2. want' \in [Thread -> 0..K]
    BY <1>1 DEF TypeInv
  <2>3. <<>> \in Seq(Entry \cup {Nil})
    OBVIOUS
  <2>4. snap' \in [Thread -> Seq(Entry \cup {Nil})]
    BY <1>1, <2>3 DEF TypeInv
  <2> QED BY <1>1, <2>1, <2>2, <2>4 DEF TypeInv
<1>6. ElectionInv'
  <2>1. \A w \in Electing : pc'[w] \in {"scan", "publish"} <=> icWriter' = w
    BY <1>1, <1>2, <1>3 DEF ElectionInv
  <2>2. Scanned(s)'
    <3>1. want'[s] = len /\ snap'[s] = <<>> /\ len' = len /\ len \in Nat
      BY <1>1, <1>2, SettledFacts DEF TypeInv
    <3> QED BY <3>1 DEF Scanned
  <2>3. icWriter' # Free
    BY <1>1, <1>2
  <2>4. \A w \in Electing : pc'[w] \in {"scan", "publish"} => w = s
    BY <1>1, <2>1
  <2> QED BY <1>3, <2>1, <2>2, <2>3, <2>4 DEF ElectionInv
<1> QED BY <1>4, <1>5, <1>6

\* What a getAlphaClosest does, an election does not see.
LEMMA ReadersLeaveElection ==
    ASSUME IInv, NEW r \in Reader, pc' = [pc EXCEPT ![r] = pc'[r]],
           \A w \in Electing : want'[w] = want[w] /\ snap'[w] = snap[w],
           UNCHANGED <<slots, len, icWriter, ranked, supers>>
    PROVE  ElectionInv'
<1>1. \A w \in Electing : pc'[w] = pc[w] /\ w \in Thread
  BY Threads DEF IInv, TypeInv
<1>2. Bucket' = Bucket
  BY DEF Bucket
<1>3. Pending' <=> Pending
  BY <1>1 DEF Pending
<1>4. \A w \in Electing : (Scanned(w)' <=> Scanned(w)) /\ (Published(w)' <=> Published(w))
  BY <1>2 DEF Scanned, Published
<1> QED BY <1>1, <1>2, <1>3, <1>4 DEF IInv, ElectionInv

LEMMA StepReadLock == ASSUME IInv, NEW r \in Reader, ReadLock(r) PROVE IInv'
<1> USE DEF IInv
<1>1. /\ Goto(r, "start", "scan") /\ icReaders' = icReaders \cup {r}
      /\ want' = [want EXCEPT ![r] = len] /\ snap' = [snap EXCEPT ![r] = <<>>]
      /\ UNCHANGED bucketVars
      /\ UNCHANGED <<slots, len, bmu, at, settled, icWriter, ranked, supers, crashed>>
  BY DEF ReadLock, bucketVars, electVars
<1>2. r \in Thread /\ r \notin Electing /\ Electing \subseteq Thread
  BY Threads
<1>3. HolderInv' /\ StoresInv'
  BY <1>1, <1>2, ReadersLeaveBucket
<1>4. TypeInv'
  <2>1. pc' \in [Thread -> {"start", "shift", "fill", "elect", "scan", "publish", "done"}]
    BY <1>1, <1>2, MovedType
  <2>2. want' \in [Thread -> 0..K]
    BY <1>1 DEF TypeInv
  <2>3. <<>> \in Seq(Entry \cup {Nil})
    OBVIOUS
  <2>4. snap' \in [Thread -> Seq(Entry \cup {Nil})]
    BY <1>1, <2>3 DEF TypeInv
  <2> QED BY <1>1, <2>1, <2>2, <2>4 DEF TypeInv
<1>5. ElectionInv'
  <2>1. pc' = [pc EXCEPT ![r] = pc'[r]]
    BY <1>1, <1>2 DEF Goto, TypeInv
  <2>2. \A w \in Electing : want'[w] = want[w] /\ snap'[w] = snap[w]
    BY <1>1, <1>2 DEF TypeInv
  <2> QED BY <1>1, <2>1, <2>2, ReadersLeaveElection
<1> QED BY <1>3, <1>4, <1>5

LEMMA StepReturnClosest == ASSUME IInv, NEW r \in Reader, ReturnClosest(r) PROVE IInv'
<1> USE DEF IInv
<1>1. /\ Goto(r, "scan", "done") /\ icReaders' = icReaders \ {r} /\ UNCHANGED bucketVars
      /\ UNCHANGED <<slots, len, bmu, at, settled, icWriter, want, snap, ranked, supers, crashed>>
  BY DEF ReturnClosest, bucketVars, electVars
<1>2. r \in Thread
  BY Threads
<1>3. HolderInv' /\ StoresInv'
  BY <1>1, <1>2, ReadersLeaveBucket
<1>4. TypeInv'
  <2>1. pc' \in [Thread -> {"start", "shift", "fill", "elect", "scan", "publish", "done"}]
    BY <1>1, <1>2, MovedType
  <2> QED BY <1>1, <2>1 DEF TypeInv
<1>5. ElectionInv'
  <2>1. pc' = [pc EXCEPT ![r] = pc'[r]]
    BY <1>1, <1>2 DEF Goto, TypeInv
  <2> QED BY <1>1, <2>1, ReadersLeaveElection
<1> QED BY <1>3, <1>4, <1>5

\* A copied element is the one the bucket holds: while an election scans and
\* none is to come, nobody stores into the bucket.
LEMMA StepCopySlot == ASSUME IInv, NEW t \in Thread, CopySlot(t) PROVE IInv'
<1> USE DEF IInv
<1>1. /\ pc[t] = "scan" /\ Len(snap[t]) < want[t]
      /\ snap' = [snap EXCEPT ![t] = Append(snap[t], slots[Len(snap[t]) + 1])]
      /\ UNCHANGED bucketVars /\ UNCHANGED pc
      /\ UNCHANGED <<slots, len, bmu, at, settled, icWriter, icReaders, want, ranked, supers, crashed>>
  BY DEF CopySlot, bucketVars, electVars
<1>2. HolderInv' /\ StoresInv'
  BY <1>1, CopiesLeaveBucket
<1> DEFINE n == Len(snap[t])
           e == slots[n + 1]
<1>3. n \in Nat /\ n + 1 <= want[t] /\ want[t] <= K /\ K \in Nat /\ snap[t] \in Seq(Entry \cup {Nil})
  <2>1. snap[t] \in Seq(Entry \cup {Nil}) /\ want[t] \in 0..K /\ n < want[t]
    BY <1>1 DEF TypeInv
  <2>2. K \in Nat /\ n \in Nat
    BY <2>1, RoutingAssumption
  <2> QED BY <2>1, <2>2
<1>4. e \in Entry \cup {Nil}
  BY <1>3 DEF TypeInv
<1> HIDE DEF e
<1>5. snap'[t] = Append(snap[t], e) /\ snap'[t] \in Seq(Entry \cup {Nil})
      /\ Len(snap'[t]) = n + 1 /\ snap'[t][n + 1] = e /\ \A i \in 1..n : snap'[t][i] = snap[t][i]
  <2>1. snap'[t] = Append(snap[t], e)
    BY <1>1 DEF TypeInv, e
  <2> QED BY <1>3, <1>4, <2>1
<1>6. TypeInv'
  <2>1. snap' \in [Thread -> Seq(Entry \cup {Nil})]
    BY <1>1, <1>5 DEF TypeInv
  <2> QED BY <1>1, <2>1 DEF TypeInv
<1>7. ASSUME NEW w \in Electing, Scanned(w), ~Pending PROVE Scanned(w)'
  <2>1. CASE w = t
    BY <1>1, <1>3, <1>5, <1>7, <2>1, SettledFacts DEF Scanned, e
  <2>2. CASE w # t
    <3>1. snap'[w] = snap[w]
      BY <1>1, <2>2, Threads DEF TypeInv
    <3> QED BY <1>1, <1>7, <3>1 DEF Scanned
  <2> QED BY <2>1, <2>2
<1>8. ElectionInv'
  <2>1. Pending' <=> Pending
    BY <1>1 DEF Pending
  <2>2. \A w \in Electing : Published(w)' <=> Published(w)
    BY <1>1 DEF Published, Bucket
  <2>3. Bucket' = Bucket
    BY <1>1 DEF Bucket
  <2> QED BY <1>1, <1>7, <2>1, <2>2, <2>3 DEF ElectionInv
<1> QED BY <1>2, <1>6, <1>8

LEMMA StepNilDereference == ASSUME IInv, NEW t \in Thread, NilDereference(t) PROVE IInv'
<1> USE DEF IInv
<1>1. /\ crashed' = TRUE /\ UNCHANGED bucketVars /\ UNCHANGED pc
      /\ UNCHANGED <<slots, len, bmu, at, settled, icWriter, icReaders, want, snap, ranked, supers>>
  BY DEF NilDereference, bucketVars, scanVars, electVars
<1>2. HolderInv' /\ StoresInv'
  BY <1>1, CopiesLeaveBucket
<1>3. TypeInv'
  BY <1>1 DEF TypeInv
<1>4. ElectionInv'
  BY <1>1 DEF ElectionInv, Pending, Scanned, Published, Bucket
<1> QED BY <1>2, <1>3, <1>4

\* The election that no other follows ranks the bucket as it is.
LEMMA StepResetSupernodes == ASSUME IInv, NEW s \in Electing, ResetSupernodes(s) PROVE IInv'
<1> USE DEF IInv
<1>1. /\ Goto(s, "scan", "publish") /\ Len(snap[s]) = want[s] /\ ~HasNil(s)
      /\ snap' = [snap EXCEPT ![s] = <<>>] /\ want' = [want EXCEPT ![s] = 0]
      /\ supers' = <<>> /\ UNCHANGED bucketVars
      /\ UNCHANGED <<slots, len, bmu, at, settled, icWriter, icReaders, crashed>>
  BY DEF ResetSupernodes, CopyDone, bucketVars
<1>2. PICK r \in Rankings(snap[s]) : ranked' = [ranked EXCEPT ![s] = Top(r)]
  BY DEF ResetSupernodes
<1>3. s \in Thread /\ Electing \subseteq Thread /\ \A t \in Thread : t # Free
  BY Threads
<1>4. pc[s] = "scan" /\ pc'[s] = "publish" /\ \A u \in Thread \ {s} : pc'[u] = pc[u]
  BY <1>1, <1>3, Moved
<1>5. HolderInv' /\ StoresInv'
  BY <1>1, <1>3, ReadersLeaveBucket
<1>6. snap[s] \in Seq(Entry)
  <2>1. Len(snap[s]) \in Nat /\ snap[s] = [i \in 1..Len(snap[s]) |-> snap[s][i]]
        /\ DOMAIN snap[s] = 1..Len(snap[s])
        /\ \A i \in 1..Len(snap[s]) : snap[s][i] \in Entry \cup {Nil}
    BY <1>3, ScanFacts
  <2>2. \A i \in 1..Len(snap[s]) : snap[s][i] \in Entry
    BY <1>1, <2>1 DEF HasNil
  <2> QED BY <2>1, <2>2, PrefixIsSeq
<1>7. Top(r) \in Tops(snap[s]) /\ Top(r) \in Seq(Entry)
  BY <1>6, TopsType DEF Tops
<1>8. ranked'[s] = Top(r) /\ \A w \in Electing \ {s} : ranked'[w] = ranked[w]
  BY <1>2 DEF TypeInv
<1>9. TypeInv'
  <2>1. pc' \in [Thread -> {"start", "shift", "fill", "elect", "scan", "publish", "done"}]
    BY <1>1, <1>3, MovedType
  <2>2. 0 \in 0..K /\ <<>> \in Seq(Entry \cup {Nil}) /\ <<>> \in Seq(Entry)
    BY SettledFacts
  <2>3. want' \in [Thread -> 0..K]
    BY <1>1, <2>2 DEF TypeInv
  <2>4. snap' \in [Thread -> Seq(Entry \cup {Nil})]
    BY <1>1, <2>2 DEF TypeInv
  <2>5. ranked' \in [Electing -> Seq(Entry)]
    BY <1>2, <1>7 DEF TypeInv
  <2> QED BY <1>1, <2>1, <2>2, <2>3, <2>4, <2>5 DEF TypeInv
<1>10. ASSUME ~Pending PROVE Published(s)'
  <2>1. Scanned(s)
    BY <1>4, <1>10 DEF ElectionInv
  <2>2. snap[s] = Bucket
    <3>1. Len(snap[s]) = len /\ \A i \in 1..len : snap[s][i] = slots[i]
      BY <1>1, <2>1 DEF Scanned
    <3>2. snap[s] = [i \in 1..Len(snap[s]) |-> snap[s][i]]
      BY <1>3, ScanFacts
    <3> QED BY <3>1, <3>2 DEF Bucket
  <2>3. ranked'[s] \in Tops(Bucket) /\ Bucket' = Bucket
    BY <1>1, <1>7, <1>8, <2>2 DEF Bucket
  <2>4. Tops(Bucket)' = Tops(Bucket)
    BY <2>3 DEF Tops, Rankings, Top
  <2>5. Len(supers') = 0 /\ Len(ranked'[s]) \in Nat
    BY <1>1, <1>7, <1>8
  <2> QED BY <2>3, <2>4, <2>5 DEF Published
<1>11. ElectionInv'
  <2>1. icWriter' = s /\ icWriter' # Free
    BY <1>1, <1>3, <1>4 DEF ElectionInv
  <2>2. \A w \in Electing : pc'[w] \in {"scan", "publish"} <=> icWriter' = w
    BY <1>1, <1>3, <1>4 DEF ElectionInv
  <2>3. Pending' <=> Pending
    BY <1>3, <1>4 DEF Pending
  <2>4. \A w \in Electing : pc'[w] = "scan" => FALSE
    BY <1>4, <2>1, <2>2
  <2>5. \A w \in Electing : pc'[w] = "publish" => w = s
    BY <2>1, <2>2
  <2> QED BY <1>10, <2>1, <2>2, <2>3, <2>4, <2>5 DEF ElectionInv
<1> QED BY <1>5, <1>9, <1>11

LEMMA StepAppendSupernode == ASSUME IInv, NEW s \in Electing, AppendSupernode(s) PROVE IInv'
<1> USE DEF IInv
<1>1. /\ pc[s] = "publish" /\ Len(supers) < Len(ranked[s])
      /\ supers' = Append(supers, ranked[s][Len(supers) + 1])
      /\ UNCHANGED bucketVars /\ UNCHANGED pc
      /\ UNCHANGED <<slots, len, bmu, at, settled, icWriter, icReaders, want, snap, ranked, crashed>>
  BY DEF AppendSupernode, bucketVars, scanVars
<1>2. HolderInv' /\ StoresInv'
  BY <1>1, CopiesLeaveBucket
<1> DEFINE n == Len(supers)
<1>3. supers \in Seq(Entry) /\ ranked[s] \in Seq(Entry) /\ n \in Nat /\ Len(ranked[s]) \in Nat
      /\ n + 1 <= Len(ranked[s]) /\ ranked[s][n + 1] \in Entry
  BY <1>1 DEF TypeInv
<1>4. supers' \in Seq(Entry) /\ Len(supers') = n + 1 /\ supers'[n + 1] = ranked[s][n + 1]
      /\ \A i \in 1..n : supers'[i] = supers[i]
  BY <1>1, <1>3
<1>5. TypeInv'
  BY <1>1, <1>4 DEF TypeInv
<1>6. Bucket' = Bucket /\ (Pending' <=> Pending) /\ icWriter = s /\ s # Free
  BY <1>1, Threads DEF Bucket, Pending, ElectionInv
<1>7. ASSUME ~Pending PROVE Published(s)'
  <2>1. Published(s)
    BY <1>1, <1>7 DEF ElectionInv
  <2> QED BY <1>1, <1>3, <1>4, <1>6, <2>1 DEF Published
<1>8. \A w \in Electing : pc[w] \in {"scan", "publish"} => w = s
  BY <1>6 DEF ElectionInv
<1>9. ElectionInv'
  BY <1>1, <1>6, <1>7, <1>8 DEF ElectionInv
<1> QED BY <1>2, <1>5, <1>9

LEMMA StepElectUnlock == ASSUME IInv, NEW s \in Electing, ElectUnlock(s) PROVE IInv'
<1> USE DEF IInv
<1>1. /\ Goto(s, "publish", "done") /\ Len(supers) = Len(ranked[s]) /\ icWriter' = Free
      /\ ranked' = [ranked EXCEPT ![s] = <<>>] /\ UNCHANGED bucketVars
      /\ UNCHANGED <<slots, len, bmu, at, settled, icReaders, want, snap, supers, crashed>>
  BY DEF ElectUnlock, bucketVars
<1>2. s \in Thread /\ Electing \subseteq Thread /\ \A t \in Thread : t # Free
  BY Threads
<1>3. pc[s] = "publish" /\ pc'[s] = "done" /\ \A u \in Thread \ {s} : pc'[u] = pc[u]
  BY <1>1, <1>2, Moved
<1>4. HolderInv' /\ StoresInv'
  BY <1>1, <1>2, ReadersLeaveBucket
<1>5. TypeInv'
  <2>1. pc' \in [Thread -> {"start", "shift", "fill", "elect", "scan", "publish", "done"}]
    BY <1>1, <1>2, MovedType
  <2>2. <<>> \in Seq(Entry)
    OBVIOUS
  <2>3. ranked' \in [Electing -> Seq(Entry)]
    BY <1>1, <2>2 DEF TypeInv
  <2> QED BY <1>1, <2>1, <2>3 DEF TypeInv
<1>6. ASSUME ~Pending PROVE supers' \in Tops(Bucket)'
  <2>1. Published(s)
    BY <1>3, <1>6 DEF ElectionInv
  <2>2. supers \in Seq(Entry) /\ ranked[s] \in Seq(Entry)
    BY DEF TypeInv
  <2>3. supers = ranked[s]
    BY <1>1, <2>1, <2>2 DEF Published
  <2>4. supers \in Tops(Bucket)
    BY <2>1, <2>3 DEF Published
  <2>5. Bucket' = Bucket
    BY <1>1 DEF Bucket
  <2> QED BY <1>1, <2>4, <2>5 DEF Tops, Rankings, Top
<1>7. ElectionInv'
  <2>1. icWriter = s
    BY <1>3 DEF ElectionInv
  <2>2. \A w \in Electing : pc'[w] \notin {"scan", "publish"}
    BY <1>2, <1>3, <2>1 DEF ElectionInv
  <2>3. Pending' <=> Pending
    BY <1>2, <1>3 DEF Pending
  <2> QED BY <1>1, <1>2, <1>6, <2>2, <2>3 DEF ElectionInv
<1> QED BY <1>4, <1>5, <1>7

LEMMA StepMaintenanceTick == ASSUME IInv, NEW e \in Elector, MaintenanceTick(e) PROVE IInv'
<1> USE DEF IInv
<1> PICK from \in {"start", "done"} : Goto(e, from, "elect")
  BY DEF MaintenanceTick
<1>1. /\ Goto(e, from, "elect") /\ UNCHANGED bucketVars
      /\ UNCHANGED <<slots, len, bmu, at, settled, icWriter, icReaders, want, snap, ranked, supers, crashed>>
  BY DEF MaintenanceTick, bucketVars, scanVars, electVars
<1>2. e \in Thread /\ e \in Electing /\ Electing \subseteq Thread
  BY Threads
<1>3. pc[e] = from /\ pc'[e] = "elect" /\ \A u \in Thread \ {e} : pc'[u] = pc[u]
  BY <1>1, <1>2, Moved
<1>4. HolderInv' /\ StoresInv'
  BY <1>1, <1>2, ReadersLeaveBucket
<1>5. TypeInv'
  <2>1. pc' \in [Thread -> {"start", "shift", "fill", "elect", "scan", "publish", "done"}]
    BY <1>1, <1>2, MovedType
  <2> QED BY <1>1, <2>1 DEF TypeInv
<1>6. ElectionInv'
  <2>1. Pending'
    BY <1>2, <1>3 DEF Pending
  <2>2. \A w \in Electing : pc'[w] \in {"scan", "publish"} <=> icWriter' = w
    BY <1>1, <1>2, <1>3 DEF ElectionInv
  <2> QED BY <2>1, <2>2 DEF ElectionInv
<1> QED BY <1>4, <1>5, <1>6

LEMMA Stutter == ASSUME IInv, UNCHANGED vars PROVE IInv'
<1> USE DEF IInv
<1>1. UNCHANGED <<pc, slots, len, bmu, icWriter, icReaders, at, want, snap, ranked, supers, crashed, settled>>
  BY DEF vars
<1>2. HolderInv' /\ StoresInv'
  BY <1>1, CopiesLeaveBucket DEF bucketVars
<1>3. TypeInv'
  BY <1>1 DEF TypeInv
<1>4. ElectionInv'
  BY <1>1 DEF ElectionInv, Pending, Scanned, Published, Bucket
<1> QED BY <1>2, <1>3, <1>4

LEMMA Inductive == IInv /\ [Next]_vars => IInv'
<1> SUFFICES ASSUME IInv, [Next]_vars PROVE IInv'
  OBVIOUS
<1>1. ASSUME NEW s \in Electing, UpdateSupernodeList(s) PROVE IInv'
  BY <1>1, Threads, StepElectLock, StepCopySlot, StepNilDereference, StepResetSupernodes,
     StepAppendSupernode, StepElectUnlock DEF UpdateSupernodeList
<1>2. ASSUME NEW s \in Seeder, Insert(s) PROVE IInv'
  BY <1>2, StepFindPeer, StepShiftSlot, StepPutTail, StepGrowSlice, StepFillSlot,
     StepAppendPeer, StepRejectPeer DEF Insert
<1>3. ASSUME NEW e \in Elector, MaintenanceTick(e) PROVE IInv'
  BY <1>3, StepMaintenanceTick
<1>4. ASSUME NEW r \in Reader, GetAlphaClosest(r) PROVE IInv'
  BY <1>4, Threads, StepReadLock, StepCopySlot, StepNilDereference, StepReturnClosest
     DEF GetAlphaClosest
<1>5. CASE UNCHANGED vars
  BY <1>5, Stutter
<1>6. CASE Next
  BY <1>1, <1>2, <1>3, <1>4, <1>6, Threads DEF Next, SeedPeer
<1> QED BY <1>5, <1>6

\* The state of the k-bucket, of its lock, and of the election under way, as
\* KBucket.Insert and updateSupernodeList keep it between their statements.
THEOREM InductiveInvariant == Spec => []IInv
BY InvInit, Inductive, PTL DEF Spec

\* Every variable of the bucket and of the elections keeps its type: the slice
\* never outgrows K and the settled bucket never holds a nil pointer.
THEOREM RoutingTypeOK == Spec => []TypeOK
<1>1. IInv => TypeOK
  BY DEF IInv, TypeInv, StoresInv, TypeOK
<1> QED BY <1>1, InductiveInvariant, PTL

\* Whoever takes b.mu finds distinct, non-nil peers: KBucket.Insert restores
\* the order of the bucket before it unlocks, whatever it did to the slots.
THEOREM InsertRestoresBucket == Spec => []BucketWellFormed
<1>1. ASSUME IInv, bmu = Free, NEW i \in 1..len, NEW j \in 1..len
      PROVE  slots[i] # Nil /\ (slots[i].id = slots[j].id => i = j)
  <2>1. len = Len(settled) /\ \A k \in 1..len : slots[k] = settled[k]
    BY <1>1, SettledFacts
  <2>2. \A k \in 1..Len(settled) : settled[k] # Nil
    BY <1>1, SettledFacts, RoutingAssumption
  <2>3. DistinctIds(settled) /\ DOMAIN settled = 1..Len(settled)
    BY <1>1, SettledFacts DEF IInv, StoresInv
  <2> QED BY <2>1, <2>2, <2>3 DEF DistinctIds
<1>2. IInv => BucketWellFormed
  BY <1>1 DEF BucketWellFormed
<1> QED BY <1>2, InductiveInvariant, PTL

\* Whenever no SeedPeer and no election runs, ic.supernodes is the top of the
\* bucket: updateSupernodeList reads the bucket without b.mu, but the election
\* of the last insert to finish starts after every store.
THEOREM LastElectionWins == Spec => []SupernodesCurrent
<1>1. ASSUME IInv, Quiet PROVE supers \in Tops(Bucket)
  <2>1. ~Pending
    BY <1>1 DEF Quiet, Pending
  <2>2. icWriter = Free
    BY <1>1 DEF Quiet, IInv, TypeInv, ElectionInv
  <2> QED BY <1>1, <2>1, <2>2 DEF IInv, ElectionInv
<1>2. IInv => SupernodesCurrent
  BY <1>1 DEF SupernodesCurrent, Tops
<1> QED BY <1>2, InductiveInvariant, PTL

------------------------------------------------------------------------------
(* The bucket implements LRUBucket.                                        *)

LEMMA PutTailImplements ==
    ASSUME IInv, NEW s \in Seeder, PutTail(s)
    PROVE  LRU!Insert(Seed[s])
<1>1. PICK i \in 1..Len(settled) :
              /\ settled[i].id = Seed[s].id /\ len' = Len(settled)
              /\ \A j \in 1..Len(settled) :
                    slots'[j] = IF j < i THEN settled[j]
                                ELSE IF j < Len(settled) THEN settled[j + 1] ELSE Seed[s]
  BY TailMoves
<1>2. settled' = [j \in 1..len' |-> slots'[j]] /\ DOMAIN settled = 1..Len(settled)
  BY SettledFacts DEF PutTail, Unlock, Bucket
<1>3. settled' = LRU!MovedToTail(i, Seed[s])
  BY <1>1, <1>2 DEF LRU!MovedToTail
<1> QED BY <1>1, <1>2, <1>3 DEF LRU!Insert

LEMMA AppendImplements ==
    ASSUME IInv, NEW s \in Seeder, settled' = Append(settled, Seed[s]),
           Len(settled) < K, \A j \in 1..Len(settled) : settled[j].id # Seed[s].id
    PROVE  LRU!Insert(Seed[s])
<1>1. ~LRU!Knows(Seed[s].id)
  BY SettledFacts DEF LRU!Knows
<1> QED BY <1>1 DEF LRU!Insert

\* The bucket at each release of b.mu changes as LRUBucket says: the stores of
\* one KBucket.Insert, interleaved with the copies of updateSupernodeList and
\* getAlphaClosest, are together one move, one append or nothing.
THEOREM BucketIsLRU == Spec => ImplementsLRU
<1>1. ASSUME IInv, [Next]_vars PROVE [LRU!Next]_settled
  <2>1. ASSUME NEW s \in Seeder, PutTail(s) \/ FillSlot(s) \/ AppendPeer(s)
        PROVE  LRU!Next
    <3>1. LRU!Insert(Seed[s])
      BY <1>1, <2>1, PutTailImplements, AppendImplements, StepFillSlot, StepAppendPeer
    <3> QED BY <3>1, Threads DEF LRU!Next
  <2>2. ASSUME NEW s \in Seeder, FindPeer(s) \/ ShiftSlot(s) \/ GrowSlice(s) \/ RejectPeer(s)
        PROVE  UNCHANGED settled
    BY <2>2 DEF FindPeer, ShiftSlot, GrowSlice, RejectPeer, bucketVars
  <2>3. ASSUME NEW t \in Thread,
               \/ UpdateSupernodeList(t) \/ MaintenanceTick(t) \/ GetAlphaClosest(t)
        PROVE  UNCHANGED settled
    BY <2>3 DEF UpdateSupernodeList, MaintenanceTick, GetAlphaClosest, ElectLock, ReadLock,
                CopySlot, NilDereference, ReturnClosest, ResetSupernodes, AppendSupernode,
                ElectUnlock, bucketVars
  <2>4. CASE UNCHANGED vars
    BY <2>4 DEF vars
  <2>5. CASE Next
    BY <2>1, <2>2, <2>3, <2>5, Threads DEF Next, SeedPeer, Insert
  <2> QED BY <1>1, <2>4, <2>5
<1> QED BY <1>1, InductiveInvariant, PTL DEF ImplementsLRU, LRU!Spec, Spec

------------------------------------------------------------------------------
(* Lookup: the inductive invariant.                                        *)

Stages == {"start", "loop", "wait", "escalate", "collect", "done"}

TypesInv ==
    /\ ownId \in {Self, Zero} /\ target \in Targets
    /\ stage \in Stages
    /\ closest \subseteq Node /\ fresh \subseteq Node /\ result \subseteq Node
    /\ seen \subseteq Node /\ asking \subseteq seen /\ seeding \subseteq seen
    /\ error \in BOOLEAN /\ raced \in BOOLEAN

\* Every insert is followed by an election of the peers that are then known,
\* and the list is that election's result or the part of it appended so far.
ListInv ==
    /\ table \subseteq Node /\ elected = Elect[table]
    /\ supernodes \in Seq(Node) /\ Len(supernodes) <= Len(elected)
    /\ \A i \in 1..Len(supernodes) : supernodes[i] = elected[i]

\* What is known was introduced or named, what a round collects is known once
\* its goroutines are through, and what is returned is known.
Named == UNION {Answer[p] : p \in seen}
HearsayInv ==
    /\ table \subseteq Introduced \cup Named
    /\ fresh \subseteq table \cup UNION {Answer[p] : p \in seeding}
    /\ result \subseteq {Self} \cup table

\* A round starts before the deadline and adds one timeout at most.
TimeInv ==
    /\ elapsed \in Nat /\ longest \in 0..CallTimeout
    /\ stage = "wait" => elapsed < MaxTime
    /\ elapsed < MaxTime + CallTimeout

\* After its first round a lookup knows somebody, so that an empty list is a
\* list being rebuilt, and without one it always has somebody to ask next.
BoundsInv ==
    /\ round \in 0..MaxRounds
    /\ stage = "start" => round = 0
    /\ stage \in {"wait", "escalate", "collect"} => round < MaxRounds
    /\ round > 0 \/ stage \in {"escalate", "collect"} => table # {}
    /\ ~raced /\ (stage = "collect" \/ (stage = "loop" /\ round > 0)) => closest # {}
    /\ UsesItsBounds

\* Only a lookup before its first round, without an own id, returns an error.
OutcomeInv ==
    /\ stage = "start" => ~error /\ result = {}
    /\ error => stage = "done" /\ result = {}
    /\ stage = "done" /\ ~error => Self \in result

LookupIInv == TypesInv /\ ListInv /\ HearsayInv /\ TimeInv /\ BoundsInv /\ OutcomeInv

------------------------------------------------------------------------------
(* The steps.                                                              *)

LEMMA ElectedFacts ==
    ASSUME NEW T \in SUBSET Node
    PROVE  /\ Elect[T] \in Seq(Node) /\ Range(Elect[T]) \subseteq T
           /\ T # {} => Elect[T] # <<>>
BY LookupAssumption

\* What any read of the list may return.
LEMMA ListFacts ==
    ASSUME ListInv
    PROVE  /\ Range(supernodes) \subseteq table
           /\ supernodes # <<>> => Range(supernodes) # {} /\ table # {}
           /\ supernodes = <<>> /\ table # {} => ~ElectionOver
<1>1. elected \in Seq(Node) /\ Range(elected) \subseteq table /\ (table # {} => elected # <<>>)
  BY ElectedFacts DEF ListInv
<1>2. \A i \in DOMAIN supernodes : supernodes[i] \in Range(elected)
  BY <1>1 DEF ListInv, Range
<1>3. Range(supernodes) \subseteq table
  BY <1>1, <1>2 DEF Range
<1>4. supernodes # <<>> => supernodes[1] \in Range(supernodes)
  BY DEF ListInv, Range
<1> QED BY <1>1, <1>3, <1>4 DEF ElectionOver

LEMMA LookupInvInit == LookupInit => LookupIInv
<1> SUFFICES ASSUME LookupInit PROVE LookupIInv
  OBVIOUS
<1>1. TypesInv /\ OutcomeInv
  BY DEF LookupInit, TypesInv, OutcomeInv, Stages
<1>6. TimeInv
  BY LookupAssumption DEF LookupInit, TimeInv
<1>2. table \subseteq Node
  BY LookupAssumption DEF LookupInit
<1>3. ListInv
  BY <1>2, ElectedFacts DEF LookupInit, ListInv
<1>4. HearsayInv
  BY DEF LookupInit, HearsayInv, Introduced
<1>5. BoundsInv
  BY LookupAssumption DEF LookupInit, BoundsInv, UsesItsBounds
<1> QED BY <1>1, <1>3, <1>4, <1>5, <1>6 DEF LookupIInv

\* A step of the lookup that leaves the list and the calls alone.
LEMMA StepReturnAtOnce == ASSUME LookupIInv, ReturnAtOnce PROVE LookupIInv'
<1> USE DEF LookupIInv, ReturnAtOnce, list, args, calls
<1>1. TypesInv' /\ TimeInv'
  BY LookupAssumption DEF TypesInv, TimeInv, Stages
<1>2. ListInv'
  BY DEF ListInv
<1>3. HearsayInv'
  BY DEF HearsayInv, Named
<1>4. BoundsInv'
  BY DEF BoundsInv, UsesItsBounds
<1>5. OutcomeInv'
  BY DEF OutcomeInv
<1> QED BY <1>1, <1>2, <1>3, <1>4, <1>5

LEMMA StepBegin == ASSUME LookupIInv, Begin PROVE LookupIInv'
<1> USE DEF LookupIInv, Begin, list, args, calls
<1>1. closest' \subseteq Node
  BY LookupAssumption DEF AlphaClosest, ListInv
<1>2. TypesInv' /\ TimeInv'
  BY <1>1 DEF TypesInv, TimeInv, Stages
<1>3. ListInv' /\ HearsayInv'
  BY DEF ListInv, HearsayInv, Named
<1>4. BoundsInv'
  BY DEF BoundsInv, UsesItsBounds
<1>5. OutcomeInv'
  BY DEF OutcomeInv
<1> QED BY <1>2, <1>3, <1>4, <1>5

LEMMA StepStartRound == ASSUME LookupIInv, StartRound PROVE LookupIInv'
<1> USE DEF LookupIInv, StartRound, MayIterate, list, args
<1>1. TypesInv' /\ TimeInv'
  BY LookupAssumption DEF TypesInv, TimeInv, Stages
<1>2. ListInv'
  BY DEF ListInv
<1>3. HearsayInv'
  BY DEF HearsayInv, Named
<1>4. BoundsInv'
  BY LookupAssumption DEF BoundsInv, UsesItsBounds
<1>5. OutcomeInv'
  BY DEF OutcomeInv
<1> QED BY <1>1, <1>2, <1>3, <1>4, <1>5

LEMMA StepPeerAnswers == ASSUME LookupIInv, NEW p \in Node, PeerAnswers(p) PROVE LookupIInv'
<1> USE DEF LookupIInv, PeerAnswers, list, args
<1>1. Answer[p] \subseteq Node
  BY LookupAssumption
<1>2. TypesInv' /\ TimeInv'
  BY <1>1, LookupAssumption DEF TypesInv, TimeInv, Stages
<1>3. ListInv'
  BY DEF ListInv
<1>4. HearsayInv'
  BY DEF HearsayInv, Named
<1>5. BoundsInv' /\ OutcomeInv'
  BY DEF BoundsInv, UsesItsBounds, OutcomeInv
<1> QED BY <1>2, <1>3, <1>4, <1>5

LEMMA StepSeedAnswer == ASSUME LookupIInv, NEW p \in Node, SeedAnswer(p) PROVE LookupIInv'
<1> USE DEF LookupIInv, SeedAnswer, args
<1>1. Answer[p] \subseteq Named /\ p \in seen
  BY DEF Named, TypesInv
<1>2. TypesInv' /\ TimeInv'
  BY DEF TypesInv, TimeInv
<1>3. ListInv'
  <2>1. table' \subseteq Node
    BY LookupAssumption DEF ListInv
  <2> QED BY <2>1, ElectedFacts DEF ListInv
<1>4. HearsayInv'
  BY <1>1 DEF HearsayInv, Named
<1>5. BoundsInv' /\ OutcomeInv'
  BY DEF BoundsInv, UsesItsBounds, OutcomeInv
<1> QED BY <1>2, <1>3, <1>4, <1>5

LEMMA StepPeerFails == ASSUME LookupIInv, NEW p \in Node, PeerFails(p) PROVE LookupIInv'
<1> USE DEF LookupIInv, PeerFails, list, args
<1>1. TypesInv' /\ TimeInv'
  BY LookupAssumption DEF TypesInv, TimeInv
<1>2. ListInv' /\ HearsayInv'
  BY DEF ListInv, HearsayInv, Named
<1>3. BoundsInv' /\ OutcomeInv'
  BY DEF BoundsInv, UsesItsBounds, OutcomeInv
<1> QED BY <1>1, <1>2, <1>3

\* The end of a round, apart from what it does with the peers that were named:
\* these are known by now.
LEMMA RoundOverFacts ==
    ASSUME LookupIInv, RoundOver
    PROVE  /\ elapsed' \in Nat /\ elapsed' < MaxTime + CallTimeout
           /\ fresh \subseteq table /\ round < MaxRounds /\ ListInv' /\ ~error /\ error' = error
           /\ UNCHANGED <<table, supernodes, elected, seen, asking, seeding, longest, fresh>>
           /\ UNCHANGED <<ownId, target>>
<1>1. elapsed' \in Nat /\ elapsed' < MaxTime + CallTimeout
  BY LookupAssumption DEF LookupIInv, TimeInv, RoundOver
<1>2. fresh \subseteq table
  BY DEF LookupIInv, HearsayInv, RoundOver
<1> QED BY <1>1, <1>2 DEF LookupIInv, ListInv, BoundsInv, OutcomeInv, RoundOver, list, args, calls

LEMMA StepContinue == ASSUME LookupIInv, ContinueWithNewPeers PROVE LookupIInv'
<1> USE RoundOverFacts DEF LookupIInv, ContinueWithNewPeers
<1>1. TypesInv' /\ TimeInv'
  BY DEF TypesInv, TimeInv, Stages
<1>2. HearsayInv'
  BY DEF HearsayInv, Named
<1>3. BoundsInv' /\ OutcomeInv'
  BY LookupAssumption DEF BoundsInv, UsesItsBounds, OutcomeInv
<1> QED BY <1>1, <1>2, <1>3

LEMMA StepFindSupernodes == ASSUME LookupIInv, FindSupernodes PROVE LookupIInv'
<1> USE RoundOverFacts DEF LookupIInv, FindSupernodes
<1>1. TypesInv' /\ TimeInv'
  BY DEF TypesInv, TimeInv, Stages
<1>2. HearsayInv'
  BY DEF HearsayInv, Named
<1>3. BoundsInv' /\ OutcomeInv'
  BY ListFacts DEF BoundsInv, UsesItsBounds, OutcomeInv
<1> QED BY <1>1, <1>2, <1>3

LEMMA StepStopWithoutSupernodes == ASSUME LookupIInv, StopWithoutSupernodes PROVE LookupIInv'
<1> USE RoundOverFacts DEF LookupIInv, StopWithoutSupernodes, Return
<1>1. TypesInv' /\ TimeInv'
  <2>1. raced' \in BOOLEAN
    BY Zenon
  <2> QED BY <2>1, LookupAssumption DEF TypesInv, TimeInv, Stages
<1>2. HearsayInv'
  BY DEF HearsayInv, Named
<1>3. round > 0 => raced'
  BY ListFacts DEF BoundsInv
<1>4. BoundsInv' /\ OutcomeInv'
  BY <1>3 DEF BoundsInv, UsesItsBounds, OutcomeInv
<1> QED BY <1>1, <1>2, <1>4

LEMMA StepTakeSupernodes == ASSUME LookupIInv, TakeSupernodes PROVE LookupIInv'
<1> USE DEF LookupIInv, TakeSupernodes, list, args, calls
<1>1. closest' \subseteq table /\ (supernodes # <<>> => closest' # {})
  BY ListFacts
<1>2. TypesInv' /\ TimeInv'
  <2>1. raced' \in BOOLEAN
    BY Zenon
  <2> QED BY <1>1, <2>1 DEF TypesInv, TimeInv, ListInv, Stages
<1>3. ListInv' /\ HearsayInv'
  BY DEF ListInv, HearsayInv, Named
<1>4. BoundsInv' /\ OutcomeInv'
  BY <1>1 DEF BoundsInv, UsesItsBounds, OutcomeInv
<1> QED BY <1>2, <1>3, <1>4

LEMMA StepCollectSupernodes == ASSUME LookupIInv, CollectSupernodes PROVE LookupIInv'
<1> USE DEF LookupIInv, CollectSupernodes, list, args, calls
<1>1. Range(supernodes) \subseteq table
  BY ListFacts
<1>2. TypesInv' /\ TimeInv'
  BY <1>1 DEF TypesInv, TimeInv, ListInv, Stages
<1>3. ListInv' /\ HearsayInv'
  BY <1>1 DEF ListInv, HearsayInv, Named
<1>4. BoundsInv'
  BY LookupAssumption DEF BoundsInv, UsesItsBounds
<1>5. OutcomeInv'
  BY DEF OutcomeInv
<1> QED BY <1>2, <1>3, <1>4, <1>5

LEMMA StepLeaveLoop == ASSUME LookupIInv, LeaveLoop PROVE LookupIInv'
<1> USE DEF LookupIInv, LeaveLoop, Return, list, args, calls
<1>1. TypesInv' /\ TimeInv'
  BY LookupAssumption DEF TypesInv, TimeInv, Stages
<1>2. ListInv' /\ HearsayInv'
  BY DEF ListInv, HearsayInv, Named
<1>3. BoundsInv'
  BY LookupAssumption DEF BoundsInv, UsesItsBounds, MayIterate, TimeInv
<1>4. OutcomeInv'
  BY DEF OutcomeInv
<1> QED BY <1>1, <1>2, <1>3, <1>4

\* Elections of others: the list may shrink under the lookup, the table not.
LEMMA StepStartElection == ASSUME LookupIInv, StartElection PROVE LookupIInv'
<1> USE DEF LookupIInv, StartElection, args, calls
<1>1. PICK new \in SUBSET Newcomers : table' = table \cup new
  OBVIOUS
<1>2. TypesInv' /\ TimeInv'
  BY DEF TypesInv, TimeInv
<1>3. ListInv'
  <2>1. table' \subseteq Node
    BY <1>1, LookupAssumption DEF ListInv
  <2> QED BY <2>1, ElectedFacts DEF ListInv
<1>4. HearsayInv'
  <2>1. UNCHANGED <<seen, seeding, fresh, result>>
    OBVIOUS
  <2>2. Named' = Named
    BY <2>1 DEF Named
  <2>3. new \subseteq Introduced
    BY DEF Introduced
  <2>4. table' \subseteq Introduced \cup Named
    BY <1>1, <2>3 DEF HearsayInv
  <2>5. fresh' \subseteq table' \cup UNION {Answer[p] : p \in seeding'}
    BY <1>1, <2>1 DEF HearsayInv
  <2>6. result' \subseteq {Self} \cup table'
    BY <1>1, <2>1 DEF HearsayInv
  <2>7. Introduced' = Introduced
    BY DEF Introduced
  <2> QED BY <2>2, <2>4, <2>5, <2>6, <2>7 DEF HearsayInv
<1>5. BoundsInv' /\ OutcomeInv'
  BY <1>1 DEF BoundsInv, UsesItsBounds, OutcomeInv
<1> QED BY <1>2, <1>3, <1>4, <1>5

LEMMA StepAppendElected == ASSUME LookupIInv, AppendElected PROVE LookupIInv'
<1> USE DEF LookupIInv, AppendElected, args, calls
<1>1. TypesInv' /\ TimeInv' /\ HearsayInv' /\ BoundsInv' /\ OutcomeInv'
  BY DEF TypesInv, TimeInv, HearsayInv, Named, BoundsInv, UsesItsBounds, OutcomeInv
<1>2. ListInv'
  <2>1. elected \in Seq(Node)
    BY ElectedFacts DEF ListInv
  <2>2. Len(supernodes) < Len(elected)
    <3>1. Len(supernodes) = Len(elected) => supernodes = elected
      BY <2>1 DEF ListInv
    <3> QED BY <2>1, <3>1 DEF ListInv, ElectionOver
  <2>3. elected[Len(supernodes) + 1] \in Node
    BY <2>1, <2>2 DEF ListInv
  <2> QED BY <2>1, <2>2, <2>3 DEF ListInv
<1> QED BY <1>1, <1>2

LEMMA LookupInductive == LookupIInv /\ [LookupNext]_lookupVars => LookupIInv'
<1> SUFFICES ASSUME LookupIInv, [LookupNext]_lookupVars PROVE LookupIInv'
  OBVIOUS
<1>1. CASE UNCHANGED lookupVars
  BY <1>1 DEF lookupVars, list, args, calls, LookupIInv, TypesInv, ListInv, HearsayInv, Named,
     TimeInv, BoundsInv, UsesItsBounds, OutcomeInv
<1>2. CASE LookupStep
  BY <1>2, StepReturnAtOnce, StepBegin, StepStartRound, StepPeerAnswers, StepSeedAnswer,
     StepPeerFails, StepContinue, StepFindSupernodes, StepTakeSupernodes,
     StepCollectSupernodes, StepStopWithoutSupernodes, StepLeaveLoop DEF LookupStep
<1> QED BY <1>1, <1>2, StepStartElection, StepAppendElected DEF LookupNext

THEOREM LookupInductiveInvariant == LookupSpec => []LookupIInv
BY LookupInvInit, LookupInductive, PTL DEF LookupSpec

------------------------------------------------------------------------------
(* Theorems.                                                               *)

\* The types of a lookup, in whatever order its goroutines answer.
THEOREM LookupTypeCorrect == LookupSpec => []LookupTypeOK
<1>1. LookupIInv => LookupTypeOK
  <2> SUFFICES ASSUME LookupIInv PROVE LookupTypeOK
    OBVIOUS
  <2>1. elected \in Seq(Node)
    BY ElectedFacts DEF LookupIInv, ListInv
  <2> QED BY <2>1 DEF LookupIInv, TypesInv, ListInv, TimeInv, BoundsInv, Stages, LookupTypeOK
<1> QED BY <1>1, LookupInductiveInvariant, PTL

\* A lookup is over less than one timeout after its deadline.
THEOREM InTime == LookupSpec => []ReturnsInTime
<1>1. LookupIInv => ReturnsInTime
  BY DEF LookupIInv, TimeInv, ReturnsInTime
<1> QED BY <1>1, LookupInductiveInvariant, PTL

\* Whatever prefix of whatever election a lookup reads between two appends, it
\* returns peers of the routing table only, each introduced by others or named
\* by a peer it asked.
THEOREM OnlyHearsay == LookupSpec => []ResultIsHearsay
<1>1. LookupIInv => ResultIsHearsay
  BY DEF LookupIInv, HearsayInv, Named, ResultIsHearsay
<1> QED BY <1>1, LookupInductiveInvariant, PTL

\* A lookup that stops before its rounds and its time are used up never got
\* beyond its first round, or read a list that an election had just emptied.
THEOREM StopsAtItsBounds == LookupSpec => []UsesItsBounds
<1>1. LookupIInv => UsesItsBounds
  BY DEF LookupIInv, BoundsInv
<1> QED BY <1>1, LookupInductiveInvariant, PTL

\* What a caller such as the publisher may rely on: a lookup that fails has no
\* result, and one that does not names this node itself, so that it is never
\* empty, and a caller that skips itself may be left with nobody.
THEOREM ResultNamesSelf ==
    LookupSpec => [](stage = "done" => IF error THEN result = {} ELSE Self \in result)
<1>1. LookupIInv => (stage = "done" => IF error THEN result = {} ELSE Self \in result)
  BY DEF LookupIInv, OutcomeInv
<1> QED BY <1>1, LookupInductiveInvariant, PTL

------------------------------------------------------------------------------
(* Lookup: what of its termination is a matter of single steps.            *)

\* From a stage to one that is behind it in every round.
Behind(from, to) == <<from, to>> \in {<<"start", "loop">>, <<"start", "done">>,
                                      <<"loop", "wait">>, <<"loop", "done">>,
                                      <<"wait", "escalate">>, <<"wait", "done">>,
                                      <<"escalate", "collect">>}

\* A round ends, a stage ends, or one of finitely many goroutines gets its
\* answer or ends.
Advances ==
    \/ round' > round /\ round' <= MaxRounds
    \/ round' = round /\ Behind(stage, stage')
    \/ /\ round' = round /\ stage' = stage /\ IsFiniteSet(asking) /\ IsFiniteSet(seeding)
       /\ asking' \subseteq asking
       /\ asking' = asking => seeding' \subseteq seeding /\ seeding' # seeding

\* Every step of a lookup ends an answer, a call, a stage or one of at most
\* MaxRounds rounds, and the elections of others take none of that back, so
\* that a lookup takes finitely many steps, whoever answers what: peers that
\* name each other for ever do not keep it going.
THEOREM EveryStepAdvances ==
    LookupSpec => [][ /\ LookupStep => Advances
                      /\ LookupStep \/ UNCHANGED <<stage, round, asking, seeding>> ]_lookupVars
<1> DEFINE Step == /\ LookupStep => Advances
                   /\ LookupStep \/ UNCHANGED <<stage, round, asking, seeding>>
<1>1. ASSUME LookupIInv, [LookupNext]_lookupVars PROVE [Step]_lookupVars
  <2>1. ASSUME StartRound \/ LeaveLoop \/ Begin \/ ReturnAtOnce PROVE Step
    <3>1. round' = round /\ Behind(stage, stage')
      BY <2>1 DEF StartRound, LeaveLoop, Begin, ReturnAtOnce, Behind
    <3> QED BY <2>1, <3>1 DEF Advances, LookupStep
  <2>2. ASSUME FindSupernodes \/ TakeSupernodes \/ StopWithoutSupernodes PROVE Step
    <3>1. round' = round /\ Behind(stage, stage')
      BY <2>2 DEF FindSupernodes, TakeSupernodes, StopWithoutSupernodes, RoundOver, Behind
    <3> QED BY <2>2, <3>1 DEF Advances, LookupStep
  <2>3. ASSUME NEW p \in Node, PeerAnswers(p) \/ SeedAnswer(p) \/ PeerFails(p) PROVE Step
    <3>1. IsFiniteSet(asking) /\ IsFiniteSet(seeding)
      <4>1. asking \subseteq Node /\ seeding \subseteq Node /\ IsFiniteSet(Node)
        BY <1>1, LookupAssumption DEF LookupIInv, TypesInv
      <4> QED BY <4>1, FS_Subset
    <3>2. round' = round /\ stage' = stage /\ asking' \subseteq asking
          /\ (asking' = asking => seeding' \subseteq seeding /\ seeding' # seeding)
      <4>1. CASE PeerAnswers(p) \/ PeerFails(p)
        BY <4>1 DEF PeerAnswers, PeerFails
      <4>2. CASE SeedAnswer(p)
        BY <4>2 DEF SeedAnswer
      <4> QED BY <2>3, <4>1, <4>2
    <3> QED BY <2>3, <3>1, <3>2 DEF Advances, LookupStep
  <2>4. ASSUME ContinueWithNewPeers \/ CollectSupernodes PROVE Step
    <3>1. stage \in {"wait", "collect"} /\ round' = round + 1
      BY <2>4 DEF ContinueWithNewPeers, CollectSupernodes, RoundOver
    <3>2. round' > round /\ round' <= MaxRounds
      BY <1>1, <3>1, LookupAssumption DEF LookupIInv, BoundsInv
    <3> QED BY <2>4, <3>2 DEF Advances, LookupStep
  <2>5. ASSUME LookupStep PROVE Step
    <3>1. CASE \E p \in Node : PeerAnswers(p) \/ SeedAnswer(p) \/ PeerFails(p)
      BY <2>3, <3>1
    <3>2. CASE ~\E p \in Node : PeerAnswers(p) \/ SeedAnswer(p) \/ PeerFails(p)
      BY <2>1, <2>2, <2>4, <2>5, <3>2, Zenon DEF LookupStep
    <3> QED BY <3>1, <3>2
  <2>6. CASE StartElection \/ AppendElected
    BY <2>5, <2>6 DEF StartElection, AppendElected, calls
  <2> QED BY <1>1, <2>5, <2>6 DEF LookupNext
<1> QED BY <1>1, LookupInductiveInvariant, PTL DEF LookupSpec
==============================================================================
