---------------------------- MODULE RoutingTable -----------------------------
(***************************************************************************)
(* One k-bucket and the supernode list of InnerCore under concurrent       *)
(* SeedPeer and getAlphaClosest (innercore/kbucket.go, innercore.go).      *)
(*                                                                         *)
(* Two locks are involved.  Insert writes the slice of the bucket under    *)
(* b.mu.  updateSupernodeList and getAlphaClosest read that slice under    *)
(* ic.mu only, so they run concurrently with the writes: the model lets    *)
(* them copy the slice one element at a time between any two stores of     *)
(* Insert.  An append stores the new length and the new element in either  *)
(* order.  The list ic.supernodes is rebuilt in place under ic.mu.         *)
(*                                                                         *)
(* A thread is a goroutine in SeedPeer (a Seeder: discovery's listen loop  *)
(* or a goroutine of Lookup), a tick of maintenanceLoop (an Elector), or a *)
(* call of getAlphaClosest (a Reader: a Lookup or the receive loop         *)
(* answering FIND_NODE).                                                   *)
(***************************************************************************)
EXTENDS Naturals, Sequences, Functions

CONSTANTS Seeder, Elector, Reader,
          Seed,           \* Seed[s]: the PeerInfo seeder s inserts, [id, score]
          Initial,        \* the entries seeded before, oldest first
          K,              \* capacity of a bucket, 20 in InnerCore.New
          MaxSupernodes,  \* 5 in updateSupernodeList
          Nil, Free

Electing == Seeder \cup Elector     \* the threads that run updateSupernodeList
Thread == Electing \cup Reader
Entry == Range(Seed) \cup Range(Initial)

ASSUME RoutingAssumption ==
    /\ K \in Nat \ {0} /\ MaxSupernodes \in Nat \ {0}
    /\ DOMAIN Seed = Seeder
    /\ Initial \in Seq(Range(Initial)) /\ Len(Initial) <= K
    /\ \A i, j \in DOMAIN Initial : Initial[i].id = Initial[j].id => i = j
    /\ Seeder \cap Reader = {} /\ Elector \cap (Seeder \cup Reader) = {}
    /\ Free \notin Thread /\ Nil \notin Entry

VARIABLES pc,          \* program counter of a thread
          slots, len,  \* the array and the length of the slice b.nodes
          bmu,         \* holder of b.mu
          icWriter, icReaders,  \* ic.mu: the writer, and the readers inside
          at,          \* at[s]: the index Insert works on
          want,        \* want[t]: the length a scanning thread read
          snap,        \* snap[t]: the elements it has copied so far
          ranked,      \* ranked[s]: allPeers, sorted by score
          supers,      \* ic.supernodes
          crashed,     \* a nil *PeerInfo was dereferenced: the process is gone
          settled      \* history: the bucket when b.mu was last released

vars == <<pc, slots, len, bmu, icWriter, icReaders, at, want, snap, ranked,
          supers, crashed, settled>>
bucketVars == <<slots, len, bmu, at, settled>>
scanVars == <<icWriter, icReaders, want, snap>>
electVars == <<ranked, supers>>

------------------------------------------------------------------------------
\* Every order of s that sort.Slice by descending score may produce.
Rankings(s) ==
    {[i \in DOMAIN s |-> s[p[i]]] :
        p \in {q \in Bijection(DOMAIN s, DOMAIN s) :
                 \A i, j \in DOMAIN s : i < j => s[q[i]].score >= s[q[j]].score}}

Top(s) == [i \in 1..(IF Len(s) < MaxSupernodes THEN Len(s) ELSE MaxSupernodes) |-> s[i]]

Bucket == [i \in 1..len |-> slots[i]]

Init ==
    /\ pc = [t \in Thread |-> "start"]
    /\ slots = [i \in 1..K |-> IF i <= Len(Initial) THEN Initial[i] ELSE Nil]
    /\ len = Len(Initial)
    /\ bmu = Free /\ icWriter = Free /\ icReaders = {}
    /\ at = [s \in Seeder |-> 0]
    /\ want = [t \in Thread |-> 0]
    /\ snap = [t \in Thread |-> <<>>]
    /\ ranked = [s \in Electing |-> <<>>]
    /\ supers \in {Top(r) : r \in Rankings(Initial)}
    /\ crashed = FALSE
    /\ settled = Initial

Goto(t, from, to) ==
    /\ pc[t] = from
    /\ pc' = [pc EXCEPT ![t] = to]

------------------------------------------------------------------------------
(* KBucket.Insert, under b.mu                                              *)

Position(id) == {i \in 1..len : slots[i].id = id}

Unlock == bmu' = Free /\ settled' = Bucket'

\* The id is known: b.nodes[i] = peer.
FindPeer(s) ==
    /\ Goto(s, "start", "shift")
    /\ bmu = Free /\ bmu' = s
    /\ \E i \in Position(Seed[s].id) :
          /\ at' = [at EXCEPT ![s] = i]
          /\ slots' = [slots EXCEPT ![i] = Seed[s]]
    /\ UNCHANGED <<len, settled, scanVars, electVars, crashed>>

\* copy(b.nodes[i:], b.nodes[i+1:]), one element.
ShiftSlot_SkipsOne(s) ==
    /\ Goto(s, "shift", "shift")
    /\ at[s] < len
    /\ slots' = [slots EXCEPT ![at[s]] = slots[at[s] + 1]]
    /\ at' = [at EXCEPT ![s] = len]
    /\ UNCHANGED <<len, bmu, settled, scanVars, electVars, crashed>>

ShiftSlot(s) ==
    /\ Goto(s, "shift", "shift")
    /\ at[s] < len
    /\ slots' = [slots EXCEPT ![at[s]] = slots[at[s] + 1]]
    /\ at' = [at EXCEPT ![s] = @ + 1]
    /\ UNCHANGED <<len, bmu, settled, scanVars, electVars, crashed>>

\* b.nodes[len(b.nodes)-1] = peer, and the deferred unlock.
PutTail(s) ==
    /\ Goto(s, "shift", "elect")
    /\ at[s] = len
    /\ slots' = [slots EXCEPT ![len] = Seed[s]]
    /\ at' = [at EXCEPT ![s] = 0]
    /\ UNCHANGED <<len, scanVars, electVars, crashed>>
    /\ Unlock

\* The id is new and there is room: the new length is visible first ...
GrowSlice_PastCapacity(s) ==
    /\ Goto(s, "start", "fill")
    /\ bmu = Free /\ bmu' = s
    /\ Position(Seed[s].id) = {} /\ len <= K
    /\ len' = len + 1
    /\ UNCHANGED <<slots, at, settled, scanVars, electVars, crashed>>

GrowSlice(s) ==
    /\ Goto(s, "start", "fill")
    /\ bmu = Free /\ bmu' = s
    /\ Position(Seed[s].id) = {} /\ len < K
    /\ len' = len + 1
    /\ UNCHANGED <<slots, at, settled, scanVars, electVars, crashed>>

\* ... and then the element,
FillSlot(s) ==
    /\ Goto(s, "fill", "elect")
    /\ slots' = [slots EXCEPT ![len] = Seed[s]]
    /\ UNCHANGED <<len, at, scanVars, electVars, crashed>>
    /\ Unlock

\* or the element first, which nobody can tell from one step.
AppendPeer_NoSearch(s) ==
    /\ Goto(s, "start", "elect")
    /\ bmu = Free /\ len < K
    /\ slots' = [slots EXCEPT ![len + 1] = Seed[s]]
    /\ len' = len + 1
    /\ UNCHANGED <<at, scanVars, electVars, crashed>>
    /\ Unlock

AppendPeer(s) ==
    /\ Goto(s, "start", "elect")
    /\ bmu = Free
    /\ Position(Seed[s].id) = {} /\ len < K
    /\ slots' = [slots EXCEPT ![len + 1] = Seed[s]]
    /\ len' = len + 1
    /\ UNCHANGED <<at, scanVars, electVars, crashed>>
    /\ Unlock

\* The bucket is full: the peer is dropped, the election still runs.
RejectPeer(s) ==
    /\ Goto(s, "start", "elect")
    /\ bmu = Free
    /\ Position(Seed[s].id) = {} /\ len = K
    /\ UNCHANGED <<bucketVars, scanVars, electVars, crashed>>

Insert(s) ==
    \/ FindPeer(s) \/ ShiftSlot(s) \/ PutTail(s)
    \/ GrowSlice(s) \/ FillSlot(s) \/ AppendPeer(s) \/ RejectPeer(s)

------------------------------------------------------------------------------
(* Copying b.nodes under ic.mu, without b.mu                               *)

ElectLock_Shared(s) ==
    /\ Goto(s, "elect", "scan")
    /\ icReaders = {}
    /\ icWriter' = s
    /\ want' = [want EXCEPT ![s] = len]
    /\ snap' = [snap EXCEPT ![s] = <<>>]
    /\ UNCHANGED <<bucketVars, icReaders, electVars, crashed>>

\* updateSupernodeList: ic.mu.Lock
ElectLock(s) ==
    /\ Goto(s, "elect", "scan")
    /\ icWriter = Free /\ icReaders = {}
    /\ icWriter' = s
    /\ want' = [want EXCEPT ![s] = len]
    /\ snap' = [snap EXCEPT ![s] = <<>>]
    /\ UNCHANGED <<bucketVars, icReaders, electVars, crashed>>

\* getAlphaClosest: ic.mu.RLock
ReadLock(r) ==
    /\ Goto(r, "start", "scan")
    /\ icWriter = Free
    /\ icReaders' = icReaders \cup {r}
    /\ want' = [want EXCEPT ![r] = len]
    /\ snap' = [snap EXCEPT ![r] = <<>>]
    /\ UNCHANGED <<bucketVars, icWriter, electVars, crashed>>

CopySlot(t) ==
    /\ pc[t] = "scan"
    /\ Len(snap[t]) < want[t]
    /\ snap' = [snap EXCEPT ![t] = Append(@, slots[Len(@) + 1])]
    /\ UNCHANGED <<pc, bucketVars, icWriter, icReaders, want, electVars, crashed>>

CopyDone(t) == pc[t] = "scan" /\ Len(snap[t]) = want[t]
HasNil(t) == \E i \in DOMAIN snap[t] : snap[t][i] = Nil

\* Sorting or copying the candidates dereferences every pointer.
NilDereference(t) ==
    /\ CopyDone(t) /\ HasNil(t)
    /\ crashed' = TRUE
    /\ UNCHANGED <<pc, bucketVars, scanVars, electVars>>

ReturnClosest(r) ==
    /\ CopyDone(r) /\ ~HasNil(r)
    /\ Goto(r, "scan", "done")
    /\ icReaders' = icReaders \ {r}
    /\ UNCHANGED <<bucketVars, icWriter, want, snap, electVars, crashed>>

------------------------------------------------------------------------------
(* The rest of updateSupernodeList                                         *)

\* Sort, and ic.supernodes = make([]PeerInfo, 0, 5).
ResetSupernodes(s) ==
    /\ CopyDone(s) /\ ~HasNil(s)
    /\ Goto(s, "scan", "publish")
    /\ \E r \in Rankings(snap[s]) : ranked' = [ranked EXCEPT ![s] = Top(r)]
    /\ snap' = [snap EXCEPT ![s] = <<>>]
    /\ want' = [want EXCEPT ![s] = 0]
    /\ supers' = <<>>
    /\ UNCHANGED <<bucketVars, icWriter, icReaders, crashed>>

\* ic.supernodes = append(ic.supernodes, *allPeers[i])
AppendSupernode(s) ==
    /\ pc[s] = "publish"
    /\ Len(supers) < Len(ranked[s])
    /\ supers' = Append(supers, ranked[s][Len(supers) + 1])
    /\ UNCHANGED <<pc, bucketVars, scanVars, ranked, crashed>>

ElectUnlock(s) ==
    /\ Goto(s, "publish", "done")
    /\ Len(supers) = Len(ranked[s])
    /\ icWriter' = Free
    /\ ranked' = [ranked EXCEPT ![s] = <<>>]
    /\ UNCHANGED <<bucketVars, icReaders, want, snap, supers, crashed>>

UpdateSupernodeList(s) ==
    \/ ElectLock(s) \/ CopySlot(s) \/ NilDereference(s)
    \/ ResetSupernodes(s) \/ AppendSupernode(s) \/ ElectUnlock(s)

SeedPeer(s) == Insert(s) \/ UpdateSupernodeList(s)

\* maintenanceLoop ticks, again and again: one election in refreshBuckets, which
\* has no other effect yet, and a second one after it.
MaintenanceTick(e) ==
    /\ \E from \in {"start", "done"} : Goto(e, from, "elect")
    /\ UNCHANGED <<bucketVars, scanVars, electVars, crashed>>

GetAlphaClosest(r) ==
    ReadLock(r) \/ CopySlot(r) \/ NilDereference(r) \/ ReturnClosest(r)

Next ==
    /\ ~crashed
    /\ \/ \E s \in Seeder : SeedPeer(s)
       \/ \E e \in Elector : MaintenanceTick(e) \/ UpdateSupernodeList(e)
       \/ \E r \in Reader : GetAlphaClosest(r)

Spec == Init /\ [][Next]_vars

------------------------------------------------------------------------------
(* Properties                                                              *)

TypeOK ==
    /\ pc \in [Thread -> {"start", "shift", "fill", "elect", "scan", "publish", "done"}]
    /\ slots \in [1..K -> Entry \cup {Nil}]
    /\ len \in 0..K
    /\ bmu \in Seeder \cup {Free}
    /\ icWriter \in Electing \cup {Free}
    /\ icReaders \subseteq Reader
    /\ at \in [Seeder -> 0..K]
    /\ want \in [Thread -> 0..K]
    /\ snap \in [Thread -> Seq(Entry \cup {Nil})]
    /\ ranked \in [Electing -> Seq(Entry)]
    /\ supers \in Seq(Entry)
    /\ crashed \in BOOLEAN
    /\ settled \in Seq(Entry)

\* Whoever holds b.mu finds a bucket of distinct, non-nil peers.
BucketWellFormed ==
    bmu = Free =>
        /\ \A i \in 1..len : slots[i] # Nil
        /\ \A i, j \in 1..len : slots[i].id = slots[j].id => i = j

\* The stores of Insert together are one step of the LRU bucket: nothing is
\* lost, duplicated or reordered besides the peer just seen.
LRU == INSTANCE LRUBucket WITH order <- settled
ImplementsLRU == LRU!Spec

\* When no SeedPeer and no election is running, ic.supernodes is the top of
\* the bucket, even though every election reads the bucket while others write
\* it: the last election starts after the last insert.
Quiet == \A s \in Electing : pc[s] \in {"start", "done"}
SupernodesCurrent ==
    Quiet /\ ~crashed => supers \in {Top(r) : r \in Rankings(Bucket)}
==============================================================================
