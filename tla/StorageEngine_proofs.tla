------------------------- MODULE StorageEngine_proofs -------------------------
(***************************************************************************)
(* Theorems about StorageEngine for any sets of callers, records and       *)
(* payloads and any bounds: the inductive invariant, optimistic locking,   *)
(* immutable history, and the implementation of VersionedRegister.         *)
(***************************************************************************)
EXTENDS StorageEngine, TLAPS

------------------------------------------------------------------------------
(* The maps of versions.                                                   *)

\* A record whose versions are 1..n is at version n.
LEMMA CurrentOfContiguous ==
    ASSUME NEW k, NEW n \in Nat, Versions(k) = 1..n
    PROVE  CurrentVersion(k) = n
<1>1. CASE n = 0
  BY <1>1 DEF CurrentVersion
<1>2. CASE n # 0
  <2>1. n \in Versions(k) /\ \A w \in Versions(k) : w <= n
    BY <1>2
  <2>2. \A v \in Versions(k) : (\A w \in Versions(k) : w <= v) => v = n
    BY <2>1
  <2> QED BY <2>1, <2>2 DEF CurrentVersion
<1> QED BY <1>1, <1>2

\* What the invariant says about one record.
LEMMA RecordFacts ==
    ASSUME IInv, NEW k \in Key
    PROVE  \E n \in 0..MaxVersion :
              /\ Versions(k) = 1..n /\ DOMAIN cell[k] = 1..n
              /\ CurrentVersion(k) = n
              /\ cell[k] \in [1..n -> Payload]
<1>1. PICK n \in 0..MaxVersion : Versions(k) = 1..n
  BY DEF IInv, VersionsContiguous
<1>2. CurrentVersion(k) = n
  BY <1>1, CurrentOfContiguous, StorageAssumption
<1> QED BY <1>1, <1>2 DEF IInv, TypeOK, Versions

\* Adding version n + 1 keeps all that is there.
LEMMA WithRecordFacts ==
    ASSUME NEW n \in Nat, NEW f \in [1..n -> Payload], NEW p \in Payload
    PROVE  /\ WithRecord(f, n + 1, p) \in [1..(n + 1) -> Payload]
           /\ WithRecord(f, n + 1, p)[n + 1] = p
           /\ \A w \in 1..n : WithRecord(f, n + 1, p)[w] = f[w]
BY DEF WithRecord

\* The newest version of a record, and its payload.
LEMMA LatestFacts ==
    ASSUME IInv, NEW k \in Key
    PROVE  /\ Latest(k) = [version |-> Latest(k).version, payload |-> Latest(k).payload]
           /\ Latest(k).version = CurrentVersion(k)
           /\ Latest(k).version \in 0..MaxVersion
           /\ Latest(k).payload \in PayloadOrNone
           /\ Latest(k).version = 0 <=> Versions(k) = {}
           /\ Latest(k).version = 0 => Latest(k).payload = NoPayload
           /\ Latest(k).version # 0 => /\ Latest(k).version \in Versions(k)
                                       /\ cell[k][Latest(k).version] = Latest(k).payload
<1>1. PICK n \in 0..MaxVersion : /\ Versions(k) = 1..n /\ CurrentVersion(k) = n
                                 /\ cell[k] \in [1..n -> Payload]
  BY RecordFacts
<1>2. n \in Nat /\ (n = 0 <=> 1..n = {}) /\ (n # 0 => n \in 1..n)
  BY <1>1, StorageAssumption
<1> QED BY <1>1, <1>2 DEF Latest, PayloadOrNone

------------------------------------------------------------------------------
(* What each operation does, in the terms the invariant speaks of.         *)

LEMMA PutFacts ==
    ASSUME IInv, NEW c \in Client, NEW k \in Key, NEW p \in Payload, PutAny(c, k, p)
    PROVE  \E n \in 0..(MaxVersion - 1) :
              /\ n \in Nat /\ n + 1 \in 0..MaxVersion
              /\ Versions(k) = 1..n /\ CurrentVersion(k) = n
              /\ cell'[k] \in [1..(n + 1) -> Payload]
              /\ cell'[k][n + 1] = p
              /\ \A w \in 1..n : cell'[k][w] = cell[k][w]
              /\ \A j \in Key \ {k} : cell'[j] = cell[j]
              /\ cell' = [j \in Key |-> cell'[j]]
<1>1. PICK n \in 0..MaxVersion : /\ Versions(k) = 1..n /\ CurrentVersion(k) = n
                                 /\ cell[k] \in [1..n -> Payload]
  BY RecordFacts
<1>2. n \in 0..(MaxVersion - 1) /\ n \in Nat /\ n + 1 \in 0..MaxVersion
  BY <1>1, StorageAssumption DEF PutAny
<1>3. cell' = [cell EXCEPT ![k] = WithRecord(cell[k], n + 1, p)]
  BY <1>1 DEF PutAny, StoreRecord
<1>4. cell = [j \in Key |-> cell[j]]
  BY DEF IInv, TypeOK
<1>5. /\ cell'[k] = WithRecord(cell[k], n + 1, p)
      /\ \A j \in Key \ {k} : cell'[j] = cell[j]
      /\ cell' = [j \in Key |-> cell'[j]]
  BY <1>3, <1>4
<1> QED BY <1>1, <1>2, <1>5, WithRecordFacts

LEMMA DeleteFacts ==
    ASSUME IInv, NEW c \in Client, NEW k \in Key, DeleteAny(c, k)
    PROVE  /\ cell'[k] = EmptyMap
           /\ \A j \in Key \ {k} : cell'[j] = cell[j]
           /\ cell' = [j \in Key |-> cell'[j]]
           /\ epoch'[k] = epoch[k] + 1
           /\ \A j \in Key \ {k} : epoch'[j] = epoch[j]
           /\ epoch' \in [Key -> 0..MaxEpoch]
<1>1. cell = [j \in Key |-> cell[j]] /\ epoch \in [Key -> 0..MaxEpoch]
  BY DEF IInv, TypeOK
<1>2. cell' = [cell EXCEPT ![k] = EmptyMap]
  BY DEF DeleteAny, RemoveRow
<1>3. epoch' = [epoch EXCEPT ![k] = @ + 1] /\ epoch[k] < MaxEpoch
  BY DEF DeleteAny
<1>4. epoch[k] + 1 \in 0..MaxEpoch
  BY <1>1, <1>3, StorageAssumption
<1> QED BY <1>1, <1>2, <1>3, <1>4

\* Every step is one of six kinds of operation on one record.
LEMMA StepCases ==
    ASSUME TypeOK, NEW c \in Client, ClientStep(c)
    PROVE  \/ \E k \in Key : Get(c, k) \/ DeleteAny(c, k) \/ DeleteMissing(c, k)
           \/ \E k \in Key, p \in Payload : PutAny(c, k, p)
           \/ PutConflict(c) \/ DeleteConflict(c)
<1>1. held[c].key \in Key
  BY DEF TypeOK, Held
<1> QED BY <1>1 DEF ClientStep, PutExpecting, DeleteExpecting

------------------------------------------------------------------------------
(* The invariant, operation by operation.                                  *)

\* A write adds the next version, after which every read is still there.
LEMMA PutStep ==
    ASSUME IInv, NEW c \in Client, NEW k \in Key, NEW p \in Payload, PutAny(c, k, p)
    PROVE  IInv'
<1>1. PICK n \in 0..(MaxVersion - 1) :
          /\ n \in Nat /\ n + 1 \in 0..MaxVersion
          /\ Versions(k) = 1..n
          /\ cell'[k] \in [1..(n + 1) -> Payload]
          /\ \A w \in 1..n : cell'[k][w] = cell[k][w]
          /\ \A j \in Key \ {k} : cell'[j] = cell[j]
          /\ cell' = [j \in Key |-> cell'[j]]
  BY PutFacts
<1>2. /\ colls' = colls \cup {k[1]} /\ rows' = rows \cup {k}
      /\ result' = [result EXCEPT ![c] = "ok"]
      /\ epoch' = epoch /\ held' = held
  BY DEF PutAny, MakeMaps, Answer
<1>3. TypeOK'
  <2>1. k[1] \in Collection
    BY DEF Key
  <2>2. \A j \in Key : cell'[j] \in [DOMAIN cell'[j] -> Payload]
    <3>1. \A j \in Key \ {k} : cell'[j] \in [DOMAIN cell'[j] -> Payload]
      BY <1>1 DEF IInv, TypeOK
    <3>2. DOMAIN cell'[k] = 1..(n + 1)
      BY <1>1
    <3>3. cell'[k] \in [DOMAIN cell'[k] -> Payload]
      BY <1>1, <3>2
    <3> QED BY <3>1, <3>3
  <2> QED BY <1>1, <1>2, <2>1, <2>2 DEF IInv, TypeOK
<1>4. Versions(k)' = 1..(n + 1) /\ \A j \in Key \ {k} : Versions(j)' = Versions(j)
  BY <1>1 DEF Versions
<1>5. VersionsContiguous'
  BY <1>1, <1>4 DEF IInv, VersionsContiguous
<1>6. MapsAgree'
  BY <1>2, <1>4 DEF IInv, MapsAgree
<1>7. ReadsRemembered'
  <2>1. \A j \in Key : \A v \in Versions(j) : v \in Versions(j)' /\ cell'[j][v] = cell[j][v]
    <3>1. 1..n \subseteq 1..(n + 1)
      BY <1>1
    <3> QED BY <1>1, <1>4, <3>1
  <2>2. \A d \in Client : held[d].key \in Key
    BY DEF IInv, TypeOK, Held
  <2> QED BY <1>2, <2>1, <2>2 DEF IInv, ReadsRemembered
<1> QED BY <1>3, <1>5, <1>6, <1>7 DEF IInv

\* A deletion starts a new epoch of the record, so that it owes earlier
\* readers nothing.
LEMMA DeleteStep ==
    ASSUME IInv, NEW c \in Client, NEW k \in Key, DeleteAny(c, k)
    PROVE  IInv'
<1>1. /\ cell'[k] = EmptyMap
      /\ \A j \in Key \ {k} : cell'[j] = cell[j]
      /\ cell' = [j \in Key |-> cell'[j]]
      /\ epoch'[k] = epoch[k] + 1
      /\ \A j \in Key \ {k} : epoch'[j] = epoch[j]
      /\ epoch' \in [Key -> 0..MaxEpoch]
  BY DeleteFacts
<1>2. /\ rows' = rows \ {k}
      /\ colls' = IF \E r \in rows \ {k} : r[1] = k[1] THEN colls ELSE colls \ {k[1]}
      /\ result' = [result EXCEPT ![c] = "ok"]
      /\ held' = held
  BY DEF DeleteAny, RemoveRow, Answer
<1>3. DOMAIN EmptyMap = {} /\ EmptyMap \in [DOMAIN EmptyMap -> Payload]
  BY DEF EmptyMap
<1>4. TypeOK'
  <2>1. \A j \in Key : cell'[j] \in [DOMAIN cell'[j] -> Payload]
    BY <1>1, <1>3 DEF IInv, TypeOK
  <2> QED BY <1>1, <1>2, <2>1 DEF IInv, TypeOK
<1>5. Versions(k)' = {} /\ \A j \in Key \ {k} : Versions(j)' = Versions(j)
  BY <1>1, <1>3 DEF Versions
<1>6. VersionsContiguous'
  <2>1. 0 \in 0..MaxVersion /\ 1..0 = {}
    BY StorageAssumption
  <2> QED BY <1>5, <2>1 DEF IInv, VersionsContiguous
<1>7. MapsAgree'
  BY <1>2, <1>5 DEF IInv, MapsAgree
<1>8. ReadsRemembered'
  <2> SUFFICES ASSUME NEW d \in Client, NEW h, h = held[d]
               PROVE  /\ h.epoch <= epoch'[h.key]
                      /\ h.version = 0 => h.payload = NoPayload
                      /\ h.epoch = epoch'[h.key] /\ h.version # 0 =>
                           h.version \in DOMAIN cell'[h.key]
                           /\ cell'[h.key][h.version] = h.payload
    BY <1>2 DEF ReadsRemembered, Versions
  <2>1. /\ h.epoch <= epoch[h.key]
        /\ h.version = 0 => h.payload = NoPayload
        /\ h.epoch = epoch[h.key] /\ h.version # 0 =>
             h.version \in DOMAIN cell[h.key] /\ cell[h.key][h.version] = h.payload
    BY DEF IInv, ReadsRemembered, Versions
  <2>2. h.key \in Key /\ h.epoch \in Nat /\ epoch[h.key] \in Nat
    <3>1. h \in Held /\ epoch \in [Key -> 0..MaxEpoch]
      BY DEF IInv, TypeOK
    <3>2. h.key \in Key /\ h.epoch \in 0..MaxEpoch
      BY <3>1 DEF Held
    <3> QED BY <3>1, <3>2, StorageAssumption
  <2>3. CASE h.key = k
    BY <1>1, <2>1, <2>2, <2>3
  <2>4. CASE h.key # k
    BY <1>1, <2>1, <2>2, <2>4
  <2> QED BY <2>3, <2>4
<1> QED BY <1>4, <1>6, <1>7, <1>8 DEF IInv

\* A read remembers the newest version, which is in the engine.
LEMMA GetStep ==
    ASSUME IInv, NEW c \in Client, NEW k \in Key, Get(c, k)
    PROVE  IInv'
<1> DEFINE h == [key |-> k, version |-> Latest(k).version,
                 payload |-> Latest(k).payload, epoch |-> epoch[k]]
<1>1. /\ held' = [held EXCEPT ![c] = h]
      /\ result' \in [Client -> {"ok", "not found", "conflict"}]
      /\ UNCHANGED <<colls, rows, cell, epoch>>
  BY DEF Get, Answer, IInv, TypeOK
<1>2. h \in Held
  BY LatestFacts DEF Held, IInv, TypeOK
<1>3. held'[c] = h /\ \A d \in Client \ {c} : held'[d] = held[d]
  BY <1>1 DEF IInv, TypeOK
<1>4. TypeOK'
  BY <1>1, <1>2 DEF IInv, TypeOK
<1>5. VersionsContiguous' /\ MapsAgree'
  BY <1>1 DEF IInv, VersionsContiguous, MapsAgree, Versions
<1>6. ReadsRemembered'
  <2>1. /\ h.key = k /\ h.epoch = epoch[k] /\ h.version = Latest(k).version
        /\ h.payload = Latest(k).payload
    OBVIOUS
  <2>2. epoch[k] \in Nat
    <3>1. epoch \in [Key -> 0..MaxEpoch]
      BY DEF IInv, TypeOK
    <3> QED BY <3>1, StorageAssumption
  <2>3. /\ h.epoch <= epoch[h.key]
        /\ h.version = 0 => h.payload = NoPayload
        /\ h.version # 0 => h.version \in Versions(h.key)
                            /\ cell[h.key][h.version] = h.payload
    <3>1. epoch[k] <= epoch[k]
      BY <2>2
    <3>2. /\ Latest(k).version = 0 => Latest(k).payload = NoPayload
          /\ Latest(k).version # 0 => /\ Latest(k).version \in Versions(k)
                                      /\ cell[k][Latest(k).version] = Latest(k).payload
      BY LatestFacts
    <3> HIDE DEF h
    <3> QED BY <2>1, <3>1, <3>2
  <2>4. \A j : Versions(j)' = Versions(j)
    BY <1>1 DEF Versions
  <2> HIDE DEF h
  <2> QED BY <1>1, <1>3, <2>3, <2>4 DEF IInv, ReadsRemembered
<1> QED BY <1>4, <1>5, <1>6 DEF IInv

\* A refused write leaves the maps it made, and they agree.
LEMMA RefuseStep ==
    ASSUME IInv, NEW c \in Client,
           PutConflict(c) \/ DeleteConflict(c) \/ \E k \in Key : DeleteMissing(c, k)
    PROVE  IInv'
<1>1. /\ result' \in [Client -> {"ok", "not found", "conflict"}]
      /\ UNCHANGED <<cell, epoch, held>>
      /\ \/ UNCHANGED <<colls, rows>>
         \/ \E k \in Key : colls' = colls \cup {k[1]} /\ rows' = rows \cup {k}
  BY DEF PutConflict, DeleteConflict, DeleteMissing, MakeMaps, Answer, IInv, TypeOK, Held
<1>2. \A k \in Key : k[1] \in Collection
  BY DEF Key
<1>3. TypeOK'
  BY <1>1, <1>2 DEF IInv, TypeOK
<1>4. VersionsContiguous' /\ ReadsRemembered'
  BY <1>1 DEF IInv, VersionsContiguous, ReadsRemembered, Versions
<1>5. MapsAgree'
  BY <1>1 DEF IInv, MapsAgree, Versions
<1> QED BY <1>3, <1>4, <1>5 DEF IInv

------------------------------------------------------------------------------
\* Before the first operation there are no maps and nobody has read.
LEMMA InitInvariant == Init => IInv
<1> SUFFICES ASSUME Init PROVE IInv
  OBVIOUS
<1>1. 0 \in 0..MaxVersion /\ 0 \in 0..MaxEpoch /\ 1..0 = {}
  BY StorageAssumption
<1>2. EmptyMap \in [DOMAIN EmptyMap -> Payload] /\ DOMAIN EmptyMap = {}
  BY DEF EmptyMap
<1>3. \A k \in Key : cell[k] = EmptyMap /\ epoch[k] = 0
  BY DEF Init
<1>4. \A c \in Client : /\ held[c].key \in Key /\ held[c].version = 0 /\ held[c].epoch = 0
                        /\ held[c].payload = NoPayload
                        /\ held[c] \in Held
  <2> SUFFICES ASSUME NEW c \in Client
               PROVE  /\ held[c].key \in Key /\ held[c].version = 0 /\ held[c].epoch = 0
                      /\ held[c].payload = NoPayload
                      /\ held[c] \in Held
    OBVIOUS
  <2>1. PICK k \in Key : held[c] = [key |-> k, version |-> 0, payload |-> NoPayload,
                                    epoch |-> 0]
    BY DEF Init
  <2>2. NoPayload \in PayloadOrNone
    BY DEF PayloadOrNone
  <2>3. held[c] \in Held
    BY <1>1, <2>1, <2>2 DEF Held
  <2> QED BY <2>1, <2>3
<1>5. TypeOK
  BY <1>1, <1>2, <1>4 DEF Init, TypeOK
<1>6. VersionsContiguous
  BY <1>1, <1>2, <1>3 DEF VersionsContiguous, Versions
<1>7. MapsAgree
  BY <1>2, <1>3 DEF Init, MapsAgree, Versions
<1>8. ReadsRemembered
  <2>1. \A c \in Client : held[c].epoch <= epoch[held[c].key]
    <3>1. \A c \in Client : held[c].epoch = 0 /\ epoch[held[c].key] = 0
      BY <1>3, <1>4
    <3>2. 0 <= 0
      OBVIOUS
    <3> QED BY ONLY <3>1, <3>2
  <2> QED BY <1>4, <2>1 DEF ReadsRemembered
<1> QED BY <1>5, <1>6, <1>7, <1>8 DEF IInv

\* Every operation preserves the invariant.
LEMMA InvariantStep == IInv /\ [Next]_vars => IInv'
<1> SUFFICES ASSUME IInv, [Next]_vars PROVE IInv'
  OBVIOUS
<1>1. CASE UNCHANGED vars
  BY <1>1 DEF vars, IInv, TypeOK, VersionsContiguous, MapsAgree, ReadsRemembered, Versions
<1>2. ASSUME NEW c \in Client, ClientStep(c) PROVE IInv'
  <2>1. TypeOK
    BY DEF IInv
  <2>2. \/ \E k \in Key : Get(c, k) \/ DeleteAny(c, k) \/ DeleteMissing(c, k)
        \/ \E k \in Key, p \in Payload : PutAny(c, k, p)
        \/ PutConflict(c) \/ DeleteConflict(c)
    BY <1>2, <2>1, StepCases
  <2> QED BY <2>2, GetStep, PutStep, DeleteStep, RefuseStep
<1> QED BY <1>1, <1>2 DEF Next

\* The inductive invariant: the nested maps agree, the versions of a record
\* have no gap, and what was read is still there.
THEOREM InductiveInvariant == Spec => []IInv
BY InitInvariant, InvariantStep, PTL DEF Spec

\* The engine's maps, the versions and the answers keep their types.
THEOREM TypeCorrect == Spec => []TypeOK
<1>1. IInv => TypeOK
  BY DEF IInv
<1> QED BY <1>1, InductiveInvariant, PTL

\* A record holds the versions 1, 2, ... without a gap.
THEOREM Contiguous == Spec => []VersionsContiguous
<1>1. IInv => VersionsContiguous
  BY DEF IInv
<1> QED BY <1>1, InductiveInvariant, PTL

------------------------------------------------------------------------------
(* What a step may never do.                                               *)

\* What a caller read, at the version that is still current, is the latest
\* record.
LEMMA CurrentRead ==
    ASSUME IInv, NEW c \in Client,
           held[c].version = CurrentVersion(held[c].key),
           held[c].epoch = epoch[held[c].key]
    PROVE  Latest(held[c].key) = [version |-> held[c].version, payload |-> held[c].payload]
<1> DEFINE h == held[c]
<1>1. h.key \in Key
  BY DEF IInv, TypeOK, Held
<1>2. /\ h.version = 0 => h.payload = NoPayload
      /\ h.version # 0 => cell[h.key][h.version] = h.payload
  BY DEF IInv, ReadsRemembered
<1>3. /\ Latest(h.key) = [version |-> Latest(h.key).version, payload |-> Latest(h.key).payload]
      /\ Latest(h.key).version = h.version
      /\ Latest(h.key).version = 0 => Latest(h.key).payload = NoPayload
      /\ Latest(h.key).version # 0 => cell[h.key][Latest(h.key).version] = Latest(h.key).payload
  BY <1>1, LatestFacts
<1> QED BY <1>2, <1>3

\* Optimistic locking never replaces a record its caller has not read.
THEOREM OptimisticLocking == Spec => NoLostUpdate
<1> DEFINE A == \A c \in Client, p \in Payload :
                  PutExpecting(c, p) /\ held[c].epoch = epoch[held[c].key] =>
                     Latest(held[c].key) = [version |-> held[c].version,
                                            payload |-> held[c].payload]
<1>1. IInv => A
  BY CurrentRead DEF PutExpecting
<1>2. IInv => [A]_vars
  BY <1>1
<1> QED BY <1>2, InductiveInvariant, PTL DEF NoLostUpdate

\* A version that was written is immutable until its record is deleted.
THEOREM Immutable == Spec => HistoryKept
<1> DEFINE A == \A k \in Key : epoch'[k] = epoch[k] =>
                  \A v \in Versions(k) : v \in DOMAIN cell'[k] /\ cell'[k][v] = cell[k][v]
<1>1. ASSUME IInv, NEW c \in Client, ClientStep(c) PROVE A
  <2>1. TypeOK
    BY <1>1 DEF IInv
  <2>2. ASSUME NEW k \in Key, NEW p \in Payload, PutAny(c, k, p) PROVE A
    <3>1. PICK n \in Nat : /\ Versions(k) = 1..n
                           /\ cell'[k] \in [1..(n + 1) -> Payload]
                           /\ \A w \in 1..n : cell'[k][w] = cell[k][w]
                           /\ \A j \in Key \ {k} : cell'[j] = cell[j]
      BY <1>1, <2>2, PutFacts
    <3>2. 1..n \subseteq 1..(n + 1)
      OBVIOUS
    <3> QED BY <3>1, <3>2 DEF Versions
  <2>3. ASSUME NEW k \in Key, DeleteAny(c, k) PROVE A
    <3>1. /\ \A j \in Key \ {k} : cell'[j] = cell[j]
          /\ epoch'[k] = epoch[k] + 1
      BY <1>1, <2>3, DeleteFacts
    <3>2. epoch[k] \in Nat
      <4>1. epoch \in [Key -> 0..MaxEpoch]
        BY <2>1 DEF TypeOK
      <4> QED BY <4>1, StorageAssumption
    <3>3. epoch'[k] # epoch[k]
      BY <3>1, <3>2
    <3> QED BY <3>1, <3>3 DEF Versions
  <2>4. ASSUME cell' = cell PROVE A
    BY <2>4 DEF Versions
  <2>5. \A k \in Key : Get(c, k) \/ DeleteMissing(c, k) => cell' = cell
    BY DEF Get, DeleteMissing
  <2>6. PutConflict(c) \/ DeleteConflict(c) => cell' = cell
    BY DEF PutConflict, DeleteConflict
  <2> HIDE DEF A
  <2>7. \/ \E k \in Key : Get(c, k) \/ DeleteAny(c, k) \/ DeleteMissing(c, k)
        \/ \E k \in Key, p \in Payload : PutAny(c, k, p)
        \/ PutConflict(c) \/ DeleteConflict(c)
    BY <1>1, <2>1, StepCases
  <2> QED BY <2>2, <2>3, <2>4, <2>5, <2>6, <2>7
<1>2. IInv /\ [Next]_vars => [A]_vars
  BY <1>1 DEF Next
<1> QED BY <1>2, InductiveInvariant, PTL DEF Spec, HistoryKept

------------------------------------------------------------------------------
(* The engine implements VersionedRegister.                                *)

\* Records whose versions did not change have the same newest version.
LEMMA LatestStable ==
    ASSUME NEW k, cell'[k] = cell[k]
    PROVE  Latest(k)' = Latest(k)
BY DEF Latest, CurrentVersion, Versions

\* What a step leaves alone is left alone in the register too.
LEMMA MappedUnchanged ==
    /\ UNCHANGED cell => UNCHANGED [k \in Key |-> Latest(k)]
    /\ UNCHANGED held => UNCHANGED [c \in Client |-> [key |-> held[c].key,
                            version |-> held[c].version, payload |-> held[c].payload]]
<1>1. ASSUME cell' = cell PROVE \A k \in Key : Latest(k)' = Latest(k)
  BY <1>1, LatestStable
<1> QED BY <1>1

\* A write puts its payload into the register at the next version.
LEMMA PutRefines ==
    ASSUME IInv, IInv', NEW c \in Client, NEW k \in Key, NEW p \in Payload, PutAny(c, k, p)
    PROVE  Register!Put(c, k, p)
<1>1. PICK n \in 0..(MaxVersion - 1) :
          /\ n \in Nat
          /\ Versions(k) = 1..n /\ CurrentVersion(k) = n
          /\ cell'[k] \in [1..(n + 1) -> Payload]
          /\ cell'[k][n + 1] = p
          /\ \A j \in Key \ {k} : cell'[j] = cell[j]
  BY PutFacts
<1>2. Versions(k)' = 1..(n + 1) /\ n + 1 \in Nat /\ 1..(n + 1) # {}
  BY <1>1 DEF Versions
<1>3. CurrentVersion(k)' = n + 1
  <2>1. n + 1 \in Versions(k)' /\ \A w \in Versions(k)' : w <= n + 1
    BY <1>2
  <2>2. \A v \in Versions(k)' : (\A w \in Versions(k)' : w <= v) => v = n + 1
    BY <1>2, <2>1
  <2>3. Versions(k)' # {}
    BY <1>2
  <2> QED BY <2>1, <2>2, <2>3 DEF CurrentVersion
<1>4. Latest(k)' = [version |-> n + 1, payload |-> p]
  BY <1>1, <1>2, <1>3 DEF Latest
<1>5. Latest(k).version = n
  BY <1>1 DEF Latest
<1>6. \A j \in Key \ {k} : Latest(j)' = Latest(j)
  BY <1>1, LatestStable
<1>7. [j \in Key |-> Latest(j)]' =
        [[j \in Key |-> Latest(j)] EXCEPT ![k] = [version |-> @.version + 1, payload |-> p]]
  BY <1>4, <1>5, <1>6
<1>8. Answer(c, "ok") /\ UNCHANGED held
  BY DEF PutAny
<1> QED BY <1>7, <1>8, MappedUnchanged DEF Register!Put, Register!Answer, Answer

\* A deletion empties the register of the record.
LEMMA DeleteRefines ==
    ASSUME IInv, NEW c \in Client, NEW k \in Key, DeleteAny(c, k)
    PROVE  Register!DeleteAny(c, k)
<1>1. /\ cell'[k] = EmptyMap
      /\ \A j \in Key \ {k} : cell'[j] = cell[j]
  BY DeleteFacts
<1>2. Latest(k)' = [version |-> 0, payload |-> NoPayload]
  <2>1. Versions(k)' = {}
    BY <1>1 DEF Versions, EmptyMap
  <2> QED BY <2>1 DEF Latest, CurrentVersion
<1>3. \A j \in Key \ {k} : Latest(j)' = Latest(j)
  BY <1>1, LatestStable
<1>4. Latest(k).version > 0 /\ Latest(k).version # 0
  <2>1. PICK n \in 0..MaxVersion : Versions(k) = 1..n /\ CurrentVersion(k) = n
    BY RecordFacts
  <2>2. n > 0 /\ n # 0
    BY <2>1, StorageAssumption DEF DeleteAny
  <2> QED BY <2>1, <2>2 DEF Latest
<1>5. [j \in Key |-> Latest(j)]' =
        [[j \in Key |-> Latest(j)] EXCEPT ![k] = [version |-> 0, payload |-> NoPayload]]
  BY <1>2, <1>3
<1>6. Answer(c, "ok") /\ UNCHANGED held
  BY DEF DeleteAny
<1>7. Register!Delete(c, k)
  BY <1>4, <1>5, <1>6, MappedUnchanged
     DEF Register!Delete, Register!Absent, Register!Answer, Answer
<1> QED BY <1>4, <1>7 DEF Register!DeleteAny

\* A read returns what the register holds.
LEMMA GetRefines ==
    ASSUME IInv, NEW c \in Client, NEW k \in Key, Get(c, k)
    PROVE  Register!Get(c, k)
<1> DEFINE view(h) == [key |-> h.key, version |-> h.version, payload |-> h.payload]
<1>1. held' = [held EXCEPT ![c] = [key |-> k, version |-> Latest(k).version,
                                   payload |-> Latest(k).payload, epoch |-> epoch[k]]]
  BY DEF Get
<1>2. held \in [Client -> Held]
  BY DEF IInv, TypeOK
<1>3. [d \in Client |-> view(held[d])]' =
        [[d \in Client |-> view(held[d])] EXCEPT
           ![c] = [key |-> k, version |-> Latest(k).version, payload |-> Latest(k).payload]]
  BY <1>1, <1>2
<1>4. Latest(k).version = 0 <=> Versions(k) = {}
  BY LatestFacts
<1>5. Answer(c, IF Versions(k) = {} THEN "not found" ELSE "ok") /\ UNCHANGED cell
  BY DEF Get
<1> QED BY <1>3, <1>4, <1>5, MappedUnchanged DEF Register!Get, Register!Answer, Answer

\* A refused operation only answers.
LEMMA RefuseRefines ==
    ASSUME IInv, NEW c \in Client
    PROVE  /\ \A k \in Key : DeleteMissing(c, k) => Register!DeleteAny(c, k)
           /\ \A p \in Payload : PutConflict(c) => Register!PutExpecting(c, p)
           /\ DeleteConflict(c) => Register!DeleteExpecting(c)
<1>1. held[c].key \in Key
  BY DEF IInv, TypeOK, Held
<1>2. ASSUME NEW k \in Key
      PROVE  /\ Latest(k).version = CurrentVersion(k)
             /\ Latest(k).version = 0 <=> Versions(k) = {}
             /\ Versions(k) # {} => Latest(k).version > 0
  <2>1. PICK n \in 0..MaxVersion : Versions(k) = 1..n /\ CurrentVersion(k) = n
    BY RecordFacts
  <2>2. n # 0 => n > 0
    BY StorageAssumption
  <2> QED BY <2>1, <2>2, LatestFacts DEF Latest
<1>3. ASSUME NEW k \in Key, DeleteMissing(c, k) PROVE Register!DeleteAny(c, k)
  BY <1>2, <1>3, MappedUnchanged
     DEF DeleteMissing, Register!DeleteAny, Register!Refuse, Register!Answer, Answer
<1>4. ASSUME NEW p \in Payload, PutConflict(c) PROVE Register!PutExpecting(c, p)
  BY <1>1, <1>2, <1>4, MappedUnchanged
     DEF PutConflict, Register!PutExpecting, Register!Matches, Register!Refuse,
         Register!Answer, Answer
<1>5. ASSUME DeleteConflict(c) PROVE Register!DeleteExpecting(c)
  BY <1>1, <1>2, <1>5, MappedUnchanged
     DEF DeleteConflict, Register!DeleteExpecting, Register!Matches, Register!Refuse,
         Register!Answer, Answer
<1> QED BY <1>3, <1>4, <1>5

\* Every step of the engine is an operation of the register or invisible.
LEMMA RefinementStep == IInv /\ [Next]_vars => [Register!Next]_(Register!vars)
<1> SUFFICES ASSUME IInv, [Next]_vars PROVE [Register!Next]_(Register!vars)
  OBVIOUS
<1>1. CASE UNCHANGED vars
  BY <1>1, MappedUnchanged DEF vars, Register!vars
<1>2. ASSUME NEW c \in Client, ClientStep(c) PROVE Register!Next
  <2>1. TypeOK
    BY DEF IInv
  <2>2. IInv'
    BY <1>2, InvariantStep DEF Next
  <2>3. ASSUME NEW k \in Key, Get(c, k) PROVE Register!Next
    BY <2>3, GetRefines DEF Register!Next
  <2>4. ASSUME NEW k \in Key, DeleteAny(c, k) \/ DeleteMissing(c, k) PROVE Register!Next
    BY <2>4, DeleteRefines, RefuseRefines DEF Register!Next
  <2>5. ASSUME NEW k \in Key, NEW p \in Payload, PutAny(c, k, p) PROVE Register!Next
    BY <2>2, <2>5, PutRefines DEF Register!Next
  <2>6. CASE PutConflict(c)
    BY <2>6, RefuseRefines, StorageAssumption DEF Register!Next
  <2>7. CASE DeleteConflict(c)
    BY <2>7, RefuseRefines DEF Register!Next
  <2>8. \/ \E k \in Key : Get(c, k) \/ DeleteAny(c, k) \/ DeleteMissing(c, k)
        \/ \E k \in Key, p \in Payload : PutAny(c, k, p)
        \/ PutConflict(c) \/ DeleteConflict(c)
    BY <1>2, <2>1, StepCases
  <2> QED BY <2>3, <2>4, <2>5, <2>6, <2>7, <2>8
<1> QED BY <1>1, <1>2 DEF Next

\* The initial maps are empty registers.
LEMMA InitRefines == Init => Register!Init
<1> SUFFICES ASSUME Init PROVE Register!Init
  OBVIOUS
<1>1. \A k \in Key : Latest(k) = [version |-> 0, payload |-> NoPayload]
  <2> SUFFICES ASSUME NEW k \in Key
               PROVE  Latest(k) = [version |-> 0, payload |-> NoPayload]
    OBVIOUS
  <2>1. Versions(k) = {}
    BY DEF Init, Versions, EmptyMap
  <2> QED BY <2>1 DEF Latest, CurrentVersion
<1>2. ASSUME NEW c \in Client
      PROVE  [key |-> held[c].key, version |-> held[c].version, payload |-> held[c].payload]
               \in {[key |-> k, version |-> 0, payload |-> NoPayload] : k \in Key}
  <2>1. PICK k \in Key : held[c] = [key |-> k, version |-> 0, payload |-> NoPayload,
                                    epoch |-> 0]
    BY DEF Init
  <2> QED BY <2>1
<1> QED BY <1>1, <1>2 DEF Init, Register!Init, Register!Absent

\* StorageEngine implements one versioned register per record: reads return
\* what was written last, refused operations leave no trace a caller can see.
THEOREM Implements == Spec => ImplementsRegister
BY InitRefines, RefinementStep, InductiveInvariant, PTL
   DEF Spec, ImplementsRegister, Register!Spec
==============================================================================
