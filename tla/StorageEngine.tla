---------------------------- MODULE StorageEngine -----------------------------
(***************************************************************************)
(* StorageEngine (storage/storage_engine.go): the nested maps              *)
(* store[collection][recordID][version] behind one RWMutex, and the        *)
(* optimistic locking of Put and Delete.  Each operation is one critical   *)
(* section.  Callers that update read first (held) and pass the version    *)
(* they saw; the callers in the repository (DeviceRegistry, the network    *)
(* snapshots, PersistContent) pass no version.                             *)
(***************************************************************************)
EXTENDS Integers

CONSTANTS Client,      \* goroutines that use the engine
          Collection, RecordId, Payload,
          NoPayload,   \* the zero Record
          MaxVersion,  \* bound on versions; unbounded in the code
          MaxEpoch     \* bound on the deletions of one record

ASSUME StorageAssumption ==
    /\ Payload # {} /\ NoPayload \notin Payload
    /\ MaxVersion \in Nat /\ MaxEpoch \in Nat

Key == Collection \X RecordId

VARIABLES colls,   \* the collections that have a map
          rows,    \* the records that have a map of versions
          cell,    \* cell[k]: the map from versions to payloads, empty without row
          epoch,   \* history: epoch[k] counts the deletions of k
          held,    \* held[c]: what the last Get of c returned, and the epoch then
          result   \* result[c]: the error of the last operation of c

vars == <<colls, rows, cell, epoch, held, result>>

------------------------------------------------------------------------------
Versions(k) == DOMAIN cell[k]

CurrentVersion_FromMinusOne(k) ==
    IF Versions(k) = {} THEN -1
    ELSE CHOOSE v \in Versions(k) : \A w \in Versions(k) : w <= v

\* The greatest version, by iterating over the map.
CurrentVersion(k) ==
    IF Versions(k) = {} THEN 0
    ELSE CHOOSE v \in Versions(k) : \A w \in Versions(k) : w <= v

Latest(k) ==
    [version |-> CurrentVersion(k),
     payload |-> IF Versions(k) = {} THEN NoPayload ELSE cell[k][CurrentVersion(k)]]

EmptyMap == [v \in {} |-> NoPayload]
WithRecord(f, v, p) == [w \in DOMAIN f \cup {v} |-> IF w = v THEN p ELSE f[w]]

Init ==
    /\ colls = {} /\ rows = {}
    /\ cell = [k \in Key |-> EmptyMap]
    /\ epoch = [k \in Key |-> 0]
    /\ held \in [Client -> {[key |-> k, version |-> 0, payload |-> NoPayload,
                             epoch |-> 0] : k \in Key}]
    /\ result = [c \in Client |-> "ok"]

Answer(c, r) == result' = [result EXCEPT ![c] = r]

Get(c, k) ==
    /\ held' = [held EXCEPT ![c] = [key |-> k, version |-> Latest(k).version,
                                    payload |-> Latest(k).payload, epoch |-> epoch[k]]]
    /\ Answer(c, IF Versions(k) = {} THEN "not found" ELSE "ok")
    /\ UNCHANGED <<colls, rows, cell, epoch>>

------------------------------------------------------------------------------
(* Put creates the maps before it compares versions.                       *)

MakeMaps(k) ==
    /\ colls' = colls \cup {k[1]}
    /\ rows' = rows \cup {k}

StoreRecord_Overwrites(k, p) ==
    cell' = [cell EXCEPT ![k] =
                 WithRecord(@, IF Versions(k) = {} THEN 1 ELSE CurrentVersion(k), p)]

StoreRecord(k, p) ==
    cell' = [cell EXCEPT ![k] = WithRecord(@, CurrentVersion(k) + 1, p)]

PutAny(c, k, p) ==
    /\ CurrentVersion(k) < MaxVersion
    /\ MakeMaps(k)
    /\ StoreRecord(k, p)
    /\ Answer(c, "ok")
    /\ UNCHANGED <<epoch, held>>

\* expectedVersion is not compared.
PutExpecting_Unchecked(c, p) == PutAny(c, held[c].key, p)

PutExpecting(c, p) ==
    /\ held[c].version = CurrentVersion(held[c].key)
    /\ PutAny(c, held[c].key, p)

\* The maps made for a refused write stay.
PutConflict(c) ==
    /\ held[c].version # CurrentVersion(held[c].key)
    /\ MakeMaps(held[c].key)
    /\ Answer(c, "conflict")
    /\ UNCHANGED <<cell, epoch, held>>

------------------------------------------------------------------------------
(* Delete removes a record with all versions, and the collection with its  *)
(* last record.                                                            *)

RemoveRow(k) ==
    /\ rows' = rows \ {k}
    /\ colls' = IF \E r \in rows \ {k} : r[1] = k[1] THEN colls ELSE colls \ {k[1]}
    /\ cell' = [cell EXCEPT ![k] = EmptyMap]

DeleteAny(c, k) ==
    /\ Versions(k) # {}
    /\ epoch[k] < MaxEpoch
    /\ RemoveRow(k)
    /\ epoch' = [epoch EXCEPT ![k] = @ + 1]
    /\ Answer(c, "ok")
    /\ UNCHANGED held

DeleteExpecting(c) ==
    /\ held[c].version = CurrentVersion(held[c].key)
    /\ DeleteAny(c, held[c].key)

\* ErrRecordNotFound; a row without versions counts as none.
DeleteMissing(c, k) ==
    /\ Versions(k) = {}
    /\ Answer(c, "not found")
    /\ UNCHANGED <<colls, rows, cell, epoch, held>>

DeleteConflict(c) ==
    /\ Versions(held[c].key) # {}
    /\ held[c].version # CurrentVersion(held[c].key)
    /\ Answer(c, "conflict")
    /\ UNCHANGED <<colls, rows, cell, epoch, held>>

------------------------------------------------------------------------------
ClientStep(c) ==
    \/ \E k \in Key : Get(c, k) \/ DeleteAny(c, k) \/ DeleteMissing(c, k)
    \/ \E k \in Key, p \in Payload : PutAny(c, k, p)
    \/ \E p \in Payload : PutExpecting(c, p)
    \/ PutConflict(c) \/ DeleteExpecting(c) \/ DeleteConflict(c)

Next == \E c \in Client : ClientStep(c)

Spec == Init /\ [][Next]_vars

------------------------------------------------------------------------------
(* Properties                                                              *)

PayloadOrNone == Payload \cup {NoPayload}
Held == [key : Key, version : 0..MaxVersion, payload : PayloadOrNone, epoch : 0..MaxEpoch]

TypeOK ==
    /\ colls \subseteq Collection
    /\ rows \subseteq Key
    /\ \A k \in Key : cell[k] \in [DOMAIN cell[k] -> Payload]
    /\ cell = [k \in Key |-> cell[k]]
    /\ epoch \in [Key -> 0..MaxEpoch]
    /\ held \in [Client -> Held]
    /\ result \in [Client -> {"ok", "not found", "conflict"}]

\* The versions of a record are 1, 2, ... without a gap, whatever the order
\* of writes, refused writes and deletions.
VersionsContiguous == \A k \in Key : \E n \in 0..MaxVersion : Versions(k) = 1..n

\* The nested maps agree: versions hang off a record, records off a
\* collection, and no collection outlives its last record.
MapsAgree ==
    /\ colls = {k[1] : k \in rows}
    /\ \A k \in Key \ rows : Versions(k) = {}

\* What a caller read is still in the engine, unless the record was deleted.
ReadsRemembered ==
    \A c \in Client :
        LET h == held[c]
        IN  /\ h.epoch <= epoch[h.key]
            /\ h.version = 0 => h.payload = NoPayload
            /\ h.epoch = epoch[h.key] /\ h.version # 0 =>
                 h.version \in Versions(h.key) /\ cell[h.key][h.version] = h.payload

\* Optimistic locking: a write under an expected version replaces exactly
\* what its caller read, as long as the record was not deleted in between.
\* (After a deletion versions start again at 1, and the comparison can
\* succeed against a record the caller has never seen.)
NoLostUpdate ==
    [][\A c \in Client, p \in Payload :
          PutExpecting(c, p) /\ held[c].epoch = epoch[held[c].key] =>
              Latest(held[c].key) = [version |-> held[c].version,
                                     payload |-> held[c].payload]]_vars

\* Old versions are immutable: only a deletion removes or changes them.
HistoryKept ==
    [][\A k \in Key : epoch'[k] = epoch[k] =>
          \A v \in Versions(k) : v \in DOMAIN cell'[k] /\ cell'[k][v] = cell[k][v]]_vars

\* The engine implements a register per record: Get returns what was written
\* last, and a refused write leaves no trace that an operation could see.
Register ==
    INSTANCE VersionedRegister WITH
        latest <- [k \in Key |-> Latest(k)],
        held <- [c \in Client |-> [key |-> held[c].key, version |-> held[c].version,
                                   payload |-> held[c].payload]]
ImplementsRegister == Register!Spec

IInv == TypeOK /\ VersionsContiguous /\ MapsAgree /\ ReadsRemembered
==============================================================================
