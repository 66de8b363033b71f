---------------------------- MODULE ContentFabric -----------------------------
(***************************************************************************)
(* Layer 3B of one node: StoreContent and RetrieveContent                  *)
(* (service/service.go, retrieval.go) called by several goroutines, over   *)
(* the local store (content_storage.go), the provider registry with its    *)
(* cleanup loop (provider.go) and PersistContent (persistence.go).  A      *)
(* content stands for its bytes, and so for its ContentID.  Each step of a *)
(* call is one critical section.  What publishContentToDHT does once the   *)
(* call has persisted its content is in Publisher.                         *)
(***************************************************************************)
EXTENDS Naturals, FiniteSetsExt

CONSTANTS Client,              \* goroutines
          Content,
          Bytes,               \* Bytes[c]: the length of c, in some unit
          ChunkThreshold, ChunkSize,
          ChunkHash(_, _),     \* the hash of the chunk of c at an offset
          ProviderTTL,         \* ticks of the clock that an announcement counts
          CleanupInterval,     \* ticks between two cleanups
          MaxStores,           \* bound on the calls of StoreContent
          None, Idle

\* A call of StoreContent, or of RetrieveContent, and its next step.
Calls == [step : {"announce", "saveMeta", "saveManifest", "fetch", "search"}, content : Content]

ASSUME ContentAssumption ==
    /\ Bytes \in [Content -> Nat \ {0}]
    /\ ChunkSize \in Nat \ {0} /\ ChunkThreshold \in Nat
    /\ ProviderTTL \in Nat \ {0} /\ CleanupInterval \in Nat \ {0}
    /\ MaxStores \in Nat
    /\ Idle \notin Calls

VARIABLES
    localIndex,  \* localIndex[c]: who described c last, for its ContentMeta
    localData,   \* the hashes whose bytes are held
    providers,   \* providers[c][a]: how many announcements of c have age a
    saved,       \* saved[t][c]: version and describer in table t of the engine
    call,        \* call[g]: the step of g's call and its content
    answer,      \* answer[g]: what the last RetrieveContent of g returned
    sinceCleanup, stores,
    panicked,    \* the process is gone
    announced,   \* history: the same for all announcements that were made
    overlapped   \* history: contents that two calls stored at the same time

vars == <<localIndex, localData, providers, saved, call, answer,
          sinceCleanup, stores, panicked, announced, overlapped>>

------------------------------------------------------------------------------
(* The store.                                                              *)

IsChunked(c) == Bytes[c] > ChunkThreshold

\* The loop of splitIntoChunks: where chunks start, and how long they are.
Offsets(c) == {o \in 0..(Bytes[c] - 1) : o % ChunkSize = 0}
ChunkLength(c, o) == Min({ChunkSize, Bytes[c] - o})
Chunk(c, o) == o..(o + ChunkLength(c, o) - 1)

\* The hashes under which the bytes of c are kept.
Hashes(c) == IF IsChunked(c) THEN {ChunkHash(c, o) : o \in Offsets(c)} ELSE {c}

\* A list of providers, by age: the entries are alike but for AnnouncedAt.
Limit == ProviderTTL + CleanupInterval
Age == 0..Limit
NoneOfAge == [a \in Age |-> 0]

Doing(g, step) == ~panicked /\ call[g] # Idle /\ call[g].step = step
Goto(g, step) == call' = [call EXCEPT ![g] = [step |-> step, content |-> @.content]]
Finish(g) == call' = [call EXCEPT ![g] = Idle]
Storing(c) == {g \in Client : call[g] # Idle /\ call[g].content = c
                                 /\ call[g].step \in {"announce", "saveMeta", "saveManifest"}}

Init ==
    /\ localIndex = [c \in Content |-> None]
    /\ localData = {}
    /\ providers = [c \in Content |-> NoneOfAge]
    /\ saved = [t \in {"content", "manifest"} |->
                   [c \in Content |-> [version |-> 0, by |-> None]]]
    /\ call = [g \in Client |-> Idle]
    /\ answer = [g \in Client |-> None]
    /\ sinceCleanup = 0 /\ stores = 0 /\ panicked = FALSE
    /\ announced = [c \in Content |-> NoneOfAge]
    /\ overlapped = {}

Cache_WithoutLastChunk(g, c) ==
    /\ localIndex' = [localIndex EXCEPT ![c] = g]
    /\ localData' = localData \cup
           (IF IsChunked(c) THEN {ChunkHash(c, o) : o \in Offsets(c) \ {Max(Offsets(c))}} ELSE {c})

Cache_OnlyChunks(g, c) ==
    /\ localIndex' = [localIndex EXCEPT ![c] = g]
    /\ localData' = localData \cup (Hashes(c) \ {c})

Cache_KeepsFirst(g, c) ==
    /\ localIndex' = [localIndex EXCEPT ![c] = IF @ = None THEN g ELSE @]
    /\ localData' = localData \cup Hashes(c)

\* Metadata and bytes are cached under one lock.
Cache(g, c) ==
    /\ localIndex' = [localIndex EXCEPT ![c] = g]
    /\ localData' = localData \cup Hashes(c)

Store(g, c) ==
    /\ ~panicked /\ call[g] = Idle /\ stores < MaxStores
    /\ Cache(g, c)
    /\ call' = [call EXCEPT ![g] = [step |-> "announce", content |-> c]]
    /\ stores' = stores + 1
    /\ overlapped' = IF Storing(c) = {} THEN overlapped ELSE overlapped \cup {c}
    /\ UNCHANGED <<providers, saved, answer, sinceCleanup, panicked, announced>>

AnnounceContent(g) ==
    /\ Doing(g, "announce")
    /\ providers' = [providers EXCEPT ![call[g].content][0] = @ + 1]
    /\ announced' = [announced EXCEPT ![call[g].content][0] = @ + 1]
    /\ Goto(g, "saveMeta")
    /\ UNCHANGED <<localIndex, localData, saved, answer, sinceCleanup, stores, panicked, overlapped>>

------------------------------------------------------------------------------
(* PersistContent: two Puts without an expected version.                   *)

Put_SkipsVersion(table, g) ==
    /\ saved' = [saved EXCEPT ![table][call[g].content] = [version |-> @.version + 2, by |-> g]]
    /\ UNCHANGED <<localIndex, localData, providers, answer, sinceCleanup, stores, panicked,
                   announced, overlapped>>

Put(table, g) ==
    /\ saved' = [saved EXCEPT ![table][call[g].content] = [version |-> @.version + 1, by |-> g]]
    /\ UNCHANGED <<localIndex, localData, providers, answer, sinceCleanup, stores, panicked,
                   announced, overlapped>>

SaveMeta_NoManifest(g) ==
    /\ Doing(g, "saveMeta")
    /\ Put("content", g)
    /\ Finish(g)

SaveMeta(g) ==
    /\ Doing(g, "saveMeta")
    /\ Put("content", g)
    /\ IF IsChunked(call[g].content) THEN Goto(g, "saveManifest") ELSE Finish(g)

SaveManifest(g) ==
    /\ Doing(g, "saveManifest")
    /\ Put("manifest", g)
    /\ Finish(g)

------------------------------------------------------------------------------
(* RetrieveContent: the local store, then the DHT.                         *)

GetMeta(g, c) ==
    /\ ~panicked /\ call[g] = Idle
    /\ call' = [call EXCEPT ![g] =
           [step |-> IF localIndex[c] # None /\ ~IsChunked(c) THEN "fetch" ELSE "search",
            content |-> c]]
    /\ answer' = [answer EXCEPT ![g] = None]
    /\ UNCHANGED <<localIndex, localData, providers, saved, sinceCleanup, stores, panicked,
                   announced, overlapped>>

GetChunk(g) ==
    /\ Doing(g, "fetch")
    /\ IF call[g].content \in localData
       THEN answer' = [answer EXCEPT ![g] = "data"] /\ Finish(g)
       ELSE Goto(g, "search") /\ UNCHANGED answer
    /\ UNCHANGED <<localIndex, localData, providers, saved, sinceCleanup, stores, panicked,
                   announced, overlapped>>

\* Without a DHT or without a result; or at least three peers are asked, and
\* their answers are not waited for.
SearchDHT(g) ==
    /\ Doing(g, "search")
    /\ answer' = [answer EXCEPT ![g] = "error"]
    /\ Finish(g)
    /\ UNCHANGED <<localIndex, localData, providers, saved, sinceCleanup, stores, panicked,
                   announced, overlapped>>

\* peers[:3] of a lookup that found one or two peers, itself among them.
SliceTooShort(g) ==
    /\ Doing(g, "search")
    /\ panicked' = TRUE
    /\ UNCHANGED <<localIndex, localData, providers, saved, call, answer, sinceCleanup, stores,
                   announced, overlapped>>

------------------------------------------------------------------------------
(* The clock, and the cleanup loop of the registry that follows it.        *)

Older(list) == [a \in Age |-> IF a = 0 THEN 0 ELSE list[a - 1]]

Tick ==
    /\ ~panicked /\ sinceCleanup < CleanupInterval
    /\ sinceCleanup' = sinceCleanup + 1
    /\ providers' = [c \in Content |-> Older(providers[c])]
    /\ announced' = [c \in Content |-> Older(announced[c])]
    /\ UNCHANGED <<localIndex, localData, saved, call, answer, stores, panicked, overlapped>>

Active_UpToTTL(list) == [a \in Age |-> IF a + 1 < ProviderTTL THEN list[a] ELSE 0]
Active(list) == [a \in Age |-> IF a < ProviderTTL THEN list[a] ELSE 0]

ProviderCleanup ==
    /\ ~panicked /\ sinceCleanup = CleanupInterval
    /\ sinceCleanup' = 0
    /\ providers' = [c \in Content |-> Active(providers[c])]
    /\ UNCHANGED <<localIndex, localData, saved, call, answer, stores, panicked, announced, overlapped>>

StoreContent(g) == (\E c \in Content : Store(g, c)) \/ AnnounceContent(g) \/ SaveMeta(g) \/ SaveManifest(g)
RetrieveContent(g) == (\E c \in Content : GetMeta(g, c)) \/ GetChunk(g) \/ SearchDHT(g) \/ SliceTooShort(g)

Next == Tick \/ ProviderCleanup \/ \E g \in Client : StoreContent(g) \/ RetrieveContent(g)

Spec == Init /\ [][Next]_vars

------------------------------------------------------------------------------
(* Properties                                                              *)

TypeOK ==
    /\ localIndex \in [Content -> Client \cup {None}]
    /\ providers \in [Content -> [Age -> 0..MaxStores]]
    /\ announced \in [Content -> [Age -> 0..MaxStores]]
    /\ saved \in [{"content", "manifest"} ->
                     [Content -> [version : 0..MaxStores, by : Client \cup {None}]]]
    /\ call \in [Client -> {Idle} \cup Calls]
    /\ answer \in [Client -> {None, "data", "error"}]
    /\ sinceCleanup \in 0..CleanupInterval /\ stores \in 0..MaxStores
    /\ panicked \in BOOLEAN /\ overlapped \subseteq Content

\* Whatever has metadata in the local store has all its bytes there: the chunks
\* of a large file lie side by side, none is empty and together they are the
\* whole of it - also for a file of just the threshold, for one whose last
\* chunk is short, and for files that share a chunk.
LocalContentComplete ==
    \A c \in Content : localIndex[c] # None =>
        /\ Hashes(c) \subseteq localData
        /\ IsChunked(c) =>
             /\ \A o \in Offsets(c) : ChunkLength(c, o) \in 1..ChunkSize
             /\ UNION {Chunk(c, o) : o \in Offsets(c)} = 0..(Bytes[c] - 1)
             /\ \A o, p \in Offsets(c) : o # p => Chunk(c, o) \cap Chunk(c, p) = {}

\* The registry lists every announcement that is younger than its TTL, whatever
\* the cleanup does in between, and none that was older one cleanup ago.
ProvidersInWindow ==
    \A c \in Content :
        /\ \A a \in 0..(ProviderTTL - 1) : providers[c][a] = announced[c][a]
        /\ providers[c][Limit] = 0

\* A manifest is saved after its metadata, and metadata of a chunked content
\* lacks its manifest only while the call that will write it is under way.
ManifestFollowsMeta ==
    \A c \in Content :
        saved["content"][c].version - saved["manifest"][c].version =
            IF IsChunked(c) THEN Cardinality({g \in Storing(c) : call[g].step = "saveManifest"})
            ELSE saved["content"][c].version

\* Between calls the engine and the local store name the same call as the last
\* to describe a content, unless two calls stored the content at the same time:
\* then memory may remember the one and the engine the other.
SavedDescribesLocal ==
    \A c \in Content :
        Storing(c) = {} /\ c \notin overlapped => saved["content"][c].by = localIndex[c]

\* RetrieveContent looks for the metadata and for the bytes of a small file under
\* two locks; where it found the first it finds the second.  (A chunked file is
\* never returned, although its chunks are there.)
MetaMeansBytes ==
    [][\A g \in Client : Doing(g, "fetch") /\ call'[g] # call[g] => answer'[g] = "data"]_vars
==============================================================================
