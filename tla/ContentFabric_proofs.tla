------------------------- MODULE ContentFabric_proofs --------------------------
(***************************************************************************)
(* Theorems about the two halves of StoreContent: ContentFabric, what a    *)
(* node keeps, for any number of goroutines and contents, any sizes and    *)
(* any periods of the registry; and Publisher, what it sends to others,    *)
(* for any number of objects, any lookups, any degree of replication and   *)
(* any capacity of the channel.                                            *)
(***************************************************************************)
EXTENDS ContentFabric, Publisher, FiniteSetTheorems, TLAPS

------------------------------------------------------------------------------
(* ContentFabric: the inductive invariant.                                 *)

Shape ==
    /\ localIndex \in [Content -> Client \cup {None}]
    /\ providers \in [Content -> [Age -> Nat]]
    /\ announced \in [Content -> [Age -> Nat]]
    /\ saved \in [{"content", "manifest"} ->
                     [Content -> [version : Nat, by : Client \cup {None}]]]
    /\ call \in [Client -> {Idle} \cup Calls]
    /\ answer \in [Client -> {None, "data", "error"}]
    /\ sinceCleanup \in 0..CleanupInterval /\ stores \in 0..MaxStores
    /\ panicked \in BOOLEAN /\ overlapped \subseteq Content

\* The calls that store c and have come to one of the steps.
At(c, steps) == {g \in Client : call[g] # Idle /\ call[g].content = c /\ call[g].step \in steps}
StoreSteps == {"announce", "saveMeta", "saveManifest"}

\* A call of StoreContent announces once and saves once: what is done and what
\* is still to come are no more than the calls that were made.
Budget(c) ==
    /\ IsFiniteSet(At(c, StoreSteps))
    /\ saved["content"][c].version + Cardinality(At(c, {"announce", "saveMeta"})) <= stores
    /\ \A a \in Age :
         /\ providers[c][a] + Cardinality(At(c, {"announce"})) <= stores
         /\ announced[c][a] + Cardinality(At(c, {"announce"})) <= stores

\* ManifestFollowsMeta, in terms of At.
Manifest(c) ==
    /\ IsChunked(c) => saved["content"][c].version - saved["manifest"][c].version =
                           Cardinality(At(c, {"saveManifest"}))
    /\ ~IsChunked(c) => At(c, {"saveManifest"}) = {} /\ saved["manifest"][c].version = 0

\* A content that was never stored twice at the same time has one call at most,
\* the one the local store names; once it has saved, so does the engine.
OnlyCall(c, g) ==
    /\ At(c, StoreSteps) = {g} /\ localIndex[c] = g
    /\ call[g].step = "saveManifest" => saved["content"][c].by = g
Described(c) ==
    \/ c \in overlapped
    \/ At(c, StoreSteps) = {} /\ saved["content"][c].by = localIndex[c]
    \/ \E g \in Client : OnlyCall(c, g)

CountInv == \A c \in Content : Budget(c) /\ Manifest(c) /\ Described(c)

\* What is described is held, and what is about to be read from memory is held.
HeldInv ==
    /\ \A c \in Content : localIndex[c] # None => Hashes(c) \subseteq localData
    /\ \A g \in Client : call[g] # Idle /\ call[g].step = "fetch" => call[g].content \in localData

\* The registry loses nothing young, and what it holds is at most the time
\* since the last cleanup older than the time to live.
WindowInv ==
    \A c \in Content :
        /\ \A a \in 0..(ProviderTTL - 1) : providers[c][a] = announced[c][a]
        /\ \A a \in Age : a >= ProviderTTL + sinceCleanup => providers[c][a] = 0

IInv == Shape /\ CountInv /\ HeldInv /\ WindowInv

------------------------------------------------------------------------------
(* Where the calls are.                                                    *)

LEMMA StoringIsAt ==
    ASSUME NEW c \in Content
    PROVE  /\ Storing(c) = At(c, StoreSteps)
           /\ {g \in Storing(c) : call[g].step = "saveManifest"} = At(c, {"saveManifest"})
BY DEF Storing, At, StoreSteps

LEMMA AtInit == ASSUME Init, NEW c, NEW steps PROVE At(c, steps) = {}
BY DEF Init, At

Moves(g, v) == g \in Client /\ v \in {Idle} \cup Calls /\ call' = [call EXCEPT ![g] = v]
Matches(v, c, steps) == v # Idle /\ v.content = c /\ v.step \in steps

LEMMA AtMoves ==
    ASSUME Shape, NEW g, NEW v, Moves(g, v), NEW c, NEW steps
    PROVE  At(c, steps)' = IF Matches(v, c, steps) THEN At(c, steps) \cup {g} ELSE At(c, steps) \ {g}
<1>1. call'[g] = v /\ g \in Client /\ \A h \in Client \ {g} : call'[h] = call[h]
  BY DEF Shape, Moves
<1> QED BY <1>1 DEF At, Matches

LEMMA CallMoves ==
    ASSUME Shape, NEW g, NEW v, Moves(g, v)
    PROVE  /\ call' \in [Client -> {Idle} \cup Calls]
           /\ call'[g] = v /\ \A h \in Client \ {g} : call'[h] = call[h]
BY DEF Shape, Moves

\* A record is never Idle, and the step of a call is one of five.
LEMMA CallIsRecord ==
    ASSUME NEW c \in Content,
           NEW step \in {"announce", "saveMeta", "saveManifest", "fetch", "search"}
    PROVE  /\ [step |-> step, content |-> c] \in Calls
           /\ [step |-> step, content |-> c] # Idle
<1>1. [step |-> step, content |-> c] \in Calls
  BY DEF Calls
<1> QED BY <1>1, ContentAssumption

LEMMA Underway ==
    ASSUME Shape, NEW g \in Client, NEW step, Doing(g, step)
    PROVE  /\ call[g] \in Calls /\ call[g] # Idle /\ call[g].step = step
           /\ call[g].content \in Content
           /\ call[g] = [step |-> step, content |-> call[g].content]
BY DEF Shape, Doing, Calls

LEMMA InvInit == Init => IInv
<1> SUFFICES ASSUME Init PROVE IInv
  OBVIOUS
<1>1. \A c, steps : At(c, steps) = {} /\ IsFiniteSet(At(c, steps)) /\ Cardinality(At(c, steps)) = 0
  BY AtInit, FS_EmptySet
<1>2. 0 \in Age /\ Age \subseteq Nat /\ 0..(ProviderTTL - 1) \subseteq Age
  BY ContentAssumption DEF Age, Limit
<1>3. Shape
  <2>1. providers \in [Content -> [Age -> Nat]] /\ announced \in [Content -> [Age -> Nat]]
    BY <1>2 DEF Init, NoneOfAge
  <2>2. saved \in [{"content", "manifest"} -> [Content -> [version : Nat, by : Client \cup {None}]]]
    <3>1. \A c \in Content : [version |-> 0, by |-> None] \in [version : Nat, by : Client \cup {None}]
      OBVIOUS
    <3>2. [c \in Content |-> [version |-> 0, by |-> None]] \in [Content -> [version : Nat, by : Client \cup {None}]]
      BY <3>1
    <3> QED BY <3>2, Zenon DEF Init
  <2>3. localIndex \in [Content -> Client \cup {None}] /\ call \in [Client -> {Idle} \cup Calls]
        /\ answer \in [Client -> {None, "data", "error"}]
    BY DEF Init
  <2>4. sinceCleanup \in 0..CleanupInterval /\ stores \in 0..MaxStores
        /\ panicked \in BOOLEAN /\ overlapped \subseteq Content
    <3>1. sinceCleanup = 0 /\ stores = 0 /\ overlapped = {}
      BY DEF Init
    <3>2. panicked \in BOOLEAN
      BY Zenon DEF Init
    <3> QED BY <3>1, <3>2, ContentAssumption
  <2> QED BY <2>1, <2>2, <2>3, <2>4 DEF Shape
<1>4. ASSUME NEW c \in Content PROVE Budget(c) /\ Manifest(c) /\ Described(c)
  <2>1. saved["content"][c].version = 0 /\ saved["manifest"][c].version = 0
        /\ saved["content"][c].by = localIndex[c]
    BY <1>4 DEF Init
  <2>2. Budget(c)
    BY <1>1, <1>2, <1>4, <2>1 DEF Init, Budget, NoneOfAge
  <2>3. Manifest(c)
    <3>1. Cardinality(At(c, {"saveManifest"})) = 0 /\ At(c, {"saveManifest"}) = {}
      BY <1>1
    <3>2. 0 - 0 = 0
      OBVIOUS
    <3> QED BY <2>1, <3>1, <3>2, Zenon DEF Manifest
  <2>4. Described(c)
    BY <1>1, <2>1 DEF Described
  <2> QED BY <2>2, <2>3, <2>4
<1>7. HeldInv
  BY DEF Init, HeldInv
<1>8. WindowInv
  BY <1>2 DEF Init, WindowInv, NoneOfAge
<1> QED BY <1>3, <1>4, <1>7, <1>8 DEF IInv, CountInv

------------------------------------------------------------------------------
(* How the sets of calls change with one call.                             *)

LEMMA AtStays ==
    ASSUME Shape, NEW g, NEW v, Moves(g, v), NEW c, NEW steps,
           Matches(call[g], c, steps) <=> Matches(v, c, steps)
    PROVE  At(c, steps)' = At(c, steps)
BY AtMoves DEF Matches, Moves, At

LEMMA AtGains ==
    ASSUME Shape, NEW g, NEW v, Moves(g, v), NEW c, NEW steps,
           ~Matches(call[g], c, steps), Matches(v, c, steps), IsFiniteSet(At(c, steps))
    PROVE  /\ At(c, steps)' = At(c, steps) \cup {g}
           /\ IsFiniteSet(At(c, steps))'
           /\ Cardinality(At(c, steps))' = Cardinality(At(c, steps)) + 1
<1>1. At(c, steps)' = At(c, steps) \cup {g} /\ g \notin At(c, steps)
  <2>1. At(c, steps)' = IF Matches(v, c, steps) THEN At(c, steps) \cup {g} ELSE At(c, steps) \ {g}
    BY AtMoves
  <2>2. g \notin At(c, steps)
    BY DEF At, Matches
  <2> QED BY <2>1, <2>2
<1> QED BY <1>1, FS_AddElement

LEMMA AtLoses ==
    ASSUME Shape, NEW g, NEW v, Moves(g, v), NEW c, NEW steps,
           Matches(call[g], c, steps), ~Matches(v, c, steps), IsFiniteSet(At(c, steps))
    PROVE  /\ At(c, steps)' = At(c, steps) \ {g} /\ g \in At(c, steps)
           /\ IsFiniteSet(At(c, steps))'
           /\ Cardinality(At(c, steps))' = Cardinality(At(c, steps)) - 1
<1>1. At(c, steps)' = At(c, steps) \ {g} /\ g \in At(c, steps)
  <2>1. At(c, steps)' = IF Matches(v, c, steps) THEN At(c, steps) \cup {g} ELSE At(c, steps) \ {g}
    BY AtMoves
  <2>2. g \in At(c, steps)
    BY DEF At, Matches, Moves
  <2> QED BY <2>1, <2>2
<1> QED BY <1>1, FS_RemoveElement

\* The sets Budget and Manifest count are finite.
LEMMA AtFinite ==
    ASSUME NEW c \in Content, Budget(c), NEW steps \in SUBSET StoreSteps
    PROVE  IsFiniteSet(At(c, steps)) /\ Cardinality(At(c, steps)) \in Nat
<1>1. IsFiniteSet(At(c, StoreSteps)) /\ At(c, steps) \subseteq At(c, StoreSteps)
  BY DEF Budget, At
<1> QED BY <1>1, FS_Subset, FS_CardinalityType

\* A call of StoreContent disturbs its own content only.
LEMMA OthersKept ==
    ASSUME Shape, NEW g, NEW v, Moves(g, v), NEW c \in Content,
           call[g] # Idle => call[g].content = c, v # Idle => v.content = c,
           NEW d \in Content \ {c}, Budget(d), Manifest(d), Described(d),
           UNCHANGED <<localIndex[d], providers[d], announced[d]>>,
           UNCHANGED <<saved["content"][d], saved["manifest"][d]>>,
           stores' \in Nat, stores <= stores', d \in overlapped => d \in overlapped'
    PROVE  Budget(d)' /\ Manifest(d)' /\ Described(d)'
<1>1. \A steps : At(d, steps)' = At(d, steps)
  <2> SUFFICES ASSUME NEW steps PROVE At(d, steps)' = At(d, steps)
    OBVIOUS
  <2>1. ~Matches(call[g], d, steps) /\ ~Matches(v, d, steps)
    BY DEF Matches
  <2> QED BY <2>1, AtStays
<1>2. Budget(d)'
  <2>1. Cardinality(At(d, {"announce", "saveMeta"})) \in Nat /\ Cardinality(At(d, {"announce"})) \in Nat
    BY AtFinite DEF StoreSteps
  <2>2. saved["content"][d].version \in Nat /\ stores \in Nat
        /\ \A a \in Age : providers[d][a] \in Nat /\ announced[d][a] \in Nat
    BY DEF Shape
  <2> QED BY <1>1, <2>1, <2>2 DEF Budget
<1>3. Manifest(d)'
  BY <1>1, Zenon DEF Manifest, IsChunked
<1>4. Described(d)'
  <2> SUFFICES ASSUME NEW h \in Client, OnlyCall(d, h)
               PROVE  OnlyCall(d, h)'
    BY <1>1 DEF Described
  <2>1. h \in At(d, StoreSteps)
    BY DEF OnlyCall
  <2>2. h # g
    BY <2>1 DEF At
  <2>3. call'[h] = call[h]
    BY <2>2, CallMoves
  <2> QED BY <1>1, <2>3 DEF OnlyCall
<1> QED BY <1>2, <1>3, <1>4

\* An answer is chosen, or a call of RetrieveContent moves: no call that stores
\* is touched.
LEMMA RetrieveStep ==
    ASSUME IInv, NEW g, NEW v, Moves(g, v),
           call[g] = Idle \/ call[g].step \in {"fetch", "search"},
           v = Idle \/ v.step \in {"fetch", "search"},
           v # Idle /\ v.step = "fetch" => v.content \in localData,
           answer' \in [Client -> {None, "data", "error"}],
           UNCHANGED <<localIndex, localData, providers, saved, sinceCleanup, stores, panicked,
                       announced, overlapped>>
    PROVE  IInv'
<1> USE DEF IInv
<1>1. ASSUME NEW c, NEW steps \in SUBSET StoreSteps
      PROVE  At(c, steps)' = At(c, steps)
  <2>1. ~Matches(call[g], c, steps) /\ ~Matches(v, c, steps)
    BY <1>1 DEF Matches, StoreSteps
  <2> QED BY <2>1, AtStays
<1>2. /\ call' \in [Client -> {Idle} \cup Calls]
      /\ call'[g] = v /\ \A h \in Client \ {g} : call'[h] = call[h]
  BY CallMoves DEF Moves
<1>3. Shape'
  BY <1>2 DEF Shape
<1>4. /\ \A c : At(c, StoreSteps)' = At(c, StoreSteps)
      /\ \A c : At(c, {"announce"})' = At(c, {"announce"})
      /\ \A c : At(c, {"announce", "saveMeta"})' = At(c, {"announce", "saveMeta"})
      /\ \A c : At(c, {"saveManifest"})' = At(c, {"saveManifest"})
  BY <1>1 DEF StoreSteps
<1>5. ASSUME NEW c \in Content PROVE Budget(c)' /\ Manifest(c)' /\ Described(c)'
  <2>1. Budget(c) /\ Manifest(c) /\ Described(c)
    BY <1>5 DEF CountInv
  <2>2. Budget(c)'
    BY <1>4, <2>1 DEF Budget
  <2>3. Manifest(c)'
    BY <1>4, <2>1, Zenon DEF Manifest, IsChunked
  <2>4. Described(c)'
    <3> SUFFICES ASSUME NEW h \in Client, OnlyCall(c, h)
                 PROVE  OnlyCall(c, h)'
      BY <1>4, <2>1 DEF Described
    <3>1. h \in At(c, StoreSteps)
      BY DEF OnlyCall
    <3>2. call'[h] = call[h]
      BY <1>2, <3>1 DEF At, StoreSteps
    <3> QED BY <1>4, <3>2 DEF OnlyCall
  <2> QED BY <2>2, <2>3, <2>4
<1>8. HeldInv'
  BY <1>2 DEF HeldInv, Hashes, Moves, IsChunked, Offsets
<1>9. WindowInv'
  BY DEF WindowInv
<1> QED BY <1>3, <1>5, <1>8, <1>9 DEF CountInv

------------------------------------------------------------------------------
(* StoreContent.                                                           *)

\* What the steps of StoreContent leave to show: HeldInv and WindowInv follow
\* from what is described and held, and from the lists of announcements.
LEMMA HeldKept ==
    ASSUME Shape, HeldInv, NEW g, NEW v, Moves(g, v), v # Idle => v.step # "fetch",
           localData \subseteq localData',
           \A c \in Content : localIndex'[c] = localIndex[c] \/ Hashes(c) \subseteq localData'
    PROVE  HeldInv'
<1>1. ASSUME NEW c \in Content, localIndex'[c] # None
      PROVE  Hashes(c) \subseteq localData'
  BY <1>1 DEF HeldInv
<1>2. ASSUME NEW h \in Client, call'[h] # Idle, call'[h].step = "fetch"
      PROVE  call'[h].content \in localData'
  <2>1. call'[h] = call[h]
    BY <1>2, CallMoves
  <2> QED BY <1>2, <2>1 DEF HeldInv
<1>3. \A c \in Content : Hashes(c)' = Hashes(c)
  BY DEF Hashes, IsChunked, Offsets
<1> QED BY <1>1, <1>2, <1>3 DEF HeldInv

LEMMA StepStore ==
    ASSUME IInv, NEW g \in Client, NEW c \in Content, Store(g, c)
    PROVE  IInv'
<1> USE DEF IInv
<1> DEFINE v == [step |-> "announce", content |-> c]
<1>1. /\ call[g] = Idle /\ stores < MaxStores /\ stores' = stores + 1
      /\ localIndex' = [localIndex EXCEPT ![c] = g] /\ localData' = localData \cup Hashes(c)
      /\ call' = [call EXCEPT ![g] = v]
      /\ overlapped' = IF Storing(c) = {} THEN overlapped ELSE overlapped \cup {c}
      /\ UNCHANGED <<providers, saved, answer, sinceCleanup, panicked, announced>>
  BY DEF Store, Cache
<1>2. v \in Calls /\ v # Idle /\ v.content = c /\ v.step = "announce"
  BY CallIsRecord
<1>3. Moves(g, v)
  BY <1>1, <1>2 DEF Moves
<1> HIDE DEF v
<1>4. Shape'
  <2>1. call' \in [Client -> {Idle} \cup Calls]
    BY <1>3, CallMoves
  <2>2. stores \in Nat /\ stores' \in 0..MaxStores
    BY <1>1, ContentAssumption DEF Shape
  <2>3. localIndex' \in [Content -> Client \cup {None}] /\ overlapped' \subseteq Content
    BY <1>1 DEF Shape
  <2> QED BY <1>1, <2>1, <2>2, <2>3 DEF Shape
<1>5. Budget(c) /\ Manifest(c) /\ Described(c) /\ stores \in Nat
  BY DEF CountInv, Shape
<1>6. ASSUME NEW steps \in SUBSET StoreSteps, "announce" \in steps
      PROVE  /\ At(c, steps)' = At(c, steps) \cup {g}
             /\ IsFiniteSet(At(c, steps))'
             /\ Cardinality(At(c, steps))' = Cardinality(At(c, steps)) + 1
  <2>1. ~Matches(call[g], c, steps) /\ Matches(v, c, steps)
    BY <1>1, <1>2, <1>6 DEF Matches
  <2>2. IsFiniteSet(At(c, steps))
    BY <1>5, AtFinite
  <2> QED BY <1>3, <2>1, <2>2, AtGains
<1>7. Budget(c)'
  <2>1. /\ IsFiniteSet(At(c, StoreSteps))'
        /\ Cardinality(At(c, {"announce", "saveMeta"}))' = Cardinality(At(c, {"announce", "saveMeta"})) + 1
        /\ Cardinality(At(c, {"announce"}))' = Cardinality(At(c, {"announce"})) + 1
    BY <1>6 DEF StoreSteps
  <2>2. Cardinality(At(c, {"announce", "saveMeta"})) \in Nat /\ Cardinality(At(c, {"announce"})) \in Nat
    BY <1>5, AtFinite DEF StoreSteps
  <2>3. saved["content"][c].version \in Nat
        /\ \A a \in Age : providers[c][a] \in Nat /\ announced[c][a] \in Nat
    BY DEF Shape
  <2> QED BY <1>1, <1>5, <2>1, <2>2, <2>3 DEF Budget
<1>8. Manifest(c)'
  <2>1. ~Matches(call[g], c, {"saveManifest"}) /\ ~Matches(v, c, {"saveManifest"})
    BY <1>1, <1>2 DEF Matches
  <2>2. At(c, {"saveManifest"})' = At(c, {"saveManifest"})
    BY <1>3, <2>1, AtStays
  <2> QED BY <1>1, <1>5, <2>2, Zenon DEF Manifest, IsChunked
<1>9. Described(c)'
  <2>1. CASE Storing(c) # {}
    BY <1>1, <2>1 DEF Described
  <2>2. CASE Storing(c) = {}
    <3>1. At(c, StoreSteps)' = {g}
      BY <1>6, <2>2, StoringIsAt DEF StoreSteps
    <3>2. localIndex'[c] = g /\ call'[g].step = "announce"
      BY <1>1, <1>2, <1>3, CallMoves DEF Shape
    <3> QED BY <3>1, <3>2 DEF Described, OnlyCall
  <2> QED BY <2>1, <2>2
<1>10. ASSUME NEW d \in Content, d # c
       PROVE  Budget(d)' /\ Manifest(d)' /\ Described(d)'
  <2>1. Budget(d) /\ Manifest(d) /\ Described(d)
    BY <1>10 DEF CountInv
  <2>2. /\ localIndex'[d] = localIndex[d] /\ stores' \in Nat /\ stores <= stores'
        /\ d \in overlapped => d \in overlapped'
    BY <1>1, <1>5, <1>10 DEF Shape
  <2> QED BY <1>1, <1>2, <1>3, <1>10, <2>1, <2>2, OthersKept
<1>11. CountInv'
  BY <1>7, <1>8, <1>9, <1>10 DEF CountInv
<1>12. HeldInv'
  <2>1. \A d \in Content : localIndex'[d] = localIndex[d] \/ Hashes(d) \subseteq localData'
    BY <1>1 DEF Shape
  <2> QED BY <1>1, <1>2, <1>3, <2>1, HeldKept
<1>13. WindowInv'
  BY <1>1 DEF WindowInv
<1> QED BY <1>4, <1>11, <1>12, <1>13

\* Goto as a move.
LEMMA GotoMoves ==
    ASSUME Shape, NEW g \in Client, NEW from, Doing(g, from), NEW c \in Content, call[g].content = c,
           NEW to \in {"announce", "saveMeta", "saveManifest", "fetch", "search"}, Goto(g, to)
    PROVE  Moves(g, [step |-> to, content |-> c])
<1>2. [step |-> to, content |-> c] \in Calls
  BY CallIsRecord
<1> QED BY <1>2 DEF Goto, Moves, Shape

LEMMA StepAnnounceContent ==
    ASSUME IInv, NEW g \in Client, AnnounceContent(g)
    PROVE  IInv'
<1> USE DEF IInv
<1>1. PICK c \in Content : c = call[g].content
  BY Underway DEF AnnounceContent
<1> DEFINE v == [step |-> "saveMeta", content |-> c]
<1>2. /\ Doing(g, "announce") /\ call[g] # Idle /\ call[g].content = c /\ call[g].step = "announce"
      /\ Goto(g, "saveMeta")
      /\ providers' = [providers EXCEPT ![c][0] = @ + 1]
      /\ announced' = [announced EXCEPT ![c][0] = @ + 1]
      /\ UNCHANGED <<localIndex, localData, saved, answer, sinceCleanup, stores, panicked, overlapped>>
  BY <1>1, Underway DEF AnnounceContent
<1>3. Moves(g, v) /\ v \in Calls /\ v # Idle /\ v.content = c /\ v.step = "saveMeta"
  BY <1>2, GotoMoves, CallIsRecord
<1> HIDE DEF v
<1>4. 0 \in Age /\ Age \subseteq Nat /\ 0 < ProviderTTL
  BY ContentAssumption DEF Age, Limit
<1>5. Shape'
  <2>1. call' \in [Client -> {Idle} \cup Calls]
    BY <1>3, CallMoves
  <2>2. providers' \in [Content -> [Age -> Nat]] /\ announced' \in [Content -> [Age -> Nat]]
    BY <1>2, <1>4 DEF Shape
  <2> QED BY <1>2, <2>1, <2>2 DEF Shape
<1>6. Budget(c) /\ Manifest(c) /\ Described(c) /\ stores \in Nat
  BY DEF CountInv, Shape
<1>7. ASSUME NEW steps \in SUBSET StoreSteps, "announce" \in steps <=> "saveMeta" \in steps
      PROVE  At(c, steps)' = At(c, steps)
  <2>1. Matches(call[g], c, steps) <=> Matches(v, c, steps)
    BY <1>2, <1>3, <1>7 DEF Matches
  <2> QED BY <1>3, <2>1, AtStays
<1>8. /\ At(c, StoreSteps)' = At(c, StoreSteps)
      /\ At(c, {"announce", "saveMeta"})' = At(c, {"announce", "saveMeta"})
      /\ At(c, {"saveManifest"})' = At(c, {"saveManifest"})
  BY <1>7 DEF StoreSteps
<1>9. Budget(c)'
  <2>1. Matches(call[g], c, {"announce"}) /\ ~Matches(v, c, {"announce"})
    BY <1>2, <1>3 DEF Matches
  <2>2. IsFiniteSet(At(c, {"announce"})) /\ Cardinality(At(c, {"announce"})) \in Nat
    BY <1>6, AtFinite DEF StoreSteps
  <2>3. Cardinality(At(c, {"announce"}))' = Cardinality(At(c, {"announce"})) - 1
    BY <1>3, <2>1, <2>2, AtLoses
  <2>4. ASSUME NEW a \in Age
        PROVE  /\ providers[c][a] \in Nat /\ announced[c][a] \in Nat
               /\ providers'[c][a] \in {providers[c][a], providers[c][a] + 1}
               /\ announced'[c][a] \in {announced[c][a], announced[c][a] + 1}
    BY <1>2, <1>4 DEF Shape
  <2>5. \A a \in Age : /\ providers'[c][a] + Cardinality(At(c, {"announce"}))' <= stores'
                        /\ announced'[c][a] + Cardinality(At(c, {"announce"}))' <= stores'
    BY <1>2, <1>6, <2>2, <2>3, <2>4 DEF Budget
  <2> QED BY <1>2, <1>6, <1>8, <2>5 DEF Budget
<1>10. Manifest(c)'
  BY <1>2, <1>6, <1>8, Zenon DEF Manifest, IsChunked
<1>11. Described(c)'
  <2> SUFFICES ASSUME NEW h \in Client, OnlyCall(c, h)
               PROVE  OnlyCall(c, h)'
    BY <1>2, <1>6, <1>8 DEF Described
  <2>1. h \in At(c, StoreSteps) /\ g \in At(c, StoreSteps)
    BY <1>2 DEF OnlyCall, At, StoreSteps
  <2>2. h = g
    BY <2>1 DEF OnlyCall
  <2>3. call'[h].step = "saveMeta"
    BY <1>3, <2>2, CallMoves
  <2> QED BY <1>2, <1>8, <2>3 DEF OnlyCall
<1>12. ASSUME NEW d \in Content, d # c
       PROVE  Budget(d)' /\ Manifest(d)' /\ Described(d)'
  <2>1. Budget(d) /\ Manifest(d) /\ Described(d)
    BY <1>12 DEF CountInv
  <2>2. providers'[d] = providers[d] /\ announced'[d] = announced[d]
    BY <1>2, <1>12 DEF Shape
  <2>3. stores' \in Nat /\ stores <= stores'
    BY <1>2, <1>6
  <2> QED BY <1>2, <1>3, <1>12, <2>1, <2>2, <2>3, OthersKept
<1>13. CountInv'
  BY <1>9, <1>10, <1>11, <1>12 DEF CountInv
<1>14. HeldInv'
  BY <1>2, <1>3, HeldKept
<1>15. WindowInv'
  <2> SUFFICES ASSUME NEW d \in Content
               PROVE  /\ \A a \in 0..(ProviderTTL - 1) : providers'[d][a] = announced'[d][a]
                      /\ \A a \in Age : a >= ProviderTTL + sinceCleanup => providers'[d][a] = 0
    BY <1>2 DEF WindowInv
  <2>1. CASE d # c
    BY <1>2, <2>1 DEF WindowInv, Shape
  <2>2. CASE d = c
    <3>1. ASSUME NEW a \in Age
          PROVE  /\ a # 0 => providers'[c][a] = providers[c][a] /\ announced'[c][a] = announced[c][a]
                 /\ a = 0 => providers'[c][a] = providers[c][a] + 1 /\ announced'[c][a] = announced[c][a] + 1
      BY <1>2, <1>4 DEF Shape
    <3>2. 0..(ProviderTTL - 1) \subseteq Age /\ \A a \in Age : a >= ProviderTTL + sinceCleanup => a # 0
      BY ContentAssumption DEF Shape, Age, Limit
    <3> QED BY <2>2, <3>1, <3>2 DEF WindowInv
  <2> QED BY <2>1, <2>2
<1> QED BY <1>5, <1>13, <1>14, <1>15

\* SaveMeta and SaveManifest write one entry of one table.
Wrote(table, g, c) ==
    /\ saved'[table][c] = [version |-> saved[table][c].version + 1, by |-> g]
    /\ \A t \in {"content", "manifest"}, d \in Content :
          t # table \/ d # c => saved'[t][d] = saved[t][d]

LEMMA PutKeepsShape ==
    ASSUME Shape, NEW g \in Client, NEW v, Moves(g, v), NEW c \in Content, call[g].content = c,
           NEW table \in {"content", "manifest"}, Put(table, g)
    PROVE  Shape' /\ Wrote(table, g, c)
<1>1. /\ saved' = [saved EXCEPT ![table][c] = [version |-> @.version + 1, by |-> g]]
      /\ UNCHANGED <<localIndex, localData, providers, answer, sinceCleanup, stores, panicked,
                     announced, overlapped>>
  BY DEF Put
<1>2. saved[table] \in [Content -> [version : Nat, by : Client \cup {None}]]
  BY DEF Shape
<1> DEFINE e == [version |-> saved[table][c].version + 1, by |-> g]
<1>3. e \in [version : Nat, by : Client \cup {None}]
  <2>1. saved[table][c].version \in Nat
    BY <1>2
  <2> QED BY <2>1, <1>2
<1>4. saved' = [saved EXCEPT ![table] = [saved[table] EXCEPT ![c] = e]]
  BY <1>1, <1>2 DEF Shape
<1> HIDE DEF e
<1>5. [saved[table] EXCEPT ![c] = e] \in [Content -> [version : Nat, by : Client \cup {None}]]
  BY <1>2, <1>3
<1>6. saved' \in [{"content", "manifest"} -> [Content -> [version : Nat, by : Client \cup {None}]]]
  BY <1>4, <1>5 DEF Shape
<1>7. call' \in [Client -> {Idle} \cup Calls]
  BY CallMoves
<1>8. Shape'
  BY <1>1, <1>6, <1>7 DEF Shape
<1>9. saved'[table] = [saved[table] EXCEPT ![c] = e] /\ \A t \in {"content", "manifest"} \ {table} : saved'[t] = saved[t]
  BY <1>4 DEF Shape
<1>10. saved'[table][c] = e /\ \A d \in Content \ {c} : saved'[table][d] = saved[table][d]
  BY <1>2, <1>9
<1> QED BY <1>8, <1>9, <1>10 DEF e, Wrote

\* The call of SaveMeta and SaveManifest ends, or has only the manifest left.
LEMMA SaveMoves ==
    ASSUME Shape, NEW g \in Client, NEW c \in Content, NEW from, Doing(g, from), call[g].content = c,
           NEW v, \/ v = Idle /\ Finish(g)
                  \/ v = [step |-> "saveManifest", content |-> c] /\ Goto(g, "saveManifest")
    PROVE  Moves(g, v) /\ (v # Idle => v.content = c /\ v.step = "saveManifest")
<1>1. CASE v = Idle /\ Finish(g)
  BY <1>1 DEF Finish, Moves
<1>2. CASE v = [step |-> "saveManifest", content |-> c] /\ Goto(g, "saveManifest")
  BY <1>2, GotoMoves
<1> QED BY <1>1, <1>2

\* What follows for all contents from a Put of content c, once it is shown for c.
LEMMA PutStep ==
    ASSUME IInv, NEW g \in Client, NEW v, Moves(g, v), NEW c \in Content,
           call[g] # Idle, call[g].content = c, v # Idle => v.content = c /\ v.step # "fetch",
           NEW table \in {"content", "manifest"}, Put(table, g),
           Budget(c)', Manifest(c)', Described(c)'
    PROVE  IInv'
<1> USE DEF IInv
<1>1. UNCHANGED <<localIndex, localData, providers, answer, sinceCleanup, stores, panicked,
                  announced, overlapped>>
  BY DEF Put
<1>2. Shape' /\ Wrote(table, g, c)
  BY PutKeepsShape
<1>3. ASSUME NEW d \in Content, d # c
      PROVE  Budget(d)' /\ Manifest(d)' /\ Described(d)'
  <2>1. Budget(d) /\ Manifest(d) /\ Described(d)
    BY <1>3 DEF CountInv
  <2>2. saved'["content"][d] = saved["content"][d] /\ saved'["manifest"][d] = saved["manifest"][d]
    BY <1>2, <1>3 DEF Wrote
  <2>3. stores' \in Nat /\ stores <= stores'
    BY <1>1 DEF Shape
  <2> QED BY <1>1, <1>3, <2>1, <2>2, <2>3, OthersKept
<1>4. CountInv'
  BY <1>3 DEF CountInv
<1>5. HeldInv'
  BY <1>1, HeldKept
<1>6. WindowInv'
  BY <1>1 DEF WindowInv
<1> QED BY <1>2, <1>4, <1>5, <1>6

LEMMA StepSaveMeta ==
    ASSUME IInv, NEW g \in Client, SaveMeta(g)
    PROVE  IInv'
<1> USE DEF IInv
<1>1. PICK c \in Content : c = call[g].content
  BY Underway DEF SaveMeta
<1> DEFINE v == IF IsChunked(c) THEN [step |-> "saveManifest", content |-> c] ELSE Idle
<1>2. /\ Doing(g, "saveMeta") /\ call[g] # Idle /\ call[g].content = c /\ call[g].step = "saveMeta"
      /\ Put("content", g)
      /\ IF IsChunked(c) THEN Goto(g, "saveManifest") ELSE Finish(g)
  BY <1>1, Underway DEF SaveMeta
<1>3. \/ ~IsChunked(c) /\ v = Idle /\ Finish(g)
      \/ IsChunked(c) /\ v # Idle /\ v = [step |-> "saveManifest", content |-> c]
         /\ Goto(g, "saveManifest")
  BY <1>2, CallIsRecord, Zenon
<1> HIDE DEF v
<1>4. Moves(g, v) /\ (v # Idle => v.content = c /\ v.step = "saveManifest")
  BY <1>2, <1>3, SaveMoves
<1>5. /\ saved'["content"][c].version = saved["content"][c].version + 1
      /\ saved'["content"][c].by = g
      /\ saved'["manifest"][c] = saved["manifest"][c]
      /\ UNCHANGED <<localIndex, providers, announced, stores, overlapped>>
  <2>1. Wrote("content", g, c)
    BY <1>2, <1>4, PutKeepsShape
  <2> QED BY <1>2, <2>1 DEF Put, Wrote
<1>6. Budget(c) /\ Manifest(c) /\ Described(c) /\ stores \in Nat
      /\ saved["content"][c].version \in Nat /\ saved["manifest"][c].version \in Nat
  BY DEF CountInv, Shape
<1>7. Budget(c)'
  <2>1. Matches(call[g], c, {"announce", "saveMeta"}) /\ ~Matches(v, c, {"announce", "saveMeta"})
    BY <1>2, <1>4 DEF Matches
  <2>2. IsFiniteSet(At(c, {"announce", "saveMeta"})) /\ Cardinality(At(c, {"announce", "saveMeta"})) \in Nat
        /\ IsFiniteSet(At(c, StoreSteps))
    BY <1>6, AtFinite DEF StoreSteps
  <2>3. Cardinality(At(c, {"announce", "saveMeta"}))' = Cardinality(At(c, {"announce", "saveMeta"})) - 1
    BY <1>4, <2>1, <2>2, AtLoses
  <2>4. At(c, {"announce"})' = At(c, {"announce"})
    <3>1. ~Matches(call[g], c, {"announce"}) /\ ~Matches(v, c, {"announce"})
      BY <1>2, <1>4 DEF Matches
    <3> QED BY <1>4, <3>1, AtStays
  <2>5. IsFiniteSet(At(c, StoreSteps))'
    <3>1. At(c, StoreSteps)' \subseteq At(c, StoreSteps)
      <4>1. Matches(call[g], c, StoreSteps) /\ g \in At(c, StoreSteps)
        BY <1>2, <1>4 DEF Matches, StoreSteps, At, Moves
      <4> QED BY <1>4, <4>1, AtMoves
    <3> QED BY <2>2, <3>1, FS_Subset
  <2> QED BY <1>5, <1>6, <2>2, <2>3, <2>4, <2>5 DEF Budget
<1>8. Manifest(c)'
  <2>1. ~Matches(call[g], c, {"saveManifest"})
    BY <1>2 DEF Matches
  <2>2. IsFiniteSet(At(c, {"saveManifest"})) /\ Cardinality(At(c, {"saveManifest"})) \in Nat
    BY <1>6, AtFinite DEF StoreSteps
  <2>3. CASE IsChunked(c)
    <3>1. Matches(v, c, {"saveManifest"})
      BY <1>3, <1>4, <2>3, Zenon DEF Matches
    <3>2. Cardinality(At(c, {"saveManifest"}))' = Cardinality(At(c, {"saveManifest"})) + 1
      BY <1>4, <2>1, <2>2, <3>1, AtGains
    <3>3. saved["content"][c].version - saved["manifest"][c].version = Cardinality(At(c, {"saveManifest"}))
      BY <1>6, <2>3, Zenon DEF Manifest
    <3>4. saved'["content"][c].version - saved'["manifest"][c].version = Cardinality(At(c, {"saveManifest"}))'
      BY <1>5, <1>6, <2>2, <3>2, <3>3
    <3> QED BY <2>3, <3>4, Zenon DEF Manifest, IsChunked
  <2>4. CASE ~IsChunked(c)
    <3>1. ~Matches(v, c, {"saveManifest"})
      BY <1>3, <2>4 DEF Matches
    <3>2. At(c, {"saveManifest"})' = At(c, {"saveManifest"})
      BY <1>4, <2>1, <3>1, AtStays
    <3> QED BY <1>5, <1>6, <2>4, <3>2, Zenon DEF Manifest, IsChunked
  <2> QED BY <2>3, <2>4
<1>9. Described(c)'
  <2> SUFFICES ASSUME c \notin overlapped
               PROVE  \/ At(c, StoreSteps)' = {} /\ saved'["content"][c].by = localIndex'[c]
                      \/ OnlyCall(c, g)'
    BY <1>5 DEF Described
  <2>1. OnlyCall(c, g)
    <3>1. g \in At(c, StoreSteps)
      BY <1>2 DEF At, StoreSteps
    <3>2. \A h : OnlyCall(c, h) => h = g
      BY <3>1 DEF OnlyCall
    <3> QED BY <1>6, <3>1, <3>2 DEF Described
  <2>2. At(c, StoreSteps) = {g} /\ localIndex'[c] = g /\ saved'["content"][c].by = localIndex'[c]
    BY <1>5, <2>1 DEF OnlyCall
  <2>3. CASE v = Idle
    <3>1. ~Matches(v, c, StoreSteps)
      BY <2>3 DEF Matches
    <3>2. At(c, StoreSteps)' = {}
      BY <1>4, <2>2, <3>1, AtMoves
    <3> QED BY <2>2, <3>2
  <2>4. CASE v # Idle
    <3>1. Matches(call[g], c, StoreSteps) /\ Matches(v, c, StoreSteps)
      BY <1>2, <1>4, <2>4 DEF Matches, StoreSteps
    <3>2. At(c, StoreSteps)' = {g}
      BY <1>4, <2>2, <3>1, AtStays
    <3> QED BY <1>5, <2>2, <3>2 DEF OnlyCall
  <2> QED BY <2>3, <2>4
<1> QED BY <1>2, <1>4, <1>7, <1>8, <1>9, PutStep

LEMMA StepSaveManifest ==
    ASSUME IInv, NEW g \in Client, SaveManifest(g)
    PROVE  IInv'
<1> USE DEF IInv
<1>1. PICK c \in Content : c = call[g].content
  BY Underway DEF SaveManifest
<1>2. /\ Doing(g, "saveManifest") /\ call[g] # Idle /\ call[g].content = c
      /\ call[g].step = "saveManifest" /\ Put("manifest", g) /\ Finish(g)
  BY <1>1, Underway DEF SaveManifest
<1>3. Moves(g, Idle)
  BY <1>2 DEF Finish, Moves
<1>4. /\ saved'["manifest"][c].version = saved["manifest"][c].version + 1
      /\ saved'["content"][c] = saved["content"][c]
      /\ UNCHANGED <<localIndex, providers, announced, stores, overlapped>>
  <2>1. Wrote("manifest", g, c)
    BY <1>2, <1>3, PutKeepsShape
  <2> QED BY <1>2, <2>1 DEF Put, Wrote
<1>5. Budget(c) /\ Manifest(c) /\ Described(c) /\ stores \in Nat
      /\ saved["content"][c].version \in Nat /\ saved["manifest"][c].version \in Nat
  BY DEF CountInv, Shape
<1>6. g \in At(c, StoreSteps) /\ At(c, StoreSteps)' = At(c, StoreSteps) \ {g}
  <2>1. Matches(call[g], c, StoreSteps) /\ ~Matches(Idle, c, StoreSteps)
    BY <1>2 DEF Matches, StoreSteps
  <2> QED BY <1>3, <1>5, <2>1, AtLoses DEF Budget
<1>7. Budget(c)'
  <2>1. At(c, {"announce"})' = At(c, {"announce"})
        /\ At(c, {"announce", "saveMeta"})' = At(c, {"announce", "saveMeta"})
    <3>1. ~Matches(call[g], c, {"announce"}) /\ ~Matches(Idle, c, {"announce"})
          /\ ~Matches(call[g], c, {"announce", "saveMeta"}) /\ ~Matches(Idle, c, {"announce", "saveMeta"})
      BY <1>2 DEF Matches
    <3> QED BY <1>3, <3>1, AtStays
  <2>2. IsFiniteSet(At(c, StoreSteps))'
    BY <1>5, <1>6, FS_Subset DEF Budget
  <2> QED BY <1>4, <1>5, <2>1, <2>2 DEF Budget
<1>8. Manifest(c)'
  <2>1. Matches(call[g], c, {"saveManifest"}) /\ ~Matches(Idle, c, {"saveManifest"})
    BY <1>2 DEF Matches
  <2>2. IsFiniteSet(At(c, {"saveManifest"})) /\ Cardinality(At(c, {"saveManifest"})) \in Nat
    BY <1>5, AtFinite DEF StoreSteps
  <2>3. Cardinality(At(c, {"saveManifest"}))' = Cardinality(At(c, {"saveManifest"})) - 1
    BY <1>3, <2>1, <2>2, AtLoses
  <2>4. IsChunked(c)
    <3>1. g \in At(c, {"saveManifest"})
      BY <1>2 DEF At
    <3> QED BY <1>5, <3>1 DEF Manifest
  <2>5. saved["content"][c].version - saved["manifest"][c].version = Cardinality(At(c, {"saveManifest"}))
    BY <1>5, <2>4, Zenon DEF Manifest
  <2>6. saved'["content"][c].version - saved'["manifest"][c].version = Cardinality(At(c, {"saveManifest"}))'
    BY <1>4, <1>5, <2>2, <2>3, <2>5
  <2> QED BY <2>4, <2>6, Zenon DEF Manifest, IsChunked
<1>9. Described(c)'
  <2> SUFFICES ASSUME c \notin overlapped
               PROVE  At(c, StoreSteps)' = {} /\ saved'["content"][c].by = localIndex'[c]
    BY <1>4 DEF Described
  <2>1. \A h : OnlyCall(c, h) => h = g
    BY <1>6 DEF OnlyCall
  <2>2. OnlyCall(c, g)
    BY <1>5, <1>6, <2>1 DEF Described
  <2> QED BY <1>2, <1>4, <1>6, <2>2 DEF OnlyCall
<1> QED BY <1>2, <1>3, <1>7, <1>8, <1>9, PutStep

------------------------------------------------------------------------------
(* RetrieveContent.                                                        *)

LEMMA StepGetMeta ==
    ASSUME IInv, NEW g \in Client, NEW c \in Content, GetMeta(g, c)
    PROVE  IInv'
<1> USE DEF IInv
<1>1. PICK step \in {"fetch", "search"} :
         /\ step = "fetch" => localIndex[c] # None /\ ~IsChunked(c)
         /\ call' = [call EXCEPT ![g] = [step |-> step, content |-> c]]
  <2>1. CASE localIndex[c] # None /\ ~IsChunked(c)
    BY <2>1, Zenon DEF GetMeta
  <2>2. CASE ~(localIndex[c] # None /\ ~IsChunked(c))
    BY <2>2, Zenon DEF GetMeta
  <2> QED BY <2>1, <2>2
<1> DEFINE v == [step |-> step, content |-> c]
<1>2. /\ call[g] = Idle /\ answer' = [answer EXCEPT ![g] = None]
      /\ UNCHANGED <<localIndex, localData, providers, saved, sinceCleanup, stores, panicked,
                     announced, overlapped>>
  BY DEF GetMeta
<1>3. v \in Calls /\ v.content = c /\ v.step = step
  BY CallIsRecord
<1>4. Moves(g, v)
  BY <1>1, <1>3 DEF Moves
<1> HIDE DEF v
<1>5. answer' \in [Client -> {None, "data", "error"}]
  BY <1>2 DEF Shape
<1>6. ASSUME v.step = "fetch" PROVE v.content \in localData
  <2>1. Hashes(c) \subseteq localData /\ ~IsChunked(c)
    BY <1>1, <1>3, <1>6 DEF HeldInv
  <2>2. Hashes(c) = {c}
    BY <2>1, Zenon DEF Hashes
  <2> QED BY <1>3, <2>1, <2>2
<1> QED BY <1>2, <1>3, <1>4, <1>5, <1>6, RetrieveStep

LEMMA StepGetChunk ==
    ASSUME IInv, NEW g \in Client, GetChunk(g)
    PROVE  IInv'
<1> USE DEF IInv
<1>1. /\ Doing(g, "fetch") /\ call[g] # Idle /\ call[g].step = "fetch" /\ call[g].content \in localData
  BY Underway DEF GetChunk, HeldInv
<1>2. /\ answer' = [answer EXCEPT ![g] = "data"] /\ Finish(g)
      /\ UNCHANGED <<localIndex, localData, providers, saved, sinceCleanup, stores, panicked,
                     announced, overlapped>>
  BY <1>1 DEF GetChunk
<1>3. Moves(g, Idle) /\ answer' \in [Client -> {None, "data", "error"}]
  BY <1>2 DEF Finish, Moves, Shape
<1> QED BY <1>1, <1>2, <1>3, RetrieveStep

LEMMA StepSearchDHT ==
    ASSUME IInv, NEW g \in Client, SearchDHT(g)
    PROVE  IInv'
<1> USE DEF IInv
<1>1. /\ call[g].step = "search" /\ answer' = [answer EXCEPT ![g] = "error"] /\ Finish(g)
      /\ UNCHANGED <<localIndex, localData, providers, saved, sinceCleanup, stores, panicked,
                     announced, overlapped>>
  BY DEF SearchDHT, Doing
<1>2. Moves(g, Idle) /\ answer' \in [Client -> {None, "data", "error"}]
  BY <1>1 DEF Finish, Moves, Shape
<1> QED BY <1>1, <1>2, RetrieveStep

------------------------------------------------------------------------------
(* Steps that leave the calls alone.                                       *)

LEMMA CallsKept ==
    ASSUME Shape, CountInv,
           UNCHANGED <<localIndex, saved, call, stores, overlapped>>,
           \A c \in Content : \A a \in Age :
               /\ \E b \in Age : providers'[c][a] = providers[c][b] \/ providers'[c][a] = 0
               /\ \E b \in Age : announced'[c][a] = announced[c][b] \/ announced'[c][a] = 0
    PROVE  CountInv'
<1> SUFFICES ASSUME NEW c \in Content
             PROVE  Budget(c)' /\ Manifest(c)' /\ Described(c)'
  BY DEF CountInv
<1>1. \A steps : At(c, steps)' = At(c, steps)
  BY DEF At
<1>2. Budget(c) /\ Manifest(c) /\ Described(c)
  BY DEF CountInv
<1>3. Budget(c)'
  <2>1. Cardinality(At(c, {"announce"})) \in Nat
    BY <1>2, AtFinite DEF StoreSteps
  <2>2. \A a \in Age : providers[c][a] \in Nat /\ announced[c][a] \in Nat
    BY DEF Shape
  <2>3. \A a \in Age : /\ providers'[c][a] + Cardinality(At(c, {"announce"})) <= stores
                        /\ announced'[c][a] + Cardinality(At(c, {"announce"})) <= stores
    <3> SUFFICES ASSUME NEW a \in Age
                 PROVE  /\ providers'[c][a] + Cardinality(At(c, {"announce"})) <= stores
                        /\ announced'[c][a] + Cardinality(At(c, {"announce"})) <= stores
      OBVIOUS
    <3>1. PICK b \in Age : providers'[c][a] = providers[c][b] \/ providers'[c][a] = 0
      OBVIOUS
    <3>2. PICK b2 \in Age : announced'[c][a] = announced[c][b2] \/ announced'[c][a] = 0
      OBVIOUS
    <3>3. \A x \in Nat, n \in Nat, m \in Nat : x + n <= m => 0 + n <= m
      OBVIOUS
    <3>4. stores \in Nat
      BY DEF Shape
    <3> QED BY <1>2, <2>1, <2>2, <3>1, <3>2, <3>3, <3>4 DEF Budget
  <2> QED BY <1>1, <1>2, <2>3 DEF Budget
<1>4. Manifest(c)'
  BY <1>1, <1>2, Zenon DEF Manifest, IsChunked
<1>5. Described(c)'
  BY <1>1, <1>2, Zenon DEF Described, OnlyCall
<1> QED BY <1>3, <1>4, <1>5

LEMMA StepTick == ASSUME IInv, Tick PROVE IInv'
<1> USE DEF IInv
<1>1. /\ sinceCleanup < CleanupInterval /\ sinceCleanup' = sinceCleanup + 1
      /\ providers' = [c \in Content |-> Older(providers[c])]
      /\ announced' = [c \in Content |-> Older(announced[c])]
      /\ UNCHANGED <<localIndex, localData, saved, call, answer, stores, panicked, overlapped>>
  BY DEF Tick
<1>2. /\ 0 \in Age /\ Age \subseteq Nat /\ 0..(ProviderTTL - 1) \subseteq Age
      /\ \A a \in Age : a # 0 => a - 1 \in Age
      /\ ProviderTTL \in Nat \ {0} /\ CleanupInterval \in Nat /\ sinceCleanup \in Nat
  BY ContentAssumption DEF Age, Limit, Shape
<1>3. ASSUME NEW c \in Content, NEW a \in Age
      PROVE  /\ providers'[c][a] = IF a = 0 THEN 0 ELSE providers[c][a - 1]
             /\ announced'[c][a] = IF a = 0 THEN 0 ELSE announced[c][a - 1]
  BY <1>1 DEF Older
<1>4. Shape'
  <2>1. ASSUME NEW list \in [Age -> Nat] PROVE Older(list) \in [Age -> Nat]
    BY <1>2 DEF Older
  <2>2. providers' \in [Content -> [Age -> Nat]] /\ announced' \in [Content -> [Age -> Nat]]
    BY <1>1, <2>1 DEF Shape
  <2>3. sinceCleanup' \in 0..CleanupInterval
    BY <1>1, <1>2
  <2> QED BY <1>1, <2>2, <2>3 DEF Shape
<1>5. CountInv'
  <2> SUFFICES ASSUME NEW c \in Content, NEW a \in Age
               PROVE  /\ \E b \in Age : providers'[c][a] = providers[c][b] \/ providers'[c][a] = 0
                      /\ \E b \in Age : announced'[c][a] = announced[c][b] \/ announced'[c][a] = 0
    BY <1>1, CallsKept
  <2>1. CASE a = 0
    BY <1>2, <1>3, <2>1
  <2>2. CASE a # 0
    BY <1>2, <1>3, <2>2
  <2> QED BY <2>1, <2>2
<1>6. HeldInv'
  BY <1>1 DEF HeldInv, Hashes, IsChunked, Offsets
<1>7. WindowInv'
  <2> SUFFICES ASSUME NEW c \in Content, NEW a \in Age
               PROVE  /\ a \in 0..(ProviderTTL - 1) => providers'[c][a] = announced'[c][a]
                      /\ a >= ProviderTTL + sinceCleanup + 1 => providers'[c][a] = 0
    BY <1>1, <1>2 DEF WindowInv
  <2>1. CASE a = 0
    BY <1>2, <1>3, <2>1
  <2>2. CASE a # 0
    <3>1. /\ a - 1 \in Age /\ providers'[c][a] = providers[c][a - 1] /\ announced'[c][a] = announced[c][a - 1]
      BY <1>2, <1>3, <2>2
    <3>2. /\ a \in 0..(ProviderTTL - 1) => a - 1 \in 0..(ProviderTTL - 1)
          /\ a >= ProviderTTL + sinceCleanup + 1 => a - 1 >= ProviderTTL + sinceCleanup
      BY <1>2, <2>2
    <3> QED BY <3>1, <3>2 DEF WindowInv
  <2> QED BY <2>1, <2>2
<1> QED BY <1>4, <1>5, <1>6, <1>7

LEMMA StepProviderCleanup == ASSUME IInv, ProviderCleanup PROVE IInv'
<1> USE DEF IInv
<1>1. /\ sinceCleanup' = 0 /\ providers' = [c \in Content |-> Active(providers[c])]
      /\ UNCHANGED <<localIndex, localData, saved, call, answer, stores, panicked, announced, overlapped>>
  BY DEF ProviderCleanup
<1>2. /\ Age \subseteq Nat /\ 0..(ProviderTTL - 1) \subseteq Age /\ ProviderTTL \in Nat
      /\ CleanupInterval \in Nat
  BY ContentAssumption DEF Age, Limit
<1>3. ASSUME NEW c \in Content, NEW a \in Age
      PROVE  providers'[c][a] = IF a < ProviderTTL THEN providers[c][a] ELSE 0
  BY <1>1 DEF Active
<1>4. Shape'
  <2>1. ASSUME NEW list \in [Age -> Nat] PROVE Active(list) \in [Age -> Nat]
    BY DEF Active
  <2>2. providers' \in [Content -> [Age -> Nat]]
    BY <1>1, <2>1 DEF Shape
  <2>3. sinceCleanup' \in 0..CleanupInterval
    BY <1>1, <1>2
  <2> QED BY <1>1, <2>2, <2>3 DEF Shape
<1>5. CountInv'
  <2> SUFFICES ASSUME NEW c \in Content, NEW a \in Age
               PROVE  /\ \E b \in Age : providers'[c][a] = providers[c][b] \/ providers'[c][a] = 0
                      /\ \E b \in Age : announced'[c][a] = announced[c][b] \/ announced'[c][a] = 0
    BY <1>1, CallsKept
  <2>1. announced'[c][a] = announced[c][a] /\ (providers'[c][a] = providers[c][a] \/ providers'[c][a] = 0)
    BY <1>1, <1>3
  <2> QED BY <2>1
<1>6. HeldInv'
  BY <1>1 DEF HeldInv, Hashes, IsChunked, Offsets
<1>7. WindowInv'
  <2> SUFFICES ASSUME NEW c \in Content, NEW a \in Age
               PROVE  /\ a \in 0..(ProviderTTL - 1) => providers'[c][a] = announced'[c][a]
                      /\ a >= ProviderTTL => providers'[c][a] = 0
    BY <1>1, <1>2 DEF WindowInv
  <2>1. a < ProviderTTL \/ a >= ProviderTTL
    BY <1>2
  <2> QED BY <1>1, <1>2, <1>3, <2>1 DEF WindowInv
<1> QED BY <1>4, <1>5, <1>6, <1>7

\* A crash of the process, and steps of other parts of the system.
LEMMA StepIdle ==
    ASSUME IInv, panicked' \in BOOLEAN,
           UNCHANGED <<localIndex, localData, providers, saved, call, answer, sinceCleanup, stores,
                       announced, overlapped>>
    PROVE  IInv'
<1> USE DEF IInv
<1>1. Shape' /\ WindowInv'
  BY DEF Shape, WindowInv
<1>2. CountInv'
  <2>1. \A c \in Content : \A a \in Age :
          /\ \E b \in Age : providers'[c][a] = providers[c][b] \/ providers'[c][a] = 0
          /\ \E b \in Age : announced'[c][a] = announced[c][b] \/ announced'[c][a] = 0
    OBVIOUS
  <2> QED BY <2>1, CallsKept
<1>3. HeldInv'
  BY DEF HeldInv, Hashes, IsChunked, Offsets
<1> QED BY <1>1, <1>2, <1>3

LEMMA Inductive == IInv /\ [Next]_vars => IInv'
<1> SUFFICES ASSUME IInv, [Next]_vars PROVE IInv'
  OBVIOUS
<1>1. CASE UNCHANGED vars
  BY <1>1, StepIdle DEF vars, IInv, Shape
<1>2. CASE Tick
  BY <1>2, StepTick
<1>3. CASE ProviderCleanup
  BY <1>3, StepProviderCleanup
<1>4. ASSUME NEW g \in Client, StoreContent(g) PROVE IInv'
  BY <1>4, StepStore, StepAnnounceContent, StepSaveMeta, StepSaveManifest DEF StoreContent
<1>5. ASSUME NEW g \in Client, RetrieveContent(g) PROVE IInv'
  <2>1. CASE SliceTooShort(g)
    <3>1. panicked' \in BOOLEAN
      BY <2>1, Zenon DEF SliceTooShort
    <3> QED BY <2>1, <3>1, StepIdle DEF SliceTooShort
  <2> QED BY <1>5, <2>1, StepGetMeta, StepGetChunk, StepSearchDHT DEF RetrieveContent
<1> QED BY <1>1, <1>2, <1>3, <1>4, <1>5 DEF Next

THEOREM InductiveInvariant == Spec => []IInv
BY InvInit, Inductive, PTL DEF Spec

------------------------------------------------------------------------------
(* splitIntoChunks: what Offsets and ChunkLength return.                   *)

LEMMA MultipleBelow ==
    ASSUME NEW n \in Nat, NEW k \in Nat \ {0}
    PROVE  n - (n % k) \in 0..n /\ (n - (n % k)) % k = 0 /\ n < n - (n % k) + k
<1>1. n % k \in 0..(k - 1) /\ n \div k \in Nat /\ n = k * (n \div k) + (n % k)
  OBVIOUS
<1>2. (k * (n \div k)) % k = 0 /\ k * (n \div k) \in Nat
  BY <1>1
<1>3. n - (n % k) = k * (n \div k)
  BY <1>1, <1>2
<1> QED BY <1>1, <1>2, <1>3

LEMMA MultiplesApart ==
    ASSUME NEW m \in Nat, NEW n \in Nat, NEW k \in Nat \ {0}, m % k = 0, n % k = 0, m < n
    PROVE  m + k <= n
<1>1. m \div k \in Nat /\ n \div k \in Nat /\ m = k * (m \div k) /\ n = k * (n \div k)
  OBVIOUS
<1>2. PICK q \in Nat, r \in Nat : m = k * q /\ n = k * r
  BY <1>1
<1>3. q < r
  BY <1>2
<1>4. k * (r - q) >= k
  BY <1>3
<1> QED BY <1>2, <1>4

LEMMA MinOfTwo ==
    ASSUME NEW m \in Nat, NEW n \in Nat
    PROVE  Min({m, n}) = IF m <= n THEN m ELSE n
BY DEF Min

LEMMA ChunkLengths ==
    ASSUME NEW c \in Content, NEW o \in Offsets(c)
    PROVE  /\ o \in Nat /\ o < Bytes[c] /\ o % ChunkSize = 0 /\ Bytes[c] \in Nat
           /\ ChunkSize \in Nat \ {0}
           /\ ChunkLength(c, o) = IF ChunkSize <= Bytes[c] - o THEN ChunkSize ELSE Bytes[c] - o
<1>1. /\ o \in Nat /\ o < Bytes[c] /\ o % ChunkSize = 0 /\ Bytes[c] \in Nat /\ ChunkSize \in Nat \ {0}
  BY ContentAssumption DEF Offsets
<1>2. Bytes[c] - o \in Nat
  BY <1>1
<1> QED BY <1>1, <1>2, MinOfTwo DEF ChunkLength

\* The chunks of a content are its bytes, cut into pieces.
LEMMA ChunksTile ==
    ASSUME NEW c \in Content
    PROVE  /\ \A o \in Offsets(c) : ChunkLength(c, o) \in 1..ChunkSize
           /\ UNION {Chunk(c, o) : o \in Offsets(c)} = 0..(Bytes[c] - 1)
           /\ \A o, p \in Offsets(c) : o # p => Chunk(c, o) \cap Chunk(c, p) = {}
<1>1. ASSUME NEW o \in Offsets(c) PROVE ChunkLength(c, o) \in 1..ChunkSize
  BY ChunkLengths
<1>2. ASSUME NEW o \in Offsets(c), NEW i \in Chunk(c, o)
      PROVE  i \in 0..(Bytes[c] - 1) /\ o <= i /\ i < o + ChunkSize
  BY ChunkLengths DEF Chunk
<1>3. ASSUME NEW i \in 0..(Bytes[c] - 1)
      PROVE  \E o \in Offsets(c) : i \in Chunk(c, o)
  <2>1. i \in Nat /\ ChunkSize \in Nat \ {0} /\ Bytes[c] \in Nat
    BY ContentAssumption
  <2> DEFINE o == i - (i % ChunkSize)
  <2>2. o \in 0..i /\ o % ChunkSize = 0 /\ i < o + ChunkSize
    BY <2>1, MultipleBelow
  <2> HIDE DEF o
  <2>3. o \in Offsets(c)
    BY <2>1, <2>2 DEF Offsets
  <2>4. i \in Chunk(c, o)
    BY <2>1, <2>2, <2>3, ChunkLengths DEF Chunk
  <2> QED BY <2>3, <2>4
<1>4. ASSUME NEW o \in Offsets(c), NEW p \in Offsets(c), o < p
      PROVE  Chunk(c, o) \cap Chunk(c, p) = {}
  <2>1. o + ChunkSize <= p
    BY <1>4, ChunkLengths, MultiplesApart
  <2> SUFFICES ASSUME NEW i \in Chunk(c, o), i \in Chunk(c, p) PROVE FALSE
    OBVIOUS
  <2>2. i < o + ChunkSize /\ p <= i /\ i \in Nat /\ o \in Nat /\ p \in Nat /\ ChunkSize \in Nat
    BY <1>2, ChunkLengths
  <2> QED BY <2>1, <2>2
<1>5. \A o, p \in Offsets(c) : o # p => o < p \/ p < o
  BY ChunkLengths
<1>6. \A o, p \in Offsets(c) : o # p => Chunk(c, o) \cap Chunk(c, p) = {}
  BY <1>4, <1>5
<1>7. UNION {Chunk(c, o) : o \in Offsets(c)} = 0..(Bytes[c] - 1)
  BY <1>2, <1>3
<1> QED BY <1>1, <1>6, <1>7

------------------------------------------------------------------------------
(* The theorems.                                                           *)

\* The variables keep their types, and no counter outgrows the calls made.
THEOREM ContentTypeOK == Spec => []TypeOK
<1>1. ASSUME IInv PROVE TypeOK
  <2> USE <1>1 DEF IInv
  <2>1. ASSUME NEW c \in Content
        PROVE  /\ saved["content"][c].version \in 0..MaxStores
               /\ saved["manifest"][c].version \in 0..MaxStores
               /\ \A a \in Age : providers[c][a] \in 0..MaxStores /\ announced[c][a] \in 0..MaxStores
    <3>1. Budget(c) /\ Manifest(c) /\ stores \in 0..MaxStores /\ MaxStores \in Nat
          /\ saved["content"][c].version \in Nat /\ saved["manifest"][c].version \in Nat
      BY ContentAssumption DEF CountInv, Shape
    <3>2. /\ Cardinality(At(c, {"announce", "saveMeta"})) \in Nat
          /\ Cardinality(At(c, {"announce"})) \in Nat /\ Cardinality(At(c, {"saveManifest"})) \in Nat
      BY <3>1, AtFinite DEF StoreSteps
    <3>3. saved["content"][c].version \in 0..MaxStores
      BY <3>1, <3>2 DEF Budget
    <3>4. saved["manifest"][c].version <= saved["content"][c].version
      BY <3>1, <3>2 DEF Manifest
    <3>5. \A a \in Age : providers[c][a] \in Nat /\ announced[c][a] \in Nat
      BY DEF Shape
    <3> QED BY <3>1, <3>2, <3>3, <3>4, <3>5 DEF Budget
  <2>2. providers \in [Content -> [Age -> 0..MaxStores]] /\ announced \in [Content -> [Age -> 0..MaxStores]]
    BY <2>1 DEF Shape
  <2>3. saved \in [{"content", "manifest"} ->
                      [Content -> [version : 0..MaxStores, by : Client \cup {None}]]]
    <3>1. ASSUME NEW t \in {"content", "manifest"}, NEW c \in Content
          PROVE  saved[t][c] \in [version : 0..MaxStores, by : Client \cup {None}]
      <4>1. saved[t][c].version \in 0..MaxStores
        BY <2>1
      <4>2. saved[t][c] \in [version : Nat, by : Client \cup {None}]
        BY DEF Shape
      <4> QED BY <4>1, <4>2
    <3>2. ASSUME NEW t \in {"content", "manifest"}
          PROVE  saved[t] \in [Content -> [version : 0..MaxStores, by : Client \cup {None}]]
      <4>1. saved[t] \in [Content -> [version : Nat, by : Client \cup {None}]]
        BY DEF Shape
      <4> QED BY <3>1, <4>1
    <3> QED BY <3>2 DEF Shape
  <2> QED BY <2>2, <2>3 DEF TypeOK, Shape
<1> QED BY <1>1, InductiveInvariant, PTL

\* What the local store describes it holds, to the last byte.
THEOREM LocalContentIsComplete == Spec => []LocalContentComplete
<1>1. ASSUME IInv PROVE LocalContentComplete
  BY <1>1, ChunksTile DEF IInv, HeldInv, LocalContentComplete
<1> QED BY <1>1, InductiveInvariant, PTL

\* The registry neither loses a young announcement nor keeps an old one.
THEOREM RegistryKeepsWindow == Spec => []ProvidersInWindow
<1>1. ASSUME IInv PROVE ProvidersInWindow
  <2>1. Limit \in Age /\ Limit >= ProviderTTL + sinceCleanup
    BY <1>1, ContentAssumption DEF IInv, Shape, Age, Limit
  <2> QED BY <1>1, <2>1 DEF IInv, WindowInv, ProvidersInWindow
<1> QED BY <1>1, InductiveInvariant, PTL

\* PersistContent never leaves a manifest without its metadata, and metadata
\* without its manifest only while it runs.
THEOREM ManifestAfterMeta == Spec => []ManifestFollowsMeta
<1>1. ASSUME IInv PROVE ManifestFollowsMeta
  <2> SUFFICES ASSUME NEW c \in Content
               PROVE  saved["content"][c].version - saved["manifest"][c].version =
                         IF IsChunked(c)
                         THEN Cardinality({g \in Storing(c) : call[g].step = "saveManifest"})
                         ELSE saved["content"][c].version
    BY Zenon DEF ManifestFollowsMeta
  <2>1. Manifest(c) /\ saved["content"][c].version \in Nat
    BY <1>1 DEF IInv, CountInv, Shape
  <2>2. CASE IsChunked(c)
    BY <2>1, <2>2, StoringIsAt, Zenon DEF Manifest
  <2>3. CASE ~IsChunked(c)
    <3>1. saved["content"][c].version - saved["manifest"][c].version = saved["content"][c].version
      BY <2>1, <2>3 DEF Manifest
    <3> QED BY <2>3, <3>1, Zenon
  <2> QED BY <2>2, <2>3
<1> QED BY <1>1, InductiveInvariant, PTL

\* Memory and engine agree on who described a content last, unless two calls
\* described it at the same time.
THEOREM EngineAgreesWithMemory == Spec => []SavedDescribesLocal
<1>1. ASSUME IInv PROVE SavedDescribesLocal
  <2> SUFFICES ASSUME NEW c \in Content, Storing(c) = {}, c \notin overlapped
               PROVE  saved["content"][c].by = localIndex[c]
    BY DEF SavedDescribesLocal
  <2>1. At(c, StoreSteps) = {} /\ Described(c)
    BY <1>1, StoringIsAt DEF IInv, CountInv
  <2> QED BY <2>1 DEF Described, OnlyCall
<1> QED BY <1>1, InductiveInvariant, PTL

\* Between the two critical sections of a local read nothing takes the bytes
\* away.
THEOREM MetadataMeansBytes == Spec => MetaMeansBytes
<1>1. ASSUME IInv, [Next]_vars, NEW g \in Client, Doing(g, "fetch"), call'[g] # call[g]
      PROVE  answer'[g] = "data"
  <2> USE <1>1 DEF IInv
  <2>1. call[g] # Idle /\ call[g].step = "fetch" /\ call[g].content \in localData
    BY Underway DEF HeldInv
  <2>2. Next
    BY DEF vars
  <2>3. ASSUME NEW h \in Client, NEW v, call' = [call EXCEPT ![h] = v] PROVE h = g
    BY <2>3 DEF Shape
  <2>4. PICK h \in Client : StoreContent(h) \/ RetrieveContent(h)
    BY <2>2 DEF Next, Tick, ProviderCleanup
  <2>5. h = g
    <3>1. CASE SliceTooShort(h)
      BY <3>1 DEF SliceTooShort
    <3>2. CASE \E c \in Content : Store(h, c)
      BY <2>3, <3>2 DEF Store
    <3>3. CASE \E c \in Content : GetMeta(h, c)
      BY <2>3, <3>3 DEF GetMeta
    <3>4. CASE AnnounceContent(h) \/ SaveMeta(h) \/ SaveManifest(h) \/ GetChunk(h) \/ SearchDHT(h)
      BY <2>3, <3>4 DEF AnnounceContent, SaveMeta, SaveManifest, GetChunk, SearchDHT, Goto, Finish
    <3> QED BY <2>4, <3>1, <3>2, <3>3, <3>4 DEF StoreContent, RetrieveContent
  <2>6. GetChunk(g)
    BY <2>1, <2>4, <2>5, <1>1 DEF StoreContent, RetrieveContent, Store, AnnounceContent, SaveMeta, SaveManifest,
       GetMeta, SearchDHT, SliceTooShort, Doing
  <2> QED BY <2>1, <2>6 DEF GetChunk, Shape
<1>2. ASSUME IInv, [Next]_vars
      PROVE  [\A g \in Client : Doing(g, "fetch") /\ call'[g] # call[g] => answer'[g] = "data"]_vars
  BY <1>1, <1>2
<1> QED BY <1>2, InductiveInvariant, PTL DEF MetaMeansBytes, Spec

------------------------------------------------------------------------------
(* Publisher: the inductive invariant.                                     *)

PublishShape == task \in [Task -> {"lookup", "sending", "failing", "done"}]
             /\ DOMAIN sending = Task /\ count \in [Task -> Nat] /\ DOMAIN replicas = Task
             /\ errs \in Nat /\ warnings \in Nat

\* Only a task whose sends are under way stores anything; it counts exactly when
\* it stores, and reports only what it did not store.
TaskInv ==
    \A t \in Task :
        /\ sending[t] # {} => task[t] = "sending"
        /\ count[t] = 0 <=> replicas[t] = {}
        /\ task[t] \in {"lookup", "failing"} => replicas[t] = {}

\* What was lost is in the channel or has been drained, and publish does not
\* touch the channel before every task is done.
Lost == {t \in Task : task[t] = "done" /\ replicas[t] = {}}
ReportInv ==
    /\ errs + warnings = Cardinality(Lost)
    /\ pub # "waiting" => \A t \in Task : task[t] = "done"
    /\ pub = "returned" => errs = 0

PublishIInv == PublishShape /\ TaskInv /\ ReportInv

------------------------------------------------------------------------------
(* The steps of publish and its goroutines.                                *)

LEMMA LostIsFinite == IsFiniteSet(Lost)
<1>1. Lost \subseteq Task
  BY DEF Lost
<1> QED BY <1>1, PublisherAssumption, FS_Subset

LEMMA PublishInvInit == PublishInit => PublishIInv
<1> SUFFICES ASSUME PublishInit PROVE PublishIInv
  OBVIOUS
<1>1. Lost = {} /\ Cardinality(Lost) = 0
  <2>1. Lost = {}
    BY DEF PublishInit, Lost
  <2> QED BY <2>1, FS_EmptySet
<1>2. PublishShape
  BY DEF PublishInit, PublishShape
<1>3. TaskInv
  BY DEF PublishInit, TaskInv
<1> QED BY <1>1, <1>2, <1>3 DEF PublishInit, PublishIInv, ReportInv

\* A step of a task that is not done, and does not become done with nothing stored.
LEMMA LostKept ==
    ASSUME ReportInv, NEW t \in Task, task[t] # "done",
           UNCHANGED <<errs, warnings, pub>>,
           \A u \in Task \ {t} : task'[u] = task[u] /\ replicas'[u] = replicas[u],
           ~(task'[t] = "done" /\ replicas'[t] = {})
    PROVE  ReportInv'
<1>1. Lost' = Lost
  BY DEF Lost
<1>2. pub = "waiting"
  BY DEF ReportInv
<1> QED BY <1>1, <1>2 DEF ReportInv

LEMMA StepLookupFails == ASSUME PublishIInv, NEW t \in Task, LookupFails(t) PROVE PublishIInv'
<1> USE DEF PublishIInv
<1>1. task[t] = "lookup" /\ task' = [task EXCEPT ![t] = "failing"]
      /\ UNCHANGED <<targets, sending, count, replicas, errs, warnings, pub>>
  BY DEF LookupFails, Advance
<1>2. PublishShape'
  BY <1>1 DEF PublishShape
<1>3. TaskInv'
  BY <1>1 DEF PublishShape, TaskInv
<1>4. ReportInv'
  BY <1>1, LostKept DEF PublishShape
<1> QED BY <1>2, <1>3, <1>4

LEMMA StepChooseTargets == ASSUME PublishIInv, NEW t \in Task, ChooseTargets(t) PROVE PublishIInv'
<1> USE DEF PublishIInv
<1>1. /\ task[t] = "lookup" /\ task' = [task EXCEPT ![t] = "sending"]
      /\ \A u \in Task \ {t} : sending'[u] = sending[u]
      /\ DOMAIN sending' = Task
      /\ UNCHANGED <<count, replicas, errs, warnings, pub>>
  BY DEF ChooseTargets, Advance, PublishShape
<1>2. PublishShape'
  BY <1>1 DEF PublishShape
<1>3. TaskInv'
  BY <1>1 DEF PublishShape, TaskInv
<1>4. ReportInv'
  BY <1>1, LostKept DEF PublishShape
<1> QED BY <1>2, <1>3, <1>4

LEMMA StepSendStore ==
    ASSUME PublishIInv, NEW t \in Task, NEW i \in sending[t], SendStore(t, i)
    PROVE  PublishIInv'
<1> USE DEF PublishIInv
<1>1. /\ sending' = [sending EXCEPT ![t] = @ \ {i}]
      /\ UNCHANGED <<task, errs, warnings, pub>>
      /\ task[t] = "sending"
  BY DEF SendStore, TaskInv
<1>2. \/ count' = [count EXCEPT ![t] = @ + 1]
         /\ replicas' = [replicas EXCEPT ![t] = @ \cup {targets[t][i]}]
      \/ UNCHANGED <<count, replicas>>
  BY DEF SendStore
<1>3. PublishShape'
  BY <1>1, <1>2 DEF PublishShape
<1>4. TaskInv'
  <2> SUFFICES ASSUME NEW u \in Task
               PROVE  /\ sending'[u] # {} => task'[u] = "sending"
                      /\ count'[u] = 0 <=> replicas'[u] = {}
                      /\ task'[u] \in {"lookup", "failing"} => replicas'[u] = {}
    BY DEF TaskInv
  <2>1. CASE u # t
    BY <1>1, <1>2, <2>1 DEF PublishShape, TaskInv
  <2>2. CASE u = t
    <3>1. (count'[t] = count[t] + 1 /\ replicas'[t] # {}) \/ (count'[t] = count[t] /\ replicas'[t] = replicas[t])
      BY <1>2 DEF PublishShape
    <3>2. count[t] \in Nat
      BY DEF PublishShape
    <3> QED BY <1>1, <2>2, <3>1, <3>2 DEF TaskInv
  <2> QED BY <2>1, <2>2
<1>5. ReportInv'
  BY <1>1, <1>2, LostKept DEF PublishShape
<1> QED BY <1>3, <1>4, <1>5

LEMMA StepAllSent == ASSUME PublishIInv, NEW t \in Task, AllSent(t) PROVE PublishIInv'
<1> USE DEF PublishIInv
<1>1. /\ sending[t] = {} /\ task[t] = "sending"
      /\ task' = [task EXCEPT ![t] = IF count[t] = 0 THEN "failing" ELSE "done"]
      /\ UNCHANGED <<sending, count, replicas, errs, warnings, pub>>
  BY DEF AllSent, Advance
<1>2. PublishShape'
  BY <1>1 DEF PublishShape
<1>3. TaskInv'
  BY <1>1 DEF PublishShape, TaskInv
<1>4. ~(task'[t] = "done" /\ replicas'[t] = {})
  BY <1>1 DEF PublishShape, TaskInv
<1>5. ReportInv'
  BY <1>1, <1>4, LostKept DEF PublishShape
<1> QED BY <1>2, <1>3, <1>5

LEMMA StepReportError == ASSUME PublishIInv, NEW t \in Task, ReportError(t) PROVE PublishIInv'
<1> USE DEF PublishIInv
<1>1. /\ task[t] = "failing" /\ task' = [task EXCEPT ![t] = "done"]
      /\ errs' = errs + 1
      /\ UNCHANGED <<sending, count, replicas, warnings, pub>>
  BY DEF ReportError, Advance
<1>2. PublishShape'
  BY <1>1 DEF PublishShape
<1>3. TaskInv'
  BY <1>1 DEF PublishShape, TaskInv
<1>4. Lost' = Lost \cup {t} /\ t \notin Lost
  BY <1>1 DEF PublishShape, TaskInv, Lost
<1>5. Cardinality(Lost') = Cardinality(Lost) + 1
  BY <1>4, LostIsFinite, FS_AddElement
<1>6. ReportInv'
  <2>1. errs' + warnings' = Cardinality(Lost')
    BY <1>1, <1>5 DEF PublishShape, ReportInv
  <2>2. pub = "waiting" /\ pub' = pub
    BY <1>1 DEF ReportInv
  <2> QED BY <2>1, <2>2 DEF ReportInv
<1> QED BY <1>2, <1>3, <1>6

LEMMA StepPublish == ASSUME PublishIInv, AllDone \/ Drain \/ Return PROVE PublishIInv'
<1> USE DEF PublishIInv
<1>1. UNCHANGED <<task, sending, count, replicas>>
  BY DEF AllDone, Drain, Return
<1>2. errs' \in Nat /\ warnings' \in Nat /\ errs' + warnings' = errs + warnings
  BY DEF AllDone, Drain, Return, PublishShape
<1>3. PublishShape' /\ TaskInv'
  BY <1>1, <1>2 DEF PublishShape, TaskInv
<1>4. Lost' = Lost
  BY <1>1 DEF Lost
<1>5. ReportInv'
  BY <1>1, <1>2, <1>4 DEF AllDone, Drain, Return, ReportInv
<1> QED BY <1>3, <1>5

LEMMA PublishInductive == PublishIInv /\ [PublishNext]_publishVars => PublishIInv'
<1> SUFFICES ASSUME PublishIInv, [PublishNext]_publishVars PROVE PublishIInv'
  OBVIOUS
<1>1. CASE UNCHANGED publishVars
  BY <1>1 DEF publishVars, PublishIInv, PublishShape, TaskInv, ReportInv, Lost
<1> QED BY <1>1, StepLookupFails, StepChooseTargets, StepSendStore, StepAllSent,
           StepReportError, StepPublish DEF PublishNext

\* The inductive invariant of publish holds in every reachable state.
THEOREM PublishInductiveInvariant == PublishSpec => []PublishIInv
BY PublishInvInit, PublishInductive, PTL DEF PublishSpec

\* However the goroutines of a content interleave and whatever the capacity of the
\* channel, publish that returns has warned once for each object it did not store.
THEOREM EveryLossIsReported == PublishSpec => []EveryLossReported
<1>1. PublishIInv => EveryLossReported
  <2> SUFFICES ASSUME PublishIInv, pub = "returned"
               PROVE  warnings = Cardinality({t \in Task : replicas[t] = {}})
    BY DEF EveryLossReported
  <2>1. \A t \in Task : task[t] = "done"
    BY DEF PublishIInv, ReportInv
  <2>2. Lost = {t \in Task : replicas[t] = {}}
    BY <2>1 DEF Lost
  <2>3. errs = 0 /\ warnings = Cardinality(Lost)
    BY DEF PublishIInv, PublishShape, ReportInv
  <2> QED BY <2>2, <2>3
<1> QED BY <1>1, PublishInductiveInvariant, PTL

------------------------------------------------------------------------------
(* Publisher: what the capacity of the channel means.                      *)

\* A worker sends into a channel that is full, and publish does not drain it
\* before that worker is done.
Stuck == pub = "waiting" /\ errs = ErrCap /\ \E t \in Task : task[t] = "failing"

\* What was ever sent into the channel fitted at once: publish drains it late.
CapacityInv ==
    /\ errs + warnings <= ErrCap
    /\ pub = "waiting" => warnings = 0

LEMMA CapacityInductive ==
    ASSUME PublishIInv, CapacityInv, [PublishNext]_publishVars
    PROVE  CapacityInv'
<1>0. errs \in Nat /\ warnings \in Nat /\ ErrCap \in Nat
  BY PublisherAssumption DEF PublishIInv, PublishShape
<1>1. ASSUME NEW t \in Task, ReportError(t) PROVE CapacityInv'
  <2>1. pub = "waiting"
    BY <1>1 DEF ReportError, Advance, PublishIInv, ReportInv
  <2> QED BY <1>0, <1>1, <2>1 DEF ReportError, CapacityInv
<1>2. ASSUME UNCHANGED <<errs, warnings, pub>> PROVE CapacityInv'
  BY <1>2 DEF CapacityInv
<1>3. CASE AllDone \/ Drain \/ Return
  BY <1>0, <1>3 DEF AllDone, Drain, Return, CapacityInv
<1>4. CASE (\E t \in Task : LookupFails(t) \/ ChooseTargets(t) \/ AllSent(t)
                \/ \E i \in sending[t] : SendStore(t, i)) \/ UNCHANGED publishVars
  BY <1>2, <1>4 DEF LookupFails, ChooseTargets, AllSent, SendStore, publishVars
<1> QED BY <1>1, <1>3, <1>4 DEF PublishNext

LEMMA CapacityInvariant == PublishSpec => []CapacityInv
<1>1. PublishInit => CapacityInv
  BY PublisherAssumption DEF PublishInit, CapacityInv
<1>2. PublishIInv /\ CapacityInv /\ [PublishNext]_publishVars => CapacityInv'
  BY CapacityInductive
<1> QED BY <1>1, <1>2, PublishInductiveInvariant, PTL DEF PublishSpec

\* publish gets past its Wait only if no more objects were lost than the channel
\* holds: with one more it never returns, and none of them is reported.
THEOREM ReturnsWithinCapacity ==
    PublishSpec => [](pub # "waiting" => Cardinality({t \in Task : replicas[t] = {}}) <= ErrCap)
<1>1. ASSUME PublishIInv, CapacityInv, pub # "waiting"
      PROVE  Cardinality({t \in Task : replicas[t] = {}}) <= ErrCap
  <2>1. {t \in Task : replicas[t] = {}} = Lost
    BY <1>1 DEF PublishIInv, ReportInv, Lost
  <2> QED BY <1>1, <2>1 DEF PublishIInv, ReportInv, CapacityInv
<1> QED BY <1>1, PublishInductiveInvariant, CapacityInvariant, PTL

\* A channel with room for every object never blocks a worker.
THEOREM RoomForAllSuffices ==
    ASSUME Cardinality(Task) <= ErrCap
    PROVE  PublishSpec => []~Stuck
<1>1. ASSUME PublishIInv, CapacityInv PROVE ~Stuck
  <2> SUFFICES ASSUME pub = "waiting", errs = ErrCap, NEW t \in Task, task[t] = "failing"
               PROVE  FALSE
    BY DEF Stuck
  <2>1. Cardinality(Lost) = ErrCap
    BY <1>1 DEF PublishIInv, PublishShape, ReportInv, CapacityInv
  <2>2. Lost \subseteq Task \ {t}
    BY DEF Lost
  <2>3. IsFiniteSet(Task \ {t}) /\ Cardinality(Task \ {t}) = Cardinality(Task) - 1
        /\ Cardinality(Task) \in Nat
    BY PublisherAssumption, FS_RemoveElement, FS_CardinalityType
  <2>4. Cardinality(Lost) <= Cardinality(Task \ {t})
    BY <2>2, <2>3, FS_Subset
  <2>5. Cardinality(Lost) <= Cardinality(Task) - 1 /\ ErrCap \in Nat
    BY <2>3, <2>4, PublisherAssumption
  <2> QED BY <2>1, <2>3, <2>5
<1> QED BY <1>1, PublishInductiveInvariant, CapacityInvariant, PTL

\* A worker that blocks there blocks for good, and publish with it: no step of
\* any other worker makes room.
THEOREM StuckForGood == PublishSpec => [][Stuck => Stuck']_publishVars
<1>1. ASSUME PublishIInv, [PublishNext]_publishVars PROVE [Stuck => Stuck']_publishVars
  <2> SUFFICES ASSUME Stuck PROVE Stuck'
    OBVIOUS
  <2>0. DOMAIN task = Task /\ errs \in Nat /\ ErrCap \in Nat
    BY <1>1, PublisherAssumption DEF PublishIInv, PublishShape
  <2>1. PICK t \in Task : task[t] = "failing"
    BY DEF Stuck
  <2>2. ASSUME UNCHANGED <<errs, pub>>, task'[t] = "failing" PROVE Stuck'
    BY <2>2 DEF Stuck
  <2>3. ASSUME NEW u \in Task, LookupFails(u) PROVE Stuck'
    BY <2>0, <2>1, <2>2, <2>3 DEF LookupFails, Advance
  <2>4. ASSUME NEW u \in Task, ChooseTargets(u) \/ AllSent(u) PROVE Stuck'
    <3>1. \E from \in {"lookup", "sending"} : \E to : Advance(u, from, to)
      BY <2>4 DEF ChooseTargets, AllSent
    <3>2. u # t /\ task'[t] = task[t]
      BY <2>0, <2>1, <3>1 DEF Advance
    <3> QED BY <2>1, <2>2, <2>4, <3>2 DEF ChooseTargets, AllSent
  <2>5. ASSUME NEW u \in Task, ReportError(u) PROVE Stuck'
    BY <2>0, <2>5 DEF ReportError, Stuck
  <2>6. ASSUME NEW u \in Task, NEW i \in sending[u], SendStore(u, i) PROVE Stuck'
    BY <2>1, <2>2, <2>6 DEF SendStore
  <2>7. CASE AllDone \/ Drain \/ Return
    BY <2>1, <2>7 DEF AllDone, Drain, Return, Stuck
  <2>8. CASE UNCHANGED publishVars
    BY <2>1, <2>2, <2>8 DEF publishVars
  <2> QED BY <1>1, <2>3, <2>4, <2>5, <2>6, <2>7, <2>8 DEF PublishNext
<1> QED BY <1>1, PublishInductiveInvariant, PTL DEF PublishSpec

------------------------------------------------------------------------------
(* Publisher: what of its termination is a matter of single steps.         *)

Undone == {t \in Task : task[t] # "done"}
Ahead == {t \in Task : task[t] \in {"lookup", "sending"}}
Choosing == {t \in Task : task[t] = "lookup"}
Unsent == {x \in Task \X (1..ReplicationK) : task[x[1]] = "lookup" \/ x[2] \in sending[x[1]]}

TasksAdvance ==
    /\ Undone' \subseteq Undone /\ Ahead' \subseteq Ahead
    /\ Choosing' \subseteq Choosing /\ Unsent' \subseteq Unsent
    /\ \/ Undone' # Undone \/ Ahead' # Ahead
       \/ Choosing' # Choosing \/ Unsent' # Unsent

\* Tasks come first, then publish, then what it drains.
PublishAdvances ==
    \/ TasksAdvance
    \/ /\ UNCHANGED <<task, sending>>
       /\ \/ <<pub, pub'>> \in {<<"waiting", "draining">>, <<"draining", "returned">>}
          \/ pub' = pub /\ errs' < errs

SendsWithinK == \A t \in Task : sending[t] \subseteq 1..ReplicationK

LEMMA WorkIsFinite == IsFiniteSet(Undone) /\ IsFiniteSet(Ahead) /\ IsFiniteSet(Choosing) /\ IsFiniteSet(Unsent)
<1>1. Undone \subseteq Task /\ Ahead \subseteq Task /\ Choosing \subseteq Task
      /\ Unsent \subseteq Task \X (1..ReplicationK)
  BY DEF Undone, Ahead, Choosing, Unsent
<1>2. IsFiniteSet(1..ReplicationK) /\ IsFiniteSet(Task)
  BY FS_Interval, PublisherAssumption
<1>3. IsFiniteSet(Task \X (1..ReplicationK))
  BY <1>2, FS_Product
<1> QED BY <1>1, <1>2, <1>3, FS_Subset

LEMMA FirstKWithinK ==
    ASSUME NEW r \in LookupResults
    PROVE  DOMAIN FirstK(r) \subseteq 1..ReplicationK
<1>1. r \in Seq(Node) /\ ReplicationK \in Nat /\ Len(r) \in Nat
  BY PublisherAssumption
<1>2. CASE Len(r) > ReplicationK
  <2>1. FirstK(r) = SubSeq(r, 1, ReplicationK)
    BY <1>2 DEF FirstK
  <2>2. DOMAIN SubSeq(r, 1, ReplicationK) = 1..ReplicationK
    BY <1>1, <1>2
  <2> QED BY <2>1, <2>2
<1>3. CASE ~(Len(r) > ReplicationK)
  BY <1>1, <1>3 DEF FirstK
<1> QED BY <1>2, <1>3

LEMMA SendsStep ==
    ASSUME PublishIInv, SendsWithinK, [PublishNext]_publishVars
    PROVE  SendsWithinK'
<1>0. DOMAIN sending = Task
  BY DEF PublishIInv, PublishShape
<1>1. ASSUME NEW t \in Task, ChooseTargets(t) PROVE SendsWithinK'
  <2>1. PICK r \in LookupResults :
            sending' = [sending EXCEPT ![t] = {i \in DOMAIN FirstK(r) : FirstK(r)[i] # Self}]
    BY <1>1 DEF ChooseTargets
  <2> QED BY <1>0, <2>1, FirstKWithinK DEF SendsWithinK
<1>2. ASSUME NEW t \in Task, NEW i \in sending[t], SendStore(t, i) PROVE SendsWithinK'
  BY <1>0, <1>2 DEF SendStore, SendsWithinK
<1>3. CASE UNCHANGED sending
  BY <1>3 DEF SendsWithinK
<1>4. ASSUME NEW t \in Task, LookupFails(t) \/ AllSent(t) \/ ReportError(t) PROVE UNCHANGED sending
  BY <1>4 DEF LookupFails, AllSent, ReportError
<1>5. CASE AllDone \/ Drain \/ Return \/ UNCHANGED publishVars
  BY <1>3, <1>5 DEF AllDone, Drain, Return, publishVars
<1> QED BY <1>1, <1>2, <1>3, <1>4, <1>5 DEF PublishNext

\* A task that moves on, and leaves no more to send than there was.
LEMMA TaskMoves ==
    ASSUME NEW t \in Task, NEW from, NEW to, DOMAIN task = Task, Advance(t, from, to),
           <<from, to>> \in {<<"lookup", "failing">>, <<"lookup", "sending">>,
                             <<"sending", "failing">>, <<"sending", "done">>, <<"failing", "done">>},
           \A u \in Task : u # t => sending'[u] = sending[u],
           \/ from = "lookup" /\ sending'[t] \subseteq 1..ReplicationK
           \/ sending'[t] = sending[t]
    PROVE  TasksAdvance
<1>1. task[t] = from /\ task'[t] = to /\ \A u \in Task : u # t => task'[u] = task[u]
  BY DEF Advance
<1>2. Undone' \subseteq Undone /\ Ahead' \subseteq Ahead /\ Choosing' \subseteq Choosing
  <2>1. from # "done" /\ (to \in {"lookup", "sending"} => from = "lookup") /\ to # "lookup"
    OBVIOUS
  <2> SUFFICES ASSUME NEW u \in Task
               PROVE  /\ u \in Undone' => u \in Undone
                      /\ u \in Ahead' => u \in Ahead
                      /\ u \in Choosing' => u \in Choosing
    BY DEF Undone, Ahead, Choosing
  <2> QED BY <1>1, <2>1 DEF Undone, Ahead, Choosing
<1>3. Unsent' \subseteq Unsent
  <2> SUFFICES ASSUME NEW x \in Unsent' PROVE x \in Unsent
    OBVIOUS
  <2>1. x \in Task \X (1..ReplicationK) /\ (task'[x[1]] = "lookup" \/ x[2] \in sending'[x[1]])
    BY DEF Unsent
  <2>2. task[x[1]] = "lookup" \/ x[2] \in sending[x[1]]
    BY <1>1, <2>1
  <2> QED BY <2>1, <2>2 DEF Unsent
<1>4. \/ t \in Choosing /\ t \notin Choosing'
      \/ t \in Ahead /\ t \notin Ahead'
      \/ t \in Undone /\ t \notin Undone'
  BY <1>1 DEF Undone, Ahead, Choosing
<1> QED BY <1>2, <1>3, <1>4 DEF TasksAdvance

\* Every step leaves less to be done, of what is finite from the start: publish
\* takes finitely many steps, and can fail to return by blocking alone.
THEOREM EveryStepLeavesLess == PublishSpec => [][PublishAdvances]_publishVars
<1>1. ASSUME PublishIInv, SendsWithinK, [PublishNext]_publishVars
      PROVE  [PublishAdvances]_publishVars
  <2>0. DOMAIN task = Task /\ DOMAIN sending = Task /\ errs \in Nat
    BY <1>1 DEF PublishIInv, PublishShape
  <2>1. ASSUME NEW t \in Task, LookupFails(t) \/ AllSent(t) \/ ReportError(t)
        PROVE  PublishAdvances
    <3>1. UNCHANGED sending
      BY <2>1 DEF LookupFails, AllSent, ReportError
    <3>2. Advance(t, "lookup", "failing") \/ Advance(t, "sending", "failing")
          \/ Advance(t, "sending", "done") \/ Advance(t, "failing", "done")
      BY <2>1 DEF LookupFails, AllSent, ReportError
    <3> QED BY <2>0, <3>1, <3>2, TaskMoves DEF PublishAdvances
  <2>2. ASSUME NEW t \in Task, ChooseTargets(t) PROVE PublishAdvances
    <3>1. PICK r \in LookupResults :
              sending' = [sending EXCEPT ![t] = {i \in DOMAIN FirstK(r) : FirstK(r)[i] # Self}]
      BY <2>2 DEF ChooseTargets
    <3>2. sending'[t] \subseteq 1..ReplicationK /\ \A u \in Task : u # t => sending'[u] = sending[u]
      BY <2>0, <3>1, FirstKWithinK
    <3>3. Advance(t, "lookup", "sending")
      BY <2>2 DEF ChooseTargets
    <3> QED BY <2>0, <3>2, <3>3, TaskMoves DEF PublishAdvances
  <2>3. ASSUME NEW t \in Task, NEW i \in sending[t], SendStore(t, i) PROVE PublishAdvances
    <3>1. sending' = [sending EXCEPT ![t] = @ \ {i}] /\ task' = task
      BY <2>3 DEF SendStore
    <3>2. task[t] # "lookup" /\ i \in 1..ReplicationK
      BY <1>1, <2>3 DEF PublishIInv, TaskInv, SendsWithinK
    <3>3. Undone' = Undone /\ Ahead' = Ahead /\ Choosing' = Choosing
      BY <3>1 DEF Undone, Ahead, Choosing
    <3>4. Unsent' \subseteq Unsent /\ <<t, i>> \in Unsent /\ <<t, i>> \notin Unsent'
      BY <2>0, <2>3, <3>1, <3>2 DEF Unsent
    <3> QED BY <3>3, <3>4 DEF TasksAdvance, PublishAdvances
  <2>4. CASE AllDone \/ Drain \/ Return
    BY <2>0, <2>4 DEF AllDone, Drain, Return, PublishAdvances
  <2> QED BY <1>1, <2>1, <2>2, <2>3, <2>4 DEF PublishNext
<1>2. PublishInit => SendsWithinK
  BY DEF PublishInit, SendsWithinK
<1>3. PublishIInv /\ SendsWithinK /\ [PublishNext]_publishVars => SendsWithinK'
  BY SendsStep
<1> QED BY <1>1, <1>2, <1>3, PublishInductiveInvariant, PTL DEF PublishSpec
------------------------------------------------------------------------------
(* Publisher: types, and how often an object is stored.                    *)

\* The STOREs of a task go to the targets it chose, other than this node; those
\* that were sent and those under way are no more than ReplicationK.
Sends(t) ==
    /\ sending[t] \subseteq DOMAIN targets[t] /\ \A i \in sending[t] : targets[t][i] # Self
    /\ count[t] + Cardinality(sending[t]) <= ReplicationK
SendInv ==
    /\ targets \in [Task -> Seq(Node)]
    /\ sending \in [Task -> SUBSET (1..ReplicationK)]
    /\ replicas \in [Task -> SUBSET (Node \ {Self})]
    /\ \A t \in Task : Sends(t)

Position == pub \in {"waiting", "draining", "returned"}

LEMMA SmallSets ==
    ASSUME NEW S \in SUBSET (1..ReplicationK)
    PROVE  IsFiniteSet(S) /\ Cardinality(S) \in Nat /\ Cardinality(S) <= ReplicationK
<1>1. ReplicationK \in Nat /\ IsFiniteSet(1..ReplicationK) /\ Cardinality(1..ReplicationK) = ReplicationK
  BY PublisherAssumption, FS_Interval
<1> QED BY <1>1, FS_Subset, FS_CardinalityType

LEMMA FirstKIsSeq ==
    ASSUME NEW r \in LookupResults
    PROVE  FirstK(r) \in Seq(Node)
<1>1. r \in Seq(Node) /\ ReplicationK \in Nat
  BY PublisherAssumption
<1>2. CASE Len(r) > ReplicationK
  <2>1. \A i \in 1..ReplicationK : r[i] \in Node
    BY <1>1, <1>2
  <2> QED BY <1>1, <1>2, <2>1 DEF FirstK
<1>3. CASE ~(Len(r) > ReplicationK)
  BY <1>1, <1>3 DEF FirstK
<1> QED BY <1>2, <1>3

LEMMA SendInvStep ==
    ASSUME PublishIInv, SendInv, [PublishNext]_publishVars
    PROVE  SendInv'
<1>0. /\ targets \in [Task -> Seq(Node)] /\ count \in [Task -> Nat]
      /\ sending \in [Task -> SUBSET (1..ReplicationK)]
      /\ replicas \in [Task -> SUBSET (Node \ {Self})]
      /\ ReplicationK \in Nat
  BY PublisherAssumption DEF SendInv, PublishIInv, PublishShape
<1>1. ASSUME NEW t \in Task, ChooseTargets(t) PROVE SendInv'
  <2>1. PICK r \in LookupResults \ {<<>>} :
            /\ targets' = [targets EXCEPT ![t] = FirstK(r)]
            /\ sending' = [sending EXCEPT ![t] = {i \in DOMAIN FirstK(r) : FirstK(r)[i] # Self}]
    BY <1>1 DEF ChooseTargets
  <2>2. count' = count /\ replicas' = replicas /\ count[t] = 0
    BY <1>1 DEF ChooseTargets, Advance, PublishIInv, TaskInv
  <2>3. PICK new : new = {i \in DOMAIN FirstK(r) : FirstK(r)[i] # Self}
    OBVIOUS
  <2>4. new \subseteq DOMAIN FirstK(r) /\ new \subseteq 1..ReplicationK /\ \A i \in new : FirstK(r)[i] # Self
    BY <2>3, FirstKWithinK
  <2>5. FirstK(r) \in Seq(Node) /\ Cardinality(new) \in Nat /\ Cardinality(new) <= ReplicationK
    BY <2>4, FirstKIsSeq, SmallSets
  <2>6. targets'[t] = FirstK(r) /\ sending'[t] = new
        /\ \A u \in Task \ {t} : targets'[u] = targets[u] /\ sending'[u] = sending[u]
    BY <1>0, <2>1, <2>3
  <2>7. Sends(t)'
    <3>1. count'[t] + Cardinality(sending'[t]) <= ReplicationK
      BY <1>0, <2>2, <2>5, <2>6
    <3> QED BY <2>4, <2>6, <3>1 DEF Sends
  <2>9. targets' \in [Task -> Seq(Node)] /\ sending' \in [Task -> SUBSET (1..ReplicationK)]
    <3>1. sending' = [sending EXCEPT ![t] = new]
      BY <2>1, <2>3
    <3> QED BY <1>0, <2>1, <2>4, <2>5, <3>1
  <2>8. \A u \in Task \ {t} : Sends(u)'
    BY <2>2, <2>6 DEF SendInv, Sends
  <2> QED BY <1>0, <2>2, <2>7, <2>8, <2>9 DEF SendInv
<1>2. ASSUME NEW t \in Task, NEW i \in sending[t], SendStore(t, i) PROVE SendInv'
  <2>1. /\ sending'[t] = sending[t] \ {i} /\ targets' = targets
        /\ count'[t] \in {count[t], count[t] + 1}
        /\ replicas'[t] \subseteq replicas[t] \cup {targets[t][i]}
        /\ \A u \in Task \ {t} : sending'[u] = sending[u] /\ count'[u] = count[u] /\ replicas'[u] = replicas[u]
    BY <1>0, <1>2 DEF SendStore
  <2>2. IsFiniteSet(sending[t]) /\ Cardinality(sending[t]) \in Nat
    BY <1>0, SmallSets
  <2>3. Cardinality(sending[t] \ {i}) = Cardinality(sending[t]) - 1
    BY <2>2, FS_RemoveElement
  <2>4. count'[t] + Cardinality(sending'[t]) <= ReplicationK
    <3>1. count[t] + Cardinality(sending[t]) <= ReplicationK /\ count[t] \in Nat
      BY <1>0 DEF SendInv, Sends
    <3> QED BY <1>0, <2>1, <2>2, <2>3, <3>1
  <2>5. targets[t][i] \in Node \ {Self}
    BY <1>0, <1>2 DEF SendInv, Sends
  <2>6. Sends(t)'
    BY <2>1, <2>4, <2>5 DEF SendInv, Sends
  <2>7. \A u \in Task \ {t} : Sends(u)'
    BY <2>1 DEF SendInv, Sends
  <2>8. sending' \in [Task -> SUBSET (1..ReplicationK)] /\ replicas' \in [Task -> SUBSET (Node \ {Self})]
    BY <1>0, <1>2, <2>5 DEF SendStore
  <2> QED BY <1>0, <2>1, <2>6, <2>7, <2>8 DEF SendInv
<1>3. CASE UNCHANGED <<targets, sending, count, replicas>>
  BY <1>3 DEF SendInv, Sends
<1>4. ASSUME NEW t \in Task, LookupFails(t) \/ AllSent(t) \/ ReportError(t)
      PROVE  UNCHANGED <<targets, sending, count, replicas>>
  BY <1>4 DEF LookupFails, AllSent, ReportError
<1>5. CASE AllDone \/ Drain \/ Return \/ UNCHANGED publishVars
  BY <1>3, <1>5 DEF AllDone, Drain, Return, publishVars
<1> QED BY <1>1, <1>2, <1>3, <1>4, <1>5 DEF PublishNext

\* However long a lookup's result is and whichever sends fail, no object is stored
\* more than ReplicationK times, never at this node, and no more is reported than
\* there are objects.
THEOREM PublishTypeCorrect == PublishSpec => []PublishTypeOK
<1>1. PublishInit => SendInv
  <2> SUFFICES ASSUME PublishInit PROVE SendInv
    OBVIOUS
  <2>1. Cardinality({}) = 0 /\ <<>> \in Seq(Node) /\ {} \subseteq 1..ReplicationK
    BY FS_EmptySet
  <2> QED BY <2>1, PublisherAssumption DEF PublishInit, SendInv, Sends
<1>2. PublishIInv /\ SendInv /\ [PublishNext]_publishVars => SendInv'
  BY SendInvStep
<1>3. ASSUME PublishIInv, CapacityInv, SendInv, Position PROVE PublishTypeOK
  <2>1. ASSUME NEW t \in Task PROVE count[t] \in 0..ReplicationK
    <3>1. count[t] \in Nat /\ count[t] + Cardinality(sending[t]) <= ReplicationK
          /\ Cardinality(sending[t]) \in Nat
      BY <1>3, SmallSets DEF SendInv, Sends, PublishIInv, PublishShape
    <3> QED BY <3>1, PublisherAssumption
  <2>2. errs \in 0..ErrCap
    BY <1>3, PublisherAssumption DEF PublishIInv, PublishShape, CapacityInv
  <2>3. warnings \in 0..Cardinality(Task)
    <3>1. Lost \subseteq Task
      BY DEF Lost
    <3>2. Cardinality(Lost) <= Cardinality(Task) /\ Cardinality(Task) \in Nat /\ Cardinality(Lost) \in Nat
      BY <3>1, PublisherAssumption, LostIsFinite, FS_Subset, FS_CardinalityType
    <3> QED BY <1>3, <3>2 DEF PublishIInv, PublishShape, ReportInv
  <2>4. count \in [Task -> 0..ReplicationK]
    BY <1>3, <2>1 DEF PublishIInv, PublishShape
  <2> QED BY <1>3, <2>2, <2>3, <2>4 DEF PublishIInv, PublishShape, SendInv, Position, PublishTypeOK
<1>4. PublishInit => Position
  BY DEF PublishInit, Position
<1>5. Position /\ [PublishNext]_publishVars => Position'
  BY DEF PublishNext, LookupFails, ChooseTargets, AllSent, ReportError, SendStore, AllDone, Drain, Return,
     publishVars, Position
<1> QED BY <1>1, <1>2, <1>3, <1>4, <1>5, PublishInductiveInvariant, CapacityInvariant, PTL DEF PublishSpec
==============================================================================
