------------------------------ MODULE SearchIndex -------------------------------
(***************************************************************************)
(* Layer 3C as its documents put it to use: a publisher indexes, removes   *)
(* and announces its contents (IndexWriter), the DHT keeps what was stored *)
(* for IndexEntryTTL, and a searcher fetches in two phases (IndexReader).  *)
(* Both halves run in one node; other nodes publish contents of their own. *)
(***************************************************************************)
EXTENDS IndexWriter, IndexReader

CONSTANTS
    Elsewhere,   \* what other nodes publish: for each token the contents and their weight
    NoBucket,    \* no bucket is being fetched
    NoSearch     \* no search is under way

VARIABLES
    unsent,  \* write records that were handed out and are not sent yet
    dht,     \* this node's entries in the DHT: for each token a map from contents
    search   \* the searcher's second phase

searchVars == <<unsent, dht, search>>
vars == <<writerVars, cache, searchVars>>

Oldest == IndexEntryTTL + CacheEntryTTL + 1
EntryMap(C) == UNION {[D -> [weight : 1..10, announced : 0..Oldest]] : D \in SUBSET C}
CachedBucket == [fetchedAt : 0..CacheEntryTTL + 1, entries : EntryMap(Indexed)]

\* Entries of other nodes have weights as this node's have.
ASSUME SearchIndexAssumption ==
    /\ Content \subseteq Indexed
    /\ \A tok \in Token : Elsewhere[tok] \in UNION {[D -> 1..10] : D \in SUBSET Indexed}
    /\ NotCached \notin CachedBucket

Init ==
    /\ WriterInit /\ ReaderInit
    /\ unsent = {}
    /\ dht = [tok \in Token |-> <<>>]
    /\ search = NoSearch

------------------------------------------------------------------------------
(* The publisher.                                                          *)

\* After ContentStore.Store.  The caller sends one batch before the next.
IndexContent(meta) ==
    /\ unsent = {}
    /\ \E tokens \in TokenizeContentMeta[meta] :
         /\ Index(meta, tokens)
         /\ unsent' = {[record |-> r, own |-> TRUE] : r \in RecordsOf(meta, tokens)}
    /\ UNCHANGED <<cache, dht, search>>

StopTracking(c) == Remove(c) /\ UNCHANGED <<cache, searchVars>>

\* announceFunc of the maintenance loop gets the records of a tick.
ReAnnounce ==
    /\ \E due \in DueSets :
         /\ MaintenanceTick(due)
         /\ unsent' = unsent \cup {[record |-> r, own |-> FALSE] : r \in ReAnnounced(due)}
    /\ UNCHANGED <<cache, dht, search>>

Stored(r) ==
    [dht EXCEPT ![r.keyword] = [c \in DOMAIN @ \cup {r.content} |->
        IF c = r.content THEN Entry(r.weight, 0) ELSE @[c]]]

\* One turn of the loop over the records: the STORE, and for those of Index the
\* node's own cache.  A STORE that is lost shows to a searcher as a FIND_VALUE
\* that brings nothing, or as an entry no younger than a skipped turn leaves it.
Send(w) ==
    /\ unsent' = unsent \ {w}
    /\ dht' = Stored(w.record)
    /\ IF w.own THEN FeedEntry(w.record.keyword, w.record.content, Entry(w.record.weight, 0))
                ELSE UNCHANGED cache
    /\ UNCHANGED <<writerVars, search>>

Publisher ==
    \/ \E meta \in Meta : IndexContent(meta)
    \/ \E c \in Content : StopTracking(c)
    \/ ReAnnounce
    \/ \E w \in unsent : Send(w)

------------------------------------------------------------------------------
(* The searcher's second phase, which it enters when the first found       *)
(* nothing.                                                                *)

StartFetching(q) ==
    /\ search = NoSearch
    /\ QueryTokens[q] # {}
    /\ \A response \in SearchLocal(q, 0) : response.totalFound = 0
    /\ search' = [query |-> q, todo |-> GetDHTKeysForQuery(q), bucket |-> NoBucket,
                  missed |-> {}, undisturbed |-> TRUE]
    /\ UNCHANGED <<writerVars, cache, unsent, dht>>

\* What a FIND_VALUE brings: what the DHT kept of this node, and of others.
BucketAt(tok) ==
    [c \in DOMAIN dht[tok] \cup DOMAIN Elsewhere[tok] |->
        IF c \in DOMAIN dht[tok] THEN dht[tok][c]
        ELSE Entry(Elsewhere[tok][c], 0)]

FindValue(tok) ==
    /\ search # NoSearch /\ search.bucket = NoBucket
    /\ tok \in search.todo
    /\ \/ search' = [search EXCEPT !.bucket = [token |-> tok, entries |-> BucketAt(tok)]]
       \/ search' = [search EXCEPT !.todo = @ \ {tok},
                                   !.missed = IF search.undisturbed THEN @ \cup {tok} ELSE @]
    /\ UNCHANGED <<writerVars, cache, unsent, dht>>

Feed ==
    /\ search # NoSearch /\ search.bucket # NoBucket
    /\ FeedBucket(search.bucket.token, search.bucket.entries)
    /\ search' = [search EXCEPT !.todo = @ \ {search.bucket.token}, !.bucket = NoBucket]
    /\ UNCHANGED <<writerVars, unsent, dht>>

Fetched == search # NoSearch /\ search.todo = {}

SearchAgain ==
    /\ Fetched
    /\ search' = NoSearch
    /\ UNCHANGED <<writerVars, cache, unsent, dht>>

Searcher ==
    \/ \E q \in Query : StartFetching(q)
    \/ \E tok \in Token : FindValue(tok)
    \/ Feed \/ SearchAgain

------------------------------------------------------------------------------
(* Maintenance of the cache, and time.  Neither a batch nor the fetch of a *)
(* bucket nor a whole second phase lasts a unit of time.                   *)

Disturbed == IF search = NoSearch THEN NoSearch
             ELSE [search EXCEPT !.undisturbed = FALSE, !.missed = {}]

Invalidate(c) ==
    /\ InvalidateContent(c)
    /\ search' = Disturbed
    /\ UNCHANGED <<writerVars, unsent, dht>>

Purge == PurgeExpiredCache /\ UNCHANGED <<writerVars, searchVars>>

\* Every entry ages, and the DHT drops those that are past their time.
Tick ==
    /\ unsent = {}
    /\ search # NoSearch => search.bucket = NoBucket /\ search.undisturbed
    /\ WriterAges
    /\ ReaderAges(Oldest)
    /\ dht' = [tok \in Token |->
           [c \in {c \in DOMAIN dht[tok] : dht[tok][c].announced < IndexEntryTTL} |->
               Entry(dht[tok][c].weight, dht[tok][c].announced + 1)]]
    /\ search' = Disturbed
    /\ UNCHANGED unsent

Next ==
    \/ Publisher \/ Searcher \/ Purge \/ Tick
    \/ \E c \in Indexed : Invalidate(c)

Spec == Init /\ [][Next]_vars

------------------------------------------------------------------------------
(* Properties                                                              *)

\* The types of the state.  Entries are about contents of the index, carry weights
\* of the tokenizer and have an age that is bounded; the statistics are not negative.
TypeOK ==
    /\ localRecords \in [Content -> {NoRecord} \cup
           [keywords : SUBSET Token, lastAnnounce : 0..2 * ReAnnounceInterval]]
    /\ stats \in [totalKeywords : Nat, totalEntries : Nat, locallyOwned : Nat]
    /\ sinceTick \in 0..ReAnnounceInterval /\ indexings \in 0..MaxIndexings
    /\ unsent \in SUBSET [record : [keyword : Token, content : Content, weight : 1..10],
                          own : BOOLEAN]
    /\ dht \in [Token -> EntryMap(Content)]
    /\ cache \in [Token -> {NotCached} \cup CachedBucket]
    /\ search \in {NoSearch} \cup
           [query : Query, todo : SUBSET Token, missed : SUBSET Token, undisturbed : BOOLEAN,
            bucket : {NoBucket} \cup [token : Token, entries : EntryMap(Indexed)]]

\* The DHT has what the publisher believes to have announced: a keyword of a
\* tracked content leads to it as long as the record's last announcement is no
\* older than the DHT keeps entries, unless it is still to be sent - whatever was
\* indexed again, removed, announced late or forgotten by the store meanwhile.
AnnouncedIsKept ==
    \A c \in Tracked : \A kw \in localRecords[c].keywords :
        \/ Age(c) > IndexEntryTTL
        \/ \E w \in unsent : w.record.keyword = kw /\ w.record.content = c
        \/ c \in DOMAIN dht[kw] /\ dht[kw][c].announced <= Age(c)

\* What a search shows was announced by its publisher within the time the DHT
\* keeps an entry and the time the cache keeps a bucket: a content that is no
\* longer announced is gone from every search after their sum, whatever feeds,
\* invalidations and late announcements there were.
ResultsAreRecent ==
    \A q \in Query : \A c \in Matches(q) : \A tok \in MatchedTokens(q, c) :
        cache[tok].entries[c].announced <= IndexEntryTTL + CacheEntryTTL

\* Two phases search all of a query: when the buckets have been fetched, every
\* token is in the cache and fresh or was not to be had - unless time passed or a
\* content was invalidated since the cache was consulted.
TwoPhasesCoverQuery ==
    Fetched /\ search.undisturbed =>
        \A tok \in QueryTokens[search.query] : Fresh(tok) \/ tok \in search.missed
==============================================================================
