-------------------------- MODULE SearchIndex_proofs ---------------------------
(***************************************************************************)
(* Theorems about SearchIndex for any contents, words, queries and periods *)
(* of time: the DHT keeps what the records say was announced, searches     *)
(* show nothing older than both times to live together, and two phases     *)
(* cover a query.                                                          *)
(***************************************************************************)
EXTENDS SearchIndex, FiniteSetTheorems, SequenceTheorems, TLAPS

------------------------------------------------------------------------------
(* The inductive invariant.                                                *)

\* A tracked record is no older than one period and what has passed of the next.
AnnouncedInv ==
    /\ sinceTick \in 0..ReAnnounceInterval
    /\ DOMAIN localRecords = Content
    /\ \A c \in Tracked : Age(c) \in 0..sinceTick + ReAnnounceInterval

\* Entries that were announced at most so long ago.
Recent(entries, limit) == \A c \in DOMAIN entries : entries[c].announced \in 0..limit

\* The DHT forgets in time, and what is fetched from it is no older.
KeptInv ==
    /\ DOMAIN dht = Token /\ \A tok \in Token : Recent(dht[tok], IndexEntryTTL)
    /\ search # NoSearch /\ search.bucket # NoBucket =>
           Recent(search.bucket.entries, IndexEntryTTL)

\* The shape of a search, which its updates need.
SearchShape ==
    search # NoSearch =>
        search = [query |-> search.query, todo |-> search.todo, bucket |-> search.bucket,
                  missed |-> search.missed, undisturbed |-> search.undisturbed]

\* The entries of a bucket that can be read age with the bucket.
CachedInv ==
    /\ DOMAIN cache = Token
    /\ \A tok \in Token : cache[tok] # NotCached =>
           /\ cache[tok].fetchedAt \in Nat
           /\ Fresh(tok) => Recent(cache[tok].entries, IndexEntryTTL + cache[tok].fetchedAt)

IInv == AnnouncedInv /\ KeptInv /\ SearchShape /\ CachedInv

------------------------------------------------------------------------------
(* The tokenizer.                                                          *)

LEMMA TokensAreTokens ==
    ASSUME NEW text \in Seq(Word)
    PROVE  TokenizeWords(text) \subseteq Token
<1> SUFFICES ASSUME NEW tok \in TokenizeWords(text) PROVE tok \in Token
  OBVIOUS
<1>1. PICK i \in Firsts(text) : tok = Lower[text[i]]
  BY DEF TokenizeWords
<1>2. text[i] \in Word
  BY DEF Firsts
<1> QED BY <1>1, <1>2 DEF Token

LEMMA QueryTokensAreTokens == ASSUME NEW q \in Query PROVE QueryTokens[q] \subseteq Token
BY TokensAreTokens, IndexReaderAssumption DEF QueryTokens, TokenizeQuery

LEMMA TokensFinite == IsFiniteSet(Token)
<1> DEFINE lower == [w \in Word |-> Lower[w]]
<1>1. lower \in Surjection(Word, Token)
  BY DEF Surjection, Token
<1> QED BY <1>1, FS_Surjection, TokenizerAssumption

\* What Index is given are tokens of texts of its content.
LEMMA MetaTokens ==
    ASSUME NEW meta \in Meta, NEW tokens \in TokenizeContentMeta[meta], NEW tok \in DOMAIN tokens
    PROVE  \E text \in Seq(Word) : tok \in TokenizeWords(text)
<1>1. tok \in DOMAIN Seen(meta)
  BY DEF TokenizeContentMeta
<1>2. DOMAIN Seen(meta) = UNION {s[1] : s \in Sources(meta)}
  BY DEF Seen
<1>3. PICK s \in Sources(meta) : tok \in s[1]
  BY <1>1, <1>2
<1> QED BY <1>3, TokenizerAssumption DEF Sources, TokenizeFilename

LEMMA SourcesFinite ==
    ASSUME NEW meta \in Meta
    PROVE  /\ \A s \in Sources(meta) : s[1] \subseteq Token /\ s[2] \in {3, 5, 8, 10}
           /\ IsFiniteSet(DOMAIN Seen(meta))
<1>1. \A s \in Sources(meta) : s[1] \subseteq Token /\ s[2] \in {3, 5, 8, 10}
  <2> SUFFICES ASSUME NEW s \in Sources(meta) PROVE s[1] \subseteq Token /\ s[2] \in {3, 5, 8, 10}
    OBVIOUS
  <2>1. \E text \in Seq(Word), w \in {3, 5, 8, 10} : s = <<TokenizeWords(text), w>>
    BY TokenizerAssumption DEF Sources, TokenizeFilename
  <2> QED BY <2>1, TokensAreTokens
<1>2. DOMAIN Seen(meta) = UNION {s[1] : s \in Sources(meta)}
  BY DEF Seen
<1>3. DOMAIN Seen(meta) \subseteq Token
  BY <1>1, <1>2
<1> QED BY <1>1, <1>3, TokensFinite, FS_Subset

\* Index gets each token at the weight of one of its sources.
LEMMA StrongestSourceCounts ==
    ASSUME NEW meta \in Meta, NEW tokens \in TokenizeContentMeta[meta], NEW tok \in DOMAIN tokens
    PROVE  \E s \in Sources(meta) : tok \in s[1] /\ s[2] = tokens[tok]
<1> DEFINE weights == {s[2] : s \in {s \in Sources(meta) : tok \in s[1]}}
<1>1. tok \in DOMAIN Seen(meta) /\ tokens[tok] = Seen(meta)[tok]
  BY DEF TokenizeContentMeta
<1>2. tokens[tok] = CHOOSE w \in weights : \A v \in weights : v <= w
  BY <1>1 DEF Seen
<1>3. weights \subseteq {3, 5, 8, 10} /\ weights # {}
  <2>1. \E s \in Sources(meta) : tok \in s[1]
    BY <1>1 DEF Seen
  <2> QED BY <2>1, SourcesFinite
<1>4. \E w \in weights : \A v \in weights : v <= w
  <2> HIDE DEF weights
  <2> QED BY <1>3
<1>5. tokens[tok] \in weights
  <2> HIDE DEF weights
  <2> QED BY <1>2, <1>4
<1> QED BY <1>5

------------------------------------------------------------------------------
(* Announcing again.                                                       *)

LEMMA AnnouncedInit == Init => AnnouncedInv
BY IndexWriterAssumption DEF Init, WriterInit, AnnouncedInv, Tracked

LEMMA AnnouncedIndex ==
    ASSUME AnnouncedInv, NEW meta \in Meta, NEW tokens, Index(meta, tokens)
    PROVE  AnnouncedInv'
<1>1. CASE DOMAIN tokens = {}
  BY <1>1 DEF AnnouncedInv, Index, Tracked, Age
<1>2. CASE DOMAIN tokens # {}
  <2>1. \A c \in Content : localRecords'[c] =
            IF c = meta.content THEN [keywords |-> DOMAIN tokens, lastAnnounce |-> 0]
                                ELSE localRecords[c]
    BY <1>2 DEF Index, AnnouncedInv
  <2>2. DOMAIN localRecords' = Content /\ sinceTick' = sinceTick
    BY <1>2 DEF Index, AnnouncedInv
  <2> QED BY <2>1, <2>2, IndexWriterAssumption DEF AnnouncedInv, Index, Tracked, Age
<1> QED BY <1>1, <1>2

LEMMA AnnouncedRemove ==
    ASSUME AnnouncedInv, NEW c \in Content, Remove(c)
    PROVE  AnnouncedInv'
BY DEF AnnouncedInv, Remove, Tracked, Age

LEMMA AnnouncedTick ==
    ASSUME AnnouncedInv, NEW due, MaintenanceTick(due)
    PROVE  AnnouncedInv'
<1>1. /\ sinceTick' = 0 /\ sinceTick = ReAnnounceInterval
      /\ \A c \in Tracked : Age(c) > ReAnnounceInterval => c \in due
      /\ due \subseteq Tracked
  BY DEF MaintenanceTick, DueSets
<1>2. \A c \in Content :
          /\ c \notin due => localRecords'[c] = localRecords[c]
          /\ c \in due => localRecords'[c] \in {NoRecord, Announced(c, 0)}
  BY DEF MaintenanceTick, GetReAnnounceRecords
<1>3. Tracked' \subseteq Tracked
  BY <1>1, <1>2 DEF Tracked
<1>4. \A c \in Tracked' : Age(c)' \in 0..ReAnnounceInterval
  <2> SUFFICES ASSUME NEW c \in Tracked' PROVE Age(c)' \in 0..ReAnnounceInterval
    OBVIOUS
  <2>1. c \in Content /\ c \in Tracked
    BY <1>3 DEF Tracked
  <2>2. CASE c \in due
    <3>1. localRecords'[c] = Announced(c, 0)
      BY <1>2, <2>1, <2>2 DEF Tracked
    <3> QED BY <3>1, IndexWriterAssumption DEF Age, Announced
  <2>3. CASE c \notin due
    <3>1. localRecords'[c] = localRecords[c]
      BY <1>2, <2>1, <2>3
    <3>2. Age(c)' = Age(c)
      BY <3>1 DEF Age
    <3> QED BY <1>1, <2>1, <2>3, <3>2, IndexWriterAssumption DEF AnnouncedInv
  <2> QED BY <2>2, <2>3
<1>5. DOMAIN localRecords' = Content
  BY DEF MaintenanceTick, GetReAnnounceRecords
<1> QED BY <1>1, <1>4, <1>5, IndexWriterAssumption DEF AnnouncedInv

LEMMA AnnouncedAges ==
    ASSUME AnnouncedInv, WriterAges
    PROVE  AnnouncedInv'
<1>1. sinceTick' = sinceTick + 1 /\ sinceTick' \in 0..ReAnnounceInterval
  BY IndexWriterAssumption DEF AnnouncedInv, WriterAges
<1>2. \A c \in Content : localRecords'[c] = IF c \in Tracked THEN Announced(c, Age(c) + 1) ELSE NoRecord
  BY DEF WriterAges
<1>3. \A c \in Tracked' : c \in Tracked /\ Age(c)' = Age(c) + 1
  <2> SUFFICES ASSUME NEW c \in Tracked' PROVE c \in Tracked /\ Age(c)' = Age(c) + 1
    OBVIOUS
  <2>1. c \in Tracked
    BY <1>2 DEF Tracked
  <2>2. localRecords'[c] = Announced(c, Age(c) + 1)
    BY <1>2, <2>1 DEF Tracked
  <2> QED BY <2>1, <2>2 DEF Age, Announced
<1>4. DOMAIN localRecords' = Content
  BY DEF WriterAges
<1> QED BY <1>1, <1>3, <1>4, IndexWriterAssumption DEF AnnouncedInv

------------------------------------------------------------------------------
(* What the DHT keeps and a search fetches.                                *)

LEMMA KeptInit == Init => KeptInv /\ SearchShape
BY DEF Init, KeptInv, SearchShape, Recent

LEMMA StoredRecent ==
    ASSUME KeptInv, NEW r, dht' = Stored(r)
    PROVE  DOMAIN dht' = Token /\ \A tok \in Token : Recent(dht'[tok], IndexEntryTTL)
<1>1. DOMAIN dht' = Token
  BY DEF Stored, KeptInv
<1>2. ASSUME NEW tok \in Token PROVE Recent(dht'[tok], IndexEntryTTL)
  <2>1. CASE tok # r.keyword
    BY <2>1 DEF Stored, KeptInv
  <2>2. CASE tok = r.keyword
    <3>1. dht'[tok] = [c \in DOMAIN dht[tok] \cup {r.content} |->
                          IF c = r.content THEN Entry(r.weight, 0) ELSE dht[tok][c]]
      BY <2>2 DEF Stored, KeptInv
    <3>2. Entry(r.weight, 0).announced \in 0..IndexEntryTTL
      BY IndexWriterAssumption DEF Entry
    <3> QED BY <3>1, <3>2 DEF KeptInv, Recent
  <2> QED BY <2>1, <2>2
<1> QED BY <1>1, <1>2

LEMMA FetchedRecent ==
    ASSUME KeptInv, NEW tok \in Token
    PROVE  Recent(BucketAt(tok), IndexEntryTTL)
<1>1. \A c : Entry(Elsewhere[tok][c], 0).announced \in 0..IndexEntryTTL
  BY IndexWriterAssumption DEF Entry
<1> QED BY <1>1 DEF KeptInv, BucketAt, Recent

LEMMA KeptFindValue ==
    ASSUME KeptInv, SearchShape, NEW tok \in Token, FindValue(tok)
    PROVE  KeptInv' /\ SearchShape'
<1>1. UNCHANGED dht /\ search # NoSearch /\ search.bucket = NoBucket
  BY DEF FindValue
<1>2. CASE search' = [search EXCEPT !.bucket = [token |-> tok, entries |-> BucketAt(tok)]]
  <2>1. search' = [query |-> search.query, todo |-> search.todo,
                   bucket |-> [token |-> tok, entries |-> BucketAt(tok)],
                   missed |-> search.missed, undisturbed |-> search.undisturbed]
    BY <1>1, <1>2 DEF SearchShape
  <2> QED BY <1>1, <2>1, FetchedRecent DEF KeptInv, SearchShape
<1>3. CASE search' = [search EXCEPT !.todo = @ \ {tok},
                        !.missed = IF search.undisturbed THEN @ \cup {tok} ELSE @]
  <2>1. search' = [query |-> search.query, todo |-> search.todo \ {tok},
                   bucket |-> search.bucket,
                   missed |-> IF search.undisturbed THEN search.missed \cup {tok} ELSE search.missed,
                   undisturbed |-> search.undisturbed]
    BY <1>1, <1>3 DEF SearchShape
  <2> QED BY <1>1, <2>1 DEF KeptInv, SearchShape
<1> QED BY <1>2, <1>3 DEF FindValue

LEMMA DisturbedShape ==
    ASSUME SearchShape, search' = Disturbed
    PROVE  /\ SearchShape'
           /\ search' # NoSearch => search # NoSearch /\ search'.bucket = search.bucket
<1>1. CASE search = NoSearch
  BY <1>1 DEF Disturbed, SearchShape
<1>2. CASE search # NoSearch
  <2>1. search' = [query |-> search.query, todo |-> search.todo, bucket |-> search.bucket,
                   missed |-> {}, undisturbed |-> FALSE]
    BY <1>2 DEF Disturbed, SearchShape
  <2> QED BY <1>2, <2>1 DEF SearchShape
<1> QED BY <1>1, <1>2

LEMMA KeptTick ==
    ASSUME KeptInv, SearchShape, Tick
    PROVE  KeptInv' /\ SearchShape'
<1>1. DOMAIN dht' = Token
  BY DEF Tick
<1>2. ASSUME NEW tok \in Token PROVE Recent(dht'[tok], IndexEntryTTL)
  <2>1. dht'[tok] = [c \in {c \in DOMAIN dht[tok] : dht[tok][c].announced < IndexEntryTTL} |->
                        Entry(dht[tok][c].weight, dht[tok][c].announced + 1)]
    BY DEF Tick
  <2>2. ASSUME NEW c \in DOMAIN dht[tok], dht[tok][c].announced < IndexEntryTTL
        PROVE  Entry(dht[tok][c].weight, dht[tok][c].announced + 1).announced \in 0..IndexEntryTTL
    <3>1. dht[tok][c].announced \in 0..IndexEntryTTL
      BY DEF KeptInv, Recent
    <3> QED BY <2>2, <3>1, IndexWriterAssumption DEF Entry
  <2> QED BY <2>1, <2>2 DEF Recent
<1>3. SearchShape' /\ (search' # NoSearch => search # NoSearch /\ search'.bucket = search.bucket)
  BY DisturbedShape DEF Tick
<1> QED BY <1>1, <1>2, <1>3 DEF KeptInv, Tick

LEMMA KeptSearch ==
    ASSUME KeptInv, SearchShape, Feed \/ SearchAgain \/ \E q \in Query : StartFetching(q)
    PROVE  KeptInv' /\ SearchShape'
<1>1. CASE Feed
  <2>1. search' = [query |-> search.query, todo |-> search.todo \ {search.bucket.token},
                   bucket |-> NoBucket, missed |-> search.missed,
                   undisturbed |-> search.undisturbed]
    BY <1>1 DEF Feed, SearchShape
  <2> QED BY <1>1, <2>1 DEF Feed, KeptInv, SearchShape
<1>2. CASE SearchAgain
  BY <1>2 DEF SearchAgain, KeptInv, SearchShape
<1>3. CASE \E q \in Query : StartFetching(q)
  BY <1>3 DEF StartFetching, KeptInv, SearchShape
<1> QED BY <1>1, <1>2, <1>3

------------------------------------------------------------------------------
(* The cache.                                                              *)

LEMMA CachedInit == Init => CachedInv
BY DEF Init, ReaderInit, CachedInv

\* A bucket that is new, or is what it was with an entry of this moment, is fine.
LEMMA MergedRecent ==
    ASSUME NEW entries, NEW c, NEW w, NEW limit \in Nat, Recent(entries, limit)
    PROVE  Recent(Merged(entries, c, Entry(w, 0)), limit)
<1>1. Entry(w, 0).announced \in 0..limit
  BY DEF Entry
<1> QED BY <1>1 DEF Recent, Merged

LEMMA EmptyRecent == ASSUME NEW limit PROVE Recent(<<>>, limit)
BY DEF Recent

LEMMA BucketFacts ==
    ASSUME NEW age, NEW entries
    PROVE  Bucket(age, entries).fetchedAt = age /\ Bucket(age, entries).entries = entries
BY DEF Bucket

\* What each change of the cache has to show for the buckets it writes.
LEMMA CachedSuffices ==
    ASSUME CachedInv, DOMAIN cache' = Token,
           \A tok \in Token :
               \/ cache'[tok] = cache[tok]
               \/ cache'[tok] = NotCached
               \/ \E age \in Nat : \E entries :
                    /\ cache'[tok] = Bucket(age, entries)
                    /\ age <= CacheEntryTTL => Recent(entries, IndexEntryTTL + age)
    PROVE  CachedInv'
<1> SUFFICES ASSUME NEW tok \in Token, cache'[tok] # NotCached
             PROVE  /\ cache'[tok].fetchedAt \in Nat
                    /\ Fresh(tok)' => Recent(cache'[tok].entries, IndexEntryTTL + cache'[tok].fetchedAt)
  BY DEF CachedInv
<1>1. CASE cache'[tok] = cache[tok]
  BY <1>1 DEF CachedInv, Fresh, isExpired
<1>2. CASE \E age \in Nat : \E entries :
             /\ cache'[tok] = Bucket(age, entries)
             /\ age <= CacheEntryTTL => Recent(entries, IndexEntryTTL + age)
  <2>0. PICK age \in Nat : \E entries :
             /\ cache'[tok] = Bucket(age, entries)
             /\ age <= CacheEntryTTL => Recent(entries, IndexEntryTTL + age)
    BY <1>2
  <2>1. PICK entries :
             /\ cache'[tok] = Bucket(age, entries)
             /\ age <= CacheEntryTTL => Recent(entries, IndexEntryTTL + age)
    BY <2>0
  <2>2. cache'[tok].fetchedAt = age /\ cache'[tok].entries = entries
    BY <2>1, BucketFacts
  <2> QED BY <2>1, <2>2, IndexReaderAssumption DEF Fresh, isExpired
<1> QED BY <1>1, <1>2

LEMMA CachedFeedEntry ==
    ASSUME CachedInv, NEW kw, NEW c, NEW w, FeedEntry(kw, c, Entry(w, 0))
    PROVE  CachedInv'
<1>1. DOMAIN cache' = Token
  BY DEF FeedEntry, CachedInv
<1>2. ASSUME NEW tok \in Token, tok # kw PROVE cache'[tok] = cache[tok]
  BY <1>2 DEF FeedEntry, CachedInv
<1>3. ASSUME kw \in Token
      PROVE  \E age \in Nat : \E entries :
                 /\ cache'[kw] = Bucket(age, entries)
                 /\ age <= CacheEntryTTL => Recent(entries, IndexEntryTTL + age)
  <2>1. CASE Fresh(kw)
    <3>1. cache'[kw] = Bucket(cache[kw].fetchedAt, Merged(cache[kw].entries, c, Entry(w, 0)))
      BY <1>3, <2>1 DEF FeedEntry, CachedInv
    <3>2. cache[kw].fetchedAt \in Nat /\ Recent(cache[kw].entries, IndexEntryTTL + cache[kw].fetchedAt)
      BY <1>3, <2>1 DEF CachedInv, Fresh
    <3>3. IndexEntryTTL + cache[kw].fetchedAt \in Nat
      BY <3>2, IndexWriterAssumption
    <3> QED BY <3>1, <3>2, <3>3, MergedRecent
  <2>2. CASE ~Fresh(kw)
    <3>1. cache'[kw] = Bucket(0, Merged(<<>>, c, Entry(w, 0)))
      BY <1>3, <2>2 DEF FeedEntry, CachedInv
    <3>2. IndexEntryTTL + 0 \in Nat
      BY IndexWriterAssumption
    <3> QED BY <3>1, <3>2, EmptyRecent, MergedRecent
  <2> QED BY <2>1, <2>2
<1> QED BY <1>1, <1>2, <1>3, CachedSuffices

LEMMA CachedFeed ==
    ASSUME CachedInv, KeptInv, Feed
    PROVE  CachedInv'
<1>1. /\ search # NoSearch /\ search.bucket # NoBucket
      /\ cache' = [cache EXCEPT ![search.bucket.token] = Bucket(0, search.bucket.entries)]
  BY DEF Feed, FeedBucket
<1>2. DOMAIN cache' = Token
  BY <1>1 DEF CachedInv
<1>3. Recent(search.bucket.entries, IndexEntryTTL + 0)
  BY <1>1, IndexWriterAssumption DEF KeptInv
<1>4. \A tok \in Token : cache'[tok] = cache[tok] \/ cache'[tok] = Bucket(0, search.bucket.entries)
  BY <1>1 DEF CachedInv
<1> QED BY <1>2, <1>3, <1>4, CachedSuffices

LEMMA CachedInvalidate ==
    ASSUME CachedInv, NEW c, InvalidateContent(c)
    PROVE  CachedInv'
<1>1. DOMAIN cache' = Token
  BY DEF InvalidateContent
<1>2. ASSUME NEW tok \in Token, cache'[tok] # NotCached
      PROVE  \E age \in Nat : \E entries :
                 /\ cache'[tok] = Bucket(age, entries)
                 /\ age <= CacheEntryTTL => Recent(entries, IndexEntryTTL + age)
  <2> DEFINE rest == [d \in DOMAIN cache[tok].entries \ {c} |-> cache[tok].entries[d]]
  <2>1. cache[tok] # NotCached /\ cache'[tok] = Bucket(cache[tok].fetchedAt, rest)
    BY <1>2 DEF InvalidateContent
  <2>2. cache[tok].fetchedAt \in Nat
    BY <2>1 DEF CachedInv
  <2>3. ASSUME cache[tok].fetchedAt <= CacheEntryTTL
        PROVE  Recent(rest, IndexEntryTTL + cache[tok].fetchedAt)
    <3>1. Fresh(tok)
      BY <2>1, <2>2, <2>3, IndexReaderAssumption DEF Fresh, isExpired
    <3>2. Recent(cache[tok].entries, IndexEntryTTL + cache[tok].fetchedAt)
      BY <2>1, <3>1 DEF CachedInv
    <3> QED BY <3>2 DEF Recent
  <2> HIDE DEF rest
  <2> QED BY <2>1, <2>2, <2>3
<1> QED BY <1>1, <1>2, CachedSuffices

LEMMA CachedPurge ==
    ASSUME CachedInv, PurgeExpiredCache
    PROVE  CachedInv'
<1>1. DOMAIN cache' = Token /\ \A tok \in Token : cache'[tok] = cache[tok] \/ cache'[tok] = NotCached
  BY DEF PurgeExpiredCache
<1> QED BY <1>1, CachedSuffices

LEMMA CachedAges ==
    ASSUME CachedInv, ReaderAges(Oldest)
    PROVE  CachedInv'
<1>1. DOMAIN cache' = Token
  BY DEF ReaderAges
<1>2. ASSUME NEW tok \in Token, cache'[tok] # NotCached
      PROVE  \E age \in Nat : \E entries :
                 /\ cache'[tok] = Bucket(age, entries)
                 /\ age <= CacheEntryTTL => Recent(entries, IndexEntryTTL + age)
  <2>1. cache[tok] # NotCached /\ cache'[tok] = Older(cache[tok], Oldest)
    BY <1>2 DEF ReaderAges
  <2>2. cache[tok].fetchedAt \in Nat
    BY <2>1 DEF CachedInv
  <2>3. CASE cache[tok].fetchedAt >= CacheEntryTTL
    <3> DEFINE all == [d \in DOMAIN cache[tok].entries |->
                          Entry(cache[tok].entries[d].weight, Oldest)]
    <3>1. cache'[tok] = Bucket(CacheEntryTTL + 1, all)
      BY <2>1, <2>3 DEF Older
    <3>2. CacheEntryTTL + 1 \in Nat /\ ~(CacheEntryTTL + 1 <= CacheEntryTTL)
      BY IndexReaderAssumption
    <3> HIDE DEF all
    <3> QED BY <3>1, <3>2
  <2>4. CASE ~(cache[tok].fetchedAt >= CacheEntryTTL)
    <3> DEFINE all == [d \in DOMAIN cache[tok].entries |->
                 Entry(cache[tok].entries[d].weight, cache[tok].entries[d].announced + 1)]
    <3>1. cache'[tok] = Bucket(cache[tok].fetchedAt + 1, all)
      BY <2>1, <2>4 DEF Older
    <3>2. Fresh(tok)
      BY <2>1, <2>2, <2>4, IndexReaderAssumption DEF Fresh, isExpired
    <3>3. Recent(cache[tok].entries, IndexEntryTTL + cache[tok].fetchedAt)
      BY <2>1, <3>2 DEF CachedInv
    <3>4. ASSUME NEW d \in DOMAIN all
          PROVE  all[d].announced \in 0..IndexEntryTTL + (cache[tok].fetchedAt + 1)
      <4>1. all[d].announced = cache[tok].entries[d].announced + 1
        BY DEF Entry
      <4>2. cache[tok].entries[d].announced \in 0..IndexEntryTTL + cache[tok].fetchedAt
        BY <3>3 DEF Recent
      <4> HIDE DEF all
      <4> QED BY <2>2, <4>1, <4>2, IndexWriterAssumption
    <3>5. Recent(all, IndexEntryTTL + (cache[tok].fetchedAt + 1))
      BY <3>4 DEF Recent
    <3>6. cache[tok].fetchedAt + 1 \in Nat
      BY <2>2
    <3> HIDE DEF all
    <3> QED BY <3>1, <3>5, <3>6
  <2> QED BY <2>3, <2>4
<1> QED BY <1>1, <1>2, CachedSuffices

------------------------------------------------------------------------------
\* Every step of the publisher, the searcher and the clock keeps the invariant.
LEMMA Inductive == IInv /\ [Next]_vars => IInv'
<1> SUFFICES ASSUME IInv, [Next]_vars PROVE IInv'
  OBVIOUS
<1> USE DEF IInv
<1>1. ASSUME NEW meta \in Meta, IndexContent(meta) PROVE IInv'
  <2>1. PICK tokens : Index(meta, tokens)
    BY <1>1 DEF IndexContent
  <2>2. UNCHANGED <<cache, dht, search>>
    BY <1>1 DEF IndexContent
  <2> QED BY <2>1, <2>2, AnnouncedIndex DEF KeptInv, SearchShape, CachedInv, Fresh, isExpired
<1>2. ASSUME NEW c \in Content, StopTracking(c) PROVE IInv'
  <2>1. Remove(c) /\ UNCHANGED <<cache, dht, search>>
    BY <1>2 DEF StopTracking, searchVars
  <2> QED BY <2>1, AnnouncedRemove DEF KeptInv, SearchShape, CachedInv, Fresh, isExpired
<1>3. CASE ReAnnounce
  <2>1. PICK due : MaintenanceTick(due)
    BY <1>3 DEF ReAnnounce
  <2>2. UNCHANGED <<cache, dht, search>>
    BY <1>3 DEF ReAnnounce
  <2> QED BY <2>1, <2>2, AnnouncedTick DEF KeptInv, SearchShape, CachedInv, Fresh, isExpired
<1>4. ASSUME NEW w \in unsent, Send(w) PROVE IInv'
  <2>1. dht' = Stored(w.record) /\ UNCHANGED <<localRecords, sinceTick, search>>
    BY <1>4 DEF Send, writerVars
  <2>2. AnnouncedInv' /\ SearchShape'
    BY <2>1 DEF AnnouncedInv, SearchShape, Tracked, Age
  <2>3. KeptInv'
    BY <2>1, StoredRecent DEF KeptInv
  <2>4. CachedInv'
    <3>1. CASE w.own
      BY <1>4, <3>1, CachedFeedEntry DEF Send
    <3>2. CASE ~w.own
      BY <1>4, <3>2 DEF Send, CachedInv, Fresh, isExpired
    <3> QED BY <3>1, <3>2
  <2> QED BY <2>2, <2>3, <2>4
<1>5. CASE Searcher
  <2>1. UNCHANGED <<localRecords, sinceTick>>
    BY <1>5 DEF Searcher, StartFetching, FindValue, Feed, SearchAgain, writerVars
  <2>2. AnnouncedInv'
    BY <2>1 DEF AnnouncedInv, Tracked, Age
  <2>3. KeptInv' /\ SearchShape'
    BY <1>5, KeptFindValue, KeptSearch DEF Searcher
  <2>4. CachedInv'
    <3>1. CASE Feed
      BY <3>1, CachedFeed
    <3>2. CASE ~Feed
      <4>1. cache' = cache
        BY <1>5, <3>2 DEF Searcher, StartFetching, FindValue, SearchAgain
      <4> QED BY <4>1 DEF CachedInv, Fresh, isExpired
    <3> QED BY <3>1, <3>2
  <2> QED BY <2>2, <2>3, <2>4
<1>6. ASSUME NEW c \in Indexed, Invalidate(c) PROVE IInv'
  <2>1. UNCHANGED <<localRecords, sinceTick, dht>> /\ search' = Disturbed
    BY <1>6 DEF Invalidate, writerVars
  <2>2. AnnouncedInv'
    BY <2>1 DEF AnnouncedInv, Tracked, Age
  <2>3. KeptInv' /\ SearchShape'
    BY <2>1, DisturbedShape DEF KeptInv
  <2> QED BY <1>6, <2>2, <2>3, CachedInvalidate DEF Invalidate
<1>7. CASE Purge
  <2>1. UNCHANGED <<localRecords, sinceTick, dht, search>>
    BY <1>7 DEF Purge, writerVars, searchVars
  <2> QED BY <1>7, <2>1, CachedPurge DEF Purge, AnnouncedInv, Tracked, Age, KeptInv, SearchShape
<1>8. CASE Tick
  BY <1>8, AnnouncedAges, KeptTick, CachedAges DEF Tick
<1>9. CASE UNCHANGED vars
  BY <1>9 DEF vars, writerVars, searchVars, AnnouncedInv, Tracked, Age, KeptInv, SearchShape,
              CachedInv, Fresh, isExpired
<1> QED BY <1>1, <1>2, <1>3, <1>4, <1>5, <1>6, <1>7, <1>8, <1>9 DEF Next, Publisher

\* The inductive invariant of the index holds in every reachable state.
THEOREM InductiveInvariant == Spec => []IInv
<1>1. Init => IInv
  BY AnnouncedInit, KeptInit, CachedInit DEF IInv
<1> QED BY <1>1, Inductive, PTL DEF Spec

\* No search shows an entry older than the times to live of the DHT and of the
\* cache together.
THEOREM NothingStale == Spec => []ResultsAreRecent
<1>1. IInv => ResultsAreRecent
  <2> SUFFICES ASSUME IInv, NEW q \in Query, NEW c \in Matches(q), NEW tok \in MatchedTokens(q, c)
               PROVE  cache[tok].entries[c].announced <= IndexEntryTTL + CacheEntryTTL
    BY DEF ResultsAreRecent
  <2>1. tok \in Token /\ Fresh(tok) /\ c \in DOMAIN cache[tok].entries
    BY QueryTokensAreTokens DEF MatchedTokens
  <2> QED BY <2>1, IndexWriterAssumption, IndexReaderAssumption
          DEF IInv, CachedInv, Recent, Fresh, isExpired
<1> QED BY <1>1, InductiveInvariant, PTL

------------------------------------------------------------------------------
(* The statistics of the writer, and what its records are kept by.         *)

\* The keywords of the tracked contents, each with its content.
TrackedKeywords == UNION {{c} \X localRecords[c].keywords : c \in Tracked}

\* In no order of Index, repeated Index and Remove do the statistics fall below
\* the contents and the keywords that are tracked, and so not below zero.
StatsCoverTracked ==
    /\ stats.locallyOwned >= Cardinality(Tracked)
    /\ stats.totalKeywords >= Cardinality(TrackedKeywords)
    /\ stats.totalEntries >= Cardinality(TrackedKeywords)

RecordsInv ==
    /\ IsFiniteSet(Tracked) /\ \A c \in Tracked : localRecords[c].keywords \subseteq Token
    /\ stats.locallyOwned \in Int /\ stats.totalKeywords \in Int /\ stats.totalEntries \in Int
    /\ StatsCoverTracked

\* The keywords of a record, as pairs with their content.
LEMMA PairsOf ==
    ASSUME NEW c, NEW kws, IsFiniteSet(kws)
    PROVE  IsFiniteSet({c} \X kws) /\ Cardinality({c} \X kws) = Cardinality(kws)
<1>1. IsFiniteSet({c}) /\ Cardinality({c}) = 1
  BY FS_Singleton
<1>2. IsFiniteSet({c} \X kws) /\ Cardinality({c} \X kws) = Cardinality({c}) * Cardinality(kws)
  BY <1>1, FS_Product
<1>3. Cardinality(kws) \in Nat
  BY FS_CardinalityType
<1> QED BY <1>1, <1>2, <1>3

LEMMA PairsTracked ==
    ASSUME NEW x
    PROVE  x \in TrackedKeywords <=>
               \E c \in Tracked : \E kw \in localRecords[c].keywords : x = <<c, kw>>
BY DEF TrackedKeywords

LEMMA PairsFinite ==
    ASSUME RecordsInv
    PROVE  IsFiniteSet(TrackedKeywords)
<1>1. IsFiniteSet(Tracked \X Token)
  BY TokensFinite, FS_Product DEF RecordsInv
<1>2. TrackedKeywords \subseteq Tracked \X Token
  BY PairsTracked DEF RecordsInv
<1> QED BY <1>1, <1>2, FS_Subset

\* Steps that announce records again, age them or leave them.
SameRecords ==
    \A c \in Content : localRecords'[c] # NoRecord =>
        c \in Tracked /\ localRecords'[c].keywords = localRecords[c].keywords

LEMMA RecordsKept ==
    ASSUME RecordsInv, SameRecords, UNCHANGED stats
    PROVE  RecordsInv'
<1>1. Tracked' \subseteq Tracked
      /\ \A c \in Tracked' : localRecords'[c].keywords = localRecords[c].keywords
  BY DEF SameRecords, Tracked
<1>2. TrackedKeywords' \subseteq TrackedKeywords
  BY <1>1 DEF TrackedKeywords
<1>3. IsFiniteSet(Tracked') /\ Cardinality(Tracked') <= Cardinality(Tracked)
      /\ Cardinality(TrackedKeywords') <= Cardinality(TrackedKeywords)
  BY <1>1, <1>2, PairsFinite, FS_Subset DEF RecordsInv
<1>4. /\ Cardinality(Tracked) \in Nat /\ Cardinality(TrackedKeywords) \in Nat
      /\ Cardinality(Tracked') \in Nat /\ Cardinality(TrackedKeywords') \in Nat
  <2>1. IsFiniteSet(TrackedKeywords')
    BY <1>2, PairsFinite, FS_Subset
  <2> QED BY <1>3, <2>1, PairsFinite, FS_CardinalityType DEF RecordsInv
<1>5. StatsCoverTracked'
  BY <1>3, <1>4 DEF RecordsInv, StatsCoverTracked
<1> QED BY <1>1, <1>3, <1>5 DEF RecordsInv

LEMMA RecordsIndex ==
    ASSUME RecordsInv, DOMAIN localRecords = Content,
           NEW meta \in Meta, NEW tokens \in TokenizeContentMeta[meta], Index(meta, tokens)
    PROVE  RecordsInv'
<1>1. CASE DOMAIN tokens = {}
  BY <1>1, RecordsKept DEF Index, SameRecords, Tracked
<1>2. CASE DOMAIN tokens # {}
  <2> DEFINE c == meta.content
             kws == DOMAIN tokens
  <2>1. c \in Content
    BY IndexWriterAssumption
  <2>2. /\ localRecords'[c].keywords = kws
        /\ \A d \in Content : d # c => localRecords'[d] = localRecords[d]
        /\ stats' = Counted(c, Cardinality(kws))
    BY <1>2, <2>1 DEF Index
  <2>3. kws \subseteq Token
    BY MetaTokens, TokensAreTokens
  <2>4. IsFiniteSet(kws) /\ Cardinality(kws) \in Nat
    BY <2>3, TokensFinite, FS_Subset, FS_CardinalityType
  <2> HIDE DEF c, kws
  <2>5. Tracked' \subseteq Tracked \cup {c}
    BY <2>2 DEF Tracked
  <2>6. TrackedKeywords' \subseteq TrackedKeywords \cup ({c} \X kws)
    <3> SUFFICES ASSUME NEW x \in TrackedKeywords' PROVE x \in TrackedKeywords \cup ({c} \X kws)
      OBVIOUS
    <3>1. PICK d \in Tracked' : \E kw \in localRecords'[d].keywords : x = <<d, kw>>
      BY DEF TrackedKeywords
    <3>2. CASE d = c
      BY <2>2, <3>1, <3>2
    <3>3. CASE d # c
      <4>1. d \in Tracked /\ localRecords'[d] = localRecords[d]
        BY <2>2, <3>3 DEF Tracked
      <4> QED BY <3>1, <4>1, PairsTracked
    <3> QED BY <3>2, <3>3
  <2>7. IsFiniteSet(Tracked') /\ Cardinality(Tracked') \in Nat
        /\ Cardinality(Tracked') <= Cardinality(Tracked) + 1 /\ Cardinality(Tracked) \in Nat
    <3>1. IsFiniteSet(Tracked) /\ Cardinality(Tracked) \in Nat
      BY FS_CardinalityType DEF RecordsInv
    <3>2. IsFiniteSet(Tracked \cup {c}) /\ Cardinality(Tracked \cup {c}) <= Cardinality(Tracked) + 1
      <4>1. CASE c \in Tracked
        <5>1. Tracked \cup {c} = Tracked
          BY <4>1
        <5>2. Cardinality(Tracked) <= Cardinality(Tracked) + 1
          BY <3>1, SMT
        <5> QED BY <3>1, <5>1, <5>2, Zenon
      <4>2. CASE c \notin Tracked
        <5>1. IsFiniteSet(Tracked \cup {c}) /\ Cardinality(Tracked \cup {c}) = Cardinality(Tracked) + 1
          BY <3>1, <4>2, FS_AddElement
        <5> QED BY <3>1, <5>1
      <4> QED BY <4>1, <4>2
    <3>3. IsFiniteSet(Tracked') /\ Cardinality(Tracked') <= Cardinality(Tracked \cup {c})
      BY <2>5, <3>2, FS_Subset
    <3>4. Cardinality(Tracked') \in Nat /\ Cardinality(Tracked \cup {c}) \in Nat
      BY <3>2, <3>3, FS_CardinalityType
    <3> QED BY <3>1, <3>2, <3>3, <3>4
  <2>8. Cardinality(TrackedKeywords') \in Nat /\ Cardinality(TrackedKeywords) \in Nat
        /\ Cardinality(TrackedKeywords') <= Cardinality(TrackedKeywords) + Cardinality(kws)
    <3> DEFINE new == {c} \X kws
    <3>1. IsFiniteSet(new) /\ Cardinality(new) = Cardinality(kws)
      BY <2>4, PairsOf
    <3> HIDE DEF new
    <3>2. IsFiniteSet(TrackedKeywords) /\ Cardinality(TrackedKeywords) \in Nat
      BY PairsFinite, FS_CardinalityType
    <3>3. IsFiniteSet(TrackedKeywords \cap new) /\ Cardinality(TrackedKeywords \cap new) \in Nat
      BY <3>2, FS_Intersection, FS_CardinalityType
    <3>4. /\ IsFiniteSet(TrackedKeywords \cup new)
          /\ Cardinality(TrackedKeywords \cup new) = Cardinality(TrackedKeywords)
                 + Cardinality(new) - Cardinality(TrackedKeywords \cap new)
      BY <3>1, <3>2, FS_Union
    <3>5. /\ IsFiniteSet(TrackedKeywords')
          /\ Cardinality(TrackedKeywords') <= Cardinality(TrackedKeywords \cup new)
      BY <2>6, <3>4, FS_Subset DEF new
    <3>6. Cardinality(TrackedKeywords') \in Nat
      BY <3>5, FS_CardinalityType
    <3> QED BY <2>4, <3>1, <3>2, <3>3, <3>4, <3>5, <3>6
  <2>9. /\ stats'.locallyOwned = stats.locallyOwned + 1
        /\ stats'.totalKeywords = stats.totalKeywords + Cardinality(kws)
        /\ stats'.totalEntries = stats.totalEntries + Cardinality(kws)
    BY <2>2 DEF Counted
  <2>10. StatsCoverTracked'
    BY <2>4, <2>7, <2>8, <2>9 DEF RecordsInv, StatsCoverTracked
  <2>11. ASSUME NEW d \in Tracked' PROVE localRecords'[d].keywords \subseteq Token
    <3>1. CASE d = c
      BY <2>2, <2>3, <3>1
    <3>2. CASE d # c
      <4>1. d \in Tracked /\ localRecords'[d] = localRecords[d]
        BY <2>2, <3>2 DEF Tracked
      <4> QED BY <4>1 DEF RecordsInv
    <3> QED BY <3>1, <3>2
  <2> QED BY <2>4, <2>7, <2>9, <2>10, <2>11 DEF RecordsInv
<1> QED BY <1>1, <1>2

LEMMA RecordsRemove ==
    ASSUME RecordsInv, DOMAIN localRecords = Content, NEW c \in Content, Remove(c)
    PROVE  RecordsInv'
<1> DEFINE kws == localRecords[c].keywords
           old == {c} \X kws
<1>1. /\ c \in Tracked /\ localRecords'[c] = NoRecord
      /\ \A d \in Content : d # c => localRecords'[d] = localRecords[d]
      /\ stats' = [totalKeywords |-> stats.totalKeywords - Cardinality(kws),
                   totalEntries |-> stats.totalEntries - Cardinality(kws),
                   locallyOwned |-> stats.locallyOwned - 1]
  BY DEF Remove
<1>2. IsFiniteSet(kws) /\ Cardinality(kws) \in Nat /\ kws \subseteq Token
  BY <1>1, TokensFinite, FS_Subset, FS_CardinalityType DEF RecordsInv
<1>3. IsFiniteSet(old) /\ Cardinality(old) = Cardinality(kws)
  BY <1>2, PairsOf
<1>4. Tracked' = Tracked \ {c}
  BY <1>1 DEF Tracked
<1>5. old \subseteq TrackedKeywords
  BY <1>1, PairsTracked
<1>6. TrackedKeywords' \subseteq TrackedKeywords \ old
  <2> SUFFICES ASSUME NEW x \in TrackedKeywords' PROVE x \in TrackedKeywords \ old
    OBVIOUS
  <2>1. PICK d \in Tracked' : \E kw \in localRecords'[d].keywords : x = <<d, kw>>
    BY DEF TrackedKeywords
  <2>2. d \in Tracked /\ d # c /\ localRecords'[d] = localRecords[d]
    BY <1>1, <1>4 DEF Tracked
  <2> QED BY <2>1, <2>2, PairsTracked
<1> HIDE DEF kws, old
<1>7. /\ IsFiniteSet(Tracked') /\ Cardinality(Tracked') = Cardinality(Tracked) - 1
      /\ Cardinality(Tracked) \in Nat
  BY <1>1, <1>4, FS_RemoveElement, FS_CardinalityType DEF RecordsInv
<1>8. /\ Cardinality(TrackedKeywords') <= Cardinality(TrackedKeywords) - Cardinality(kws)
      /\ Cardinality(TrackedKeywords) \in Nat /\ Cardinality(TrackedKeywords') \in Nat
  <2>1. IsFiniteSet(TrackedKeywords) /\ Cardinality(TrackedKeywords) \in Nat
    BY PairsFinite, FS_CardinalityType
  <2>2. TrackedKeywords \cap old = old
    BY <1>5
  <2>3. /\ IsFiniteSet(TrackedKeywords \ old)
        /\ Cardinality(TrackedKeywords \ old) = Cardinality(TrackedKeywords) - Cardinality(old)
    BY <2>1, <2>2, FS_Difference
  <2>4. /\ IsFiniteSet(TrackedKeywords')
        /\ Cardinality(TrackedKeywords') <= Cardinality(TrackedKeywords \ old)
    BY <1>6, <2>3, FS_Subset
  <2>5. Cardinality(TrackedKeywords') \in Nat
    BY <2>4, FS_CardinalityType
  <2> QED BY <1>2, <1>3, <2>1, <2>3, <2>4, <2>5
<1>9. StatsCoverTracked'
  BY <1>1, <1>2, <1>7, <1>8 DEF RecordsInv, StatsCoverTracked
<1>10. \A d \in Tracked' : d \in Tracked /\ localRecords'[d] = localRecords[d]
  BY <1>1, <1>4 DEF Tracked
<1> QED BY <1>1, <1>2, <1>7, <1>9, <1>10 DEF RecordsInv

LEMMA RecordsInductive ==
    ASSUME IInv, RecordsInv, [Next]_vars
    PROVE  RecordsInv'
<1>0. DOMAIN localRecords = Content
  BY DEF IInv, AnnouncedInv
<1>1. ASSUME NEW meta \in Meta, IndexContent(meta) PROVE RecordsInv'
  BY <1>0, <1>1, RecordsIndex DEF IndexContent
<1>2. ASSUME NEW c \in Content, StopTracking(c) PROVE RecordsInv'
  BY <1>0, <1>2, RecordsRemove DEF StopTracking
<1>3. ASSUME UNCHANGED writerVars PROVE RecordsInv'
  BY <1>3, RecordsKept DEF writerVars, SameRecords, Tracked
<1>4. CASE ReAnnounce
  <2>1. PICK due \in DueSets : MaintenanceTick(due)
    BY <1>4 DEF ReAnnounce
  <2>2. due \subseteq Tracked
    BY DEF DueSets
  <2>3. UNCHANGED stats
    BY <2>1 DEF MaintenanceTick, GetReAnnounceRecords
  <2>4. SameRecords
    <3> SUFFICES ASSUME NEW c \in Content, localRecords'[c] # NoRecord
                 PROVE  c \in Tracked /\ localRecords'[c].keywords = localRecords[c].keywords
      BY DEF SameRecords
    <3>1. localRecords'[c] = localRecords[c] \/ (c \in due /\ localRecords'[c] = Announced(c, 0))
      BY <2>1 DEF MaintenanceTick, GetReAnnounceRecords
    <3>2. Announced(c, 0).keywords = localRecords[c].keywords
      BY DEF Announced
    <3> QED BY <2>2, <3>1, <3>2 DEF Tracked
  <2> QED BY <2>3, <2>4, RecordsKept
<1>5. CASE Tick
  <2>1. /\ \A c \in Content : localRecords'[c] =
               IF c \in Tracked THEN Announced(c, Age(c) + 1) ELSE NoRecord
        /\ UNCHANGED stats
    BY <1>5 DEF Tick, WriterAges
  <2>2. SameRecords
    <3>1. ASSUME NEW c \in Content, c \in Tracked
          PROVE  localRecords'[c].keywords = localRecords[c].keywords
      <4>1. localRecords'[c] = Announced(c, Age(c) + 1)
        BY <2>1, <3>1, Zenon
      <4>2. Announced(c, Age(c) + 1).keywords = localRecords[c].keywords
        BY DEF Announced
      <4> QED BY <4>1, <4>2, Zenon
    <3>2. ASSUME NEW c \in Content, c \notin Tracked
          PROVE  localRecords'[c] = NoRecord
      BY <2>1, <3>2
    <3> QED BY <2>1, <3>1, <3>2 DEF SameRecords, Tracked
  <2> QED BY <2>1, <2>2, RecordsKept
<1>6. CASE Searcher \/ Purge \/ (\E c \in Indexed : Invalidate(c)) \/ (\E w \in unsent : Send(w))
  <2>1. UNCHANGED writerVars
    BY <1>6 DEF Searcher, StartFetching, FindValue, Feed, SearchAgain, Purge, Invalidate, Send
  <2> QED BY <1>3, <2>1
<1>7. CASE UNCHANGED vars
  BY <1>3, <1>7 DEF vars
<1> QED BY <1>1, <1>2, <1>4, <1>5, <1>6, <1>7 DEF Next, Publisher

LEMMA RecordsInvariant == Spec => []RecordsInv
<1>1. Init => RecordsInv
  <2> SUFFICES ASSUME Init PROVE RecordsInv
    OBVIOUS
  <2>1. Tracked = {} /\ TrackedKeywords = {}
    BY DEF Init, WriterInit, Tracked, TrackedKeywords
  <2>2. IsFiniteSet({}) /\ Cardinality({}) = 0
    BY FS_EmptySet
  <2>3. stats.locallyOwned = 0 /\ stats.totalKeywords = 0 /\ stats.totalEntries = 0
    BY DEF Init, WriterInit
  <2>4. StatsCoverTracked
    BY <2>1, <2>2, <2>3 DEF StatsCoverTracked
  <2> QED BY <2>1, <2>2, <2>3, <2>4 DEF RecordsInv
<1>2. IInv /\ RecordsInv /\ [Next]_vars => RecordsInv'
  BY RecordsInductive
<1> QED BY <1>1, <1>2, InductiveInvariant, PTL DEF Spec

------------------------------------------------------------------------------
(* The pages of a search.                                                  *)

\* An injective sequence over a finite set, as long as the set has elements, has
\* each of them at exactly one place.
LEMMA OrderOfSet ==
    ASSUME NEW S, IsFiniteSet(S), NEW s \in [1..Cardinality(S) -> S], Seqs!IsInjective(s)
    PROVE  /\ s \in Seq(S) /\ Len(s) = Cardinality(S)
           /\ \A i, j \in 1..Len(s) : s[i] = s[j] => i = j
           /\ \A c \in S : \E i \in 1..Len(s) : s[i] = c
<1>1. Cardinality(S) \in Nat
  BY FS_CardinalityType
<1> DEFINE n == Cardinality(S)
           D == 1..n
<1>2. s \in [D -> S] /\ \A i, j \in D : s[i] = s[j] => i = j
  BY DEF Seqs!IsInjective
<1>3. s \in Seq(S) /\ Len(s) = n
  BY <1>1, <1>2
<1>4. IsFiniteSet(D) /\ Cardinality(D) = n
  BY <1>1, FS_Interval
<1>5. s \in Injection(D, S)
  BY <1>2 DEF Injection, IsInjective
<1>6. s \in Surjection(D, S)
  BY <1>4, <1>5, FS_Injection
<1>7. \A c \in S : \E i \in D : s[i] = c
  BY <1>6 DEF Surjection
<1> QED BY <1>2, <1>3, <1>7

\* What a page shows: the places from page * PageSize + 1 on.
LEMMA PageShows ==
    ASSUME NEW S, NEW s \in Seq(S), NEW q \in Query, NEW page \in Nat, NEW c
    PROVE  c \in Seqs!ToSet(Page(s, q, page)) <=>
               \E i \in 1..Len(s) : /\ s[i] = c
                                    /\ page * PageSize(q) < i
                                    /\ i <= page * PageSize(q) + PageSize(q)
<1> DEFINE size == PageSize(q)
           start == page * size
           last == Least(start + size, Len(s))
           shown == SubSeq(s, start + 1, last)
<1>1. size \in Nat \ {0}
  BY IndexReaderAssumption DEF PageSize
<1> HIDE DEF size
<1>2. start \in Nat /\ Len(s) \in Nat
  BY <1>1
<1> HIDE DEF start
<1>3. last \in Nat /\ last <= Len(s) /\ last <= start + size
      /\ \A i \in 1..Len(s) : i <= start + size => i <= last
  BY <1>1, <1>2 DEF Least
<1> HIDE DEF last
<1>4. \A i \in start + 1..last : s[i] \in S
  BY <1>2, <1>3
<1>5. /\ shown \in Seq(S)
      /\ Len(shown) = IF start + 1 <= last THEN last - (start + 1) + 1 ELSE 0
      /\ \A i \in 1..last - (start + 1) + 1 : shown[i] = s[start + 1 + i - 1]
  <2>1. start + 1 \in Int /\ last \in Int
    BY <1>2, <1>3
  <2> QED BY <1>4, <2>1, SubSeqProperties
<1> HIDE DEF shown
<1>6. DOMAIN shown = 1..Len(shown)
  BY <1>5
<1>7. ASSUME c \in Seqs!ToSet(shown)
      PROVE  \E i \in 1..Len(s) : s[i] = c /\ start < i /\ i <= start + size
  <2>1. PICK i \in DOMAIN shown : c = shown[i]
    BY <1>7 DEF Seqs!ToSet
  <2>2. i \in 1..last - start /\ start + i \in 1..Len(s) /\ start + i <= start + size
    BY <1>1, <1>2, <1>3, <1>5, <1>6
  <2>3. s[start + i] = c
    BY <1>2, <1>3, <1>5, <2>1, <2>2
  <2> QED BY <1>2, <2>2, <2>3
<1>8. ASSUME NEW i \in 1..Len(s), s[i] = c, start < i, i <= start + size
      PROVE  c \in Seqs!ToSet(shown)
  <2>1. i <= last
    BY <1>3, <1>8
  <2>2. i - start \in DOMAIN shown /\ shown[i - start] = s[i]
    BY <1>2, <1>3, <1>5, <1>6, <1>8, <2>1
  <2> QED BY <1>8, <2>2 DEF Seqs!ToSet
<1>9. Page(s, q, page) = shown
  BY DEF Page, shown, start, last, size
<1> QED BY <1>7, <1>8, <1>9 DEF start, size

\* Pages of one size do not overlap, and page i - 1 begins no earlier than i.
LEMMA OnePageHasIt ==
    ASSUME NEW size \in Nat \ {0}, NEW i \in Nat \ {0}
    PROVE  /\ \E page \in 0..i - 1 : page * size < i /\ i <= page * size + size
           /\ \A p1, p2 \in Nat :
                 /\ p1 * size < i /\ i <= p1 * size + size
                 /\ p2 * size < i /\ i <= p2 * size + size
                 => p1 = p2
<1>1. \A a, b \in Nat : a < b => a * size + size <= b * size
  <2> SUFFICES ASSUME NEW a \in Nat, NEW b \in Nat, a < b PROVE a * size + size <= b * size
    OBVIOUS
  <2>1. PICK d \in Nat : b = a + 1 + d
    <3>1. b - a - 1 \in Nat /\ b = a + 1 + (b - a - 1)
      OBVIOUS
    <3> QED BY <3>1
  <2>2. b * size = a * size + size + d * size
    BY <2>1
  <2>3. d * size \in Nat /\ a * size \in Nat /\ b * size \in Nat
    OBVIOUS
  <2> QED BY <2>2, <2>3
<1>2. \E page \in 0..i - 1 : page * size < i /\ i <= page * size + size
  <2> DEFINE page == (i - 1) \div size
  <2>1. page \in Nat /\ page * size <= i - 1 /\ i - 1 < page * size + size
    OBVIOUS
  <2>2. page <= page * size
    BY <2>1
  <2> HIDE DEF page
  <2>3. page * size \in Nat
    BY <2>1
  <2>4. page \in 0..i - 1 /\ page * size < i /\ i <= page * size + size
    BY <2>1, <2>2, <2>3
  <2> QED BY <2>4
<1>3. ASSUME NEW a \in Nat, NEW b \in Nat, a < b, i <= a * size + size, b * size < i
      PROVE  FALSE
  <2>1. a * size + size <= b * size /\ a * size \in Nat /\ b * size \in Nat
    BY <1>1, <1>3
  <2> QED BY <1>3, <2>1
<1>4. \A p1, p2 \in Nat :
          /\ p1 * size < i /\ i <= p1 * size + size
          /\ p2 * size < i /\ i <= p2 * size + size
          => p1 = p2
  <2> SUFFICES ASSUME NEW p1 \in Nat, NEW p2 \in Nat,
                      p1 * size < i, i <= p1 * size + size,
                      p2 * size < i, i <= p2 * size + size, p1 # p2
               PROVE  FALSE
    OBVIOUS
  <2>1. p1 < p2 \/ p2 < p1
    OBVIOUS
  <2> QED BY <1>3, <2>1
<1> QED BY <1>2, <1>4

\* If a query can be ranked in one way only, each match is on exactly one page,
\* and no page behind the number of contents is needed to see all.
LEMMA OnOnePage == PagesPartition
<1> SUFFICES ASSUME NEW q \in Query, NEW ranking \in Rankings(q), Rankings(q) = {ranking},
                    NEW c \in Matches(q)
             PROVE  \E page \in 0..Cardinality(Indexed) :
                        {p \in 0..Cardinality(Indexed) : c \in Seqs!ToSet(Page(ranking, q, p))} = {page}
  BY DEF PagesPartition
<1> DEFINE S == Matches(q)
           K == Cardinality(Indexed)
           size == PageSize(q)
           showing == {p \in 0..K : c \in Seqs!ToSet(Page(ranking, q, p))}
           on(p, i) == p * size < i /\ i <= p * size + size
<1>1. IsFiniteSet(S) /\ Cardinality(S) <= K /\ K \in Nat /\ Cardinality(S) \in Nat
  <2>1. S \subseteq Indexed /\ IsFiniteSet(Indexed)
    BY IndexReaderAssumption DEF Matches
  <2> HIDE DEF S
  <2> QED BY <2>1, FS_Subset, FS_CardinalityType
<1>2. ranking \in [1..Cardinality(S) -> S] /\ Seqs!IsInjective(ranking)
  BY DEF Rankings
<1>3. size \in Nat \ {0}
  BY IndexReaderAssumption DEF PageSize
<1> HIDE DEF S, K, size
<1>4. /\ ranking \in Seq(S) /\ Len(ranking) = Cardinality(S)
      /\ \A i, j \in 1..Len(ranking) : ranking[i] = ranking[j] => i = j
      /\ \A d \in S : \E i \in 1..Len(ranking) : ranking[i] = d
  BY <1>1, <1>2, OrderOfSet
<1>5. PICK i \in 1..Len(ranking) : ranking[i] = c
  BY <1>4 DEF S
<1>6. i \in Nat \ {0} /\ i <= K
  BY <1>1, <1>4, <1>5
<1>7. \A p \in Nat : c \in Seqs!ToSet(Page(ranking, q, p)) <=> on(p, i)
  <2> SUFFICES ASSUME NEW p \in Nat PROVE c \in Seqs!ToSet(Page(ranking, q, p)) <=> on(p, i)
    OBVIOUS
  <2>1. c \in Seqs!ToSet(Page(ranking, q, p)) <=>
            \E j \in 1..Len(ranking) : ranking[j] = c /\ on(p, j)
    BY <1>4, PageShows DEF size
  <2>2. (\E j \in 1..Len(ranking) : ranking[j] = c /\ on(p, j)) <=> on(p, i)
    <3> HIDE DEF on
    <3> QED BY <1>4, <1>5
  <2> QED BY <2>1, <2>2
<1>8. PICK page \in 0..i - 1 : on(page, i)
  BY <1>3, <1>6, OnePageHasIt
<1>9. \A p \in Nat : on(p, i) => p = page
  BY <1>3, <1>6, <1>8, OnePageHasIt
<1>10. page \in 0..K /\ \A p \in 0..K : p \in Nat
  BY <1>1, <1>6, <1>8
<1> HIDE DEF on
<1>11. showing = {page}
  BY <1>7, <1>8, <1>9, <1>10
<1> QED BY <1>10, <1>11 DEF K

\* One after the other the pages of a query that can be ranked in one way only
\* show each match, and none twice: whatever the cache holds, the filters let
\* pass and the page size is.
THEOREM PagesShowEachOnce == Spec => []PagesPartition
BY OnOnePage, PTL
------------------------------------------------------------------------------
(* Types.  Ages are bounded by the inductive invariant; what remains is what *)
(* the steps hand on: tokens, contents and weights.                         *)

RecordsTyped ==
    /\ localRecords \in [Content -> {NoRecord} \cup [keywords : SUBSET Token, lastAnnounce : Nat]]
    /\ stats \in [totalKeywords : Int, totalEntries : Int, locallyOwned : Int]
    /\ indexings \in 0..MaxIndexings

OneEntry == [weight : 1..10, announced : 0..Oldest]
FetchedBucket == [token : Token, entries : EntryMap(Indexed)]

UnsentRecord == [record : [keyword : Token, content : Content, weight : 1..10], own : BOOLEAN]
UnsentTyped == unsent \in SUBSET UnsentRecord

DhtTyped == dht \in [Token -> EntryMap(Content)]
CacheTyped == cache \in [Token -> {NotCached} \cup CachedBucket]

SearchUnderWay ==
    [query : Query, todo : SUBSET Token, missed : SUBSET Token, undisturbed : BOOLEAN,
     bucket : {NoBucket} \cup FetchedBucket]
SearchTyped == search \in {NoSearch} \cup SearchUnderWay

EntriesTyped == UnsentTyped /\ DhtTyped /\ CacheTyped /\ SearchTyped

\* What is a map of entries, and what of one may be used.
LEMMA EntryMapIs ==
    ASSUME NEW C, NEW D \in SUBSET C, NEW m \in [D -> OneEntry]
    PROVE  m \in EntryMap(C)
BY DEF EntryMap, OneEntry

LEMMA EntryMapHas ==
    ASSUME NEW C, NEW m \in EntryMap(C)
    PROVE  DOMAIN m \in SUBSET C /\ m \in [DOMAIN m -> OneEntry]
BY DEF EntryMap, OneEntry

LEMMA EmptyMap == ASSUME NEW C PROVE <<>> \in EntryMap(C)
<1>1. <<>> \in [{} -> OneEntry] /\ {} \in SUBSET C
  OBVIOUS
<1> QED BY <1>1, EntryMapIs

LEMMA OldestIs ==
    /\ Oldest \in Nat /\ 0 \in 0..Oldest
    /\ IndexEntryTTL + CacheEntryTTL < Oldest /\ IndexEntryTTL < Oldest
BY IndexWriterAssumption, IndexReaderAssumption DEF Oldest

LEMMA EntryTyped ==
    ASSUME NEW w \in 1..10, NEW age \in 0..Oldest
    PROVE  Entry(w, age) \in OneEntry
BY DEF Entry, OneEntry

LEMMA BucketTyped ==
    ASSUME NEW age \in 0..CacheEntryTTL + 1, NEW entries \in EntryMap(Indexed)
    PROVE  Bucket(age, entries) \in CachedBucket
BY DEF Bucket, CachedBucket

\* What Index hands out: its tokens, at weights of the tokenizer.
LEMMA TokensTyped ==
    ASSUME NEW meta \in Meta, NEW tokens \in TokenizeContentMeta[meta]
    PROVE  /\ DOMAIN tokens \subseteq Token /\ IsFiniteSet(DOMAIN tokens)
           /\ Cardinality(DOMAIN tokens) \in Nat
           /\ \A tok \in DOMAIN tokens : tokens[tok] \in 1..10
<1>1. DOMAIN tokens \subseteq Token
  BY MetaTokens, TokensAreTokens
<1>2. ASSUME NEW tok \in DOMAIN tokens PROVE tokens[tok] \in 1..10
  <2>1. PICK s \in Sources(meta) : s[2] = tokens[tok]
    BY StrongestSourceCounts
  <2>2. s[2] \in {3, 5, 8, 10}
    BY SourcesFinite
  <2> QED BY <2>1, <2>2
<1>3. IsFiniteSet(DOMAIN tokens)
  BY <1>1, TokensFinite, FS_Subset
<1> QED BY <1>1, <1>2, <1>3, FS_CardinalityType

------------------------------------------------------------------------------
(* The writer keeps its types.                                             *)

LEMMA RecordsTypedInit == Init => RecordsTyped
BY IndexWriterAssumption DEF Init, WriterInit, RecordsTyped

LEMMA RecordsTypedIndex ==
    ASSUME RecordsTyped, NEW meta \in Meta, NEW tokens \in TokenizeContentMeta[meta],
           Index(meta, tokens)
    PROVE  RecordsTyped'
<1>1. meta.content \in Content /\ MaxIndexings \in Nat
  BY IndexWriterAssumption
<1>2. indexings' \in 0..MaxIndexings
  BY <1>1 DEF RecordsTyped, Index
<1>3. CASE DOMAIN tokens = {}
  BY <1>2, <1>3 DEF RecordsTyped, Index
<1>4. CASE DOMAIN tokens # {}
  <2>1. [keywords |-> DOMAIN tokens, lastAnnounce |-> 0] \in
            [keywords : SUBSET Token, lastAnnounce : Nat]
    BY TokensTyped
  <2>2. localRecords' \in [Content -> {NoRecord} \cup [keywords : SUBSET Token, lastAnnounce : Nat]]
    <3>1. localRecords' = [localRecords EXCEPT ![meta.content] =
                              [keywords |-> DOMAIN tokens, lastAnnounce |-> 0]]
      BY <1>4 DEF Index
    <3> QED BY <1>1, <2>1, <3>1 DEF RecordsTyped
  <2>3. stats' \in [totalKeywords : Int, totalEntries : Int, locallyOwned : Int]
    <3>1. stats' = Counted(meta.content, Cardinality(DOMAIN tokens))
      BY <1>4 DEF Index
    <3>2. Cardinality(DOMAIN tokens) \in Int
      BY TokensTyped
    <3> QED BY <3>1, <3>2 DEF RecordsTyped, Counted
  <2> QED BY <1>2, <2>2, <2>3 DEF RecordsTyped
<1> QED BY <1>3, <1>4

LEMMA RecordsTypedRemove ==
    ASSUME RecordsTyped, NEW c \in Content, Remove(c)
    PROVE  RecordsTyped'
<1>1. localRecords[c] \in [keywords : SUBSET Token, lastAnnounce : Nat]
  BY DEF RecordsTyped, Remove, Tracked
<1>2. Cardinality(localRecords[c].keywords) \in Int
  BY <1>1, TokensFinite, FS_Subset, FS_CardinalityType
<1>3. stats' \in [totalKeywords : Int, totalEntries : Int, locallyOwned : Int]
  BY <1>2 DEF RecordsTyped, Remove
<1> QED BY <1>3 DEF RecordsTyped, Remove

LEMMA RecordsTypedTick ==
    ASSUME RecordsTyped, NEW due, MaintenanceTick(due)
    PROVE  RecordsTyped'
<1>1. due \subseteq Tracked
  BY DEF MaintenanceTick, DueSets
<1>2. ASSUME NEW c \in due PROVE Announced(c, 0) \in [keywords : SUBSET Token, lastAnnounce : Nat]
  BY <1>1 DEF RecordsTyped, Tracked, Announced
<1>3. ASSUME NEW c \in Content
      PROVE  localRecords'[c] \in {NoRecord} \cup [keywords : SUBSET Token, lastAnnounce : Nat]
  <2>1. localRecords'[c] \in {localRecords[c], NoRecord} \/ (c \in due /\ localRecords'[c] = Announced(c, 0))
    BY DEF MaintenanceTick, GetReAnnounceRecords
  <2> QED BY <1>2, <2>1 DEF RecordsTyped
<1>4. localRecords' = [c \in Content |-> localRecords'[c]]
  BY DEF MaintenanceTick, GetReAnnounceRecords
<1>5. UNCHANGED <<stats, indexings>>
  BY DEF MaintenanceTick, GetReAnnounceRecords
<1>6. localRecords' \in [Content -> {NoRecord} \cup [keywords : SUBSET Token, lastAnnounce : Nat]]
  BY <1>3, <1>4
<1> QED BY <1>5, <1>6 DEF RecordsTyped

LEMMA RecordsTypedAges ==
    ASSUME RecordsTyped, WriterAges
    PROVE  RecordsTyped'
<1>1. ASSUME NEW c \in Tracked
      PROVE  Announced(c, Age(c) + 1) \in [keywords : SUBSET Token, lastAnnounce : Nat]
  BY <1>1 DEF RecordsTyped, Tracked, Announced, Age
<1> QED BY <1>1 DEF RecordsTyped, WriterAges

LEMMA RecordsTypedKept == RecordsTyped /\ [Next]_vars => RecordsTyped'
<1> SUFFICES ASSUME RecordsTyped, [Next]_vars PROVE RecordsTyped'
  OBVIOUS
<1>1. ASSUME NEW meta \in Meta, IndexContent(meta) PROVE RecordsTyped'
  BY <1>1, RecordsTypedIndex DEF IndexContent
<1>2. ASSUME NEW c \in Content, StopTracking(c) PROVE RecordsTyped'
  BY <1>2, RecordsTypedRemove DEF StopTracking
<1>3. CASE ReAnnounce
  BY <1>3, RecordsTypedTick DEF ReAnnounce
<1>4. CASE Tick
  BY <1>4, RecordsTypedAges DEF Tick
<1>5. CASE UNCHANGED writerVars
  BY <1>5 DEF RecordsTyped, writerVars
<1>6. ASSUME (\E w \in unsent : Send(w)) \/ Searcher \/ Purge \/ (\E c \in Indexed : Invalidate(c))
             \/ UNCHANGED vars
      PROVE  UNCHANGED writerVars
  BY <1>6 DEF Send, Searcher, StartFetching, FindValue, Feed, SearchAgain, Purge, Invalidate, vars
<1> QED BY <1>1, <1>2, <1>3, <1>4, <1>5, <1>6 DEF Next, Publisher
------------------------------------------------------------------------------
(* What is on its way to the DHT, in it, in the cache and in a search keeps  *)
(* its types.                                                               *)

LEMMA EntriesTypedInit == Init => EntriesTyped
BY EmptyMap DEF Init, ReaderInit, EntriesTyped, UnsentTyped, DhtTyped, CacheTyped, SearchTyped

LEMMA UnsentTypedIndex ==
    ASSUME NEW meta \in Meta, IndexContent(meta)
    PROVE  UnsentTyped'
<1>1. PICK tokens \in TokenizeContentMeta[meta] :
          unsent' = {[record |-> r, own |-> TRUE] : r \in RecordsOf(meta, tokens)}
  BY DEF IndexContent
<1>2. ASSUME NEW tok \in DOMAIN tokens
      PROVE  WriteRecord(tok, meta.content, tokens[tok]) \in
                 [keyword : Token, content : Content, weight : 1..10]
  BY TokensTyped, IndexWriterAssumption DEF WriteRecord
<1>3. RecordsOf(meta, tokens) \subseteq [keyword : Token, content : Content, weight : 1..10]
  BY <1>2 DEF RecordsOf
<1>4. ASSUME NEW r \in RecordsOf(meta, tokens)
      PROVE  [record |-> r, own |-> TRUE] \in UnsentRecord
  BY <1>3 DEF UnsentRecord
<1> QED BY <1>1, <1>4 DEF UnsentTyped

LEMMA UnsentTypedReAnnounce ==
    ASSUME UnsentTyped, RecordsTyped, ReAnnounce
    PROVE  UnsentTyped'
<1>1. PICK due \in DueSets :
          unsent' = unsent \cup {[record |-> r, own |-> FALSE] : r \in ReAnnounced(due)}
  BY DEF ReAnnounce
<1>2. ASSUME NEW c \in due, NEW kw \in localRecords[c].keywords
      PROVE  WriteRecord(kw, c, 10) \in [keyword : Token, content : Content, weight : 1..10]
  <2>1. c \in Tracked
    BY <1>1 DEF DueSets
  <2> QED BY <2>1 DEF RecordsTyped, Tracked, WriteRecord
<1>3. ReAnnounced(due) \subseteq [keyword : Token, content : Content, weight : 1..10]
  BY <1>2 DEF ReAnnounced
<1>4. ASSUME NEW r \in ReAnnounced(due)
      PROVE  [record |-> r, own |-> FALSE] \in UnsentRecord
  BY <1>3 DEF UnsentRecord
<1> QED BY <1>1, <1>4 DEF UnsentTyped

\* A STORE puts an entry of this moment into the map of its token.
LEMMA DhtTypedStored ==
    ASSUME DhtTyped, NEW r \in [keyword : Token, content : Content, weight : 1..10],
           dht' = Stored(r)
    PROVE  DhtTyped'
<1> DEFINE old == dht[r.keyword]
           new == [c \in DOMAIN old \cup {r.content} |->
                      IF c = r.content THEN Entry(r.weight, 0) ELSE old[c]]
<1>1. dht' = [dht EXCEPT ![r.keyword] = new]
  BY DEF Stored
<1>2. r.keyword \in Token /\ r.content \in Content /\ old \in EntryMap(Content)
  BY DEF DhtTyped
<1>3. Entry(r.weight, 0) \in OneEntry
  BY EntryTyped, OldestIs
<1>4. DOMAIN old \in SUBSET Content /\ old \in [DOMAIN old -> OneEntry]
  BY <1>2, EntryMapHas
<1> HIDE DEF old
<1>5. DOMAIN old \cup {r.content} \in SUBSET Content
      /\ new \in [DOMAIN old \cup {r.content} -> OneEntry]
  BY <1>2, <1>3, <1>4
<1> HIDE DEF new
<1>6. new \in EntryMap(Content)
  BY <1>5, EntryMapIs
<1> QED BY <1>1, <1>6 DEF DhtTyped

LEMMA DhtTypedTick ==
    ASSUME DhtTyped, Tick
    PROVE  DhtTyped'
<1> SUFFICES ASSUME NEW tok \in Token PROVE dht'[tok] \in EntryMap(Content)
  BY DEF Tick, DhtTyped
<1> DEFINE D == {c \in DOMAIN dht[tok] : dht[tok][c].announced < IndexEntryTTL}
<1>1. dht'[tok] = [c \in D |-> Entry(dht[tok][c].weight, dht[tok][c].announced + 1)]
  BY DEF Tick
<1>2. DOMAIN dht[tok] \in SUBSET Content /\ dht[tok] \in [DOMAIN dht[tok] -> OneEntry]
  BY EntryMapHas DEF DhtTyped
<1>3. ASSUME NEW c \in D PROVE Entry(dht[tok][c].weight, dht[tok][c].announced + 1) \in OneEntry
  <2>1. dht[tok][c] \in OneEntry /\ dht[tok][c].announced < IndexEntryTTL
    BY <1>2
  <2>2. dht[tok][c].weight \in 1..10 /\ dht[tok][c].announced + 1 \in 0..Oldest
    BY <2>1, OldestIs, IndexWriterAssumption DEF OneEntry
  <2> QED BY <2>2, EntryTyped
<1>4. D \in SUBSET Content
  BY <1>2
<1> HIDE DEF D
<1>5. dht'[tok] \in [D -> OneEntry]
  BY <1>1, <1>3
<1> QED BY <1>4, <1>5, EntryMapIs

\* An entry joins a map, or leaves it for a stronger one.
LEMMA MergedTyped ==
    ASSUME NEW entries \in EntryMap(Indexed), NEW c \in Indexed, NEW e \in OneEntry
    PROVE  Merged(entries, c, e) \in EntryMap(Indexed)
<1>1. CASE c \in DOMAIN entries /\ e.weight < entries[c].weight
  BY <1>1 DEF Merged
<1>2. CASE ~(c \in DOMAIN entries /\ e.weight < entries[c].weight)
  <2> DEFINE new == [d \in DOMAIN entries \cup {c} |-> IF d = c THEN e ELSE entries[d]]
  <2>1. DOMAIN entries \in SUBSET Indexed /\ entries \in [DOMAIN entries -> OneEntry]
    BY EntryMapHas
  <2>2. DOMAIN entries \cup {c} \in SUBSET Indexed /\ new \in [DOMAIN entries \cup {c} -> OneEntry]
    BY <2>1
  <2>3. Merged(entries, c, e) = new
    BY <1>2 DEF Merged
  <2> HIDE DEF new
  <2> QED BY <2>2, <2>3, EntryMapIs
<1> QED BY <1>1, <1>2

LEMMA CacheTypedFeedEntry ==
    ASSUME CacheTyped, NEW kw \in Token, NEW c \in Indexed, NEW e \in OneEntry, FeedEntry(kw, c, e)
    PROVE  CacheTyped'
<1> DEFINE new == IF Fresh(kw) THEN Bucket(cache[kw].fetchedAt, Merged(cache[kw].entries, c, e))
                               ELSE Bucket(0, Merged(<<>>, c, e))
<1>1. cache' = [cache EXCEPT ![kw] = new]
  BY DEF FeedEntry
<1>2. new \in CachedBucket
  <2>1. CASE Fresh(kw)
    <3>1. cache[kw] \in CachedBucket
      BY <2>1 DEF CacheTyped, Fresh
    <3>2. cache[kw].fetchedAt \in 0..CacheEntryTTL + 1 /\ cache[kw].entries \in EntryMap(Indexed)
      BY <3>1 DEF CachedBucket
    <3> QED BY <2>1, <3>2, MergedTyped, BucketTyped
  <2>2. CASE ~Fresh(kw)
    <3>1. 0 \in 0..CacheEntryTTL + 1
      BY IndexReaderAssumption
    <3> QED BY <2>2, <3>1, EmptyMap, MergedTyped, BucketTyped
  <2> QED BY <2>1, <2>2
<1> HIDE DEF new
<1> QED BY <1>1, <1>2 DEF CacheTyped

LEMMA CacheTypedInvalidate ==
    ASSUME CacheTyped, NEW c, InvalidateContent(c)
    PROVE  CacheTyped'
<1> SUFFICES ASSUME NEW tok \in Token PROVE cache'[tok] \in {NotCached} \cup CachedBucket
  BY DEF InvalidateContent, CacheTyped
<1> DEFINE D == DOMAIN cache[tok].entries \ {c}
           rest == [d \in D |-> cache[tok].entries[d]]
<1>1. cache'[tok] = IF cache[tok] = NotCached \/ DOMAIN cache[tok].entries \subseteq {c} THEN NotCached
                    ELSE Bucket(cache[tok].fetchedAt, rest)
  BY DEF InvalidateContent
<1>2. CASE cache'[tok] # NotCached
  <2>1. cache[tok] \in CachedBucket /\ cache'[tok] = Bucket(cache[tok].fetchedAt, rest)
    BY <1>1, <1>2 DEF CacheTyped
  <2>2. cache[tok].fetchedAt \in 0..CacheEntryTTL + 1 /\ cache[tok].entries \in EntryMap(Indexed)
    BY <2>1 DEF CachedBucket
  <2>3. D \in SUBSET Indexed /\ rest \in [D -> OneEntry]
    BY <2>2, EntryMapHas
  <2> HIDE DEF rest, D
  <2> QED BY <2>1, <2>2, <2>3, EntryMapIs, BucketTyped
<1> QED BY <1>2

\* A bucket that can be read has room to age, by what is known of its entries.
LEMMA CacheTypedAges ==
    ASSUME CacheTyped, CachedInv, ReaderAges(Oldest)
    PROVE  CacheTyped'
<1> SUFFICES ASSUME NEW tok \in Token, cache[tok] # NotCached
             PROVE  Older(cache[tok], Oldest) \in CachedBucket
  BY DEF ReaderAges, CacheTyped
<1> DEFINE entries == cache[tok].entries
           age == cache[tok].fetchedAt
<1>1. age \in 0..CacheEntryTTL + 1 /\ entries \in EntryMap(Indexed)
  BY DEF CacheTyped, CachedBucket
<1>2. DOMAIN entries \in SUBSET Indexed /\ entries \in [DOMAIN entries -> OneEntry]
  BY <1>1, EntryMapHas
<1>3. CASE age >= CacheEntryTTL
  <2> DEFINE all == [c \in DOMAIN entries |-> Entry(entries[c].weight, Oldest)]
  <2>1. Older(cache[tok], Oldest) = Bucket(CacheEntryTTL + 1, all)
    BY <1>3 DEF Older
  <2>2. \A c \in DOMAIN entries : entries[c].weight \in 1..10
    BY <1>2 DEF OneEntry
  <2>3. Oldest \in 0..Oldest /\ CacheEntryTTL + 1 \in 0..CacheEntryTTL + 1
    BY OldestIs, IndexReaderAssumption
  <2>4. all \in [DOMAIN entries -> OneEntry]
    BY <2>2, <2>3, EntryTyped
  <2> HIDE DEF all
  <2> QED BY <1>2, <2>1, <2>3, <2>4, EntryMapIs, BucketTyped
<1>4. CASE age < CacheEntryTTL
  <2> DEFINE all == [c \in DOMAIN entries |->
                        Entry(entries[c].weight, entries[c].announced + 1)]
  <2>0. ~(age >= CacheEntryTTL) /\ age + 1 \in 0..CacheEntryTTL + 1
    BY <1>1, <1>4, IndexReaderAssumption
  <2>1. Older(cache[tok], Oldest) = Bucket(age + 1, all)
    BY <2>0 DEF Older
  <2>2. Recent(entries, IndexEntryTTL + age)
    BY <1>1, <1>4, IndexReaderAssumption DEF CachedInv, Fresh, isExpired
  <2>3. ASSUME NEW c \in DOMAIN entries
        PROVE  Entry(entries[c].weight, entries[c].announced + 1) \in OneEntry
    <3>1. entries[c].weight \in 1..10
      BY <1>2 DEF OneEntry
    <3>2. entries[c].announced \in 0..IndexEntryTTL + age
      BY <2>2 DEF Recent
    <3> HIDE DEF entries, age
    <3>3. entries[c].announced + 1 \in 0..Oldest
      BY <1>1, <1>4, <3>2, IndexWriterAssumption, IndexReaderAssumption DEF Oldest
    <3> QED BY <3>1, <3>3, EntryTyped
  <2>4. all \in [DOMAIN entries -> OneEntry]
    BY <2>3
  <2> HIDE DEF all
  <2> QED BY <1>2, <2>0, <2>1, <2>4, EntryMapIs, BucketTyped
<1> QED BY <1>1, <1>3, <1>4, IndexReaderAssumption
\* What a FIND_VALUE brings: entries of this node, and those of others.
LEMMA FetchedTyped ==
    ASSUME DhtTyped, NEW tok \in Token
    PROVE  BucketAt(tok) \in EntryMap(Indexed)
<1> DEFINE mine == DOMAIN dht[tok]
           others == DOMAIN Elsewhere[tok]
<1>1. mine \in SUBSET Content /\ dht[tok] \in [mine -> OneEntry]
  BY EntryMapHas DEF DhtTyped
<1>2. others \in SUBSET Indexed /\ Elsewhere[tok] \in [others -> 1..10]
  BY SearchIndexAssumption
<1>3. ASSUME NEW c \in others PROVE Entry(Elsewhere[tok][c], 0) \in OneEntry
  BY <1>2, EntryTyped, OldestIs
<1>4. mine \cup others \in SUBSET Indexed
  BY <1>1, <1>2, SearchIndexAssumption
<1>5. BucketAt(tok) = [c \in mine \cup others |->
          IF c \in mine THEN dht[tok][c] ELSE Entry(Elsewhere[tok][c], 0)]
  BY DEF BucketAt
<1> HIDE DEF mine, others
<1>6. BucketAt(tok) \in [mine \cup others -> OneEntry]
  BY <1>1, <1>3, <1>5
<1> QED BY <1>4, <1>6, EntryMapIs

LEMMA SearchTypedFindValue ==
    ASSUME SearchTyped, DhtTyped, NEW tok \in Token, FindValue(tok)
    PROVE  SearchTyped'
<1>1. [token |-> tok, entries |-> BucketAt(tok)] \in FetchedBucket
  BY FetchedTyped DEF FetchedBucket
<1>2. search \in SearchUnderWay
  BY DEF SearchTyped, FindValue
<1>3. [search EXCEPT !.bucket = [token |-> tok, entries |-> BucketAt(tok)]] \in SearchUnderWay
  BY <1>1, <1>2 DEF SearchUnderWay
<1>4. [search EXCEPT !.todo = @ \ {tok},
                     !.missed = IF search.undisturbed THEN @ \cup {tok} ELSE @] \in SearchUnderWay
  BY <1>2 DEF SearchUnderWay
<1> QED BY <1>3, <1>4 DEF SearchTyped, FindValue

LEMMA SearchTypedDisturbed ==
    ASSUME SearchTyped, search' = Disturbed
    PROVE  SearchTyped'
BY DEF SearchTyped, SearchUnderWay, Disturbed

LEMMA SearcherTyped ==
    ASSUME EntriesTyped, Searcher
    PROVE  EntriesTyped'
<1>1. UNCHANGED <<unsent, dht>>
  BY DEF Searcher, StartFetching, FindValue, Feed, SearchAgain
<1>2. UnsentTyped' /\ DhtTyped'
  BY <1>1 DEF EntriesTyped, UnsentTyped, DhtTyped
<1>3. ASSUME NEW q \in Query, StartFetching(q) PROVE CacheTyped' /\ SearchTyped'
  <2>1. GetDHTKeysForQuery(q) \in SUBSET Token
    BY QueryTokensAreTokens DEF GetDHTKeysForQuery
  <2> QED BY <1>3, <2>1 DEF StartFetching, EntriesTyped, CacheTyped, SearchTyped, SearchUnderWay
<1>4. ASSUME NEW tok \in Token, FindValue(tok) PROVE CacheTyped' /\ SearchTyped'
  <2>1. UNCHANGED cache
    BY <1>4 DEF FindValue
  <2> QED BY <1>4, <2>1, SearchTypedFindValue DEF EntriesTyped, CacheTyped
<1>5. CASE Feed
  <2>0. search \in SearchUnderWay /\ search.bucket # NoBucket
    BY <1>5 DEF Feed, EntriesTyped, SearchTyped
  <2>1. search.bucket \in FetchedBucket
    BY <2>0 DEF SearchUnderWay
  <2>2. Bucket(0, search.bucket.entries) \in CachedBucket
    BY <2>1, BucketTyped, IndexReaderAssumption DEF FetchedBucket
  <2>3. cache' = [cache EXCEPT ![search.bucket.token] = Bucket(0, search.bucket.entries)]
    BY <1>5 DEF Feed, FeedBucket
  <2>4. CacheTyped'
    BY <2>2, <2>3 DEF EntriesTyped, CacheTyped
  <2>5. [search EXCEPT !.todo = @ \ {search.bucket.token}, !.bucket = NoBucket] \in SearchUnderWay
    BY <2>0 DEF SearchUnderWay
  <2>6. SearchTyped'
    BY <1>5, <2>5 DEF Feed, SearchTyped
  <2> QED BY <1>2, <2>4, <2>6 DEF EntriesTyped
<1>6. CASE SearchAgain
  <2>1. UNCHANGED cache /\ search' = NoSearch
    BY <1>6 DEF SearchAgain
  <2> QED BY <1>2, <2>1 DEF EntriesTyped, CacheTyped, SearchTyped
<1> QED BY <1>2, <1>3, <1>4, <1>5, <1>6 DEF Searcher, EntriesTyped

LEMMA SendTyped ==
    ASSUME EntriesTyped, NEW w \in unsent, Send(w)
    PROVE  EntriesTyped'
<1>1. w.record \in [keyword : Token, content : Content, weight : 1..10]
  BY DEF EntriesTyped, UnsentTyped, UnsentRecord
<1>2. UnsentTyped' /\ SearchTyped'
  BY DEF EntriesTyped, Send, UnsentTyped, SearchTyped
<1>3. DhtTyped'
  BY <1>1, DhtTypedStored DEF EntriesTyped, Send
<1>4. CacheTyped'
  <2>1. CASE w.own
    <3>1. /\ w.record.keyword \in Token /\ w.record.content \in Indexed
          /\ Entry(w.record.weight, 0) \in OneEntry
      BY <1>1, EntryTyped, OldestIs, SearchIndexAssumption
    <3> QED BY <2>1, <3>1, CacheTypedFeedEntry DEF EntriesTyped, Send
  <2>2. CASE ~w.own
    BY <2>2 DEF EntriesTyped, Send, CacheTyped
  <2> QED BY <2>1, <2>2
<1> QED BY <1>2, <1>3, <1>4 DEF EntriesTyped

LEMMA EntriesTypedKept == IInv /\ RecordsTyped /\ EntriesTyped /\ [Next]_vars => EntriesTyped'
<1> SUFFICES ASSUME IInv, RecordsTyped, EntriesTyped, [Next]_vars PROVE EntriesTyped'
  OBVIOUS
<1>1. ASSUME NEW meta \in Meta, IndexContent(meta) PROVE EntriesTyped'
  <2>1. UNCHANGED <<cache, dht, search>>
    BY <1>1 DEF IndexContent
  <2> QED BY <1>1, <2>1, UnsentTypedIndex DEF EntriesTyped, DhtTyped, CacheTyped, SearchTyped
<1>2. CASE ReAnnounce
  <2>1. UNCHANGED <<cache, dht, search>>
    BY <1>2 DEF ReAnnounce
  <2> QED BY <1>2, <2>1, UnsentTypedReAnnounce DEF EntriesTyped, DhtTyped, CacheTyped, SearchTyped
<1>3. ASSUME NEW w \in unsent, Send(w) PROVE EntriesTyped'
  BY <1>3, SendTyped
<1>4. CASE Searcher
  BY <1>4, SearcherTyped
<1>5. ASSUME NEW c \in Indexed, Invalidate(c) PROVE EntriesTyped'
  <2>1. UnsentTyped' /\ DhtTyped'
    BY <1>5 DEF Invalidate, EntriesTyped, UnsentTyped, DhtTyped
  <2> QED BY <1>5, <2>1, CacheTypedInvalidate, SearchTypedDisturbed DEF Invalidate, EntriesTyped
<1>6. CASE Purge
  <2>1. UNCHANGED <<unsent, dht, search>>
    BY <1>6 DEF Purge, searchVars
  <2>2. CacheTyped'
    BY <1>6 DEF Purge, PurgeExpiredCache, EntriesTyped, CacheTyped
  <2> QED BY <2>1, <2>2 DEF EntriesTyped, UnsentTyped, DhtTyped, SearchTyped
<1>7. CASE Tick
  <2>1. UnsentTyped'
    BY <1>7 DEF Tick, EntriesTyped, UnsentTyped
  <2> QED BY <1>7, <2>1, DhtTypedTick, CacheTypedAges, SearchTypedDisturbed
          DEF Tick, EntriesTyped, IInv
<1>8. ASSUME (\E c \in Content : StopTracking(c)) \/ UNCHANGED vars PROVE EntriesTyped'
  <2>1. UNCHANGED <<unsent, dht, search, cache>>
    BY <1>8 DEF StopTracking, vars, searchVars
  <2> QED BY <2>1 DEF EntriesTyped, UnsentTyped, DhtTyped, CacheTyped, SearchTyped
<1> QED BY <1>1, <1>2, <1>3, <1>4, <1>5, <1>6, <1>7, <1>8 DEF Next, Publisher

LEMMA EntriesInvariant == Spec => [](RecordsTyped /\ EntriesTyped)
<1> DEFINE Typed == RecordsTyped /\ EntriesTyped
<1>1. Init => Typed
  BY RecordsTypedInit, EntriesTypedInit
<1>2. IInv /\ Typed /\ [Next]_vars => Typed'
  BY RecordsTypedKept, EntriesTypedKept
<1> HIDE DEF Typed
<1>3. Spec => []Typed
  BY <1>1, <1>2, InductiveInvariant, PTL DEF Spec
<1> QED BY <1>3 DEF Typed

\* The state of the index keeps its types, whatever is indexed, announced,
\* stored, fetched, invalidated and forgotten, and the statistics never go
\* below zero.
THEOREM TypeCorrect == Spec => []TypeOK
<1>1. /\ IInv /\ RecordsTyped /\ EntriesTyped
      /\ StatsCoverTracked /\ IsFiniteSet(Tracked) /\ IsFiniteSet(TrackedKeywords)
      => TypeOK
  <2> SUFFICES ASSUME IInv, RecordsTyped, EntriesTyped, StatsCoverTracked,
                      IsFiniteSet(Tracked), IsFiniteSet(TrackedKeywords)
               PROVE  TypeOK
    OBVIOUS
  <2>1. localRecords \in [Content -> {NoRecord} \cup
            [keywords : SUBSET Token, lastAnnounce : 0..2 * ReAnnounceInterval]]
    <3>1. ASSUME NEW c \in Tracked
          PROVE  localRecords[c] \in [keywords : SUBSET Token, lastAnnounce : 0..2 * ReAnnounceInterval]
      <4>1. localRecords[c] \in [keywords : SUBSET Token, lastAnnounce : Nat]
        BY DEF RecordsTyped, Tracked
      <4>2. localRecords[c].lastAnnounce \in 0..2 * ReAnnounceInterval
        BY IndexWriterAssumption DEF IInv, AnnouncedInv, Age
      <4> QED BY <4>1, <4>2
    <3> QED BY <3>1 DEF RecordsTyped, Tracked
  <2>2. stats \in [totalKeywords : Nat, totalEntries : Nat, locallyOwned : Nat]
    <3>1. Cardinality(Tracked) \in Nat /\ Cardinality(TrackedKeywords) \in Nat
      BY FS_CardinalityType
    <3>2. /\ stats.locallyOwned \in Int /\ stats.totalKeywords \in Int /\ stats.totalEntries \in Int
          /\ stats = [totalKeywords |-> stats.totalKeywords, totalEntries |-> stats.totalEntries,
                      locallyOwned |-> stats.locallyOwned]
      BY DEF RecordsTyped
    <3> QED BY <3>1, <3>2 DEF StatsCoverTracked
  <2> QED BY <2>1, <2>2 DEF IInv, AnnouncedInv, RecordsTyped, EntriesTyped, UnsentTyped, UnsentRecord,
             DhtTyped, CacheTyped, CachedBucket, SearchTyped, SearchUnderWay,
             FetchedBucket, TypeOK
<1>2. RecordsInv => StatsCoverTracked /\ IsFiniteSet(Tracked) /\ IsFiniteSet(TrackedKeywords)
  BY PairsFinite DEF RecordsInv
<1> QED BY <1>1, <1>2, InductiveInvariant, EntriesInvariant, RecordsInvariant, PTL

------------------------------------------------------------------------------
(* What was announced is kept.                                             *)

\* The entry that announced a keyword of a content, or a later one, is in the DHT.
EntryKept(c, kw) == c \in DOMAIN dht[kw] /\ dht[kw][c].announced <= Age(c)
OnItsWay(c, kw) == \E w \in unsent : w.record.keyword = kw /\ w.record.content = c

LEMMA KeptIndex ==
    ASSUME IInv, AnnouncedIsKept, NEW meta \in Meta, IndexContent(meta)
    PROVE  AnnouncedIsKept'
<1>1. PICK tokens \in TokenizeContentMeta[meta] :
          /\ unsent = {} /\ Index(meta, tokens)
          /\ unsent' = {[record |-> r, own |-> TRUE] : r \in RecordsOf(meta, tokens)}
          /\ UNCHANGED dht
  BY DEF IndexContent
<1> SUFFICES ASSUME NEW c \in Tracked', NEW kw \in localRecords'[c].keywords
             PROVE  Age(c)' > IndexEntryTTL \/ OnItsWay(c, kw)' \/ EntryKept(c, kw)'
  BY DEF AnnouncedIsKept, OnItsWay, EntryKept
<1>2. CASE localRecords'[c] = localRecords[c]
  BY <1>1, <1>2 DEF AnnouncedIsKept, EntryKept, Tracked, Age
<1>3. CASE localRecords'[c] # localRecords[c]
  <2>1. c = meta.content /\ localRecords'[c].keywords = DOMAIN tokens
    BY <1>1, <1>3, IndexWriterAssumption DEF Index, IInv, AnnouncedInv, Tracked
  <2>2. WriteRecord(kw, c, tokens[kw]) \in RecordsOf(meta, tokens)
    BY <2>1 DEF RecordsOf
  <2>3. [record |-> WriteRecord(kw, c, tokens[kw]), own |-> TRUE] \in unsent'
    BY <1>1, <2>2
  <2> QED BY <2>3 DEF OnItsWay, WriteRecord
<1> QED BY <1>2, <1>3

LEMMA KeptReAnnounce ==
    ASSUME AnnouncedIsKept, ReAnnounce
    PROVE  AnnouncedIsKept'
<1>1. PICK due \in DueSets :
          /\ MaintenanceTick(due)
          /\ unsent' = unsent \cup {[record |-> r, own |-> FALSE] : r \in ReAnnounced(due)}
          /\ UNCHANGED dht
  BY DEF ReAnnounce
<1> SUFFICES ASSUME NEW c \in Tracked', NEW kw \in localRecords'[c].keywords
             PROVE  Age(c)' > IndexEntryTTL \/ OnItsWay(c, kw)' \/ EntryKept(c, kw)'
  BY DEF AnnouncedIsKept, OnItsWay, EntryKept
<1>2. c \in Content /\ localRecords'[c] # NoRecord
  BY DEF Tracked
<1>3. CASE c \notin due
  <2>1. localRecords'[c] = localRecords[c]
    BY <1>1, <1>2, <1>3 DEF MaintenanceTick, GetReAnnounceRecords
  <2> QED BY <1>1, <1>2, <2>1 DEF AnnouncedIsKept, OnItsWay, EntryKept, Tracked, Age
<1>4. CASE c \in due
  <2>1. c \in InStore /\ localRecords'[c] = Announced(c, 0)
    BY <1>1, <1>2, <1>4 DEF MaintenanceTick, GetReAnnounceRecords
  <2>2. kw \in localRecords[c].keywords
    BY <2>1 DEF Announced
  <2>3. WriteRecord(kw, c, 10) \in ReAnnounced(due)
    BY <1>4, <2>1, <2>2 DEF ReAnnounced
  <2>4. [record |-> WriteRecord(kw, c, 10), own |-> FALSE] \in unsent'
    BY <1>1, <2>3
  <2> QED BY <2>4 DEF OnItsWay, WriteRecord
<1> QED BY <1>3, <1>4

LEMMA KeptSend ==
    ASSUME IInv, RecordsTyped, AnnouncedIsKept, NEW w \in unsent, Send(w)
    PROVE  AnnouncedIsKept'
<1>1. /\ unsent' = unsent \ {w} /\ dht' = Stored(w.record) /\ UNCHANGED localRecords
  BY DEF Send, writerVars
<1> SUFFICES ASSUME NEW c \in Tracked, NEW kw \in localRecords[c].keywords
             PROVE  Age(c) > IndexEntryTTL \/ OnItsWay(c, kw)'
                    \/ (c \in DOMAIN dht'[kw] /\ dht'[kw][c].announced <= Age(c))
  BY <1>1 DEF AnnouncedIsKept, OnItsWay, Tracked, Age
<1>2. kw \in Token /\ Age(c) \in Nat
  BY DEF RecordsTyped, Tracked, Age
<1>3. CASE w.record.keyword = kw /\ w.record.content = c
  <2>1. dht'[kw] = [d \in DOMAIN dht[kw] \cup {c} |->
                       IF d = c THEN Entry(w.record.weight, 0) ELSE dht[kw][d]]
    BY <1>1, <1>2, <1>3 DEF Stored, IInv, KeptInv
  <2>2. c \in DOMAIN dht'[kw] /\ dht'[kw][c].announced = 0
    BY <2>1 DEF Entry
  <2> QED BY <1>2, <2>2
<1>4. CASE ~(w.record.keyword = kw /\ w.record.content = c)
  <2>1. CASE OnItsWay(c, kw)
    BY <1>1, <1>4, <2>1 DEF OnItsWay
  <2>2. CASE c \in DOMAIN dht[kw] /\ dht[kw][c].announced <= Age(c)
    <3>1. c \in DOMAIN dht'[kw] /\ dht'[kw][c] = dht[kw][c]
      BY <1>1, <1>2, <1>4, <2>2 DEF Stored, IInv, KeptInv
    <3> QED BY <2>2, <3>1
  <2> QED BY <2>1, <2>2 DEF AnnouncedIsKept, OnItsWay
<1> QED BY <1>3, <1>4

LEMMA KeptAges ==
    ASSUME IInv, RecordsTyped, AnnouncedIsKept, Tick
    PROVE  AnnouncedIsKept'
<1>1. unsent = {} /\ WriterAges
  BY DEF Tick
<1> SUFFICES ASSUME NEW c \in Tracked', NEW kw \in localRecords'[c].keywords,
                    ~(Age(c)' > IndexEntryTTL)
             PROVE  EntryKept(c, kw)'
  BY DEF AnnouncedIsKept, EntryKept
<1>2. c \in Tracked /\ localRecords'[c] = Announced(c, Age(c) + 1)
  BY <1>1 DEF WriterAges, Tracked
<1>3. Age(c)' = Age(c) + 1 /\ kw \in localRecords[c].keywords
  BY <1>2 DEF Announced, Age
<1>4. kw \in Token /\ Age(c) \in Nat
  BY <1>2, <1>3 DEF RecordsTyped, Tracked, Age
<1>5. c \in DOMAIN dht[kw] /\ dht[kw][c].announced <= Age(c)
  BY <1>1, <1>2, <1>3, <1>4, IndexWriterAssumption DEF AnnouncedIsKept
<1>6. dht[kw][c].announced \in Nat /\ dht[kw][c].announced < IndexEntryTTL
  <2>1. dht[kw][c].announced \in 0..IndexEntryTTL
    BY <1>4, <1>5 DEF IInv, KeptInv, Recent
  <2> QED BY <1>3, <1>4, <1>5, <2>1, IndexWriterAssumption
<1>7. dht'[kw] = [d \in {d \in DOMAIN dht[kw] : dht[kw][d].announced < IndexEntryTTL} |->
                     Entry(dht[kw][d].weight, dht[kw][d].announced + 1)]
  BY <1>4 DEF Tick
<1>8. c \in DOMAIN dht'[kw] /\ dht'[kw][c].announced = dht[kw][c].announced + 1
  BY <1>5, <1>6, <1>7 DEF Entry
<1> QED BY <1>3, <1>4, <1>5, <1>6, <1>8 DEF EntryKept

LEMMA KeptInductive ==
    ASSUME IInv, RecordsTyped, AnnouncedIsKept, [Next]_vars
    PROVE  AnnouncedIsKept'
<1>1. ASSUME NEW c \in Content, StopTracking(c) PROVE AnnouncedIsKept'
  <2>1. UNCHANGED <<unsent, dht>>
    BY <1>1 DEF StopTracking, searchVars
  <2>2. \A d \in Tracked' : d \in Tracked /\ localRecords'[d] = localRecords[d]
    BY <1>1 DEF StopTracking, Remove, Tracked, IInv, AnnouncedInv
  <2> QED BY <2>1, <2>2 DEF AnnouncedIsKept, Age
<1>2. CASE UNCHANGED <<localRecords, unsent, dht>>
  BY <1>2 DEF AnnouncedIsKept, Tracked, Age
<1>3. ASSUME Searcher \/ Purge \/ (\E c \in Indexed : Invalidate(c)) \/ UNCHANGED vars
      PROVE  UNCHANGED <<localRecords, unsent, dht>>
  BY <1>3 DEF Searcher, StartFetching, FindValue, Feed, SearchAgain, Purge, Invalidate,
              vars, searchVars, writerVars
<1> QED BY <1>1, <1>2, <1>3, KeptIndex, KeptReAnnounce, KeptSend, KeptAges DEF Next, Publisher

\* Whatever is indexed, indexed again, removed, announced late and forgotten by the
\* store, in whatever order a batch is sent, and for any periods and times to live:
\* the DHT has what the writer's records say was announced within the time to live.
THEOREM AnnouncementsAreKept == Spec => []AnnouncedIsKept
<1>1. Init => AnnouncedIsKept
  BY DEF Init, WriterInit, AnnouncedIsKept, Tracked
<1>2. IInv /\ RecordsTyped /\ AnnouncedIsKept /\ [Next]_vars => AnnouncedIsKept'
  BY KeptInductive
<1> QED BY <1>1, <1>2, InductiveInvariant, EntriesInvariant, PTL DEF Spec

------------------------------------------------------------------------------
(* Two phases cover a query.                                               *)

\* While nothing disturbs a second phase, each token of its query is still to
\* be fetched, is fresh, or was not to be had.
PhaseInv ==
    search # NoSearch =>
        /\ search.query \in Query
        /\ search.bucket # NoBucket => search.bucket.token \in Token
        /\ search.undisturbed =>
               \A tok \in QueryTokens[search.query] :
                   tok \in search.todo \/ Fresh(tok) \/ tok \in search.missed

\* A step that leaves the search alone keeps PhaseInv if what is fresh stays so.
LEMMA PhaseKept ==
    ASSUME PhaseInv, UNCHANGED search, \A tok \in Token : Fresh(tok) => Fresh(tok)'
    PROVE  PhaseInv'
BY QueryTokensAreTokens DEF PhaseInv

LEMMA FreshFeedEntry ==
    ASSUME CacheTyped, NEW kw \in Token, NEW c \in Indexed, NEW e \in OneEntry, FeedEntry(kw, c, e)
    PROVE  \A tok \in Token : Fresh(tok) => Fresh(tok)'
<1> SUFFICES ASSUME NEW tok \in Token, Fresh(tok) PROVE Fresh(tok)'
  OBVIOUS
<1>1. CASE tok = kw
  <2>1. cache'[tok] = Bucket(cache[tok].fetchedAt, Merged(cache[tok].entries, c, e))
    BY <1>1 DEF FeedEntry, CacheTyped
  <2>2. cache[tok] \in CachedBucket
    BY DEF CacheTyped, Fresh
  <2>3. cache'[tok] \in CachedBucket
    BY <2>1, <2>2, MergedTyped, BucketTyped DEF CachedBucket
  <2>4. cache'[tok] # NotCached /\ cache'[tok].fetchedAt = cache[tok].fetchedAt
    BY <2>1, <2>3, BucketFacts, SearchIndexAssumption
  <2> QED BY <2>4 DEF Fresh, isExpired
<1>2. CASE tok # kw
  BY <1>2 DEF FeedEntry, CacheTyped, Fresh, isExpired
<1> QED BY <1>1, <1>2

LEMMA PhaseStart ==
    ASSUME NEW q \in Query, StartFetching(q)
    PROVE  PhaseInv'
<1>1. search' = [query |-> q, todo |-> GetDHTKeysForQuery(q), bucket |-> NoBucket,
                 missed |-> {}, undisturbed |-> TRUE]
      /\ UNCHANGED cache
  BY DEF StartFetching
<1>2. \A tok : Fresh(tok)' <=> Fresh(tok)
  BY <1>1 DEF Fresh, isExpired
<1> QED BY <1>1, <1>2 DEF PhaseInv, GetDHTKeysForQuery

LEMMA PhaseFindValue ==
    ASSUME PhaseInv, SearchShape, NEW tok \in Token, FindValue(tok)
    PROVE  PhaseInv'
<1>1. UNCHANGED cache /\ search # NoSearch /\ search.bucket = NoBucket
  BY DEF FindValue
<1>2. \A t : Fresh(t)' <=> Fresh(t)
  BY <1>1 DEF Fresh, isExpired
<1>3. CASE search' = [search EXCEPT !.bucket = [token |-> tok, entries |-> BucketAt(tok)]]
  <2>1. search' = [query |-> search.query, todo |-> search.todo,
                   bucket |-> [token |-> tok, entries |-> BucketAt(tok)],
                   missed |-> search.missed, undisturbed |-> search.undisturbed]
    BY <1>1, <1>3 DEF SearchShape
  <2> QED BY <1>1, <1>2, <2>1 DEF PhaseInv
<1>4. CASE search' = [search EXCEPT !.todo = @ \ {tok},
                        !.missed = IF search.undisturbed THEN @ \cup {tok} ELSE @]
  <2>1. search' = [query |-> search.query, todo |-> search.todo \ {tok},
                   bucket |-> search.bucket,
                   missed |-> IF search.undisturbed THEN search.missed \cup {tok} ELSE search.missed,
                   undisturbed |-> search.undisturbed]
    BY <1>1, <1>4 DEF SearchShape
  <2> QED BY <1>1, <1>2, <2>1 DEF PhaseInv
<1> QED BY <1>3, <1>4 DEF FindValue

LEMMA PhaseFeed ==
    ASSUME SearchTyped, PhaseInv, SearchShape, CachedInv, Feed
    PROVE  PhaseInv'
<1> PICK fed : fed = search.bucket.token
  OBVIOUS
<1>1. /\ search # NoSearch /\ search.bucket # NoBucket
      /\ cache' = [cache EXCEPT ![fed] = Bucket(0, search.bucket.entries)]
  BY DEF Feed, FeedBucket
<1>2. search' = [query |-> search.query, todo |-> search.todo \ {fed}, bucket |-> NoBucket,
                 missed |-> search.missed, undisturbed |-> search.undisturbed]
  BY DEF Feed, SearchShape
<1>3. fed \in Token /\ Fresh(fed)'
  <2>1. fed \in Token
    BY <1>1 DEF PhaseInv
  <2>2. cache'[fed] = Bucket(0, search.bucket.entries)
    BY <1>1, <2>1 DEF CachedInv
  <2>3. search.bucket \in FetchedBucket
    BY <1>1 DEF SearchTyped, SearchUnderWay
  <2>4. Bucket(0, search.bucket.entries) \in CachedBucket
    BY <2>3, BucketTyped, IndexReaderAssumption DEF FetchedBucket
  <2>5. cache'[fed] # NotCached /\ cache'[fed].fetchedAt = 0
    BY <2>2, <2>4, BucketFacts, SearchIndexAssumption
  <2> QED BY <2>1, <2>5, IndexReaderAssumption DEF Fresh, isExpired
<1>4. \A tok \in Token : Fresh(tok) => Fresh(tok)'
  <2> SUFFICES ASSUME NEW tok \in Token, Fresh(tok), tok # fed PROVE Fresh(tok)'
    BY <1>3
  <2>1. cache'[tok] = cache[tok]
    BY <1>1 DEF CachedInv
  <2> QED BY <2>1 DEF Fresh, isExpired
<1> QED BY <1>1, <1>2, <1>3, <1>4, QueryTokensAreTokens DEF PhaseInv

LEMMA PhaseDisturbed ==
    ASSUME PhaseInv, SearchShape, search' = Disturbed
    PROVE  PhaseInv'
<1>1. CASE search = NoSearch
  BY <1>1 DEF Disturbed, PhaseInv
<1>2. CASE search # NoSearch
  <2>1. search' = [query |-> search.query, todo |-> search.todo, bucket |-> search.bucket,
                   missed |-> {}, undisturbed |-> FALSE]
    BY <1>2 DEF Disturbed, SearchShape
  <2> QED BY <1>2, <2>1 DEF PhaseInv
<1> QED BY <1>1, <1>2

LEMMA PhaseInductive ==
    ASSUME IInv, EntriesTyped, PhaseInv, [Next]_vars
    PROVE  PhaseInv'
<1> USE DEF IInv
<1>1. ASSUME UNCHANGED <<cache, search>> PROVE PhaseInv'
  BY <1>1 DEF PhaseInv, Fresh, isExpired
<1>2. CASE Publisher
  <2>1. ASSUME NEW w \in unsent, Send(w) PROVE PhaseInv'
    <3>1. CASE w.own
      <4>1. w.record \in [keyword : Token, content : Content, weight : 1..10]
        BY <2>1 DEF EntriesTyped, UnsentTyped, UnsentRecord
      <4>2. /\ w.record.keyword \in Token /\ w.record.content \in Indexed
            /\ Entry(w.record.weight, 0) \in OneEntry
        BY <4>1, EntryTyped, OldestIs, SearchIndexAssumption
      <4> QED BY <2>1, <3>1, <4>2, FreshFeedEntry, PhaseKept DEF Send, EntriesTyped
    <3>2. CASE ~w.own
      BY <1>1, <2>1, <3>2 DEF Send
    <3> QED BY <3>1, <3>2
  <2>2. CASE ~\E w \in unsent : Send(w)
    <3>1. UNCHANGED <<cache, search>>
      BY <1>2, <2>2 DEF Publisher, IndexContent, StopTracking, ReAnnounce, searchVars
    <3> QED BY <1>1, <3>1
  <2> QED BY <2>1, <2>2
<1>3. CASE Searcher
  <2>1. CASE SearchAgain
    BY <2>1 DEF SearchAgain, PhaseInv
  <2> QED BY <1>3, <2>1, PhaseStart, PhaseFindValue, PhaseFeed DEF Searcher, EntriesTyped
<1>4. CASE Purge
  <2>1. UNCHANGED search
    BY <1>4 DEF Purge, searchVars
  <2>2. \A tok \in Token : Fresh(tok) => Fresh(tok)'
    BY <1>4 DEF Purge, PurgeExpiredCache, Fresh, isExpired
  <2> QED BY <2>1, <2>2, PhaseKept
<1>5. CASE Tick \/ \E c \in Indexed : Invalidate(c)
  BY <1>5, PhaseDisturbed DEF Tick, Invalidate
<1>6. CASE UNCHANGED vars
  BY <1>1, <1>6 DEF vars, searchVars
<1> QED BY <1>2, <1>3, <1>4, <1>5, <1>6 DEF Next

\* Whatever is announced, sent, purged and searched between its steps, a second
\* phase that nothing disturbs ends with every token fresh or known as missed.
THEOREM TwoPhasesCover == Spec => []TwoPhasesCoverQuery
<1>1. Init => PhaseInv
  BY DEF Init, PhaseInv
<1>2. IInv /\ EntriesTyped /\ PhaseInv /\ [Next]_vars => PhaseInv'
  BY PhaseInductive
<1>3. PhaseInv => TwoPhasesCoverQuery
  BY DEF PhaseInv, TwoPhasesCoverQuery, Fetched
<1> QED BY <1>1, <1>2, <1>3, InductiveInvariant, EntriesInvariant, PTL DEF Spec
==============================================================================
