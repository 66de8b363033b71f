------------------------------ MODULE IndexReader -------------------------------
(***************************************************************************)
(* service/index_reader.go: the cache of index buckets and the search over *)
(* it.  Every method is one critical section of r.mu; a bucket is the map  *)
(* from its contents to their entries, a time the age it has.  An entry is *)
(* its weight and the age of the announcement that brought it.             *)
(***************************************************************************)
EXTENDS Tokenizer

CONSTANTS
    Indexed,           \* the contents that entries may be about
    Query,             \* the queries: a text, the contents that the filters let pass, a page size
    NotCached,         \* no bucket for a keyword
    CacheEntryTTL,     \* cacheEntryTTL, in units of time
    DefaultMaxResults  \* defaultMaxResults

ASSUME IndexReaderAssumption ==
    /\ CacheEntryTTL \in Nat /\ DefaultMaxResults \in Nat \ {0}
    /\ IsFiniteSet(Indexed)
    /\ \A q \in Query : q.text \in Seq(Word) /\ q.passes \subseteq Indexed /\ q.maxResults \in Nat

VARIABLE cache  \* per keyword: the age of the fetch and the entries, or NotCached

ReaderInit == cache = [tok \in Token |-> NotCached]

isExpired(cached) == cached.fetchedAt > CacheEntryTTL
Fresh(tok) == cache[tok] # NotCached /\ ~isExpired(cache[tok])
Entry(weight, age) == [weight |-> weight, announced |-> age]
Bucket(age, entries) == [fetchedAt |-> age, entries |-> entries]

------------------------------------------------------------------------------
(* Filling and emptying the cache.                                         *)

FeedBucket(tok, entries) == cache' = [cache EXCEPT ![tok] = Bucket(0, entries)]

Merged(entries, c, entry) ==
    IF c \in DOMAIN entries /\ entry.weight < entries[c].weight
    THEN entries
    ELSE [d \in DOMAIN entries \cup {c} |-> IF d = c THEN entry ELSE entries[d]]

FeedEntry_Renews(tok, c, entry) ==
    cache' = [cache EXCEPT ![tok] =
        Bucket(0, Merged(IF Fresh(tok) THEN @.entries ELSE <<>>, c, entry))]

\* An entry joins a bucket without renewing it; a stronger one stays.
FeedEntry(tok, c, entry) ==
    cache' = [cache EXCEPT ![tok] =
        IF Fresh(tok) THEN Bucket(@.fetchedAt, Merged(@.entries, c, entry))
                      ELSE Bucket(0, Merged(<<>>, c, entry))]

\* A bucket that is empty afterwards goes, also one that was empty before.
InvalidateContent(c) ==
    cache' = [tok \in Token |->
        IF cache[tok] = NotCached \/ DOMAIN cache[tok].entries \subseteq {c} THEN NotCached
        ELSE Bucket(cache[tok].fetchedAt,
                    [d \in DOMAIN cache[tok].entries \ {c} |-> cache[tok].entries[d]])]

PurgeExpiredCache ==
    cache' = [tok \in Token |->
        IF cache[tok] # NotCached /\ isExpired(cache[tok]) THEN NotCached ELSE cache[tok]]

\* Time passes.  What an expired bucket held is not read again: its ages are
\* set to the oldest there is.
Older(cached, oldest) ==
    LET late == cached.fetchedAt >= CacheEntryTTL
        entry(c) == cached.entries[c]
    IN  Bucket(IF late THEN CacheEntryTTL + 1 ELSE cached.fetchedAt + 1,
               [c \in DOMAIN cached.entries |->
                   Entry(entry(c).weight, IF late THEN oldest ELSE entry(c).announced + 1)])

ReaderAges(oldest) ==
    cache' = [tok \in Token |->
        IF cache[tok] = NotCached THEN NotCached ELSE Older(cache[tok], oldest)]

------------------------------------------------------------------------------
(* Search.                                                                 *)

QueryTokens == [q \in Query |-> TokenizeQuery(q.text)]

GetDHTKeysForQuery_Present(q) == {tok \in QueryTokens[q] : cache[tok] = NotCached}

GetDHTKeysForQuery(q) == {tok \in QueryTokens[q] : ~Fresh(tok)}

MatchedTokens(q, c) == {tok \in QueryTokens[q] : Fresh(tok) /\ c \in DOMAIN cache[tok].entries}
Matches(q) == {c \in q.passes : MatchedTokens(q, c) # {}}

\* computeScore times the number of matched tokens and of tokens of the query:
\* 0.40 for the average weight and 0.30 for the coverage.  The bonus for the
\* type is the same for all that pass a filter.
Score(q, c) ==
    LET matched == MatchedTokens(q, c)
        weights == Seqs!MapThenSumSet(LAMBDA tok : cache[tok].entries[c].weight, matched)
    IN  4 * weights * Cardinality(QueryTokens[q]) + 30 * Cardinality(matched) * Cardinality(matched)

\* Recency weighs 0.2 over thirty days: within the TTLs it only orders what is
\* otherwise level, which map order and an unstable sort leave to chance anyway.
Rankings(q) ==
    LET score == [c \in Matches(q) |-> Score(q, c)]
        matched == [c \in Matches(q) |-> Cardinality(MatchedTokens(q, c))]
        Before(c, d) == score[c] * matched[d] >= score[d] * matched[c]
    IN  {s \in [1..Cardinality(Matches(q)) -> Matches(q)] :
            Seqs!IsInjective(s) /\ \A i, j \in DOMAIN s : i < j => Before(s[i], s[j])}

Least(x, y) == IF x < y THEN x ELSE y
PageSize(q) == IF q.maxResults = 0 THEN DefaultMaxResults ELSE q.maxResults

Page_OffByOne(ranking, q, page) ==
    LET start == page * PageSize(q)
    IN  SubSeq(ranking, start + 1, Least(start + PageSize(q) + 1, Len(ranking)))

Page(ranking, q, page) ==
    LET start == page * PageSize(q)
    IN  SubSeq(ranking, start + 1, Least(start + PageSize(q), Len(ranking)))

\* The responses that are possible; SearchLocal changes nothing that is read again.
SearchLocal(q, page) ==
    {[results |-> Page(ranking, q, page), totalFound |-> Len(ranking)] : ranking \in Rankings(q)}

------------------------------------------------------------------------------
(* Properties                                                              *)

\* One after the other the pages of a query show every match, none twice - as
\* long as no two matches are level: those may change places between two calls.
PagesPartition ==
    \A q \in Query :
        LET rankings == Rankings(q)
            pages == 0..Cardinality(Indexed)
        IN  \A ranking \in rankings : rankings = {ranking} =>
                \A c \in Matches(q) : \E page \in pages :
                    {p \in pages : c \in Seqs!ToSet(Page(ranking, q, p))} = {page}
==============================================================================
