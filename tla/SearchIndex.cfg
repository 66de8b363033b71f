CONSTANTS
    mine = mine
    theirs = theirs
    lost = lost
    Word <- words
    Lower <- lower
    Short <- short
    Stopwords <- stopWords
    FileExtensions <- extensions
    MaxTokensPerField = 2
    Meta <- metas
    TokensReturned = TRUE
    Content = {mine, lost}
    InStore = {mine}
    NoRecord = NoRecord
    IndexEntryTTL = 3
    ReAnnounceInterval = 2
    MaxIndexings = 2
    Indexed = {mine, theirs, lost}
    NotCached = NotCached
    CacheEntryTTL = 3
    DefaultMaxResults = 2
    Elsewhere <- elsewhere
    Query <- queries
    NoBucket = NoBucket
    NoSearch = NoSearch
SPECIFICATION Spec
INVARIANTS
    
    ResultsAreRecent
    TwoPhasesCoverQuery
    PagesPartition
