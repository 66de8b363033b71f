------------------------------ MODULE IndexWriter -------------------------------
(***************************************************************************)
(* service/index_writer.go: what a node remembers of the contents it has   *)
(* indexed, and the maintenance loop that announces them again before the  *)
(* DHT forgets them.  Every method is one critical section of w.mu.  Time  *)
(* passes in units; a time is kept as the age it has.                      *)
(***************************************************************************)
EXTENDS Tokenizer

CONSTANTS
    Content,            \* the contents this node may index
    InStore,            \* those that the ContentStore has, which gives none up
    NoRecord,           \* no entry in localRecords
    IndexEntryTTL,      \* how long the DHT keeps an entry, in units of time
    ReAnnounceInterval, \* period of the ticker and least age of a new announcement
    MaxIndexings        \* bound on calls of Index

ASSUME IndexWriterAssumption ==
    /\ IndexEntryTTL \in Nat /\ ReAnnounceInterval \in Nat \ {0}
    /\ MaxIndexings \in Nat /\ InStore \subseteq Content
    /\ \A m \in Meta : m.content \in Content

VARIABLES
    localRecords,  \* the record of each content: its keywords and the age of its last announcement
    stats,         \* IndexStats: totalKeywords, totalEntries, locallyOwned
    sinceTick,     \* time since the ticker of the maintenance loop last fired
    indexings      \* calls of Index so far

writerVars == <<localRecords, stats, sinceTick, indexings>>

Tracked == {c \in Content : localRecords[c] # NoRecord}
WriteRecord(kw, c, weight) == [keyword |-> kw, content |-> c, weight |-> weight]

WriterInit ==
    /\ localRecords = [c \in Content |-> NoRecord]
    /\ stats = [totalKeywords |-> 0, totalEntries |-> 0, locallyOwned |-> 0]
    /\ sinceTick = 0
    /\ indexings = 0

\* A content that is indexed again is counted again.
Counted(c, n) ==
    [totalKeywords |-> stats.totalKeywords + n, totalEntries |-> stats.totalEntries + n,
     locallyOwned |-> stats.locallyOwned + 1]

\* The write records of tokens, which Index returns to its caller.
RecordsOf(meta, tokens) ==
    {WriteRecord(tok, meta.content, tokens[tok]) : tok \in DOMAIN tokens}

\* Without tokens Index returns before it tracks anything.
Index(meta, tokens) ==
    /\ indexings < MaxIndexings
    /\ indexings' = indexings + 1
    /\ IF DOMAIN tokens = {} THEN UNCHANGED <<localRecords, stats>>
       ELSE /\ localRecords' = [localRecords EXCEPT ![meta.content] =
                                   [keywords |-> DOMAIN tokens, lastAnnounce |-> 0]]
            /\ stats' = Counted(meta.content, Cardinality(DOMAIN tokens))
    /\ UNCHANGED sinceTick

\* A content that is not tracked leaves everything as it is.
Remove(c) ==
    /\ c \in Tracked
    /\ LET n == Cardinality(localRecords[c].keywords)
       IN  stats' = [totalKeywords |-> stats.totalKeywords - n,
                     totalEntries |-> stats.totalEntries - n,
                     locallyOwned |-> stats.locallyOwned - 1]
    /\ localRecords' = [localRecords EXCEPT ![c] = NoRecord]
    /\ UNCHANGED <<sinceTick, indexings>>

Age(c) == localRecords[c].lastAnnounce
Announced(c, age) == [keywords |-> localRecords[c].keywords, lastAnnounce |-> age]

\* A record announced one period ago is due or not: both times were read some
\* time after the ticker fired, and the delays differ.
DueSets ==
    {{c \in Tracked : Age(c) > ReAnnounceInterval} \cup kept :
        kept \in SUBSET {c \in Tracked : Age(c) = ReAnnounceInterval}}

\* GetMeta is asked for each.  Index did not ask, so it may not find one.
ReAnnounced(due) ==
    UNION {{WriteRecord(kw, c, 10) : kw \in localRecords[c].keywords} : c \in due \cap InStore}

GetReAnnounceRecords_MarksAll(due) ==
    /\ localRecords' = [c \in Content |->
           CASE c \notin Tracked -> NoRecord
             [] c \in due \ InStore -> NoRecord
             [] OTHER -> Announced(c, 0)]
    /\ UNCHANGED <<stats, indexings>>

\* What is not in the store is forgotten; the statistics go on counting it.
GetReAnnounceRecords(due) ==
    /\ localRecords' = [c \in Content |->
           CASE c \notin due -> localRecords[c]
             [] c \in due \ InStore -> NoRecord
             [] OTHER -> Announced(c, 0)]
    /\ UNCHANGED <<stats, indexings>>

\* The ticker of StartMaintenanceLoop fires.
MaintenanceTick(due) ==
    /\ sinceTick = ReAnnounceInterval
    /\ sinceTick' = 0
    /\ due \in DueSets
    /\ GetReAnnounceRecords(due)

\* Time passes, but not past the ticker.
WriterAges ==
    /\ sinceTick < ReAnnounceInterval
    /\ sinceTick' = sinceTick + 1
    /\ localRecords' = [c \in Content |->
           IF c \in Tracked THEN Announced(c, Age(c) + 1) ELSE NoRecord]
    /\ UNCHANGED <<stats, indexings>>
===============================================================================
