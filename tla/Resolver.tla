-------------------------------- MODULE Resolver --------------------------------
(***************************************************************************)
(* Layer 2 (resolver/resolver.go) over the network table of Layer 1        *)
(* (network/network.go): goroutines resolve names while discovery, the     *)
(* receive loop and failed sends change the table.  A step is one critical *)
(* section of the cache's or the table's mutex, or one look at a peer: the *)
(* scan reads the entries behind the pointers it copied, without a lock.   *)
(* Of an entry only its name and status decide; address, health and role   *)
(* are handed on as they are.                                              *)
(***************************************************************************)
EXTENDS Naturals

CONSTANTS
    Self, Remote,  \* this node and the others
    HostName,      \* the name this node registers itself by
    Blank,         \* the name that discovery and the receive loop register others by
    Absent,        \* no entry in the table
    Goroutine,     \* those that call Resolve
    Idle,          \* a goroutine between two calls
    Key,           \* the names to resolve, trimmed and in lower case
    Kind,          \* of each: "malformed" (no .mtd), "service" (svc. prefix) or "device"
    Host,          \* of each: the name without .mtd
    NotCached,     \* no record for a name
    CacheTTL       \* CacheTTL, in units of time

Node == {Self} \cup Remote

ASSUME ResolverAssumption ==
    /\ Self \notin Remote
    /\ Kind \in [Key -> {"malformed", "service", "device"}]
    /\ CacheTTL \in Nat

VARIABLES
    table,  \* network.networkTable.peers
    cache,  \* the records: who matched, and the age of CachedAt
    call,   \* the call of each goroutine
    quiet   \* history: time since an entry last changed for some name

vars == <<table, cache, call, quiet>>

Alive(tab, p, k) == tab[p] # Absent /\ tab[p].name = Host[k] /\ tab[p].status = "alive"
Matching(k) == {p \in Node : Kind[k] = "device" /\ Alive(table, p, k)}

Active == {g \in Goroutine : call[g] # Idle}
At(g, step) == call[g] # Idle /\ call[g].step = step

\* The resolver is made after this node has registered itself.
Init ==
    /\ table = [p \in Node |-> IF p = Self THEN [name |-> HostName, status |-> "alive"] ELSE Absent]
    /\ cache = [k \in Key |-> NotCached]
    /\ call = [g \in Goroutine |-> Idle]
    /\ quiet = 0

------------------------------------------------------------------------------
(* The network table.  Every change is noted in the history of the calls   *)
(* that are under way: the nodes they could have seen alive, and not.      *)

SeenFrom(tab, c) ==
    IF c = Idle \/ c.step \in {"cached", "done"} THEN c
    ELSE [c EXCEPT !.up = @ \cup {p \in Node : Alive(tab, p, c.key)},
                   !.down = @ \cup {p \in Node : ~Alive(tab, p, c.key)}]

Change(p, entry) ==
    /\ table' = [table EXCEPT ![p] = entry]
    /\ call' = [g \in Goroutine |-> SeenFrom(table', call[g])]
    /\ quiet' = IF table' = table THEN quiet ELSE 0
    /\ UNCHANGED cache

\* An announcement, or a packet of a node that is not known yet.
UpdateNode(p) == Change(p, [name |-> Blank, status |-> "alive"])

\* A failed send that leaves the health at three tenths or below.
RecordFailure(p) ==
    /\ table[p] # Absent
    /\ Change(p, [table[p] EXCEPT !.status = "unhealthy"])

------------------------------------------------------------------------------
(* The cache.                                                              *)

isExpired(record) == record.age > CacheTTL

Goto(g, step) == call' = [call EXCEPT ![g].step = step]

NewCall(k, step, matches) ==
    SeenFrom(table, [key |-> k, step |-> step, todo |-> {}, matches |-> matches,
                     up |-> {}, down |-> {}, crossed |-> FALSE])

AfterGet_NeverExpires(k) == IF cache[k] = NotCached THEN "resolve" ELSE "cached"

AfterGet(k) ==
    IF cache[k] = NotCached THEN "resolve"
    ELSE IF isExpired(cache[k]) THEN "evict" ELSE "cached"

\* The first section of Get, under the read lock.
Resolve(g, k) ==
    /\ call[g] = Idle
    /\ call' = [call EXCEPT ![g] = NewCall(k, AfterGet(k),
                   IF AfterGet(k) = "cached" THEN cache[k].matches ELSE {})]
    /\ UNCHANGED <<table, cache, quiet>>

\* Get gives its read lock up to delete the record - whatever is there by now -
\* and takes it again only to return nil.
Evict(g) ==
    /\ At(g, "evict")
    /\ cache' = [cache EXCEPT ![call[g].key] = NotCached]
    /\ Goto(g, "resolve")
    /\ UNCHANGED <<table, quiet>>

Set(g) ==
    /\ At(g, "set")
    /\ cache' = [cache EXCEPT ![call[g].key] = [matches |-> call[g].matches, age |-> 0]]
    /\ call' = [call EXCEPT ![g].step = "done", ![g].up = {}, ![g].down = {}]
    /\ UNCHANGED <<table, quiet>>

------------------------------------------------------------------------------
(* Resolution.                                                             *)

\* A copy of the map, that is of the pointers.
GetAllPeers == {p \in Node : table[p] # Absent}

\* Names without the suffix, and of services, have no records.
ResolveAndCache(g) ==
    /\ At(g, "resolve")
    /\ IF Kind[call[g].key] = "device"
       THEN call' = [call EXCEPT ![g].step = "scan", ![g].todo = GetAllPeers]
       ELSE Goto(g, "set")
    /\ UNCHANGED <<table, cache, quiet>>

Selected_AnyStatus(g, p) == table[p].name = Host[call[g].key]

Selected(g, p) == Alive(table, p, call[g].key)

\* One turn of the loop over the map, in any order.
Look(g, p) ==
    /\ At(g, "scan") /\ p \in call[g].todo
    /\ call' = [call EXCEPT ![g].todo = @ \ {p},
                            ![g].matches = IF Selected(g, p) THEN @ \cup {p} ELSE @]
    /\ UNCHANGED <<table, cache, quiet>>

EndScan(g) ==
    /\ At(g, "scan") /\ call[g].todo = {}
    /\ Goto(g, "set")
    /\ UNCHANGED <<table, cache, quiet>>

Answered(g) == At(g, "cached") \/ At(g, "done")

Return(g) ==
    /\ Answered(g)
    /\ call' = [call EXCEPT ![g] = Idle]
    /\ UNCHANGED <<table, cache, quiet>>

Resolver(g) ==
    \/ \E k \in Key : Resolve(g, k)
    \/ Evict(g) \/ ResolveAndCache(g)
    \/ \E p \in Node : Look(g, p)
    \/ EndScan(g) \/ Set(g) \/ Return(g)

\* Time passes.  A call takes less than a unit, so that at most one unit ends
\* while it is under way.
Tick ==
    /\ \A g \in Active : ~call[g].crossed
    /\ call' = [g \in Goroutine |-> IF call[g] = Idle THEN Idle ELSE [call[g] EXCEPT !.crossed = TRUE]]
    /\ cache' = [k \in Key |->
           IF cache[k] = NotCached \/ isExpired(cache[k]) THEN cache[k]
           ELSE [cache[k] EXCEPT !.age = @ + 1]]
    /\ quiet' = IF quiet > CacheTTL + 2 THEN quiet ELSE quiet + 1
    /\ UNCHANGED table

Next ==
    \/ \E p \in Remote : UpdateNode(p)
    \/ \E p \in Node : RecordFailure(p)
    \/ \E g \in Goroutine : Resolver(g)
    \/ Tick

Spec == Init /\ [][Next]_vars

------------------------------------------------------------------------------
(* Properties                                                              *)

TypeOK ==
    /\ table \in [Node -> {Absent} \cup [name : {HostName, Blank}, status : {"alive", "unhealthy"}]]
    /\ cache \in [Key -> {NotCached} \cup [matches : SUBSET Node, age : 0..CacheTTL + 1]]
    /\ call \in [Goroutine -> {Idle} \cup
           [key : Key, step : {"evict", "resolve", "scan", "set", "cached", "done"},
            todo : SUBSET Node, matches : SUBSET Node, up : SUBSET Node, down : SUBSET Node,
            crossed : BOOLEAN]]
    /\ quiet \in Nat

\* What a resolution found is a view the table allowed: each endpoint was alive
\* under the name at some moment of the call, and each node that is missing was
\* not, although entries change between two looks and the answer as a whole may
\* fit no single moment (a CONFLICT of two nodes that were never alive together).
AnswerIsRegular ==
    \A g \in Goroutine :
        At(g, "set") =>
            /\ call[g].matches \subseteq call[g].up
            /\ Kind[call[g].key] = "device" => Node \ call[g].matches \subseteq call[g].down

\* Once the table has been left alone for the lifetime of a record and the call
\* that made it, every answer is exact - also one that a slow goroutine wrote
\* over a newer one, or that was fetched while another evicted the record.
SettledAnswersExact ==
    \A g \in Goroutine :
        Answered(g) /\ quiet > CacheTTL + 2 => call[g].matches = Matching(call[g].key)
==============================================================================
