---------------------------- MODULE Resolver_proofs ----------------------------
(***************************************************************************)
(* Theorems about Resolver for any nodes, goroutines, names and time to    *)
(* live: what a scan finds while the table changes under it is regular,    *)
(* and answers are exact once the table has rested.                        *)
(***************************************************************************)
EXTENDS Resolver, TLAPS

------------------------------------------------------------------------------
(* The inductive invariant.                                                *)

\* The shape of a call, which its updates need.
Shape(c) ==
    c = [key |-> c.key, step |-> c.step, todo |-> c.todo, matches |-> c.matches,
         up |-> c.up, down |-> c.down, crossed |-> c.crossed]

\* The history of a call knows what can be seen now.
Seen(tab, c) ==
    \A p \in Node : IF Alive(tab, p, c.key) THEN p \in c.up ELSE p \in c.down

\* A scan has found only what was up, and passed over only what was down.
Regular(tab, c) ==
    /\ c.step \in {"evict", "resolve", "scan"} => Seen(tab, c)
    /\ c.step \in {"evict", "resolve"} => c.matches = {}
    /\ c.step = "scan" =>
           c.matches \subseteq c.up /\ Node \ (c.todo \cup c.matches) \subseteq c.down
    /\ c.step = "set" =>
           /\ c.matches \subseteq c.up
           /\ Kind[c.key] = "device" => Node \ c.matches \subseteq c.down

\* How long the table must have rested for what a call has found to be exact: a
\* scan knows the table since it began, at most one unit ago, and a record that
\* was cached then is up to CacheTTL units and the call that made it older.
Slack(c) ==
    IF c.step = "cached" THEN (IF c.crossed THEN CacheTTL + 2 ELSE CacheTTL + 1)
    ELSE IF c.crossed THEN 1 ELSE 0

MatchingIn(tab, k) == {p \in Node : Kind[k] = "device" /\ Alive(tab, p, k)}

Settled(q, tab, c) ==
    /\ c.step = "scan" => Kind[c.key] = "device"
    /\ c.step = "scan" /\ q > Slack(c) =>
           /\ c.matches \subseteq MatchingIn(tab, c.key)
           /\ MatchingIn(tab, c.key) \subseteq c.todo \cup c.matches
    /\ c.step \in {"set", "cached", "done"} /\ q > Slack(c) =>
           c.matches = MatchingIn(tab, c.key)

Good(q, tab, c) == Shape(c) /\ Regular(tab, c) /\ Settled(q, tab, c)

\* A record that can still be served was exact when it was made, or the table
\* has changed since the call began that made it.
Sound(q, tab, k, record) ==
    /\ record = [matches |-> record.matches, age |-> record.age]
    /\ record.age \in Nat
    /\ record.age <= CacheTTL /\ q > record.age + 1 =>
           record.matches = MatchingIn(tab, k)

CacheInv ==
    /\ DOMAIN cache = Key
    /\ \A k \in Key : cache[k] # NotCached => Sound(quiet, table, k, cache[k])

CallInv ==
    /\ DOMAIN call = Goroutine
    /\ \A g \in Goroutine : call[g] # Idle => Good(quiet, table, call[g])

IInv == quiet \in Nat /\ CallInv /\ CacheInv

------------------------------------------------------------------------------
(* The steps.                                                              *)

LEMMA InvInit == Init => IInv
BY DEF Init, IInv, CallInv, CacheInv

LEMMA SlackFacts == ASSUME NEW c PROVE Slack(c) \in Nat
BY ResolverAssumption DEF Slack

\* The table changes: whatever the call found and passed over stays, and what
\* can be seen now is added; the rest of the table, if it changed, is over.
LEMMA SeenFromKeeps ==
    ASSUME NEW q \in Nat, NEW old, NEW r, NEW tab, (tab = old /\ r = q) \/ r = 0,
           NEW c, c # Idle, Good(q, old, c)
    PROVE  Good(r, tab, SeenFrom(tab, c))
<1>1. \A e : r = 0 => ~(r > Slack(e))
  BY SlackFacts
<1>2. CASE c.step \in {"cached", "done"}
  BY <1>1, <1>2 DEF SeenFrom, Regular, Settled, Good
<1>3. CASE c.step \notin {"cached", "done"}
  <2>1. PICK up, down : /\ up = c.up \cup {p \in Node : Alive(tab, p, c.key)}
                        /\ down = c.down \cup {p \in Node : ~Alive(tab, p, c.key)}
    OBVIOUS
  <2>2. SeenFrom(tab, c) = [c EXCEPT !.up = up, !.down = down]
    BY <1>3, <2>1 DEF SeenFrom
  <2>3. SeenFrom(tab, c) = [key |-> c.key, step |-> c.step, todo |-> c.todo,
                            matches |-> c.matches, up |-> up, down |-> down,
                            crossed |-> c.crossed]
    BY <2>2 DEF Shape, Good
  <2>4. PICK d : d = SeenFrom(tab, c)
    OBVIOUS
  <2>5. /\ Shape(d) /\ d.key = c.key /\ d.step = c.step /\ d.todo = c.todo
        /\ d.matches = c.matches /\ d.up = up /\ d.down = down /\ d.crossed = c.crossed
    BY <2>3, <2>4 DEF Shape
  <2>6. Seen(tab, d)
    BY <2>1, <2>5 DEF Seen
  <2>7. c.up \subseteq d.up /\ c.down \subseteq d.down
    BY <2>1, <2>5
  <2>8. Regular(tab, d)
    BY <2>5, <2>6, <2>7 DEF Regular, Good
  <2>9. Settled(r, tab, d)
    <3>1. Slack(d) = Slack(c)
      BY <2>5 DEF Slack
    <3> QED BY <1>1, <2>5, <3>1 DEF Settled, Good
  <2> QED BY <2>4, <2>5, <2>8, <2>9 DEF Good
<1> QED BY <1>2, <1>3

LEMMA StepChange ==
    ASSUME IInv, NEW p, NEW entry, Change(p, entry)
    PROVE  IInv'
<1>1. PICK tab, r : tab = table' /\ r = quiet'
  OBVIOUS
<1>2. /\ call' = [g \in Goroutine |-> SeenFrom(tab, call[g])]
      /\ (tab = table /\ r = quiet) \/ r = 0
      /\ UNCHANGED cache /\ quiet \in Nat /\ quiet' \in Nat
  BY <1>1 DEF Change, IInv
<1>3. ASSUME NEW g \in Goroutine, call'[g] # Idle
      PROVE  Good(r, tab, call'[g])
  <2>1. call'[g] = SeenFrom(tab, call[g])
    BY <1>2
  <2>2. call[g] # Idle
    BY <1>3, <2>1 DEF SeenFrom
  <2> QED BY <1>2, <2>1, <2>2, SeenFromKeeps DEF IInv, CallInv
<1>4. ASSUME NEW k \in Key, cache[k] # NotCached
      PROVE  Sound(r, tab, k, cache[k])
  <2>1. Sound(quiet, table, k, cache[k])
    BY <1>4 DEF IInv, CacheInv
  <2> QED BY <1>2, <2>1 DEF Sound
<1>5. CallInv'
  BY <1>1, <1>2, <1>3 DEF CallInv
<1>6. CacheInv'
  BY <1>1, <1>2, <1>4 DEF IInv, CacheInv
<1> QED BY <1>2, <1>5, <1>6 DEF IInv

\* What a step of one goroutine has to show for its call.
LEMMA OneCall ==
    ASSUME CallInv, UNCHANGED <<table, quiet>>, NEW g \in Goroutine, NEW c,
           call' = [call EXCEPT ![g] = c], c # Idle => Good(quiet, table, c)
    PROVE  CallInv'
<1>1. DOMAIN call' = Goroutine
  BY DEF CallInv
<1>2. ASSUME NEW h \in Goroutine, call'[h] # Idle
      PROVE  Good(quiet, table, call'[h])
  BY <1>2 DEF CallInv
<1> QED BY <1>1, <1>2 DEF CallInv

LEMMA StepResolve ==
    ASSUME IInv, NEW g \in Goroutine, NEW k \in Key, Resolve(g, k)
    PROVE  CallInv'
<1>1. PICK step, found : /\ step = AfterGet(k)
                         /\ found = IF AfterGet(k) = "cached" THEN cache[k].matches ELSE {}
  OBVIOUS
<1>2. PICK c : c = [key |-> k, step |-> step, todo |-> {}, matches |-> found,
                    up |-> {}, down |-> {}, crossed |-> FALSE]
  OBVIOUS
<1>3. /\ call' = [call EXCEPT ![g] = SeenFrom(table, c)] /\ UNCHANGED <<table, quiet>>
      /\ CallInv
  BY <1>1, <1>2 DEF Resolve, NewCall, IInv
<1>4. /\ Shape(c) /\ c.key = k /\ c.step = step /\ c.matches = found /\ ~c.crossed
  BY <1>2 DEF Shape
<1>5. CASE step = "cached"
  <2>1. SeenFrom(table, c) = c
    BY <1>4, <1>5 DEF SeenFrom
  <2>2. Regular(table, c)
    BY <1>4, <1>5 DEF Regular
  <2>3. cache[k] # NotCached /\ ~isExpired(cache[k]) /\ found = cache[k].matches
    BY <1>1, <1>5 DEF AfterGet
  <2>4. Sound(quiet, table, k, cache[k]) /\ quiet \in Nat
    BY <2>3 DEF IInv, CacheInv
  <2>5. quiet > CacheTTL + 1 => found = MatchingIn(table, k)
    BY <2>3, <2>4, ResolverAssumption DEF Sound, isExpired
  <2>6. Settled(quiet, table, c)
    BY <1>4, <1>5, <2>5 DEF Settled, Slack
  <2> QED BY <1>3, <1>4, <2>1, <2>2, <2>6, OneCall DEF Good
<1>6. CASE step # "cached"
  <2>1. step \in {"evict", "resolve"} /\ found = {}
    BY <1>1, <1>6 DEF AfterGet
  <2>2. PICK up, down : /\ up = {p \in Node : Alive(table, p, k)}
                        /\ down = {p \in Node : ~Alive(table, p, k)}
    OBVIOUS
  <2>3. c.key = k /\ c.up = {} /\ c.down = {}
    BY <1>2
  <2>4. PICK d : d = SeenFrom(table, c)
    OBVIOUS
  <2>5. d = IF c = Idle THEN c ELSE [c EXCEPT !.up = up, !.down = down]
    <3>1. c.step \notin {"cached", "done"}
      BY <1>4, <2>1
    <3>2. {} \cup up = up /\ {} \cup down = down
      OBVIOUS
    <3> QED BY <2>2, <2>3, <2>4, <3>1, <3>2 DEF SeenFrom
  <2>6. CASE c = Idle
    BY <1>3, <2>4, <2>5, <2>6, OneCall
  <2>7. CASE c # Idle
    <3>1. d = [key |-> k, step |-> step, todo |-> {}, matches |-> {}, up |-> up,
               down |-> down, crossed |-> FALSE]
      BY <1>2, <2>1, <2>5, <2>7
    <3>2. /\ Shape(d) /\ d.key = k /\ d.step = step /\ d.matches = {}
          /\ d.up = up /\ d.down = down
      BY <3>1 DEF Shape
    <3>3. Seen(table, d)
      BY <2>2, <3>2 DEF Seen
    <3>4. Regular(table, d) /\ Settled(quiet, table, d)
      BY <2>1, <3>2, <3>3 DEF Regular, Settled
    <3> QED BY <1>3, <2>4, <3>2, <3>4, OneCall DEF Good
  <2> QED BY <2>6, <2>7
<1> QED BY <1>5, <1>6

\* A step that moves a call on and may look for more.
MovedTo(c, step, todo, found) ==
    [key |-> c.key, step |-> step, todo |-> todo, matches |-> found,
     up |-> c.up, down |-> c.down, crossed |-> c.crossed]

LEMMA Moved ==
    ASSUME NEW b, NEW step, NEW todo, NEW found, NEW c, c = MovedTo(b, step, todo, found)
    PROVE  /\ Shape(c) /\ c.key = b.key /\ c.step = step /\ c.todo = todo
           /\ c.matches = found /\ c.up = b.up /\ c.down = b.down
           /\ (step # "cached" /\ b.step # "cached" => Slack(c) = Slack(b))
BY DEF MovedTo, Shape, Slack

LEMMA LookMoves ==
    ASSUME NEW b, Shape(b), NEW todo, NEW found
    PROVE  [b EXCEPT !.todo = todo, !.matches = found] = MovedTo(b, b.step, todo, found)
<1>1. PICK d : d = [b EXCEPT !.todo = todo, !.matches = found]
  OBVIOUS
<1>2. d = [key |-> b.key, step |-> b.step, todo |-> todo, matches |-> found,
           up |-> b.up, down |-> b.down, crossed |-> b.crossed]
  BY <1>1 DEF Shape
<1> QED BY <1>1, <1>2 DEF MovedTo

LEMMA ScanMoves ==
    ASSUME NEW b, Shape(b), NEW todo
    PROVE  [b EXCEPT !.step = "scan", !.todo = todo] = MovedTo(b, "scan", todo, b.matches)
<1>1. PICK d : d = [b EXCEPT !.step = "scan", !.todo = todo]
  OBVIOUS
<1>2. d = [key |-> b.key, step |-> "scan", todo |-> todo, matches |-> b.matches,
           up |-> b.up, down |-> b.down, crossed |-> b.crossed]
  BY <1>1 DEF Shape
<1> QED BY <1>1, <1>2 DEF MovedTo

LEMMA GotoMoves ==
    ASSUME CallInv, NEW g \in Goroutine, call[g] # Idle, NEW step, Goto(g, step)
    PROVE  call' = [call EXCEPT ![g] = MovedTo(call[g], step, call[g].todo, call[g].matches)]
<1>1. Shape(call[g])
  BY DEF CallInv, Good
<1>2. [call[g] EXCEPT !.step = step] = MovedTo(call[g], step, call[g].todo, call[g].matches)
  BY <1>1 DEF Shape, MovedTo
<1>3. call' = [call EXCEPT ![g] = [call[g] EXCEPT !.step = step]]
  BY DEF Goto
<1> QED BY <1>2, <1>3

LEMMA StepGoto ==
    ASSUME CallInv, NEW g \in Goroutine, UNCHANGED <<table, quiet>>,
           \/ At(g, "evict") /\ Goto(g, "resolve")
           \/ At(g, "resolve") /\ Kind[call[g].key] # "device" /\ Goto(g, "set")
           \/ At(g, "scan") /\ call[g].todo = {} /\ Goto(g, "set")
    PROVE  CallInv'
<1>1. call[g] # Idle /\ Good(quiet, table, call[g])
  BY DEF At, CallInv
<1>2. PICK step \in {"resolve", "set"} : Goto(g, step) /\ (step = "resolve" => At(g, "evict"))
                                         /\ (step = "set" => ~At(g, "evict"))
  BY DEF At
<1>3. PICK c : c = MovedTo(call[g], step, call[g].todo, call[g].matches)
  OBVIOUS
<1>4. /\ Shape(c) /\ c.key = call[g].key /\ c.step = step /\ c.todo = call[g].todo
      /\ c.matches = call[g].matches /\ c.up = call[g].up /\ c.down = call[g].down
      /\ Slack(c) = Slack(call[g])
  BY <1>1, <1>2, <1>3, Moved DEF At
<1>5. Regular(table, c) /\ Settled(quiet, table, c)
  <2>1. CASE step = "resolve"
    BY <1>1, <1>2, <1>4, <2>1 DEF At, Good, Regular, Settled, Seen
  <2>2. CASE step = "set"
    BY <1>1, <1>2, <1>4, <2>2 DEF At, Good, Regular, Settled, Seen, MatchingIn
  <2> QED BY <2>1, <2>2
<1>6. call' = [call EXCEPT ![g] = c]
  BY <1>1, <1>2, <1>3, GotoMoves
<1> QED BY <1>4, <1>5, <1>6, OneCall DEF Good

LEMMA StepScan ==
    ASSUME CallInv, NEW g \in Goroutine, At(g, "resolve"), UNCHANGED <<table, quiet>>,
           Kind[call[g].key] = "device",
           call' = [call EXCEPT ![g].step = "scan", ![g].todo = GetAllPeers]
    PROVE  CallInv'
<1>1. call[g] # Idle /\ Shape(call[g]) /\ Regular(table, call[g]) /\ call[g].step = "resolve"
  BY DEF At, CallInv, Good
<1>2. PICK c : c = MovedTo(call[g], "scan", GetAllPeers, call[g].matches)
  OBVIOUS
<1>3. /\ Shape(c) /\ c.key = call[g].key /\ c.step = "scan" /\ c.todo = GetAllPeers
      /\ c.matches = call[g].matches /\ c.up = call[g].up /\ c.down = call[g].down
  BY <1>1, <1>2, Moved
<1>4. c.matches = {} /\ Seen(table, c)
  BY <1>1, <1>3 DEF Regular, Seen
<1>5. Node \ GetAllPeers \subseteq c.down
  BY <1>4 DEF Seen, GetAllPeers, Alive
<1>6. Regular(table, c) /\ Settled(quiet, table, c)
  <2>1. MatchingIn(table, c.key) \subseteq GetAllPeers
    BY DEF MatchingIn, GetAllPeers, Alive
  <2> QED BY <1>3, <1>4, <1>5, <2>1 DEF Regular, Settled
<1>7. call' = [call EXCEPT ![g] = c]
  <2>1. [call[g] EXCEPT !.step = "scan", !.todo = GetAllPeers] = c
    BY <1>1, <1>2, ScanMoves, Zenon
  <2> QED BY <2>1
<1> QED BY <1>3, <1>6, <1>7, OneCall DEF Good

LEMMA StepLook ==
    ASSUME CallInv, NEW g \in Goroutine, NEW p \in Node, Look(g, p)
    PROVE  CallInv'
<1>1. /\ call[g] # Idle /\ Shape(call[g]) /\ Regular(table, call[g]) /\ call[g].step = "scan"
      /\ p \in call[g].todo /\ UNCHANGED <<table, quiet>> /\ Settled(quiet, table, call[g])
  BY DEF Look, At, CallInv, Good
<1>2. PICK todo, found : /\ todo = call[g].todo \ {p}
                         /\ found = IF Selected(g, p) THEN call[g].matches \cup {p}
                                                      ELSE call[g].matches
  OBVIOUS
<1>3. PICK c : c = MovedTo(call[g], call[g].step, todo, found)
  OBVIOUS
<1>4. /\ Shape(c) /\ c.key = call[g].key /\ c.step = "scan" /\ c.todo = todo
      /\ c.matches = found /\ c.up = call[g].up /\ c.down = call[g].down
      /\ Slack(c) = Slack(call[g])
  BY <1>1, <1>3, Moved
<1>5. Seen(table, call[g]) /\ Seen(table, c)
  BY <1>1, <1>4 DEF Regular, Seen
<1>6. found \subseteq c.up /\ Node \ (todo \cup found) \subseteq c.down
  <2>1. call[g].matches \subseteq c.up /\ Node \ (call[g].todo \cup call[g].matches) \subseteq c.down
    BY <1>1, <1>4 DEF Regular
  <2>2. CASE Selected(g, p)
    <3>1. p \in c.up
      BY <1>4, <1>5, <2>2 DEF Selected, Seen
    <3> QED BY <1>2, <2>1, <2>2, <3>1
  <2>3. CASE ~Selected(g, p)
    <3>1. p \in c.down
      BY <1>4, <1>5, <2>3 DEF Selected, Seen
    <3> QED BY <1>2, <2>1, <2>3, <3>1
  <2> QED BY <2>2, <2>3
<1>7. Regular(table, c) /\ Settled(quiet, table, c)
  <2>1. Regular(table, c)
    BY <1>4, <1>5, <1>6 DEF Regular
  <2>2. Selected(g, p) <=> p \in MatchingIn(table, c.key)
    BY <1>1, <1>4 DEF Selected, MatchingIn, Settled
  <2>3. Settled(quiet, table, c)
    BY <1>1, <1>2, <1>4, <2>2 DEF Settled
  <2> QED BY <2>1, <2>3
<1>8. call' = [call EXCEPT ![g] = c]
  <2>1. [call[g] EXCEPT !.todo = todo, !.matches = found] = c
    BY <1>1, <1>3, LookMoves, Zenon
  <2>2. call' = [call EXCEPT ![g] = [call[g] EXCEPT !.todo = todo, !.matches = found]]
    BY <1>2 DEF Look
  <2> QED BY <2>1, <2>2
<1> QED BY <1>1, <1>4, <1>7, <1>8, OneCall DEF Good

LEMMA StepSet ==
    ASSUME IInv, NEW g \in Goroutine, Set(g)
    PROVE  CallInv' /\ CacheInv'
<1>1. /\ call[g] # Idle /\ Good(quiet, table, call[g]) /\ call[g].step = "set"
      /\ UNCHANGED <<table, quiet>> /\ CallInv /\ CacheInv /\ quiet \in Nat
  BY DEF Set, At, IInv, CallInv
<1>2. PICK c : c = [call[g] EXCEPT !.step = "done", !.up = {}, !.down = {}]
  OBVIOUS
<1>3. c = [key |-> call[g].key, step |-> "done", todo |-> call[g].todo,
           matches |-> call[g].matches, up |-> {}, down |-> {}, crossed |-> call[g].crossed]
  BY <1>1, <1>2 DEF Shape, Good
<1>4. /\ Shape(c) /\ c.key = call[g].key /\ c.step = "done" /\ c.matches = call[g].matches
      /\ c.crossed = call[g].crossed
  BY <1>3 DEF Shape
<1>5. Slack(c) = Slack(call[g])
  BY <1>1, <1>4 DEF Slack
<1>6. Regular(table, c) /\ Settled(quiet, table, c)
  BY <1>1, <1>4, <1>5 DEF Regular, Settled, Good
<1>7. call' = [call EXCEPT ![g] = c]
  BY <1>2 DEF Set
<1>8. CallInv'
  BY <1>1, <1>4, <1>6, <1>7, OneCall DEF Good
<1>9. PICK k, record : k = call[g].key /\ record = [matches |-> call[g].matches, age |-> 0]
  OBVIOUS
<1>10. Sound(quiet, table, k, record)
  <2>1. Slack(call[g]) <= 1
    BY <1>1 DEF Slack
  <2>2. quiet > 1 => quiet > Slack(call[g])
    BY <1>1, <2>1, SlackFacts
  <2>3. quiet > 1 => call[g].matches = MatchingIn(table, k)
    BY <1>1, <1>9, <2>2 DEF Settled, Good
  <2> QED BY <1>9, <2>3 DEF Sound
<1>11. cache' = [cache EXCEPT ![k] = record]
  BY <1>9 DEF Set
<1>12. CacheInv'
  <2>1. DOMAIN cache' = Key
    BY <1>1, <1>11 DEF CacheInv
  <2>2. ASSUME NEW j \in Key, cache'[j] # NotCached PROVE Sound(quiet, table, j, cache'[j])
    BY <1>1, <1>10, <1>11, <2>2 DEF CacheInv
  <2> QED BY <1>1, <2>1, <2>2 DEF CacheInv
<1> QED BY <1>8, <1>12

\* A record that is there after an eviction was there before.
LEMMA StepEvict ==
    ASSUME IInv, NEW g \in Goroutine, Evict(g)
    PROVE  CallInv' /\ CacheInv'
<1>1. UNCHANGED <<table, quiet>> /\ CallInv /\ CacheInv
  BY DEF Evict, IInv
<1>2. CallInv'
  BY <1>1, StepGoto DEF Evict
<1>3. cache' = [cache EXCEPT ![call[g].key] = NotCached]
  BY DEF Evict
<1>4. CacheInv'
  BY <1>1, <1>3 DEF CacheInv
<1> QED BY <1>2, <1>4

LEMMA StepResolver ==
    ASSUME IInv, NEW g \in Goroutine, Resolver(g)
    PROVE  IInv'
<1>1. quiet' = quiet /\ table' = table /\ quiet \in Nat /\ CallInv /\ CacheInv
  BY DEF IInv, Resolver, Resolve, Evict, ResolveAndCache, Look, EndScan, Set, Return
<1>2. CASE Evict(g)
  BY <1>1, <1>2, StepEvict DEF IInv
<1>3. CASE Set(g)
  BY <1>1, <1>3, StepSet DEF IInv
<1>4. CASE UNCHANGED cache /\ CallInv'
  BY <1>1, <1>4 DEF IInv, CacheInv
<1>5. CASE ResolveAndCache(g)
  <2>1. At(g, "resolve") /\ UNCHANGED cache
    BY <1>5 DEF ResolveAndCache
  <2>2. CASE Kind[call[g].key] = "device"
    BY <1>1, <1>4, <1>5, <2>1, <2>2, StepScan DEF ResolveAndCache
  <2>3. CASE Kind[call[g].key] # "device"
    BY <1>1, <1>4, <1>5, <2>1, <2>3, StepGoto DEF ResolveAndCache
  <2> QED BY <2>2, <2>3
<1>6. CASE EndScan(g)
  BY <1>1, <1>4, <1>6, StepGoto DEF EndScan
<1>7. CASE Return(g)
  BY <1>1, <1>4, <1>7, OneCall DEF Return
<1>8. ASSUME NEW k \in Key, Resolve(g, k) PROVE IInv'
  BY <1>4, <1>8, StepResolve DEF Resolve
<1>9. ASSUME NEW p \in Node, Look(g, p) PROVE IInv'
  BY <1>1, <1>4, <1>9, StepLook DEF Look
<1> QED BY <1>2, <1>3, <1>5, <1>6, <1>7, <1>8, <1>9 DEF Resolver

\* A unit of time is added to what was waited for and to what has rested; the
\* call that it falls into has crossed it.
LEMMA StepTick == ASSUME IInv, Tick PROVE IInv'
<1>1. /\ UNCHANGED table /\ quiet \in Nat /\ CallInv /\ CacheInv
      /\ call' = [g \in Goroutine |-> IF call[g] = Idle THEN Idle
                                      ELSE [call[g] EXCEPT !.crossed = TRUE]]
      /\ cache' = [k \in Key |->
             IF cache[k] = NotCached \/ isExpired(cache[k]) THEN cache[k]
             ELSE [cache[k] EXCEPT !.age = @ + 1]]
  BY DEF Tick, IInv
<1>2. PICK q : q = quiet' /\ q \in Nat /\ (q = quiet + 1 \/ (q = quiet /\ q > CacheTTL + 2))
  BY <1>1 DEF Tick
<1>3. ASSUME NEW g \in Goroutine, call'[g] # Idle
      PROVE  Good(q, table, call'[g])
  <2>1. call[g] # Idle /\ call'[g] = [call[g] EXCEPT !.crossed = TRUE]
    BY <1>1, <1>3
  <2>2. Shape(call[g]) /\ Regular(table, call[g]) /\ Settled(quiet, table, call[g])
    BY <1>1, <2>1 DEF CallInv, Good
  <2>3. call'[g] = [key |-> call[g].key, step |-> call[g].step, todo |-> call[g].todo,
                    matches |-> call[g].matches, up |-> call[g].up, down |-> call[g].down,
                    crossed |-> TRUE]
    BY <2>1, <2>2 DEF Shape
  <2>4. PICK b, c : b = call[g] /\ c = call'[g]
    OBVIOUS
  <2>5. /\ Shape(c) /\ c.key = b.key /\ c.step = b.step /\ c.todo = b.todo
        /\ c.matches = b.matches /\ c.up = b.up /\ c.down = b.down /\ c.crossed
    BY <2>3, <2>4 DEF Shape
  <2>6. q > Slack(c) => quiet > Slack(b)
    <3>1. ~b.crossed
      BY <2>1, <2>4 DEF Tick, Active
    <3>2. Slack(c) = Slack(b) + 1 /\ Slack(b) \in Nat /\ Slack(c) <= CacheTTL + 2
      BY <2>5, <3>1, ResolverAssumption DEF Slack
    <3> QED BY <1>1, <1>2, <3>2, ResolverAssumption
  <2>7. Regular(table, c)
    BY <2>2, <2>4, <2>5 DEF Regular, Seen
  <2>8. Settled(q, table, c)
    BY <2>2, <2>4, <2>5, <2>6 DEF Settled
  <2> QED BY <2>4, <2>5, <2>7, <2>8 DEF Good
<1>4. ASSUME NEW k \in Key, cache'[k] # NotCached
      PROVE  Sound(q, table, k, cache'[k])
  <2>1. cache[k] # NotCached /\ Sound(quiet, table, k, cache[k])
    BY <1>1, <1>4 DEF CacheInv
  <2>2. CASE isExpired(cache[k])
    BY <1>1, <2>1, <2>2, ResolverAssumption DEF isExpired, Sound
  <2>3. CASE ~isExpired(cache[k])
    <3>1. cache'[k] = [matches |-> cache[k].matches, age |-> cache[k].age + 1]
      BY <1>1, <2>1, <2>3 DEF Sound
    <3>2. cache[k].age \in Nat /\ cache[k].age <= CacheTTL
      BY <2>1, <2>3, ResolverAssumption DEF Sound, isExpired
    <3>3. q > cache[k].age + 2 => quiet > cache[k].age + 1
      BY <1>1, <1>2, <3>2, ResolverAssumption
    <3> QED BY <2>1, <3>1, <3>2, <3>3 DEF Sound
  <2> QED BY <2>2, <2>3
<1>5. CallInv'
  BY <1>1, <1>2, <1>3 DEF CallInv
<1>6. CacheInv'
  BY <1>1, <1>2, <1>4 DEF CacheInv
<1> QED BY <1>2, <1>5, <1>6 DEF IInv

LEMMA Inductive == IInv /\ [Next]_vars => IInv'
<1> SUFFICES ASSUME IInv, [Next]_vars PROVE IInv'
  OBVIOUS
<1>1. CASE \E p \in Remote : UpdateNode(p)
  BY <1>1, StepChange DEF UpdateNode
<1>2. CASE \E p \in Node : RecordFailure(p)
  BY <1>2, StepChange DEF RecordFailure
<1>3. CASE UNCHANGED vars
  BY <1>3 DEF vars, IInv, CallInv, CacheInv
<1> QED BY <1>1, <1>2, <1>3, StepResolver, StepTick DEF Next

\* Whatever discovery, the receive loop and failed sends do to the table during
\* the scan: each endpoint of an answer was alive under the name at some moment of
\* the call, and each node that is missing was not.
THEOREM AnswersAreRegular == Spec => []AnswerIsRegular
<1>1. IInv => AnswerIsRegular
  BY DEF IInv, CallInv, Good, Regular, At, AnswerIsRegular
<1> QED BY <1>1, InvInit, Inductive, PTL DEF Spec

\* Whatever order evictions, late writes and slow goroutines come in: when the
\* table has rested for CacheTTL and the two calls that a record passes through,
\* the one that made it and the one that serves it, every answer is exact.
THEOREM AnswersSettle == Spec => []SettledAnswersExact
<1>1. IInv => SettledAnswersExact
  <2> SUFFICES ASSUME IInv, NEW g \in Goroutine, Answered(g), quiet > CacheTTL + 2
               PROVE  call[g].matches = Matching(call[g].key)
    BY DEF SettledAnswersExact
  <2>1. Settled(quiet, table, call[g]) /\ call[g].step \in {"cached", "done"}
    BY DEF IInv, CallInv, Good, Answered, At
  <2>2. quiet > Slack(call[g])
    <3>1. Slack(call[g]) <= CacheTTL + 2 /\ Slack(call[g]) \in Nat /\ quiet \in Nat
      BY SlackFacts, ResolverAssumption DEF Slack, IInv
    <3> QED BY <3>1, ResolverAssumption
  <2> QED BY <2>1, <2>2 DEF Settled, MatchingIn, Matching
<1> QED BY <1>1, InvInit, Inductive, PTL DEF Spec
------------------------------------------------------------------------------
(* Types.                                                                  *)

CallRecord == [key : Key, step : {"evict", "resolve", "scan", "set", "cached", "done"},
               todo : SUBSET Node, matches : SUBSET Node, up : SUBSET Node, down : SUBSET Node,
               crossed : BOOLEAN]
TableEntry == [name : {HostName, Blank}, status : {"alive", "unhealthy"}]
CacheRecord == [matches : SUBSET Node, age : 0..CacheTTL + 1]

LEMMA SeenFromType ==
    ASSUME NEW tab, NEW c \in CallRecord
    PROVE  SeenFrom(tab, c) \in CallRecord
BY DEF SeenFrom, CallRecord

LEMMA ChangeType ==
    ASSUME TypeOK, NEW p, NEW entry \in TableEntry, Change(p, entry)
    PROVE  TypeOK'
<1>1. table' \in [Node -> {Absent} \cup TableEntry]
  BY DEF Change, TypeOK, TableEntry
<1>2. quiet' \in Nat /\ cache' = cache
  BY DEF Change, TypeOK
<1>3. PICK tab : tab = table'
  OBVIOUS
<1>4. ASSUME NEW g \in Goroutine PROVE SeenFrom(tab, call[g]) \in {Idle} \cup CallRecord
  <2>1. CASE call[g] = Idle
    BY <2>1 DEF SeenFrom
  <2>2. CASE call[g] \in CallRecord
    BY <2>2, SeenFromType
  <2> QED BY <2>1, <2>2 DEF TypeOK, CallRecord
<1>5. call' = [g \in Goroutine |-> SeenFrom(tab, call[g])]
  BY <1>3 DEF Change
<1>6. call' \in [Goroutine -> {Idle} \cup CallRecord]
  BY <1>4, <1>5
<1> QED BY <1>1, <1>2, <1>6 DEF TypeOK, TableEntry, CallRecord

LEMMA ResolverType ==
    ASSUME TypeOK, NEW g \in Goroutine, Resolver(g)
    PROVE  TypeOK'
<1>0. /\ call \in [Goroutine -> {Idle} \cup CallRecord]
      /\ cache \in [Key -> {NotCached} \cup CacheRecord]
      /\ call[g] # Idle => call[g] \in CallRecord
  BY DEF TypeOK, CallRecord, CacheRecord
<1>1. ASSUME UNCHANGED <<table, quiet>>, cache' \in [Key -> {NotCached} \cup CacheRecord],
             NEW v \in {Idle} \cup CallRecord, call' = [call EXCEPT ![g] = v]
      PROVE  TypeOK'
  <2>1. call' \in [Goroutine -> {Idle} \cup CallRecord]
    BY <1>0, <1>1
  <2> QED BY <1>1, <2>1 DEF TypeOK, CallRecord, CacheRecord
<1>2. ASSUME NEW k \in Key, Resolve(g, k) PROVE TypeOK'
  <2> DEFINE found == IF AfterGet(k) = "cached" THEN cache[k].matches ELSE {}
             new == [key |-> k, step |-> AfterGet(k), todo |-> {}, matches |-> found,
                     up |-> {}, down |-> {}, crossed |-> FALSE]
  <2>1. AfterGet(k) \in {"evict", "resolve", "cached"}
    BY DEF AfterGet
  <2>2. AfterGet(k) = "cached" => cache[k] \in CacheRecord
    BY <1>0 DEF AfterGet
  <2>3. found \in SUBSET Node
    BY <2>2 DEF CacheRecord
  <2>4. new \in CallRecord
    <3> HIDE DEF found
    <3> QED BY <2>1, <2>3 DEF CallRecord
  <2>5. NewCall(k, AfterGet(k), found) \in CallRecord
    <3>1. NewCall(k, AfterGet(k), found) = SeenFrom(table, new)
      BY DEF NewCall
    <3> HIDE DEF new, found
    <3> QED BY <2>4, <3>1, SeenFromType
  <2>6. call' = [call EXCEPT ![g] = NewCall(k, AfterGet(k), found)] /\ UNCHANGED <<table, cache, quiet>>
    BY <1>2 DEF Resolve
  <2> HIDE DEF found
  <2> QED BY <1>0, <1>1, <2>5, <2>6
<1>3. CASE Evict(g)
  <2>1. call[g] \in CallRecord
    BY <1>0, <1>3 DEF Evict, At
  <2>2. [call[g] EXCEPT !.step = "resolve"] \in CallRecord /\ call' = [call EXCEPT ![g] = [call[g] EXCEPT !.step = "resolve"]]
    BY <1>0, <1>3, <2>1 DEF Evict, Goto, CallRecord
  <2>3. cache' \in [Key -> {NotCached} \cup CacheRecord]
    BY <1>0, <1>3 DEF Evict
  <2> QED BY <1>1, <1>3, <2>2, <2>3 DEF Evict
<1>4. CASE Set(g)
  <2>1. call[g] \in CallRecord
    BY <1>0, <1>4 DEF Set, At
  <2>2. [matches |-> call[g].matches, age |-> 0] \in CacheRecord
    BY <2>1, ResolverAssumption DEF CallRecord, CacheRecord
  <2>3. cache' \in [Key -> {NotCached} \cup CacheRecord]
    BY <1>0, <1>4, <2>2 DEF Set
  <2> DEFINE v == [call[g] EXCEPT !.step = "done", !.up = {}, !.down = {}]
  <2>4. v \in CallRecord
    BY <2>1 DEF CallRecord
  <2>5. call' = [call EXCEPT ![g] = v]
    BY <1>4 DEF Set
  <2> HIDE DEF v
  <2> QED BY <1>1, <1>4, <2>3, <2>4, <2>5 DEF Set
<1>5. CASE ResolveAndCache(g)
  <2>1. call[g] \in CallRecord /\ GetAllPeers \in SUBSET Node
    BY <1>0, <1>5 DEF ResolveAndCache, At, GetAllPeers
  <2> DEFINE scan == [call[g] EXCEPT !.step = "scan", !.todo = GetAllPeers]
             set == [call[g] EXCEPT !.step = "set"]
  <2>2. scan \in CallRecord /\ set \in CallRecord
    BY <2>1 DEF CallRecord
  <2>3. call' = [call EXCEPT ![g] = scan] \/ call' = [call EXCEPT ![g] = set]
    BY <1>5 DEF ResolveAndCache, Goto
  <2> HIDE DEF scan, set
  <2> QED BY <1>0, <1>1, <1>5, <2>2, <2>3 DEF ResolveAndCache
<1>6. ASSUME NEW p \in Node, Look(g, p) PROVE TypeOK'
  <2>1. call[g] \in CallRecord
    BY <1>0, <1>6 DEF Look, At
  <2>2. PICK found \in SUBSET Node :
            call' = [call EXCEPT ![g] = [call[g] EXCEPT !.todo = @ \ {p}, !.matches = found]]
    <3>1. call[g].matches \in SUBSET Node /\ call[g].matches \cup {p} \in SUBSET Node
      BY <2>1 DEF CallRecord
    <3> QED BY <1>6, <3>1 DEF Look
  <2> DEFINE v == [call[g] EXCEPT !.todo = @ \ {p}, !.matches = found]
  <2>3. v \in CallRecord
    BY <2>1 DEF CallRecord
  <2>4. call' = [call EXCEPT ![g] = v]
    BY <2>2
  <2> HIDE DEF v
  <2> QED BY <1>0, <1>1, <1>6, <2>3, <2>4 DEF Look
<1>7. CASE EndScan(g)
  <2>1. [call[g] EXCEPT !.step = "set"] \in CallRecord /\ call' = [call EXCEPT ![g] = [call[g] EXCEPT !.step = "set"]]
    BY <1>0, <1>7 DEF EndScan, At, Goto, CallRecord
  <2> QED BY <1>0, <1>1, <1>7, <2>1 DEF EndScan
<1>8. CASE Return(g)
  BY <1>0, <1>1, <1>8 DEF Return
<1> QED BY <1>2, <1>3, <1>4, <1>5, <1>6, <1>7, <1>8 DEF Resolver

LEMMA TickType == ASSUME TypeOK, Tick PROVE TypeOK'
<1>1. table' = table /\ quiet' \in Nat
  BY DEF Tick, TypeOK
<1>2. call' \in [Goroutine -> {Idle} \cup CallRecord]
  <2>1. ASSUME NEW g \in Goroutine, call[g] # Idle PROVE [call[g] EXCEPT !.crossed = TRUE] \in CallRecord
    BY <2>1 DEF TypeOK, CallRecord
  <2> QED BY <2>1 DEF Tick
<1>3. cache' \in [Key -> {NotCached} \cup CacheRecord]
  <2>1. ASSUME NEW k \in Key, cache[k] # NotCached, ~isExpired(cache[k])
        PROVE  [cache[k] EXCEPT !.age = @ + 1] \in CacheRecord
    <3>1. cache[k] \in CacheRecord /\ cache[k].age <= CacheTTL
      BY <2>1, ResolverAssumption DEF TypeOK, CacheRecord, isExpired
    <3>2. cache[k].age + 1 \in 0..CacheTTL + 1
      BY <3>1, ResolverAssumption DEF CacheRecord
    <3> QED BY <3>1, <3>2 DEF CacheRecord
  <2>2. \A k \in Key : cache[k] \in {NotCached} \cup CacheRecord
    BY DEF TypeOK, CacheRecord
  <2> QED BY <2>1, <2>2 DEF Tick
<1> QED BY <1>1, <1>2, <1>3 DEF TypeOK, CallRecord, CacheRecord

\* A record ages to one unit past its time to live and no further, and calls hold
\* sets of nodes whatever the table has become meanwhile.
THEOREM TypeCorrect == Spec => []TypeOK
<1>1. Init => TypeOK
  BY DEF Init, TypeOK
<1>2. ASSUME TypeOK, [Next]_vars PROVE TypeOK'
  <2>1. ASSUME NEW p \in Remote, UpdateNode(p) PROVE TypeOK'
    <3>1. [name |-> Blank, status |-> "alive"] \in TableEntry
      BY DEF TableEntry
    <3> QED BY <1>2, <2>1, <3>1, ChangeType DEF UpdateNode
  <2>2. ASSUME NEW p \in Node, RecordFailure(p) PROVE TypeOK'
    <3>1. [table[p] EXCEPT !.status = "unhealthy"] \in TableEntry
      BY <1>2, <2>2 DEF RecordFailure, TypeOK, TableEntry
    <3> QED BY <1>2, <2>2, <3>1, ChangeType DEF RecordFailure
  <2>3. CASE UNCHANGED vars
    BY <1>2, <2>3 DEF vars, TypeOK
  <2> QED BY <1>2, <2>1, <2>2, <2>3, ResolverType, TickType DEF Next
<1> QED BY <1>1, <1>2, PTL DEF Spec
==============================================================================
