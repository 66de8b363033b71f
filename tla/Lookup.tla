------------------------------- MODULE Lookup --------------------------------
(***************************************************************************)
(* InnerCore.Lookup (innercore/lookup.go): rounds of concurrent FIND_NODE  *)
(* calls, each returning as FindNodeRPC promises, with escalation to the   *)
(* supernodes when a round brings nothing, while discovery, other lookups  *)
(* and maintenanceLoop hold elections.                                     *)
(*                                                                         *)
(* Lookup reads ic.supernodes three times without ic.mu.  An election      *)
(* empties the list and appends to it one peer after the other, so a read  *)
(* may return any prefix.  A goroutine of the lookup that got an answer    *)
(* seeds every peer of it and holds an election for each; these are over   *)
(* before wg.Wait() returns, so they are one step here.                    *)
(*                                                                         *)
(* Peers are ids and lists of peers are sets, but for the supernodes,      *)
(* whose order makes the prefixes.  No bucket is full (RoutingTable has    *)
(* the full ones, and the copy of a bucket during an election).  Time      *)
(* passes in the calls, in whole seconds; the rest takes none.             *)
(***************************************************************************)
EXTENDS Naturals, Sequences, Functions, FiniteSets

CONSTANTS Node, Self,
          Targets,       \* the ids looked up
          Zero,          \* the node id before SetNodeID
          Tables,        \* the peers the buckets may hold when the lookup starts
          Newcomers,     \* peers others may seed during the lookup
          NetworkTable,  \* network.GetAllPeers()
          Answer,        \* Answer[p]: the peers p replies with
          Elect,         \* Elect[T]: the supernodes elected from the peers T
          Alpha,         \* 3
          MaxRounds,     \* 5
          MaxTime,       \* 5 seconds
          CallTimeout    \* 2 seconds

ASSUME LookupAssumption ==
    /\ IsFiniteSet(Node) /\ Self \in Node /\ Zero \notin Node
    /\ Tables \subseteq SUBSET Node /\ Newcomers \subseteq Node
    /\ NetworkTable \subseteq Node
    /\ Answer \in [Node -> SUBSET Node]
    /\ Elect \in [SUBSET Node -> Seq(Node)]
    /\ \A T \in SUBSET Node : /\ Range(Elect[T]) \subseteq T
                              /\ T # {} => Elect[T] # <<>>
    /\ Alpha \in Nat /\ MaxRounds \in Nat
    /\ MaxTime \in Nat \ {0} /\ CallTimeout \in Nat

VARIABLES table,    \* the peers in the buckets
          elected,  \* what the latest election publishes
          supernodes,   \* ic.supernodes: as much of it as was appended
          ownId,    \* ic.nodeID when the lookup starts
          target,   \* its argument
          stage,    \* "start", "loop", "wait", "escalate", "collect", "done"
          round,    \* iteration
          elapsed,  \* time.Since(start), in seconds
          closest,  \* the peers of the next round
          seen,     \* ids asked so far
          asking,   \* the goroutines of this round that await their call,
          seeding,  \* and those that seed the peers of their answer
          longest,  \* the longest call of this round so far, in seconds
          fresh,    \* newPeersFromNetwork
          result, error,
          raced     \* history: a read found the list emptied by an election

args == <<ownId, target>>
list == <<table, elected, supernodes>>
calls == <<seen, asking, seeding, longest, fresh>>
lookupVars == <<list, args, stage, round, elapsed, closest, calls, result, error, raced>>

LookupInit ==
    /\ table \in Tables /\ elected = Elect[table] /\ supernodes = elected
    /\ ownId \in {Self, Zero} /\ target \in Targets
    /\ stage = "start" /\ round = 0 /\ elapsed = 0
    /\ closest = {} /\ seen = {} /\ asking = {} /\ seeding = {}
    /\ longest = 0 /\ fresh = {}
    /\ result = {} /\ error = FALSE /\ raced = FALSE

------------------------------------------------------------------------------
(* Elections: updateSupernodeList, under ic.mu                             *)

ElectionOver == supernodes = elected   \* ic.mu is free

\* A SeedPeer of discovery or of another lookup, or the maintenance loop
\* (new = {}): the peer is inserted, the list emptied ...
StartElection ==
    /\ ElectionOver
    /\ \E new \in SUBSET Newcomers : Cardinality(new) <= 1 /\ table' = table \cup new
    /\ elected' = Elect[table']
    /\ supernodes' = <<>>
    /\ UNCHANGED <<args, stage, round, elapsed, closest, calls, result, error, raced>>

\* ... and filled, one append after the other.
AppendElected ==
    /\ ~ElectionOver
    /\ supernodes' = Append(supernodes, elected[Len(supernodes) + 1])
    /\ UNCHANGED <<table, elected, args, stage, round, elapsed, closest, calls, result,
                   error, raced>>

------------------------------------------------------------------------------
(* Lookup                                                                  *)

\* The guards: no own id yet, and a lookup of the own id.
ReturnAtOnce ==
    /\ stage = "start"
    /\ \/ ownId = Zero /\ error' = TRUE /\ result' = result
       \/ ownId # Zero /\ target = ownId /\ error' = error /\ result' = {Self}
    /\ stage' = "done"
    /\ UNCHANGED <<list, args, round, elapsed, closest, calls, raced>>

\* getAlphaClosest(target, 3), under ic.mu: which three depends on the target.
AlphaClosest ==
    {s \in SUBSET table : \/ s = table /\ Cardinality(s) <= Alpha
                          \/ Cardinality(s) = Alpha}

Begin ==
    /\ stage = "start"
    /\ ownId # Zero /\ target # ownId
    /\ ElectionOver
    /\ IF table = {} THEN closest' = NetworkTable ELSE closest' \in AlphaClosest
    /\ stage' = "loop"
    /\ UNCHANGED <<list, args, round, elapsed, calls, result, error, raced>>

MayIterate_NoDeadline == closest # {} /\ round < MaxRounds
MayIterate == closest # {} /\ round < MaxRounds /\ elapsed < MaxTime

\* One goroutine for each peer of closest that was not asked before.
StartRound ==
    /\ stage = "loop" /\ MayIterate
    /\ asking' = closest \ seen
    /\ seen' = seen \cup closest
    /\ fresh' = {} /\ longest' = 0
    /\ stage' = "wait"
    /\ UNCHANGED <<list, args, round, elapsed, closest, seeding, result, error, raced>>

\* SendFindNodeAndWait returned peers, early or late: they are collected,
PeerAnswers(p) ==
    /\ p \in asking /\ Answer[p] # {}
    /\ asking' = asking \ {p} /\ seeding' = seeding \cup {p}
    /\ fresh' = fresh \cup Answer[p]
    /\ longest' \in longest..CallTimeout
    /\ UNCHANGED <<list, args, stage, round, elapsed, closest, seen, result, error, raced>>

\* and handed to SeedPeer, which elects anew once it has ic.mu.
SeedAnswer_NoElection(p) ==
    /\ p \in seeding /\ ElectionOver
    /\ seeding' = seeding \ {p}
    /\ table' = table \cup Answer[p]
    /\ UNCHANGED <<elected, supernodes>>
    /\ UNCHANGED <<args, stage, round, elapsed, closest, seen, asking, longest, fresh,
                   result, error, raced>>

SeedAnswer_NoInsert(p) ==
    /\ p \in seeding /\ ElectionOver
    /\ seeding' = seeding \ {p}
    /\ table' = table
    /\ elected' = Elect[table'] /\ supernodes' = elected'
    /\ UNCHANGED <<args, stage, round, elapsed, closest, seen, asking, longest, fresh,
                   result, error, raced>>

SeedAnswer(p) ==
    /\ p \in seeding /\ ElectionOver
    /\ seeding' = seeding \ {p}
    /\ table' = table \cup Answer[p]
    /\ elected' = Elect[table'] /\ supernodes' = elected'
    /\ UNCHANGED <<args, stage, round, elapsed, closest, seen, asking, longest, fresh,
                   result, error, raced>>

\* It returned nothing: after a timeout, or at once when the send failed.
PeerFails(p) ==
    /\ p \in asking
    /\ asking' = asking \ {p}
    /\ longest' \in {longest, CallTimeout}
    /\ UNCHANGED <<list, args, stage, round, elapsed, closest, seen, seeding, fresh, result,
                   error, raced>>

\* wg.Wait() is over.
RoundOver ==
    /\ stage = "wait" /\ asking = {} /\ seeding = {}
    /\ elapsed' = elapsed + longest
    /\ UNCHANGED <<list, args, calls, error>>

ContinueWithNewPeers ==
    /\ RoundOver
    /\ fresh # {}
    /\ closest' = fresh
    /\ result' = result \cup fresh
    /\ round' = round + 1
    /\ stage' = "loop"
    /\ UNCHANGED raced

\* len(ic.supernodes) > 0
FindSupernodes ==
    /\ RoundOver
    /\ fresh = {} /\ supernodes # <<>>
    /\ stage' = "escalate"
    /\ UNCHANGED <<round, closest, result, raced>>

\* Self is always appended to the result.
Return == result' = result \cup {Self}

\* len(ic.supernodes) = 0: nobody is known, or an election is under way.
StopWithoutSupernodes ==
    /\ RoundOver
    /\ fresh = {} /\ supernodes = <<>>
    /\ raced' = (raced \/ ~ElectionOver)
    /\ Return
    /\ stage' = "done"
    /\ UNCHANGED <<round, closest>>

\* closest = ic.supernodes, which an election may have emptied since.
TakeSupernodes ==
    /\ stage = "escalate"
    /\ closest' = Range(supernodes)
    /\ raced' = (raced \/ supernodes = <<>>)
    /\ stage' = "collect"
    /\ UNCHANGED <<list, args, round, elapsed, calls, result, error>>

\* result = append(result, ic.supernodes...), perhaps of another election.
CollectSupernodes ==
    /\ stage = "collect"
    /\ result' = result \cup Range(supernodes)
    /\ round' = round + 1
    /\ stage' = "loop"
    /\ UNCHANGED <<list, args, elapsed, closest, calls, error, raced>>

LeaveLoop_NotWhenEmpty ==
    /\ stage = "loop" /\ ~MayIterate /\ closest # {}
    /\ Return
    /\ stage' = "done"
    /\ UNCHANGED <<list, args, round, elapsed, closest, calls, error, raced>>

LeaveLoop ==
    /\ stage = "loop" /\ ~MayIterate
    /\ Return
    /\ stage' = "done"
    /\ UNCHANGED <<list, args, round, elapsed, closest, calls, error, raced>>

LookupStep ==
    \/ ReturnAtOnce \/ Begin \/ StartRound
    \/ \E p \in Node : PeerAnswers(p) \/ SeedAnswer(p) \/ PeerFails(p)
    \/ ContinueWithNewPeers
    \/ FindSupernodes \/ TakeSupernodes \/ CollectSupernodes
    \/ StopWithoutSupernodes \/ LeaveLoop

LookupNext == LookupStep \/ StartElection \/ AppendElected

LookupSpec == LookupInit /\ [][LookupNext]_lookupVars

\* The goroutines run, the calls return (FindNodeRPC!FairSpec), elections
\* end, and an RWMutex does not starve those that wait for it however many
\* elections others hold.
FairLookupSpec ==
    /\ LookupSpec
    /\ WF_lookupVars(LookupStep)
    /\ WF_lookupVars(AppendElected)
    /\ SF_lookupVars(Begin)
    /\ \A p \in Node : SF_lookupVars(SeedAnswer(p))

------------------------------------------------------------------------------
(* Properties                                                              *)

LookupTypeOK ==
    /\ table \subseteq Node
    /\ elected \in Seq(Node) /\ supernodes \in Seq(Node)
    /\ ownId \in {Self, Zero} /\ target \in Targets
    /\ stage \in {"start", "loop", "wait", "escalate", "collect", "done"}
    /\ round \in 0..MaxRounds
    /\ elapsed \in Nat /\ longest \in 0..CallTimeout
    /\ closest \subseteq Node /\ fresh \subseteq Node /\ result \subseteq Node
    /\ seen \subseteq Node /\ asking \subseteq seen /\ seeding \subseteq seen
    /\ error \in BOOLEAN /\ raced \in BOOLEAN

\* A lookup returns, even when peers name each other for ever and others
\* hold elections without end, ...
Terminates == <>(stage = "done")

\* ... within the time of the rounds that may start before the deadline.
ReturnsInTime == elapsed < MaxTime + CallTimeout

\* Whatever prefixes of whatever elections were read, a returned peer is in
\* the routing table, and came there because discovery or another lookup
\* introduced it or because a peer asked in this lookup named it.
Introduced == Newcomers \cup UNION Tables
ResultIsHearsay ==
    result \ {Self} \subseteq
        table \cap (Introduced \cup UNION {Answer[p] : p \in seen})

\* A lookup that got beyond its first round goes on until its rounds or its
\* time are used up: the answers it seeds elect the supernodes it falls back
\* on.  The one exception is a read of the list that an election had just
\* emptied, which ends the lookup early with whatever it has.
UsesItsBounds ==
    stage = "done" /\ round > 0 /\ ~raced =>
        round = MaxRounds \/ elapsed >= MaxTime
==============================================================================
