------------------------------ MODULE Publisher ------------------------------
(***************************************************************************)
(* DHTPublisher.publish and storeWithReplication (service/dht.go): one     *)
(* goroutine for the metadata, the manifest and every chunk of a content,  *)
(* each of which looks up peers, sends a STORE to the first of them in     *)
(* goroutines of its own and reports a failure into a bounded channel that *)
(* publish drains only after all goroutines have finished.                 *)
(***************************************************************************)
EXTENDS Naturals, Sequences, FiniteSets

CONSTANTS Task,          \* the objects of one StoreResult: meta, manifest, chunks
          Node, Self,
          LookupResults, \* what Lookup may return: see module Lookup; <<>> is an error
          ReplicationK,  \* 5
          ErrCap         \* capacity of errChan, 10

ASSUME PublisherAssumption ==
    /\ LookupResults \subseteq Seq(Node)
    /\ IsFiniteSet(Task) /\ ReplicationK \in Nat /\ ErrCap \in Nat

VARIABLES task,      \* task[t]: "lookup", "sending", "failing" or "done"
          targets,   \* targets[t]: peers[:ReplicationK]
          sending,   \* sending[t]: indices of targets whose goroutine still runs
          count,     \* count[t]: successCount
          replicas,  \* replicas[t]: the nodes a STORE was sent to
          errs,      \* errors in errChan
          warnings,  \* errors publish has drained
          pub        \* publish itself: "waiting", "draining" or "returned"

publishVars == <<task, targets, sending, count, replicas, errs, warnings, pub>>

PublishInit ==
    /\ task = [t \in Task |-> "lookup"]
    /\ targets = [t \in Task |-> <<>>]
    /\ sending = [t \in Task |-> {}]
    /\ count = [t \in Task |-> 0]
    /\ replicas = [t \in Task |-> {}]
    /\ errs = 0 /\ warnings = 0
    /\ pub = "waiting"

Advance(t, from, to) == task[t] = from /\ task' = [task EXCEPT ![t] = to]

FirstK(r) == IF Len(r) > ReplicationK THEN SubSeq(r, 1, ReplicationK) ELSE r

LookupFails(t) ==
    /\ Advance(t, "lookup", "failing")
    /\ <<>> \in LookupResults
    /\ UNCHANGED <<targets, sending, count, replicas, errs, warnings, pub>>

\* The result is unordered and may repeat peers; this node is skipped.
ChooseTargets(t) ==
    /\ Advance(t, "lookup", "sending")
    /\ \E r \in LookupResults \ {<<>>} :
          /\ targets' = [targets EXCEPT ![t] = FirstK(r)]
          /\ sending' = [sending EXCEPT ![t] =
                           {i \in DOMAIN FirstK(r) : FirstK(r)[i] # Self}]
    /\ UNCHANGED <<count, replicas, errs, warnings, pub>>

SendStore_CountsErrors(t, i) ==
    /\ i \in sending[t]
    /\ sending' = [sending EXCEPT ![t] = @ \ {i}]
    /\ count' = [count EXCEPT ![t] = @ + 1]
    /\ replicas' \in {replicas, [replicas EXCEPT ![t] = @ \cup {targets[t][i]}]}
    /\ UNCHANGED <<task, targets, errs, warnings, pub>>

\* SendStore succeeds when the datagram was written, or returns an error.
SendStore(t, i) ==
    /\ i \in sending[t]
    /\ sending' = [sending EXCEPT ![t] = @ \ {i}]
    /\ \/ /\ count' = [count EXCEPT ![t] = @ + 1]
          /\ replicas' = [replicas EXCEPT ![t] = @ \cup {targets[t][i]}]
       \/ UNCHANGED <<count, replicas>>
    /\ UNCHANGED <<task, targets, errs, warnings, pub>>

\* The inner wg.Wait is over: no success is an error.
AllSent(t) ==
    /\ sending[t] = {}
    /\ Advance(t, "sending", IF count[t] = 0 THEN "failing" ELSE "done")
    /\ UNCHANGED <<targets, sending, count, replicas, errs, warnings, pub>>

ReportError_SmallBuffer(t) ==
    /\ Advance(t, "failing", "done")
    /\ errs < ErrCap - 1
    /\ errs' = errs + 1
    /\ UNCHANGED <<targets, sending, count, replicas, warnings, pub>>

\* errChan <- err blocks while the channel is full; wg.Done comes after it.
ReportError(t) ==
    /\ Advance(t, "failing", "done")
    /\ errs < ErrCap
    /\ errs' = errs + 1
    /\ UNCHANGED <<targets, sending, count, replicas, warnings, pub>>

\* wg.Wait() and close(errChan)
AllDone ==
    /\ pub = "waiting"
    /\ \A t \in Task : task[t] = "done"
    /\ pub' = "draining"
    /\ UNCHANGED <<task, targets, sending, count, replicas, errs, warnings>>

Drain ==
    /\ pub = "draining" /\ errs > 0
    /\ errs' = errs - 1 /\ warnings' = warnings + 1
    /\ UNCHANGED <<task, targets, sending, count, replicas, pub>>

\* Always nil: "Published successfully".
Return ==
    /\ pub = "draining" /\ errs = 0
    /\ pub' = "returned"
    /\ UNCHANGED <<task, targets, sending, count, replicas, errs, warnings>>

PublishNext ==
    \/ \E t \in Task :
          \/ LookupFails(t) \/ ChooseTargets(t) \/ AllSent(t) \/ ReportError(t)
          \/ \E i \in sending[t] : SendStore(t, i)
    \/ AllDone \/ Drain \/ Return

PublishSpec == PublishInit /\ [][PublishNext]_publishVars
\* Lookup returns (Lookup!Terminates), sends do not block, goroutines run.
FairPublishSpec == PublishSpec /\ WF_publishVars(PublishNext)

------------------------------------------------------------------------------
(* Properties                                                              *)

PublishTypeOK ==
    /\ task \in [Task -> {"lookup", "sending", "failing", "done"}]
    /\ targets \in [Task -> Seq(Node)]
    /\ sending \in [Task -> SUBSET (1..ReplicationK)]
    /\ count \in [Task -> 0..ReplicationK]
    /\ replicas \in [Task -> SUBSET (Node \ {Self})]
    /\ errs \in 0..ErrCap /\ warnings \in 0..Cardinality(Task)
    /\ pub \in {"waiting", "draining", "returned"}

\* publish does not lose failures: when it returns it has warned once for
\* each object that no other node was sent.
EveryLossReported ==
    pub = "returned" =>
        warnings = Cardinality({t \in Task : replicas[t] = {}})

\* publish returns, however many of the objects cannot be stored.
PublishReturns == <>(pub = "returned")
==============================================================================
