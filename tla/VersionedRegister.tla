-------------------------- MODULE VersionedRegister ---------------------------
(***************************************************************************)
(* What StorageEngine (storage/storage_engine.go) promises its callers:    *)
(* one register per record that holds the latest payload with a version,   *)
(* written unconditionally or under the version a caller expects.          *)
(***************************************************************************)
EXTENDS Naturals

CONSTANTS Client, Key, Payload,
          NoPayload      \* the payload of a record that does not exist

VARIABLES latest,  \* latest[k]: the newest version of k and its payload; version 0: none
          held,    \* held[c]: what the last Get of c returned
          result   \* result[c]: the error of the last operation of c

vars == <<latest, held, result>>

Absent == [version |-> 0, payload |-> NoPayload]

Init ==
    /\ latest = [k \in Key |-> Absent]
    /\ held \in [Client -> {[key |-> k, version |-> 0, payload |-> NoPayload] : k \in Key}]
    /\ result = [c \in Client |-> "ok"]

Answer(c, r) == result' = [result EXCEPT ![c] = r]
Matches(k, expected) == expected = latest[k].version

Get(c, k) ==
    /\ held' = [held EXCEPT ![c] = [key |-> k, version |-> latest[k].version,
                                    payload |-> latest[k].payload]]
    /\ Answer(c, IF latest[k].version = 0 THEN "not found" ELSE "ok")
    /\ UNCHANGED latest

Put(c, k, p) ==
    /\ latest' = [latest EXCEPT ![k] = [version |-> @.version + 1, payload |-> p]]
    /\ Answer(c, "ok")
    /\ UNCHANGED held

Delete(c, k) ==
    /\ latest[k].version > 0
    /\ latest' = [latest EXCEPT ![k] = Absent]
    /\ Answer(c, "ok")
    /\ UNCHANGED held

Refuse(c, r) ==
    /\ Answer(c, r)
    /\ UNCHANGED <<latest, held>>

\* The operations under an expected version.
PutExpecting(c, p) ==
    LET k == held[c].key
    IN  IF Matches(k, held[c].version) THEN Put(c, k, p) ELSE Refuse(c, "conflict")

DeleteAny(c, k) == IF latest[k].version = 0 THEN Refuse(c, "not found") ELSE Delete(c, k)

DeleteExpecting(c) ==
    LET k == held[c].key
    IN  IF latest[k].version > 0 /\ ~Matches(k, held[c].version)
        THEN Refuse(c, "conflict") ELSE DeleteAny(c, k)

Next ==
    \E c \in Client :
        \/ \E k \in Key : Get(c, k) \/ DeleteAny(c, k)
        \/ \E k \in Key, p \in Payload : Put(c, k, p)
        \/ \E p \in Payload : PutExpecting(c, p)
        \/ DeleteExpecting(c)

Spec == Init /\ [][Next]_vars
==============================================================================
