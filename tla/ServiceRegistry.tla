--------------------------- MODULE ServiceRegistry ---------------------------
(***************************************************************************)
(* The service registry (service/service.go) and its sync.RWMutex.         *)
(*                                                                         *)
(* Writers: RegisterServicesFromDiscovery, UpdateProviderHealth and the    *)
(* cleanup loop.  Readers: GetServiceProviders; GetServiceInfo, which      *)
(* calls it with the read lock held; GetAllServices, which calls           *)
(* GetServiceInfo with the read lock held.  So a reader holds the lock up  *)
(* to three times.  Scores and health are left out.                        *)
(*                                                                         *)
(* The mutex is Go's: a writer that calls Lock first announces itself,     *)
(* from then on RLock waits, and enters when the readers inside have left. *)
(***************************************************************************)
EXTENDS Naturals, FiniteSets

CONSTANTS Service, Device,
          Allowed,       \* Allowed[d]: RoleServicePolicy of the role d announces
          Known,         \* devices that network.GetPeer finds
          Reader, Writer,
          Depth,         \* Depth[r]: 1, 2, 3 for GetServiceProviders, -Info, GetAllServices
          Cleaner,       \* the writer that runs startCleanupLoop
          TTL,           \* ProviderTTL, in ticks
          Gone, None

ASSUME RegistryAssumption ==
    /\ Allowed \in [Device -> SUBSET Service]
    /\ Known \subseteq Device
    /\ Depth \in [Reader -> 1..3]
    /\ Cleaner \in Writer /\ None \notin Writer /\ Reader \cap Writer = {}
    /\ TTL \in Nat /\ Gone \notin Nat

VARIABLES age,      \* age[<<s, d>>]: time since d announced s, Gone without entry
          held,     \* held[r]: how often r holds the read lock
          todo,     \* todo[r]: the services r still has to report
          result,   \* result[r]: the providers r has collected, with their ages
          pc,       \* "idle", "entering" (waiting for the lock) or "busy"
          waiting,  \* the writer that announced itself, or None
          inside    \* the writer that holds the lock, or None

vars == <<age, held, todo, result, pc, waiting, inside>>
lockVars == <<held, waiting, inside>>

Provider == Service \X Device
Expired == TTL + 1           \* every age above TTL
Live(p) == age[p] # Gone /\ age[p] <= TTL
Registered == {s \in Service : \E d \in Device : age[<<s, d>>] # Gone}

Init ==
    /\ age = [p \in Provider |-> Gone]
    /\ held = [r \in Reader |-> 0]
    /\ todo = [r \in Reader |-> {}]
    /\ result = [r \in Reader |-> {}]
    /\ pc = [t \in Reader \cup Writer |-> "idle"]
    /\ waiting = None /\ inside = None

Goto(t, from, to) == pc[t] = from /\ pc' = [pc EXCEPT ![t] = to]

\* Ages saturate at Expired.
Tick ==
    /\ \E p \in Provider : Live(p)
    /\ age' = [p \in Provider |->
                 IF age[p] \in {Gone, Expired} THEN age[p] ELSE age[p] + 1]
    /\ UNCHANGED <<lockVars, todo, result, pc>>

------------------------------------------------------------------------------
(* The mutex                                                               *)

RLock(r) ==
    /\ waiting = None /\ inside = None
    /\ held' = [held EXCEPT ![r] = @ + 1]
    /\ UNCHANGED <<waiting, inside>>

RUnlock(r) ==
    /\ held' = [held EXCEPT ![r] = @ - 1]
    /\ UNCHANGED <<waiting, inside>>

Announce(w) ==
    /\ Goto(w, "idle", "busy")
    /\ waiting = None /\ inside = None
    /\ waiting' = w
    /\ UNCHANGED <<age, held, todo, result, inside>>

Enter_Early(w) ==
    /\ waiting = w
    /\ waiting' = None /\ inside' = w
    /\ UNCHANGED <<age, held, todo, result, pc>>

Enter(w) ==
    /\ waiting = w
    /\ \A r \in Reader : held[r] = 0
    /\ waiting' = None /\ inside' = w
    /\ UNCHANGED <<age, held, todo, result, pc>>

Leave_KeepsLock(w) ==
    /\ inside = w /\ inside' = w
    /\ Goto(w, "busy", "idle")
    /\ UNCHANGED <<held, waiting>>

Leave(w) ==
    /\ inside = w /\ inside' = None
    /\ Goto(w, "busy", "idle")
    /\ UNCHANGED <<held, waiting>>

------------------------------------------------------------------------------
(* Writers                                                                 *)

\* RegisterServicesFromDiscovery(d, offered, ...): what the role may not
\* offer is rejected, and everything of an unknown device.
Register(w, d, offered) ==
    /\ w # Cleaner
    /\ age' = [p \in Provider |->
                 IF d \in Known /\ p \in (offered \cap Allowed[d]) \X {d}
                 THEN 0 ELSE age[p]]
    /\ Leave(w)
    /\ UNCHANGED <<todo, result>>

\* UpdateProviderHealth changes health and score of entries, never adds one.
UpdateHealth(w) ==
    /\ w # Cleaner
    /\ Leave(w)
    /\ UNCHANGED <<age, todo, result>>

\* cleanupExpiredProviders; a service without providers goes with them.
Cleanup_Never == UNCHANGED age
Cleanup == age' = [p \in Provider |-> IF Live(p) THEN age[p] ELSE Gone]

CleanupStep ==
    /\ Cleanup
    /\ Leave(Cleaner)
    /\ UNCHANGED <<todo, result>>

------------------------------------------------------------------------------
(* Readers.  The call of depth n holds the lock n times while it collects. *)

Call(r) ==
    /\ Goto(r, "idle", "entering")
    /\ UNCHANGED <<age, lockVars, todo, result>>

Begin(r) ==
    /\ Goto(r, "entering", "busy")
    /\ RLock(r)
    /\ result' = [result EXCEPT ![r] = {}]
    /\ todo' \in IF Depth[r] = 3
                 THEN {[todo EXCEPT ![r] = Registered]}
                 ELSE {[todo EXCEPT ![r] = {s} \cap Registered] : s \in Service}
    /\ UNCHANGED age

\* GetAllServices calls GetServiceInfo, which calls GetServiceProviders.
CallNested(r) ==
    /\ pc[r] = "busy" /\ todo[r] # {}
    /\ held[r] < Depth[r]
    /\ RLock(r)
    /\ UNCHANGED <<age, todo, result, pc>>

\* GetServiceProviders skips expired entries, unknown devices, and devices
\* that are not alive or not healthy enough for the caller.
Listed(s, fit) == {p \in {s} \X (Known \cap fit) : Live(p)}

\* The innermost call is done; all but the outermost lock are released.
Collect(r) ==
    /\ pc[r] = "busy" /\ held[r] = Depth[r]
    /\ \E s \in todo[r], fit \in SUBSET Device :
          /\ result' = [result EXCEPT
                          ![r] = @ \cup {<<p, age[p]>> : p \in Listed(s, fit)}]
          /\ todo' = [todo EXCEPT ![r] = @ \ {s}]
    /\ held' = [held EXCEPT ![r] = 1]
    /\ UNCHANGED <<age, pc, waiting, inside>>

EndCall(r) ==
    /\ todo[r] = {}
    /\ Goto(r, "busy", "idle")
    /\ RUnlock(r)
    /\ UNCHANGED <<age, todo, result>>

ReaderStep(r) == Begin(r) \/ CallNested(r) \/ Collect(r) \/ EndCall(r)

WriterStep(w) ==
    \/ Enter(w)
    \/ w = Cleaner /\ inside = w /\ CleanupStep
    \/ inside = w /\ UpdateHealth(w)
    \/ /\ inside = w
       /\ \E d \in Device, offered \in SUBSET Service \ {{}} : Register(w, d, offered)

Next ==
    \/ Tick
    \/ \E r \in Reader : Call(r) \/ ReaderStep(r)
    \/ \E w \in Writer : Announce(w) \/ WriterStep(w)

Spec == Init /\ [][Next]_vars

\* Goroutines inside a call run; the mutex serves waiters in turn; the ticker
\* of the cleanup loop fires.  Calls need not be made and time need not pass.
Fairness ==
    /\ \A r \in Reader : SF_vars(ReaderStep(r))
    /\ \A w \in Writer : SF_vars(WriterStep(w))
    /\ SF_vars(Announce(Cleaner))

FairSpec == Spec /\ Fairness

------------------------------------------------------------------------------
(* Properties                                                              *)

TypeOK ==
    /\ age \in [Provider -> 0..Expired \cup {Gone}]
    /\ held \in [Reader -> 0..3]
    /\ todo \in [Reader -> SUBSET Service]
    /\ \A r \in Reader : result[r] \subseteq Provider \X (0..Expired \cup {Gone})
    /\ pc \in [Reader \cup Writer -> {"idle", "entering", "busy"}]
    /\ waiting \in Writer \cup {None} /\ inside \in Writer \cup {None}

\* A reader sees one registry from its first lock to its last unlock: while it
\* is inside, no service it still has to report disappears, and no entry that it
\* reports is deleted or announced anew.
ReadersExcludeWriters ==
    \A r \in Reader : held[r] > 0 =>
        /\ inside = None
        /\ todo[r] \subseteq Registered
        /\ \A x \in result[r] : age[x[1]] # Gone /\ x[2] <= age[x[1]]

\* Documented but not so ("no nested locks"): no reader waits for a writer
\* that waits for this reader.
NoWaitCycle ==
    ~ \E r \in Reader :
        waiting # None /\ held[r] > 0 /\ held[r] < Depth[r] /\ todo[r] # {}

\* That cycle is the only way in which the registry can hang: short of it a
\* provider that stopped announcing is forgotten, ...
ExpiredForgotten ==
    \A p \in Provider : age[p] = Expired ~> (age[p] # Expired \/ ~NoWaitCycle)

\* ... and every call of a reader returns.
CallsReturn ==
    \A r \in Reader : pc[r] = "entering" ~> (pc[r] = "idle" \/ ~NoWaitCycle)
==============================================================================
