------------------------ MODULE ServiceRegistry_proofs -------------------------
(***************************************************************************)
(* Theorems about ServiceRegistry for any services, devices, readers,      *)
(* writers and time to live: the nested read locks keep writers out, and   *)
(* a reader that waits for itself does so for ever.                        *)
(***************************************************************************)
EXTENDS ServiceRegistry, TLAPS

------------------------------------------------------------------------------
(* The inductive invariant.                                                *)

Shape ==
    /\ age \in [Provider -> Nat \cup {Gone}]
    /\ held \in [Reader -> Nat] /\ todo \in [Reader -> SUBSET Service]
    /\ DOMAIN result = Reader /\ DOMAIN pc = Reader \cup Writer

\* A call holds the lock from Begin to EndCall, which is reached holding it once.
CallInv ==
    \A r \in Reader :
        /\ held[r] > 0 <=> pc[r] = "busy"
        /\ pc[r] = "busy" /\ todo[r] = {} => held[r] = 1

\* The reader's view of the map: what it has to report is there, and what it has
\* collected is there still and was not announced since.
LockInv ==
    /\ inside # None => \A r \in Reader : held[r] = 0
    /\ \A r \in Reader : held[r] > 0 => todo[r] \subseteq Registered

ResultInv ==
    \A r \in Reader : held[r] > 0 =>
        \A x \in result[r] : x \in Provider \X Nat /\ age[x[1]] # Gone /\ x[2] <= age[x[1]]

IInv == Shape /\ CallInv /\ LockInv /\ ResultInv

------------------------------------------------------------------------------
(* The steps.                                                              *)

LEMMA InvInit == Init => IInv
<1> SUFFICES ASSUME Init PROVE IInv
  OBVIOUS
<1>1. Shape
  BY DEF Init, Shape
<1>2. CallInv /\ LockInv
  BY DEF Init, CallInv, LockInv
<1>3. ResultInv
  BY DEF Init, ResultInv
<1> QED BY <1>1, <1>2, <1>3 DEF IInv

\* Time adds to ages, and makes no entry Gone.
LEMMA StepTick == ASSUME IInv, Tick PROVE IInv'
<1> USE DEF IInv
<1>1. /\ age' = [p \in Provider |-> IF age[p] \in {Gone, Expired} THEN age[p] ELSE age[p] + 1]
      /\ UNCHANGED <<held, todo, result, pc, inside>>
  BY DEF Tick, lockVars
<1>2. \A p \in Provider : /\ age'[p] \in Nat \cup {Gone}
                          /\ age[p] # Gone => age'[p] # Gone /\ age[p] <= age'[p]
  BY <1>1, RegistryAssumption DEF Shape
<1>3. Shape'
  BY <1>1, <1>2 DEF Shape
<1>4. Registered \subseteq Registered'
  BY <1>2 DEF Registered, Provider
<1>5. ResultInv'
  <2> SUFFICES ASSUME NEW r \in Reader, held'[r] > 0, NEW x \in result'[r]
               PROVE  x \in Provider \X Nat /\ age'[x[1]] # Gone /\ x[2] <= age'[x[1]]
    BY DEF ResultInv
  <2>1. x \in Provider \X Nat /\ age[x[1]] # Gone /\ x[2] <= age[x[1]]
    BY <1>1 DEF ResultInv
  <2>2. age[x[1]] \in Nat /\ age'[x[1]] \in Nat /\ age[x[1]] <= age'[x[1]] /\ age'[x[1]] # Gone
    BY <1>2, <2>1 DEF Shape
  <2> QED BY <2>1, <2>2
<1> QED BY <1>1, <1>3, <1>4, <1>5 DEF CallInv, LockInv

\* A writer that asks for the lock, and one that enters when nobody is inside.
LEMMA StepAnnounce == ASSUME IInv, NEW w \in Writer, Announce(w) PROVE IInv'
<1> USE DEF IInv
<1>1. /\ pc' = [pc EXCEPT ![w] = "busy"]
      /\ UNCHANGED <<age, held, todo, result, inside>>
  BY DEF Announce, Goto
<1>2. \A r \in Reader : pc'[r] = pc[r]
  BY <1>1, RegistryAssumption DEF Shape
<1>3. Registered' = Registered
  BY <1>1 DEF Registered
<1> QED BY <1>1, <1>2, <1>3 DEF Shape, CallInv, LockInv, ResultInv

LEMMA StepEnter == ASSUME IInv, NEW w \in Writer, Enter(w) PROVE IInv'
<1>1. Registered' = Registered
  BY DEF Enter, Registered
<1> QED BY <1>1 DEF Enter, IInv, Shape, CallInv, LockInv, ResultInv

\* A writer at work: whatever it does to the map, no reader is inside.
LEMMA StepWriter ==
    ASSUME IInv, NEW w \in Writer, inside = w, Leave(w), UNCHANGED <<todo, result>>,
           age' \in [Provider -> Nat \cup {Gone}]
    PROVE  IInv'
<1> USE DEF IInv
<1>1. pc' = [pc EXCEPT ![w] = "idle"] /\ inside' = None /\ held' = held
  BY DEF Leave, Goto
<1>2. \A r \in Reader : pc'[r] = pc[r] /\ held[r] = 0
  BY <1>1, RegistryAssumption DEF Shape, LockInv
<1> QED BY <1>1, <1>2 DEF Shape, CallInv, LockInv, ResultInv

LEMMA WriterAges ==
    ASSUME IInv, NEW w \in Writer,
           \/ CleanupStep
           \/ UpdateHealth(w)
           \/ \E d \in Device, offered \in SUBSET Service \ {{}} : Register(w, d, offered)
    PROVE  age' \in [Provider -> Nat \cup {Gone}] /\ UNCHANGED <<todo, result>>
<1> USE DEF IInv
<1>1. CASE CleanupStep
  BY <1>1 DEF CleanupStep, Cleanup, Shape
<1>2. CASE UpdateHealth(w)
  BY <1>2 DEF UpdateHealth, Shape
<1>3. CASE \E d \in Device, offered \in SUBSET Service \ {{}} : Register(w, d, offered)
  BY <1>3 DEF Register, Shape
<1> QED BY <1>1, <1>2, <1>3

LEMMA StepWriterStep == ASSUME IInv, NEW w \in Writer, WriterStep(w) PROVE IInv'
<1>1. CASE Enter(w)
  BY <1>1, StepEnter
<1>2. CASE ~Enter(w)
  <2>1. inside = w /\ Leave(w)
    BY <1>2 DEF WriterStep, CleanupStep, UpdateHealth, Register
  <2>2. age' \in [Provider -> Nat \cup {Gone}] /\ UNCHANGED <<todo, result>>
    BY <1>2, WriterAges DEF WriterStep
  <2> QED BY <2>1, <2>2, StepWriter
<1> QED BY <1>1, <1>2

\* The steps of a reader.
LEMMA StepCall == ASSUME IInv, NEW r \in Reader, Call(r) PROVE IInv'
<1> USE DEF IInv
<1>1. /\ pc[r] = "idle" /\ pc' = [pc EXCEPT ![r] = "entering"]
      /\ UNCHANGED <<age, held, todo, result, inside>>
  BY DEF Call, Goto, lockVars
<1>2. Registered' = Registered
  BY <1>1 DEF Registered
<1> QED BY <1>1, <1>2 DEF Shape, CallInv, LockInv, ResultInv

LEMMA StepBegin == ASSUME IInv, NEW r \in Reader, Begin(r) PROVE IInv'
<1> USE DEF IInv
<1>1. /\ pc[r] = "entering" /\ pc' = [pc EXCEPT ![r] = "busy"]
      /\ inside = None /\ held' = [held EXCEPT ![r] = @ + 1]
      /\ result' = [result EXCEPT ![r] = {}]
      /\ UNCHANGED <<age, inside>>
  BY DEF Begin, Goto, RLock
<1>2. PICK of \in SUBSET Service : todo' = [todo EXCEPT ![r] = of] /\ of \subseteq Registered
  <2>1. Registered \subseteq Service
    BY DEF Registered
  <2>2. CASE Depth[r] = 3
    BY <2>1, <2>2 DEF Begin
  <2>3. CASE Depth[r] # 3
    BY <2>1, <2>3 DEF Begin
  <2> QED BY <2>2, <2>3
<1>3. held[r] = 0
  BY <1>1 DEF Shape, CallInv
<1>4. Registered' = Registered
  BY <1>1 DEF Registered
<1>5. Shape'
  BY <1>1, <1>2 DEF Shape
<1>6. CallInv'
  BY <1>1, <1>2, <1>3 DEF Shape, CallInv
<1>7. LockInv'
  BY <1>1, <1>2, <1>4 DEF Shape, LockInv
<1>8. ResultInv'
  BY <1>1 DEF Shape, ResultInv
<1> QED BY <1>5, <1>6, <1>7, <1>8

LEMMA StepCallNested == ASSUME IInv, NEW r \in Reader, CallNested(r) PROVE IInv'
<1> USE DEF IInv
<1>1. /\ pc[r] = "busy" /\ todo[r] # {} /\ inside = None
      /\ held' = [held EXCEPT ![r] = @ + 1]
      /\ UNCHANGED <<age, todo, result, pc, inside>>
  BY DEF CallNested, RLock
<1>2. Registered' = Registered
  BY <1>1 DEF Registered
<1> QED BY <1>1, <1>2 DEF Shape, CallInv, LockInv, ResultInv

LEMMA StepCollect == ASSUME IInv, NEW r \in Reader, Collect(r) PROVE IInv'
<1> USE DEF IInv
<1>1. /\ pc[r] = "busy" /\ held' = [held EXCEPT ![r] = 1] /\ UNCHANGED <<age, pc, inside>>
  BY DEF Collect
<1>2. PICK s \in todo[r], fit \in SUBSET Device :
          /\ result' = [result EXCEPT ![r] = @ \cup {<<p, age[p]>> : p \in Listed(s, fit)}]
          /\ todo' = [todo EXCEPT ![r] = @ \ {s}]
  BY DEF Collect
<1>3. Registered' = Registered
  BY <1>1 DEF Registered
<1>4. Shape'
  BY <1>1, <1>2 DEF Shape
<1>5. held[r] > 0
  BY <1>1 DEF CallInv
<1>6. CallInv'
  BY <1>1, <1>2, <1>5 DEF Shape, CallInv
<1>7. inside = None
  BY <1>5 DEF Shape, LockInv
<1>8. LockInv'
  BY <1>1, <1>2, <1>3, <1>5, <1>7 DEF Shape, LockInv
<1>9. ResultInv'
  <2> SUFFICES ASSUME NEW q \in Reader, held'[q] > 0, NEW x \in result'[q]
               PROVE  x \in Provider \X Nat /\ age[x[1]] # Gone /\ x[2] <= age[x[1]]
    BY <1>1 DEF ResultInv
  <2>1. held[q] > 0
    BY <1>1, <1>5 DEF Shape
  <2>2. CASE x \in result[q]
    BY <2>1, <2>2 DEF ResultInv
  <2>3. CASE x \notin result[q]
    <3>1. q = r
      BY <1>2, <2>3 DEF Shape
    <3>2. PICK p \in Listed(s, fit) : x = <<p, age[p]>>
      BY <1>2, <2>3, <3>1 DEF Shape
    <3>3. p \in Provider /\ age[p] \in Nat
      BY <3>2 DEF Listed, Live, Provider, Shape
    <3> QED BY <3>2, <3>3, RegistryAssumption
  <2> QED BY <2>2, <2>3
<1> QED BY <1>4, <1>6, <1>8, <1>9

LEMMA StepEndCall == ASSUME IInv, NEW r \in Reader, EndCall(r) PROVE IInv'
<1> USE DEF IInv
<1>1. /\ todo[r] = {} /\ pc[r] = "busy" /\ pc' = [pc EXCEPT ![r] = "idle"]
      /\ held' = [held EXCEPT ![r] = @ - 1]
      /\ UNCHANGED <<age, todo, result, inside>>
  BY DEF EndCall, Goto, RUnlock
<1>2. held[r] = 1
  BY <1>1 DEF CallInv
<1>3. Registered' = Registered
  BY <1>1 DEF Registered
<1>4. Shape'
  BY <1>1, <1>2 DEF Shape
<1> QED BY <1>1, <1>2, <1>3, <1>4 DEF Shape, CallInv, LockInv, ResultInv

LEMMA Inductive == IInv /\ [Next]_vars => IInv'
<1> SUFFICES ASSUME IInv, [Next]_vars PROVE IInv'
  OBVIOUS
<1>1. CASE UNCHANGED vars
  BY <1>1 DEF vars, IInv, Shape, CallInv, LockInv, ResultInv, Registered
<1> QED BY <1>1, StepTick, StepAnnounce, StepWriterStep, StepCall, StepBegin, StepCallNested,
           StepCollect, StepEndCall DEF Next, ReaderStep

\* The inductive invariant of the registry holds in every reachable state.
THEOREM InductiveInvariant == Spec => []IInv
BY InvInit, Inductive, PTL DEF Spec

------------------------------------------------------------------------------
(* Theorems.                                                               *)

\* However deep readers nest their locks and whoever waits, a reader is alone
\* with other readers, finds what it still has to report, and what it has collected
\* stays as it was.
THEOREM ReadersAreSafe == Spec => []ReadersExcludeWriters
<1>1. IInv => ReadersExcludeWriters
  BY DEF IInv, Shape, LockInv, ResultInv, ReadersExcludeWriters
<1> QED BY <1>1, InductiveInvariant, PTL

\* Where the goroutines are, and what their steps do to the rest of the types.
LEMMA StepsOfGoroutines ==
    ASSUME TypeOK, [Next]_vars
    PROVE  /\ pc' \in [Reader \cup Writer -> {"idle", "entering", "busy"}]
           /\ waiting' \in Writer \cup {None} /\ inside' \in Writer \cup {None}
<1> USE DEF TypeOK
<1>1. ASSUME NEW t \in Reader \cup Writer, NEW from, NEW to \in {"idle", "entering", "busy"},
             Goto(t, from, to)
      PROVE  pc' \in [Reader \cup Writer -> {"idle", "entering", "busy"}]
  BY <1>1 DEF Goto
<1>2. ASSUME NEW w \in Writer, Announce(w) \/ WriterStep(w)
      PROVE  /\ pc' \in [Reader \cup Writer -> {"idle", "entering", "busy"}]
             /\ waiting' \in Writer \cup {None} /\ inside' \in Writer \cup {None}
  <2>1. CASE Announce(w)
    BY <1>1, <2>1 DEF Announce
  <2>2. CASE Enter(w)
    BY <2>2 DEF Enter
  <2>3. CASE Leave(w)
    BY <1>1, <2>3 DEF Leave
  <2> QED BY <1>2, <2>1, <2>2, <2>3 DEF WriterStep, CleanupStep, UpdateHealth, Register
<1>3. ASSUME NEW r \in Reader, Call(r) \/ ReaderStep(r)
      PROVE  /\ pc' \in [Reader \cup Writer -> {"idle", "entering", "busy"}]
             /\ waiting' \in Writer \cup {None} /\ inside' \in Writer \cup {None}
  <2>1. CASE Call(r) \/ Begin(r) \/ EndCall(r)
    BY <1>1, <2>1 DEF Call, Begin, EndCall, RLock, RUnlock, lockVars
  <2>2. CASE CallNested(r) \/ Collect(r)
    BY <2>2 DEF CallNested, Collect, RLock
  <2> QED BY <1>3, <2>1, <2>2 DEF ReaderStep
<1>4. CASE Tick \/ UNCHANGED vars
  BY <1>4 DEF Tick, lockVars, vars
<1> QED BY <1>2, <1>3, <1>4 DEF Next

LEMMA StepsOfAges ==
    ASSUME TypeOK, [Next]_vars
    PROVE  age' \in [Provider -> 0..Expired \cup {Gone}]
<1> USE DEF TypeOK
<1>0. TTL \in Nat /\ Gone \notin Nat /\ Expired \in Nat /\ 0 \in 0..Expired
  BY RegistryAssumption DEF Expired
<1>1. CASE Tick
  <2>1. ASSUME NEW p \in Provider, age[p] \notin {Gone, Expired} PROVE age[p] + 1 \in 0..Expired
    BY <1>0, <2>1
  <2> QED BY <1>1, <2>1 DEF Tick
<1>2. ASSUME NEW w \in Writer, Announce(w) \/ WriterStep(w) PROVE age' \in [Provider -> 0..Expired \cup {Gone}]
  BY <1>0, <1>2 DEF Announce, WriterStep, Enter, CleanupStep, Cleanup, UpdateHealth, Register
<1>3. CASE (\E r \in Reader : Call(r) \/ ReaderStep(r)) \/ UNCHANGED vars
  BY <1>3 DEF Call, ReaderStep, Begin, CallNested, Collect, EndCall, vars
<1> QED BY <1>1, <1>2, <1>3 DEF Next

LEMMA StepsOfReaders ==
    ASSUME IInv, TypeOK, [Next]_vars
    PROVE  /\ held' \in [Reader -> 0..3] /\ todo' \in [Reader -> SUBSET Service]
           /\ \A r \in Reader : result'[r] \subseteq Provider \X (0..Expired \cup {Gone})
<1> USE DEF TypeOK
<1>1. ASSUME UNCHANGED <<held, todo, result>>
      PROVE  /\ held' \in [Reader -> 0..3] /\ todo' \in [Reader -> SUBSET Service]
             /\ \A r \in Reader : result'[r] \subseteq Provider \X (0..Expired \cup {Gone})
  BY <1>1
<1>2. CASE Tick \/ UNCHANGED vars
           \/ (\E w \in Writer : Announce(w) \/ WriterStep(w)) \/ \E r \in Reader : Call(r)
  BY <1>1, <1>2 DEF Tick, vars, Announce, WriterStep, Enter, CleanupStep, UpdateHealth, Register,
     Leave, Call, lockVars
<1>3. ASSUME NEW r \in Reader, ReaderStep(r)
      PROVE  /\ held' \in [Reader -> 0..3] /\ todo' \in [Reader -> SUBSET Service]
             /\ \A q \in Reader : result'[q] \subseteq Provider \X (0..Expired \cup {Gone})
  <2>1. Depth[r] \in 1..3 /\ held[r] \in 0..3
    BY RegistryAssumption
  <2>2. CASE Begin(r)
    <3>1. held[r] = 0 /\ Registered \subseteq Service
      BY <2>1, <2>2 DEF Begin, Goto, IInv, CallInv, Registered
    <3>2. \E of \in SUBSET Service : todo' = [todo EXCEPT ![r] = of]
      BY <2>2, <3>1 DEF Begin
    <3> QED BY <2>2, <3>1, <3>2 DEF Begin, RLock, IInv, Shape
  <2>3. CASE CallNested(r)
    BY <2>1, <2>3 DEF CallNested, RLock
  <2>4. CASE Collect(r)
    <3>1. PICK s \in todo[r], fit \in SUBSET Device :
              /\ result' = [result EXCEPT ![r] = @ \cup {<<p, age[p]>> : p \in Listed(s, fit)}]
              /\ todo' = [todo EXCEPT ![r] = @ \ {s}]
      BY <2>4 DEF Collect
    <3>2. Listed(s, fit) \subseteq Provider
      BY DEF Listed, Provider
    <3>3. {<<p, age[p]>> : p \in Listed(s, fit)} \subseteq Provider \X (0..Expired \cup {Gone})
      BY <3>2
    <3>4. \A q \in Reader : result'[q] \subseteq Provider \X (0..Expired \cup {Gone})
      BY <3>1, <3>3 DEF IInv, Shape
    <3> QED BY <2>4, <3>1, <3>4 DEF Collect
  <2>5. CASE EndCall(r)
    <3>1. held[r] = 1
      BY <2>5 DEF EndCall, Goto, IInv, CallInv
    <3> QED BY <2>5, <3>1 DEF EndCall, RUnlock
  <2> QED BY <1>3, <2>2, <2>3, <2>4, <2>5 DEF ReaderStep
<1> QED BY <1>2, <1>3 DEF Next

\* No reader holds the lock more than three times, and no age of an entry, in the
\* map or in a result, exceeds the first one that is expired.
THEOREM TypeCorrect == Spec => []TypeOK
<1>1. Init => TypeOK
  <2>1. 0 \in 0..3 /\ {} \subseteq Provider \X (0..Expired \cup {Gone})
    OBVIOUS
  <2> QED BY <2>1 DEF Init, TypeOK
<1>2. IInv /\ TypeOK /\ [Next]_vars => TypeOK'
  BY StepsOfGoroutines, StepsOfAges, StepsOfReaders DEF TypeOK
<1> QED BY <1>1, <1>2, InductiveInvariant, PTL DEF Spec

\* The wait cycle that NoWaitCycle describes never resolves, and freezes the
\* registry: nothing is registered, cleaned up or begun to be read any more.
Frozen ==
    ~NoWaitCycle => /\ (~NoWaitCycle)'
                    /\ Registered' = Registered
                    /\ \A r \in Reader : held'[r] <= held[r]

LEMMA CycleStays ==
    ASSUME IInv, [Next]_vars
    PROVE  Frozen
<1> SUFFICES ASSUME ~NoWaitCycle
             PROVE  (~NoWaitCycle)' /\ Registered' = Registered /\ \A r \in Reader : held'[r] <= held[r]
  BY DEF Frozen
<1>1. PICK r \in Reader : waiting # None /\ held[r] > 0 /\ held[r] < Depth[r] /\ todo[r] # {}
  BY DEF NoWaitCycle
<1>2. inside = None /\ \A w \in Writer : inside # w
  BY <1>1, RegistryAssumption DEF IInv, LockInv, Shape
<1>3. \A q \in Reader : held[q] \in Nat
  BY DEF IInv, Shape
<1>4. ASSUME UNCHANGED <<waiting, held, todo>> PROVE (~NoWaitCycle)'
  BY <1>1, <1>4 DEF NoWaitCycle
<1>5. CASE Tick
  <2>1. \A p \in Provider : age'[p] = Gone <=> age[p] = Gone
    BY <1>5, RegistryAssumption DEF Tick, IInv, Shape
  <2>2. Registered' = Registered
    BY <2>1 DEF Registered, Provider
  <2> QED BY <1>3, <1>4, <1>5, <2>2 DEF Tick, lockVars
<1>6. ASSUME NEW q \in Reader, Call(q)
      PROVE  (~NoWaitCycle)' /\ Registered' = Registered /\ UNCHANGED held
  BY <1>4, <1>6 DEF Call, lockVars, Registered
<1>7. ASSUME NEW q \in Reader, ReaderStep(q)
      PROVE  q # r /\ UNCHANGED <<age, waiting>> /\ held'[q] <= held[q]
             /\ \A p \in Reader : p # q => held'[p] = held[p] /\ todo'[p] = todo[p]
  <2>1. ~Begin(q) /\ ~CallNested(q)
    BY <1>1 DEF Begin, CallNested, RLock
  <2>2. CASE Collect(q)
    <3>1. held' = [held EXCEPT ![q] = 1] /\ \E of : todo' = [todo EXCEPT ![q] = of]
      BY <2>2 DEF Collect
    <3>2. held[q] >= 1 /\ held[q] = Depth[q]
      BY <1>3, <2>2 DEF Collect, IInv, CallInv
    <3> QED BY <1>1, <1>3, <2>2, <3>1, <3>2 DEF Collect, IInv, Shape
  <2>3. CASE EndCall(q)
    BY <1>1, <1>3, <2>3 DEF EndCall, RUnlock, IInv, Shape
  <2> QED BY <1>7, <2>1, <2>2, <2>3 DEF ReaderStep
<1>8. ASSUME NEW q \in Reader, ReaderStep(q)
      PROVE  (~NoWaitCycle)' /\ Registered' = Registered /\ \A p \in Reader : held'[p] <= held[p]
  <2>1. (~NoWaitCycle)'
    BY <1>1, <1>7, <1>8 DEF NoWaitCycle
  <2>2. Registered' = Registered
    BY <1>7, <1>8 DEF Registered
  <2> QED BY <1>3, <1>7, <1>8, <2>1, <2>2
<1>9. \A w \in Writer : ~Announce(w) /\ ~WriterStep(w)
  BY <1>1, <1>2 DEF Announce, WriterStep, Enter
<1>10. CASE UNCHANGED vars
  BY <1>3, <1>4, <1>10 DEF vars, Registered
<1> QED BY <1>3, <1>5, <1>6, <1>8, <1>9, <1>10 DEF Next

\* Once a reader waits for a writer that waits for it, nothing ends that, and
\* from then on no call enters the registry and no provider is added or forgotten.
THEOREM DeadlockIsForGood == Spec => [][Frozen]_vars
<1>1. IInv /\ [Next]_vars => [Frozen]_vars
  BY CycleStays
<1> QED BY <1>1, InductiveInvariant, PTL DEF Spec
==============================================================================
