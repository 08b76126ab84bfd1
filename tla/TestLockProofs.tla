---------------------------- MODULE TestLockProofs ----------------------------
(***************************************************************************)
(* Proofs about TestLock, for every set of tests, every number of lock     *)
(* files and every timeout.                                                *)
(***************************************************************************)
EXTENDS TestLock, FiniteSetTheorems, TLAPS

IInv == TypeOK /\ SlotsAccounted /\ FixturesIntact

\* Every variable keeps its type.
LEMMA TypePreserved == TypeOK /\ [Next]_vars => TypeOK'
<1> SUFFICES ASSUME TypeOK, [Next]_vars
             PROVE  TypeOK'
    OBVIOUS
<1> USE LockAssumption DEF TypeOK, Slots, Goto
<1>1. MutexTimeout \in -1..MutexTimeout /\ 1 \in Slots
    OBVIOUS
<1>2. ASSUME NEW t \in Tests, Begin(t)
      PROVE  TypeOK'
    BY <1>1, <1>2 DEF Begin
<1>3. ASSUME NEW t \in Tests, Check(t)
      PROVE  TypeOK'
    <2>1. try' \in [Tests -> Slots]
        BY <1>1, <1>3 DEF Check
    <2>2. \E l \in {"failed", "try"} : pc' = [pc EXCEPT ![t] = l]
        BY <1>3 DEF Check
    <2> QED
        BY <1>3, <2>1, <2>2 DEF Check
<1>4. ASSUME NEW t \in Tests, TryFails(t)
      PROVE  TypeOK'
    <2>1. try' \in [Tests -> Slots]
        BY <1>4 DEF TryFails
    <2>2. \E l \in {"try", "sleep"} : pc' = [pc EXCEPT ![t] = l]
        BY <1>4 DEF TryFails
    <2> QED
        BY <1>4, <2>1, <2>2 DEF TryFails
<1>5. ASSUME NEW t \in Tests, TryLock(t) \/ Unlock(t)
      PROVE  TypeOK'
    <2>1. slot' \in [Slots -> Tests \cup {None}]
        BY <1>5 DEF TryLock, Unlock
    <2>2. \E l \in {"load", "done"} : pc' = [pc EXCEPT ![t] = l]
        BY <1>5 DEF TryLock, Unlock
    <2> QED
        BY <1>5, <2>1, <2>2 DEF TryLock, Unlock
<1>6. ASSUME NEW t \in Tests,
             Wake(t) \/ Load(t) \/ Skip(t) \/ Finish(t) \/ CloseDB(t)
      PROVE  TypeOK'
    <2>1. \E l \in {"check", "running", "unlock", "closing"} : pc' = [pc EXCEPT ![t] = l]
        BY <1>6 DEF Wake, Load, Skip, Finish, CloseDB
    <2>2. db' \in Tests \cup {None} /\ UNCHANGED <<slot, left, try, orphans, spoiled>>
        BY <1>6 DEF Wake, Load, Skip, Finish, CloseDB
    <2> QED
        BY <2>1, <2>2
<1>7. ASSUME NEW t \in Tests, Kill(t)
      PROVE  TypeOK'
    <2>1. orphans' \subseteq Tests
        BY <1>7 DEF Kill
    <2>2. slot' \in [Slots -> Tests \cup {None}]
        BY <1>7 DEF Kill
    <2> QED
        BY <1>7, <2>1, <2>2 DEF Kill
<1>8. ASSUME NEW t \in Tests, OrphanRuns(t)
      PROVE  TypeOK'
    BY <1>8 DEF OrphanRuns
<1>9. ASSUME Tick
      PROVE  TypeOK'
    BY <1>9 DEF Tick
<1>10. ASSUME UNCHANGED vars
       PROVE  TypeOK'
    BY <1>10 DEF vars
<1> QED
    BY <1>2, <1>3, <1>4, <1>5, <1>6, <1>7, <1>8, <1>9, <1>10 DEF Next

\* A step of one test keeps every other test's slot, and its own.
LEMMA SlotsPreserved ==
    TypeOK /\ SlotsAccounted /\ [Next]_vars => SlotsAccounted'
<1> SUFFICES ASSUME TypeOK, SlotsAccounted, [Next]_vars,
                    NEW u \in Tests, NEW i \in Slots
             PROVE  slot'[i] = u <=> Holding(u)' /\ try'[u] = i
    BY DEF SlotsAccounted
<1> USE LockAssumption DEF TypeOK, SlotsAccounted, Holding, Goto
<1>1. ASSUME NEW t \in Tests, Begin(t) \/ Check(t) \/ TryFails(t) \/ Wake(t)
      PROVE  slot'[i] = u <=> Holding(u)' /\ try'[u] = i
    <2>1. ~Holding(t) /\ ~Holding(t)' /\ slot' = slot
        BY <1>1 DEF Begin, Check, TryFails, Wake
    <2>2. u # t => pc'[u] = pc[u] /\ try'[u] = try[u]
        BY <1>1 DEF Begin, Check, TryFails, Wake
    <2> QED
        BY <2>1, <2>2
<1>2. ASSUME NEW t \in Tests, TryLock(t)
      PROVE  slot'[i] = u <=> Holding(u)' /\ try'[u] = i
    BY <1>2 DEF TryLock
<1>3. ASSUME NEW t \in Tests, Load(t) \/ Skip(t) \/ Finish(t) \/ CloseDB(t)
      PROVE  slot'[i] = u <=> Holding(u)' /\ try'[u] = i
    BY <1>3 DEF Load, Skip, Finish, CloseDB
<1>4. ASSUME NEW t \in Tests, Unlock(t)
      PROVE  slot'[i] = u <=> Holding(u)' /\ try'[u] = i
    BY <1>4 DEF Unlock
<1>5. ASSUME NEW t \in Tests, Kill(t)
      PROVE  slot'[i] = u <=> Holding(u)' /\ try'[u] = i
    BY <1>5 DEF Kill
<1>6. ASSUME UNCHANGED <<slot, pc, try>>
      PROVE  slot'[i] = u <=> Holding(u)' /\ try'[u] = i
    BY <1>6
<1> QED
    BY <1>1, <1>2, <1>3, <1>4, <1>5, <1>6 DEF Next, OrphanRuns, Tick, vars

\* Only Load and a late statement write the database; with one lock file no
\* other test runs when a test loads.
LEMMA FixturesPreserved ==
    TypeOK /\ SlotsAccounted /\ FixturesIntact /\ [Next]_vars => FixturesIntact'
<1> SUFFICES ASSUME TypeOK, SlotsAccounted, FixturesIntact, [Next]_vars,
                    maxConcurrency = 1, NEW u \in Tests, pc'[u] = "running"
             PROVE  db' = u \/ spoiled'
    BY DEF FixturesIntact
<1> USE DEF TypeOK, FixturesIntact, Goto
<1>1. ASSUME NEW t \in Tests, Load(t)
      PROVE  db' = u \/ spoiled'
    <2>1. u # t => Holding(u) /\ Holding(t) /\ try[u] = 1 /\ try[t] = 1
        BY <1>1 DEF Load, Holding, Slots
    <2>2. u = t
        BY <2>1 DEF SlotsAccounted, Slots
    <2> QED
        BY <1>1, <2>2 DEF Load
<1>2. ASSUME NEW t \in Tests, OrphanRuns(t)
      PROVE  db' = u \/ spoiled'
    BY <1>2 DEF OrphanRuns
<1>3. ASSUME NEW t \in Tests,
             \/ Begin(t) \/ Check(t) \/ TryLock(t) \/ TryFails(t) \/ Wake(t)
             \/ Skip(t) \/ Finish(t) \/ CloseDB(t) \/ Unlock(t) \/ Kill(t)
      PROVE  db' = u \/ spoiled'
    <2>1. pc[u] = "running"
        BY <1>3 DEF Begin, Check, TryLock, TryFails, Wake, Skip, Finish, CloseDB,
                    Unlock, Kill
    <2>2. UNCHANGED <<db, spoiled>>
        BY <1>3 DEF Begin, Check, TryLock, TryFails, Wake, Skip, Finish, CloseDB,
                    Unlock, Kill
    <2> QED
        BY <2>1, <2>2
<1>4. ASSUME Tick \/ UNCHANGED vars
      PROVE  db' = u \/ spoiled'
    BY <1>4 DEF Tick, vars
<1> QED
    BY <1>1, <1>2, <1>3, <1>4 DEF Next

LEMMA InvPreserved == IInv /\ [Next]_vars => IInv'
    BY TypePreserved, SlotsPreserved, FixturesPreserved DEF IInv

LEMMA InvInit == Init => IInv
<1> SUFFICES ASSUME Init
             PROVE  IInv
    OBVIOUS
<1>1. TypeOK
    <2>1. 1 \in Slots
        BY LockAssumption DEF Slots
    <2>2. MutexTimeout \in -1..MutexTimeout
        BY LockAssumption
    <2> QED
        BY <2>1, <2>2 DEF Init, TypeOK
<1>2. SlotsAccounted /\ FixturesIntact
    BY LockAssumption DEF Init, SlotsAccounted, FixturesIntact, Holding
<1> QED
    BY <1>1, <1>2 DEF IInv

\* IInv holds in every state the tests reach.
THEOREM Invariance == Spec => []IInv
    BY InvInit, InvPreserved, PTL DEF Spec

\* Every variable keeps its type: a test tries lock files there are, and its
\* deadline does not move away.
THEOREM TypeCorrect == Spec => []TypeOK
    BY Invariance, PTL DEF IInv

\* A lock file is held from Lock's return to the last cleanup, and is released
\* by a test that fails, is skipped or is killed.
THEOREM SlotsAreAccounted == Spec => []SlotsAccounted
    BY Invariance, PTL DEF IInv

\* With one lock file, a running test finds its own rows, unless a statement of
\* a killed test ran late.
THEOREM FixturesStayIntact == Spec => []FixturesIntact
    BY Invariance, PTL DEF IInv

\* The tests that hold a lock file are no more than the lock files: each holds
\* one, and no two the same.
THEOREM LimitIsKept == Spec => []AtMostMaxConcurrency
<1>1. IInv => AtMostMaxConcurrency
    <2> SUFFICES ASSUME IInv
                 PROVE  AtMostMaxConcurrency
        OBVIOUS
    <2> DEFINE H == {t \in Tests : Holding(t)}
               f == [t \in H |-> try[t]]
    <2>1. IsFiniteSet(Slots) /\ Cardinality(Slots) = maxConcurrency
        BY LockAssumption, FS_Interval DEF Slots
    <2>2. f \in Injection(H, Slots)
        BY DEF IInv, TypeOK, SlotsAccounted, Injection, IsInjective
    <2>3. Cardinality(H) <= Cardinality(Slots)
        BY <2>1, <2>2, FS_Injection
    <2> QED
        BY <2>1, <2>3 DEF AtMostMaxConcurrency
<1> QED
    BY <1>1, Invariance, PTL
===============================================================================
