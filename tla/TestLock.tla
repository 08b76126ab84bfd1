------------------------------- MODULE TestLock -------------------------------
(***************************************************************************)
(* testhelper.Lock and LoadTestFixtures: how the integration tests of      *)
(* several packages, which "go test ./..." runs as processes of their own, *)
(* share one test database.  Lock polls flock on a few lock files, gives   *)
(* up after a deadline, and registers its unlock as the test's first       *)
(* cleanup, so that it runs last.                                          *)
(*                                                                         *)
(*   start -> check -> try -> load -> running -> closing -> unlock -> done *)
(*            check <- sleep <- try        load -> unlock       (skipped)  *)
(*            check -> failed                                  (deadline)  *)
(***************************************************************************)
EXTENDS Integers, FiniteSets

CONSTANTS
    Tests,           \* tests that use the database
    None,            \* no test
    maxConcurrency,  \* number of lock files
    MutexTimeout     \* mutexTimeout, in units of the clock

ASSUME LockAssumption ==
    /\ None \notin Tests
    /\ maxConcurrency \in Nat \ {0}
    /\ MutexTimeout \in Nat

Slots == 1..maxConcurrency

VARIABLES
    slot,    \* slot[i]: the test whose descriptor holds the flock of file i
    pc,      \* pc[t]: where test t is
    left,    \* left[t]: time until t's deadline; -1: it has passed
    try,     \* try[t]: the lock file t tries next, or the one it holds
    db,      \* the test whose fixtures, or rows, the database holds
    orphans, \* killed tests with a statement still in the server
    spoiled  \* history: a statement of a killed test ran after it was killed

vars == <<slot, pc, left, try, db, orphans, spoiled>>

Init ==
    /\ slot = [i \in Slots |-> None]
    /\ pc = [t \in Tests |-> "start"]
    /\ left = [t \in Tests |-> MutexTimeout]
    /\ try = [t \in Tests |-> 1]
    /\ db = None
    /\ orphans = {}
    /\ spoiled = FALSE

Goto(t, from, to) == pc[t] = from /\ pc' = [pc EXCEPT ![t] = to]

Begin(t) ==
    /\ Goto(t, "start", "check")
    /\ left' = [left EXCEPT ![t] = MutexTimeout]
    /\ UNCHANGED <<slot, try, db, orphans, spoiled>>

\* The head of the loop: time.Now().After(deadline).
Check(t) ==
    /\ IF left[t] < 0 THEN Goto(t, "check", "failed") /\ UNCHANGED try
                      ELSE Goto(t, "check", "try") /\ try' = [try EXCEPT ![t] = 1]
    /\ UNCHANGED <<slot, left, db, orphans, spoiled>>

\* Mistake: LOCK_SH, which any number of descriptors may hold.
TryShared(t) ==
    /\ Goto(t, "try", "load")
    /\ slot' = [slot EXCEPT ![try[t]] = t]
    /\ UNCHANGED <<left, try, db, orphans, spoiled>>

\* open and flock(LOCK_EX|LOCK_NB).
TryLock(t) ==
    /\ slot[try[t]] = None
    /\ Goto(t, "try", "load")
    /\ slot' = [slot EXCEPT ![try[t]] = t]
    /\ UNCHANGED <<left, try, db, orphans, spoiled>>

\* Mistake: a lock that is busy is waited for (no LOCK_NB).
TryBlocking(t) ==
    /\ Goto(t, "try", "try")
    /\ UNCHANGED <<slot, left, try, db, orphans, spoiled>>

\* Mistake: the loop runs one file too far.
TryOneMore(t) ==
    /\ IF try[t] <= maxConcurrency
       THEN Goto(t, "try", "try") /\ try' = [try EXCEPT ![t] = @ + 1]
       ELSE Goto(t, "try", "sleep") /\ UNCHANGED try
    /\ UNCHANGED <<slot, left, db, orphans, spoiled>>

\* EWOULDBLOCK, or the file cannot be opened: the descriptor is closed, and the
\* next file is tried, or all of them again after a sleep.
TryFails(t) ==
    /\ IF try[t] < maxConcurrency
       THEN Goto(t, "try", "try") /\ try' = [try EXCEPT ![t] = @ + 1]
       ELSE Goto(t, "try", "sleep") /\ UNCHANGED try
    /\ UNCHANGED <<slot, left, db, orphans, spoiled>>

Wake(t) ==
    /\ Goto(t, "sleep", "check")
    /\ UNCHANGED <<slot, left, try, db, orphans, spoiled>>

\* LoadTestFixtures empties the tables and inserts the fixtures of the test.
Load(t) ==
    /\ Goto(t, "load", "running")
    /\ db' = t
    /\ UNCHANGED <<slot, left, try, orphans, spoiled>>

\* Mistake: a skipped test leaves without its cleanups.
SkipAtOnce(t) ==
    /\ Goto(t, "load", "done")
    /\ UNCHANGED <<slot, left, try, db, orphans, spoiled>>

\* t.Skipf when the database cannot be reached, t.Fatalf when the fixtures do
\* not load, which are rolled back then: the cleanups still run.
Skip(t) ==
    /\ Goto(t, "load", "unlock")
    /\ UNCHANGED <<slot, left, try, db, orphans, spoiled>>

\* The body of the test ends; sqldb.Close was registered after the unlock.
Finish(t) ==
    /\ Goto(t, "running", "closing")
    /\ UNCHANGED <<slot, left, try, db, orphans, spoiled>>

CloseDB(t) ==
    /\ Goto(t, "closing", "unlock")
    /\ UNCHANGED <<slot, left, try, db, orphans, spoiled>>

\* flock(LOCK_UN) and close.
Unlock(t) ==
    /\ Goto(t, "unlock", "done")
    /\ slot' = [slot EXCEPT ![try[t]] = None]
    /\ UNCHANGED <<left, try, db, orphans, spoiled>>

\* The test binary is killed: the kernel closes its descriptors and drops the
\* flock, while a statement it has sent may still be queued in the server.
Kill(t) ==
    /\ pc[t] \notin {"start", "failed", "done", "killed"}
    /\ pc' = [pc EXCEPT ![t] = "killed"]
    /\ slot' = [i \in Slots |-> IF slot[i] = t THEN None ELSE slot[i]]
    /\ orphans' \in {orphans} \cup
                    (IF pc[t] \in {"load", "running"} THEN {orphans \cup {t}} ELSE {})
    /\ UNCHANGED <<left, try, db, spoiled>>

\* The server executes what a killed test had sent.
OrphanRuns(t) ==
    /\ t \in orphans
    /\ orphans' = orphans \ {t}
    /\ db' = t
    /\ spoiled' = TRUE
    /\ UNCHANGED <<slot, pc, left, try>>

Waiting(t) == pc[t] \in {"check", "try", "sleep"}

Tick ==
    /\ \E t \in Tests : Waiting(t) /\ left[t] >= 0
    /\ left' = [t \in Tests |->
                    IF Waiting(t) /\ left[t] >= 0 THEN left[t] - 1 ELSE left[t]]
    /\ UNCHANGED <<slot, pc, try, db, orphans, spoiled>>

Next ==
    \/ \E t \in Tests :
        \/ Begin(t) \/ Check(t) \/ TryLock(t) \/ TryFails(t) \/ Wake(t)
        \/ Load(t) \/ Skip(t) \/ Finish(t) \/ CloseDB(t) \/ Unlock(t)
        \/ Kill(t) \/ OrphanRuns(t)
    \/ Tick

Spec == Init /\ [][Next]_vars

\* The poller runs and time passes; a holder may keep the lock for ever.
Fairness ==
    /\ \A t \in Tests : WF_vars(Check(t) \/ TryLock(t) \/ TryFails(t) \/ Wake(t))
    /\ WF_vars(Tick)

FairSpec == Spec /\ Fairness

------------------------------------------------------------------------------
Holding(t) == pc[t] \in {"load", "running", "closing", "unlock"}

(* Types.                                                                    *)
TypeOK ==
    /\ slot \in [Slots -> Tests \cup {None}]
    /\ pc \in [Tests -> {"start", "check", "try", "sleep", "load", "running",
                         "closing", "unlock", "done", "failed", "killed"}]
    /\ left \in [Tests -> -1..MutexTimeout]
    /\ try \in [Tests -> Slots]
    /\ db \in Tests \cup {None}
    /\ orphans \subseteq Tests
    /\ spoiled \in BOOLEAN

(* A lock file is held by a test exactly from the moment Lock returns to    *)
(* the last cleanup: a test that failed, was skipped or was killed holds    *)
(* none, and no test ever holds two.                                        *)
SlotsAccounted ==
    \A t \in Tests, i \in Slots : slot[i] = t <=> Holding(t) /\ try[t] = i

(* No more tests use the database at a time than there are lock files.      *)
AtMostMaxConcurrency == Cardinality({t \in Tests : Holding(t)}) <= maxConcurrency

(* A running test finds the rows it loaded and its own changes to them,     *)
(* never another test's: with one lock file, only a statement that outlives *)
(* a killed test can get in between.                                        *)
FixturesIntact ==
    maxConcurrency = 1 =>
        \A t \in Tests : pc[t] = "running" => db = t \/ spoiled

(* Lock returns or fails the test, even if every holder hangs.              *)
LockEnds ==
    \A t \in Tests :
        pc[t] = "check" ~> Holding(t) \/ pc[t] \in {"failed", "done", "killed"}
===============================================================================
