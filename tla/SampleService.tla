---------------------------- MODULE SampleService ----------------------------
(***************************************************************************)
(* SampleService: the RPC handlers, the usecase that only forwards, the    *)
(* MySQL repository, and the samples table behind the connection pool.     *)
(*                                                                         *)
(* A worker is the goroutine net/http gives an RPC.  Every SQL statement   *)
(* takes a connection from the pool and gives it back.  gorm puts a write  *)
(* in a transaction of its own, so a write locks its row, commits, and     *)
(* only then does the repository go on: UpdateSample commits its UPDATE    *)
(* and reads the row again with a second statement, on whatever connection *)
(* is free then.                                                           *)
(*                                                                         *)
(*   idle -> queued -> exec -> reply                      (select, list)   *)
(*                     exec -> commit -> reply            (insert, delete) *)
(*                     exec -> commit -> queued -> ...    (update)         *)
(*                                                                         *)
(* The server may die at any moment, and be started again: the workers and *)
(* the pool are gone, and a transaction that was open is an orphan, which  *)
(* keeps its lock until MySQL has rolled it back, or committed it when the *)
(* COMMIT had been sent.                                                   *)
(***************************************************************************)
EXTENDS ListParams, FiniteSets, SequencesExt

CONSTANTS
    Workers,    \* goroutines serving RPCs of SampleService
    Others,     \* how many serve those of UserService
    Vals,       \* contents of a sample: its name, content and count
    TooLong,    \* those the table's columns do not hold
    None,       \* no row
    PoolSize,   \* SetMaxOpenConns
    MaxId       \* the last id AUTO_INCREMENT hands out

ASSUME SampleAssumption ==
    /\ TooLong \subseteq Vals
    /\ None \notin Vals
    /\ PoolSize \in Nat \ {0}
    /\ Others \in Nat
    /\ MaxId \in Nat

Ids == 1..MaxId
Ops == {"Create", "Get", "List", "Update", "Delete"}
Reads == {"select", "list"}

VARIABLES
    up,       \* the server listens
    table,    \* samples, as committed: table[i] is the row with id i, or None
    nextId,   \* AUTO_INCREMENT
    pool,     \* the workers that hold a connection
    others,   \* connections the RPCs of UserService hold
    pc,       \* pc[w]: where w is
    req,      \* req[w]: the operation w performs, its id and its contents
    stmt,     \* stmt[w]: the statement w waits to run or runs
    reply,    \* reply[w]: connect code and the samples of the response
    touched,  \* history: touched[w]: another worker committed a write to what
              \* w reports, since w was called or made its own write
    dead      \* history: ids whose row was deleted

db == <<table, nextId, dead>>
vars == <<up, table, nextId, pool, others, pc, req, stmt, reply, touched, dead>>

NoReq == [op |-> "none", id |-> 0, val |-> None]
NoReply == [code |-> "none", samples |-> <<>>]
Internal == [code |-> "internal", samples |-> <<>>]
OK(samples) == [code |-> "ok", samples |-> samples]

Present == {i \in Ids : table[i] # None}
Sample(i) == [id |-> i, val |-> table[i]]

\* Mistake: ErrRecordNotFound is not told from a row.
SelectedZero(i) == <<Sample(i)>>

\* SELECT ... WHERE id = i; the repository makes nil of no row.
Selected(i) == IF i \in Present THEN <<Sample(i)>> ELSE <<>>

\* ORDER BY id DESC.
Descending(ids) ==
    CHOOSE s \in SetToSeqs(ids) : \A m, n \in 1..Cardinality(ids) : m < n => s[m] > s[n]

\* SELECT ... ORDER BY id DESC OFFSET ... LIMIT ...; the handler passes an
\* empty ListParams.
Listed(rows) ==
    LET present == {i \in Ids : rows[i] # None}
        ids == Descending(present)
    IN  Page([n \in 1..Cardinality(present) |-> [id |-> ids[n], val |-> rows[ids[n]]]],
             Sanitize([offset |-> 0, limit |-> 0]))

FirstStmt(op) ==
    CASE op = "Create" -> "insert"
      [] op = "Get"    -> "select"
      [] op = "List"   -> "list"
      [] op = "Update" -> "update"
      [] op = "Delete" -> "delete"

\* The rows the reply to w speaks of: all of them for List.
Reports(w, i) == req[w].op = "List" \/ req[w].id = i

\* The write of w is in a transaction that has not ended.
Open(w) == pc[w] \in {"commit", "orphan"}

\* A handler has been called and has not got its result.
UnderWay(w) == pc[w] \in {"queued", "exec", "commit"}

\* InnoDB: the row is locked by such a write.
Locked(i) == \E w \in Workers : Open(w) /\ req[w].id = i

------------------------------------------------------------------------------
Init ==
    /\ up = FALSE
    /\ table = [i \in Ids |-> None]
    /\ nextId = 1
    /\ pool = {}
    /\ others = 0
    /\ pc = [w \in Workers |-> "idle"]
    /\ req = [w \in Workers |-> NoReq]
    /\ stmt = [w \in Workers |-> "none"]
    /\ reply = [w \in Workers |-> NoReply]
    /\ touched = [w \in Workers |-> FALSE]
    /\ dead = {}

Goto(w, from, to) ==
    /\ pc[w] = from
    /\ pc' = [pc EXCEPT ![w] = to]
    /\ UNCHANGED <<up, others>>

Release(w) == pool' = pool \ {w}

Answer(w, r) == reply' = [reply EXCEPT ![w] = r]

\* An RPC arrives.
Call(w, op, i, v) ==
    /\ up
    /\ Goto(w, "idle", "queued")
    /\ req' = [req EXCEPT ![w] = [op |-> op, id |-> i, val |-> v]]
    /\ stmt' = [stmt EXCEPT ![w] = FirstStmt(op)]
    /\ touched' = [touched EXCEPT ![w] = FALSE]
    /\ UNCHANGED <<db, pool, reply>>

\* What a client may send: only what the request message of the RPC carries.
Arrive(w) ==
    \/ \E v \in Vals : Call(w, "Create", 0, v)
    \/ \E i \in Ids : Call(w, "Get", i, None) \/ Call(w, "Delete", i, None)
    \/ \E i \in Ids, v \in Vals : Call(w, "Update", i, v)
    \/ Call(w, "List", 0, None)

TakeConn(w) ==
    /\ Goto(w, "queued", "exec")
    /\ Cardinality(pool) + others < PoolSize
    /\ pool' = pool \cup {w}
    /\ UNCHANGED <<db, req, stmt, reply, touched>>

Read(w) ==
    /\ Goto(w, "exec", "reply")
    /\ stmt[w] \in Reads
    /\ Answer(w, OK(IF stmt[w] = "list" THEN Listed(table) ELSE Selected(req[w].id)))
    /\ Release(w)
    /\ UNCHANGED <<db, req, stmt, touched>>

\* INSERT: the id is taken at once, and is not given back.  An open write that
\* matched no row with that id locks the gap the row would go to.
Insert(w) ==
    /\ Goto(w, "exec", "commit")
    /\ stmt[w] = "insert"
    /\ req[w].val \notin TooLong
    /\ ~Locked(nextId)
    /\ nextId <= MaxId
    /\ req' = [req EXCEPT ![w].id = nextId]
    /\ nextId' = nextId + 1
    /\ UNCHANGED <<table, dead, pool, stmt, reply, touched>>

\* UPDATE or DELETE ... WHERE id = i, once the row's lock is free.
Write(w) ==
    /\ Goto(w, "exec", "commit")
    /\ stmt[w] \in {"update", "delete"}
    /\ ~Locked(req[w].id)
    /\ stmt[w] = "update" /\ req[w].id \in Present => req[w].val \notin TooLong
    /\ UNCHANGED <<db, pool, req, stmt, reply, touched>>

\* Mistake: Save instead of Updates, which inserts the row it does not find.
WrittenUpsert(w) ==
    IF stmt[w] = "delete" THEN [table EXCEPT ![req[w].id] = None]
                          ELSE [table EXCEPT ![req[w].id] = req[w].val]

\* The table once w's statement is committed.
Written(w) ==
    CASE stmt[w] = "insert" -> [table EXCEPT ![req[w].id] = req[w].val]
      [] stmt[w] = "update" ->
            IF req[w].id \in Present THEN [table EXCEPT ![req[w].id] = req[w].val]
                                     ELSE table
      [] stmt[w] = "delete" -> [table EXCEPT ![req[w].id] = None]

\* COMMIT takes effect in the database.
Apply(w) ==
    /\ table' = Written(w)
    /\ dead' = IF stmt[w] = "delete" THEN dead \cup ({req[w].id} \cap Present) ELSE dead
    /\ touched' = [x \in Workers |->
                    IF x = w THEN FALSE
                    ELSE touched[x] \/ \E i \in Ids : Reports(x, i) /\ table'[i] # table[i]]
    /\ UNCHANGED nextId

\* Mistake: UpdateSample answers with its input and does not read the row again.
CommitEcho(w) ==
    /\ Goto(w, "commit", "reply")
    /\ Apply(w)
    /\ Release(w)
    /\ Answer(w, OK(IF stmt[w] = "delete"
                    THEN <<>> ELSE <<[id |-> req[w].id, val |-> req[w].val]>>))
    /\ UNCHANGED <<req, stmt>>

\* Mistake: the row is read again inside the transaction of the UPDATE, over
\* the pool: the connection is kept while another one is waited for.
CommitHolding(w) ==
    /\ pc[w] = "commit"
    /\ Apply(w)
    /\ IF stmt[w] = "update"
       THEN /\ Goto(w, "commit", "queued")
            /\ stmt' = [stmt EXCEPT ![w] = "select"]
            /\ UNCHANGED <<reply, pool>>
       ELSE /\ Goto(w, "commit", "reply")
            /\ Answer(w, OK(IF stmt[w] = "insert"
                            THEN <<[id |-> req[w].id, val |-> req[w].val]>> ELSE <<>>))
            /\ Release(w)
            /\ UNCHANGED stmt
    /\ UNCHANGED req

\* Create and Delete answer from what they have; Update reads the row again.
Commit(w) ==
    /\ pc[w] = "commit"
    /\ Apply(w)
    /\ Release(w)
    /\ IF stmt[w] = "update"
       THEN /\ Goto(w, "commit", "queued")
            /\ stmt' = [stmt EXCEPT ![w] = "select"]
            /\ UNCHANGED reply
       ELSE /\ Goto(w, "commit", "reply")
            /\ Answer(w, OK(IF stmt[w] = "insert"
                            THEN <<[id |-> req[w].id, val |-> req[w].val]>> ELSE <<>>))
            /\ UNCHANGED stmt
    /\ UNCHANGED req

\* COMMIT took effect but its acknowledgement was lost: the error is reported.
\* Assumed of MySQL: on a live server the COMMIT has taken effect, or never
\* will, when the error is reported.
CommitLost(w) ==
    /\ Goto(w, "commit", "reply")
    /\ Apply(w)
    /\ Answer(w, Internal)
    /\ Release(w)
    /\ UNCHANGED <<req, stmt>>

\* Mistake: the error of the commit is dropped.
FailUnnoticed(w) ==
    /\ Goto(w, "queued", "reply") \/ Goto(w, "exec", "reply") \/ Goto(w, "commit", "reply")
    /\ Answer(w, IF pc[w] = "commit" THEN OK(<<>>) ELSE Internal)
    /\ Release(w)
    /\ UNCHANGED <<db, req, stmt, touched>>

\* Mistake: the connection of a failed statement is not given back.
FailLeaking(w) ==
    /\ Goto(w, "queued", "reply") \/ Goto(w, "exec", "reply") \/ Goto(w, "commit", "reply")
    /\ Answer(w, Internal)
    /\ UNCHANGED <<db, pool, req, stmt, touched>>

\* The context ends while w waits for a connection, the connection breaks, the
\* lock wait times out or the statement is refused: rolled back, Internal.
\* Assumed of MySQL: on a live server the transaction is over by then.
Fail(w) ==
    /\ Goto(w, "queued", "reply") \/ Goto(w, "exec", "reply") \/ Goto(w, "commit", "reply")
    /\ Answer(w, Internal)
    /\ Release(w)
    /\ UNCHANGED <<db, req, stmt, touched>>

Reply(w) ==
    /\ Goto(w, "reply", "idle")
    /\ req' = [req EXCEPT ![w] = NoReq]
    /\ stmt' = [stmt EXCEPT ![w] = "none"]
    /\ touched' = [touched EXCEPT ![w] = FALSE]
    /\ Answer(w, NoReply)
    /\ UNCHANGED <<db, pool>>

\* main: the database answers, the routes are registered, the server listens.
Start ==
    /\ ~up
    /\ up' = TRUE
    /\ UNCHANGED <<db, pool, others, pc, req, stmt, reply, touched>>

\* The process ends: main has no shutdown, it is killed or log.Fatal ends it.
Crash ==
    /\ up
    /\ up' = FALSE
    /\ pool' = {}
    /\ others' = 0
    /\ pc' = [w \in Workers |-> IF Open(w) THEN "orphan" ELSE "idle"]
    /\ req' = [w \in Workers |-> IF Open(w) THEN req[w] ELSE NoReq]
    /\ stmt' = [w \in Workers |-> IF Open(w) THEN stmt[w] ELSE "none"]
    /\ reply' = [w \in Workers |-> NoReply]
    /\ touched' = [w \in Workers |-> touched[w] /\ Open(w)]
    /\ UNCHANGED db

\* MySQL ends the transaction of a connection that is gone.
Settle(w) ==
    /\ Goto(w, "orphan", "idle")
    /\ req' = [req EXCEPT ![w] = NoReq]
    /\ stmt' = [stmt EXCEPT ![w] = "none"]
    /\ \/ Apply(w)
       \/ touched' = [touched EXCEPT ![w] = FALSE] /\ UNCHANGED db
    /\ UNCHANGED <<pool, reply>>

\* The statements of UserService run over the same pool.
OtherTakes ==
    /\ up
    /\ others < Others
    /\ Cardinality(pool) + others < PoolSize
    /\ others' = others + 1
    /\ UNCHANGED <<up, db, pool, pc, req, stmt, reply, touched>>

OtherGives ==
    /\ others > 0
    /\ others' = others - 1
    /\ UNCHANGED <<up, db, pool, pc, req, stmt, reply, touched>>

Step(w) ==
    \/ TakeConn(w) \/ Read(w) \/ Insert(w) \/ Write(w)
    \/ Commit(w) \/ CommitLost(w) \/ Fail(w)

Next ==
    \/ Start \/ Crash \/ OtherTakes \/ OtherGives
    \/ \E w \in Workers : Arrive(w) \/ Step(w) \/ Reply(w) \/ Settle(w)

Spec == Init /\ [][Next]_vars

\* A statement the table refuses, or an INSERT when the ids have run out,
\* fails; it does not wait.
Refused(w) ==
    /\ pc[w] = "exec"
    /\ req[w].val \in TooLong \/ (stmt[w] = "insert" /\ nextId > MaxId)
    /\ Fail(w)

Progress(w) ==
    TakeConn(w) \/ Read(w) \/ Refused(w) \/ Insert(w) \/ Write(w) \/ Commit(w) \/ Settle(w)

(***************************************************************************)
(* Fairness.  A statement that runs ends, and so do those of UserService,  *)
(* which keeps no connection while it waits (its ConnsAccounted), and the  *)
(* transaction of a dead server.  database/sql hands connections to        *)
(* waiting requests in order, and InnoDB grants a row lock in order, hence *)
(* strong.  A worker stays where it is until its own step or a crash, so   *)
(* that one condition per worker says this of each step.  No failure is    *)
(* assumed to come except the refusal of a value that does not fit, and    *)
(* the server need not come back.                                          *)
(***************************************************************************)
Fairness == WF_vars(OtherGives) /\ \A w \in Workers : SF_vars(Progress(w))

FairSpec == Spec /\ Fairness

------------------------------------------------------------------------------
(* Types; what an RPC reports are rows of the table's type.                  *)
TypeOK ==
    /\ up \in BOOLEAN
    /\ table \in [Ids -> Vals \cup {None}]
    /\ nextId \in 1..(MaxId + 1)
    /\ pool \subseteq Workers
    /\ others \in 0..Others
    /\ pc \in [Workers -> {"idle", "queued", "exec", "commit", "orphan", "reply"}]
    /\ req \in [Workers -> [op : Ops \cup {"none"}, id : 0..MaxId, val : Vals \cup {None}]]
    /\ stmt \in [Workers -> {"none", "insert", "update", "delete"} \cup Reads]
    /\ \A w \in Workers :
        /\ reply[w].code \in {"none", "ok", "internal"}
        /\ \A n \in 1..Len(reply[w].samples) :
            reply[w].samples[n] \in [id : Ids, val : Vals]
    /\ touched \in [Workers -> BOOLEAN]
    /\ dead \subseteq Ids

Answered(w, op) == pc[w] = "reply" /\ req[w].op = op /\ reply[w].code = "ok"

(* An OK reply agrees with the table, unless another request committed a   *)
(* write to what it reports after the call came in or, for a write, after  *)
(* its own commit: UpdateSample's second read never shows an older row.    *)
RepliesCurrent ==
    \A w \in Workers :
        pc[w] = "reply" /\ reply[w].code = "ok" /\ ~touched[w] =>
            /\ req[w].op \in {"Create", "Get", "Update"} =>
                reply[w].samples = Selected(req[w].id)
            /\ req[w].op = "List" => reply[w].samples = Listed(table)
            /\ req[w].op = "Delete" => req[w].id \notin Present

(* An OK reply to CreateSample or UpdateSample means the contents sent are  *)
(* in the row, unless another request's write was committed to it since;    *)
(* for an update, also unless there was no row to update.                   *)
WritesStick ==
    \A w \in Workers : ~touched[w] =>
        /\ Answered(w, "Create") => table[req[w].id] = req[w].val
        /\ Answered(w, "Update") => table[req[w].id] \in {req[w].val, None}

(* A deleted sample never comes back, whatever updates were under way when *)
(* it was deleted, and its id is not given to another sample.              *)
NoResurrection == dead \cap Present = {}

(* A worker holds a connection exactly while a statement of its runs, never *)
(* while it waits for another one, and the two services together hold no   *)
(* more than the pool has: it is never lost to the waiting.                *)
ConnsAccounted ==
    /\ pool = {w \in Workers : pc[w] \in {"exec", "commit"}}
    /\ Cardinality(pool) + others <= PoolSize

(* No RPC is under way for ever: it is answered, or the server dies, even   *)
(* when all of them and UserService want the last connection, or one row,  *)
(* or a row a dead server left locked.                                     *)
CallsAnswered == \A w \in Workers : []<>~UnderWay(w)

\* How far the call of w is, for the repository.
PhaseOf(w) ==
    IF UnderWay(w)
    THEN IF req[w].op = "Update" /\ stmt[w] = "select" THEN "written" ELSE "open"
    ELSE IF pc[w] = "idle" THEN "idle" ELSE IF pc[w] = "reply" THEN "done" ELSE "lost"

\* What the caller of w asked for: the id of a new row is not the caller's.
AskedOf(w) ==
    IF req[w].op = "Create" THEN [op |-> "Create", id |-> 0, val |-> req[w].val] ELSE req[w]

storePhase == [w \in Workers |-> PhaseOf(w)]
storeReq == [w \in Workers |-> AskedOf(w)]
storeUsed == dead \cup Present

Store ==
    INSTANCE SampleStore WITH
        rows <- table, used <- storeUsed, phase <- storePhase, req <- storeReq

(* Every RPC is an operation on the repository that takes effect once, at  *)
(* one instant between the call and the reply, and says so, even when the  *)
(* server dies under it.                                                   *)
ImplementsStore == Store!Spec
==============================================================================
