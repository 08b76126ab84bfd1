------------------------- MODULE SampleServiceProofs -------------------------
(***************************************************************************)
(* Proofs about SampleService, for any workers, contents, pool size and    *)
(* ids.                                                                    *)
(*                                                                         *)
(* The inductive invariant has five parts: the types the proofs need, the  *)
(* shape of a request at each place, the rows, the connections, and what   *)
(* is true of a request nobody else's write has touched.                   *)
(***************************************************************************)
EXTENDS SampleService, ListParamsProofs, FiniteSetTheorems, FunctionTheorems, TLAPS

Core ==
    /\ up \in BOOLEAN
    /\ table \in [Ids -> Vals \cup {None}]
    /\ nextId \in 1..(MaxId + 1)
    /\ pool \subseteq Workers
    /\ others \in 0..Others
    /\ pc \in [Workers -> {"idle", "queued", "exec", "commit", "orphan", "reply"}]
    /\ req \in [Workers -> [op : Ops \cup {"none"}, id : 0..MaxId, val : Vals \cup {None}]]
    /\ stmt \in [Workers -> {"none", "insert", "update", "delete"} \cup Reads]
    /\ DOMAIN reply = Workers
    /\ touched \in [Workers -> BOOLEAN]
    /\ dead \subseteq Ids

(* A statement belongs to its operation: update is followed by select, and *)
(* what is committed names a row and, for a write of contents, contents.   *)
Shaped(w) ==
    /\ pc[w] \in {"queued", "exec", "commit", "orphan"} =>
        /\ req[w].op \in Ops
        /\ \/ stmt[w] = FirstStmt(req[w].op)
           \/ req[w].op = "Update" /\ stmt[w] = "select" /\ ~Open(w)
    /\ req[w].op \in {"Create", "Update"} => req[w].val \in Vals
    /\ req[w].op \in {"Get", "Update", "Delete"} => req[w].id \in Ids
    /\ Open(w) => req[w].id \in Ids /\ stmt[w] \in {"insert", "update", "delete"}

Shape == \A w \in Workers : Shaped(w)

(* An open INSERT has an id of its own that no row has or has had.         *)
Inserting(w) ==
    Open(w) /\ stmt[w] = "insert" =>
        req[w].id < nextId /\ req[w].id \notin Present /\ req[w].id \notin dead

Rows ==
    /\ NoResurrection
    /\ \A i \in Ids : i >= nextId => i \notin Present /\ i \notin dead
    /\ \A w \in Workers : Inserting(w)
    /\ \A w, x \in Workers :
        w # x /\ Open(w) /\ Open(x) => req[w].id # req[x].id

Conns ==
    /\ ConnsAccounted
    /\ IsFiniteSet(pool)

(* While touched[w] is FALSE, what w has written, or is about to report, is *)
(* what the table holds.                                                    *)
Current(w) ==
    ~touched[w] =>
        /\ Answered(w, "Create") =>
            /\ req[w].id \in Ids
            /\ table[req[w].id] = req[w].val
            /\ reply[w].samples = <<[id |-> req[w].id, val |-> req[w].val]>>
        /\ req[w].op = "Update" /\ stmt[w] = "select" /\ pc[w] \in {"queued", "exec"} =>
            table[req[w].id] \in {req[w].val, None}
        /\ Answered(w, "Update") =>
            /\ table[req[w].id] \in {req[w].val, None}
            /\ reply[w].samples = Selected(req[w].id)
        /\ Answered(w, "Get") => reply[w].samples = Selected(req[w].id)
        /\ Answered(w, "List") => reply[w].samples = Listed(table)
        /\ Answered(w, "Delete") => req[w].id \notin Present

Truth == \A w \in Workers : Current(w)

IInv == Core /\ Shape /\ Rows /\ Conns /\ Truth

USE DEF Open, UnderWay

Act(w) == Arrive(w) \/ Step(w) \/ Reply(w) \/ Settle(w)

\* What an operation begins with, and how it differs from the other ones.
LEMMA Statements ==
    /\ FirstStmt("Create") = "insert"
    /\ FirstStmt("Get") = "select"
    /\ FirstStmt("List") = "list"
    /\ FirstStmt("Update") = "update"
    /\ FirstStmt("Delete") = "delete"
BY DEF FirstStmt

\* The table after a write: the row of the statement, and no other one.
LEMMA WrittenRows ==
    ASSUME Core, NEW w \in Workers, Open(w), Shaped(w)
    PROVE  /\ Written(w) \in [Ids -> Vals \cup {None}]
           /\ \A i \in Ids \ {req[w].id} : Written(w)[i] = table[i]
           /\ stmt[w] = "insert" => Written(w)[req[w].id] = req[w].val
           /\ stmt[w] = "update" =>
                Written(w)[req[w].id] =
                    IF req[w].id \in Present THEN req[w].val ELSE None
           /\ stmt[w] = "delete" => Written(w)[req[w].id] = None
<1>1. CASE stmt[w] = "insert"
    <2>1. req[w].op = "Create"
        BY <1>1, Statements DEF Shaped, Ops
    <2>2. Written(w) = [table EXCEPT ![req[w].id] = req[w].val]
        BY <1>1 DEF Written
    <2> QED
        BY <1>1, <2>1, <2>2 DEF Core, Shaped
<1>2. CASE stmt[w] = "update"
    <2>1. req[w].op = "Update"
        BY <1>2, Statements DEF Shaped, Ops
    <2>2. Written(w) = IF req[w].id \in Present THEN [table EXCEPT ![req[w].id] = req[w].val]
                                                ELSE table
        BY <1>2 DEF Written
    <2> QED
        BY <1>2, <2>1, <2>2 DEF Core, Shaped, Present
<1>3. CASE stmt[w] = "delete"
    <2>1. Written(w) = [table EXCEPT ![req[w].id] = None]
        BY <1>3 DEF Written
    <2> QED
        BY <1>3, <2>1 DEF Core, Shaped
<1> QED
    BY <1>1, <1>2, <1>3 DEF Shaped

\* The ids of any rows can be put in descending order: the place of an id is the
\* number of ids that are not less.
LEMMA DescendingIds ==
    ASSUME NEW S \in SUBSET Ids
    PROVE  LET n == Cardinality(S)
               s == Descending(S)
           IN  /\ n \in Nat /\ s \in [1..n -> S]
               /\ \A j, k \in 1..n : j < k => s[j] > s[k]
<1> DEFINE n == Cardinality(S)
           above(i) == {j \in S : j >= i}
           place == [i \in S |-> Cardinality(above(i))]
<1>1. S \subseteq Int /\ IsFiniteSet(S) /\ n \in Nat
    <2>1. IsFiniteSet(Ids) /\ Ids \subseteq Int
        BY FS_Interval, SampleAssumption DEF Ids
    <2> QED
        BY <2>1, FS_Subset, FS_CardinalityType
<1>2. ASSUME NEW i \in S
      PROVE  /\ IsFiniteSet(above(i)) /\ place[i] = Cardinality(above(i))
             /\ place[i] \in 1..n
    <2>1. above(i) \in SUBSET S /\ i \in above(i)
        BY <1>1
    <2> HIDE DEF above
    <2>2. IsFiniteSet(above(i)) /\ Cardinality(above(i)) <= n
        BY <1>1, <2>1, FS_Subset
    <2>3. Cardinality(above(i)) \in Nat
        BY <2>2, FS_CardinalityType
    <2>4. Cardinality(above(i)) # 0
        BY <2>1, <2>2, FS_EmptySet
    <2> QED
        BY <1>1, <2>2, <2>3, <2>4
<1>3. ASSUME NEW i \in S, NEW j \in S, i < j
      PROVE  place[j] < place[i]
    <2> HIDE DEF place
    <2>1. above(j) \in SUBSET above(i) /\ i \in above(i) /\ i \notin above(j)
        <3>1. i \in Int /\ j \in Int /\ \A k \in S : k \in Int
            BY <1>1
        <3>2. \A k \in S : k >= j => k >= i
            BY <3>1, <1>3
        <3>3. i >= i /\ ~(i >= j)
            BY <3>1, <1>3
        <3> QED
            BY <3>2, <3>3
    <2> HIDE DEF above
    <2>2. /\ Cardinality(above(j)) <= Cardinality(above(i))
          /\ Cardinality(above(i)) = Cardinality(above(j)) => above(i) = above(j)
        BY <1>2, <2>1, FS_Subset
    <2>3. place[i] \in Int /\ place[j] \in Int
        BY <1>1, <1>2
    <2> QED
        BY <1>2, <2>1, <2>2, <2>3
<1> HIDE DEF n, above, place
<1>4. place \in [S -> 1..n]
    BY <1>2 DEF place
<1>5. \A i, j \in S : place[i] = place[j] => i = j
    BY <1>1, <1>2, <1>3, <1>4
<1>6. \A k \in 1..n : \E i \in S : place[i] = k
    <2>1. place \in Injection(S, 1..n)
        BY <1>4, <1>5, Fun_IsInj
    <2>2. IsFiniteSet(1..n) /\ Cardinality(1..n) = n
        BY <1>1, FS_Interval
    <2>3. place \in Surjection(S, 1..n)
        BY <2>1, <2>2, FS_Injection DEF n
    <2> QED
        BY <2>3, Fun_SurjectionProperties
<1> DEFINE s == [k \in 1..n |-> CHOOSE i \in S : place[i] = k]
<1>7. s \in [1..n -> S] /\ \A k \in 1..n : place[s[k]] = k
    BY <1>6
<1> HIDE DEF s
<1>8. ASSUME NEW j \in 1..n, NEW k \in 1..n, j < k
      PROVE  s[j] > s[k]
    <2>1. s[j] \in S /\ s[k] \in S /\ place[s[j]] = j /\ place[s[k]] = k
        BY <1>7
    <2>2. s[j] \in Int /\ s[k] \in Int /\ j \in Int /\ k \in Int
        <3>1. s[j] \in Int /\ s[k] \in Int
            BY <1>1, <2>1
        <3>2. \A m \in 1..n : m \in Int
            BY <1>1
        <3> QED
            BY <3>1, <3>2
    <2>3. s[j] # s[k]
        BY <1>8, <2>1, <2>2
    <2>4. ~(s[j] < s[k])
        BY <1>3, <1>8, <2>1, <2>2
    <2> QED
        BY <2>2, <2>3, <2>4
<1>9. s \in SetToSeqs(S)
    <2>1. \A j, k \in 1..n : j # k => s[j] # s[k]
        BY <1>7
    <2> QED
        BY <1>7, <2>1 DEF SetToSeqs, n
<1>10. /\ Descending(S) \in SetToSeqs(S)
       /\ \A j, k \in 1..n : j < k => Descending(S)[j] > Descending(S)[k]
    BY <1>8, <1>9 DEF Descending, n
<1> QED
    BY <1>1, <1>10 DEF SetToSeqs, n

\* What ListSamples reports: as many rows of the table as a page has, each once.
LEMMA ListedRows ==
    ASSUME table \in [Ids -> Vals \cup {None}]
    PROVE  LET n == Cardinality(Present)
               size == PageSize(n)
               page == Listed(table)
           IN  /\ size \in Nat /\ page \in [1..size -> [id : Ids, val : Vals]]
               /\ Len(page) = size
               /\ \A k \in 1..size :
                    /\ page[k].id \in Present /\ page[k] = Sample(page[k].id)
                    /\ \A j \in 1..(k - 1) : page[j].id # page[k].id
<1> DEFINE n == Cardinality(Present)
           size == PageSize(n)
           ids == Descending(Present)
           rows == [k \in 1..n |-> [id |-> ids[k], val |-> table[ids[k]]]]
<1>1. Present \in SUBSET Ids
    BY DEF Present
<1>2. n \in Nat /\ ids \in [1..n -> Present] /\ \A j, k \in 1..n : j < k => ids[j] > ids[k]
    BY <1>1, DescendingIds
<1> HIDE DEF n, ids
<1>3. rows \in [1..n -> [id : Ids, val : Vals]]
    <2>1. \A i \in Present : i \in Ids /\ table[i] \in Vals
        BY DEF Present
    <2> QED
        BY <1>2, <2>1
<1>4. Listed(table) = Page(rows, Sanitize([offset |-> 0, limit |-> 0]))
    BY DEF Listed, Present, n, ids
<1>5. \A k \in 1..n : rows[k].id = ids[k] /\ rows[k] = Sample(ids[k])
    BY DEF Sample
<1> HIDE DEF rows, size
<1>6. /\ Listed(table) \in [1..size -> [id : Ids, val : Vals]]
      /\ Len(Listed(table)) = size
      /\ \A k \in 1..size : Listed(table)[k] = rows[k]
    <2>1. Listed(table) = [k \in 1..size |-> rows[k]] /\ size \in Nat /\ size <= n
        <3>1. n \in Nat /\ rows = [k \in 1..n |-> rows[k]]
            BY <1>2 DEF rows
        <3> QED
            BY <1>4, <3>1, FirstPage DEF size
    <2>2. \A k \in 1..size : rows[k] \in [id : Ids, val : Vals]
        BY <1>2, <1>3, <2>1
    <2> QED
        BY <2>1, <2>2
<1>7. size \in Nat /\ size <= n
    BY <1>2, LimitsAssumption DEF PageSize, size
<1>8. ASSUME NEW k \in 1..size
      PROVE  /\ Listed(table)[k].id \in Present
             /\ Listed(table)[k] = Sample(Listed(table)[k].id)
             /\ \A j \in 1..(k - 1) : Listed(table)[j].id # Listed(table)[k].id
    <2>1. k \in 1..n /\ \A j \in 1..(k - 1) : j \in 1..n /\ j \in 1..size /\ j < k
        BY <1>2, <1>7
    <2>2. Listed(table)[k] = rows[k] /\ rows[k].id = ids[k] /\ rows[k] = Sample(ids[k])
          /\ ids[k] \in Present
        BY <1>2, <1>5, <1>6, <2>1
    <2>3. ASSUME NEW j \in 1..(k - 1)
          PROVE  Listed(table)[j].id # Listed(table)[k].id
        <3>1. Listed(table)[j].id = ids[j] /\ ids[j] > ids[k] /\ ids[j] \in Int /\ ids[k] \in Int
            BY <1>1, <1>2, <1>5, <1>6, <2>1 DEF Ids
        <3> QED
            BY <2>2, <3>1
    <2> QED
        BY <2>2, <2>3
<1> QED
    BY <1>6, <1>7, <1>8 DEF size, n

\* A step of w leaves the place, request, statement and reply of x alone.
LEMMA Frame ==
    ASSUME Core, NEW w \in Workers, Act(w), NEW x \in Workers, x # w
    PROVE  pc'[x] = pc[x] /\ req'[x] = req[x] /\ stmt'[x] = stmt[x] /\ reply'[x] = reply[x]
<1> USE DEF Core, Goto, Answer
<1>1. CASE Arrive(w)
    BY <1>1 DEF Arrive, Call
<1>2. CASE TakeConn(w) \/ Read(w)
    BY <1>2 DEF TakeConn, Read
<1>3. CASE Insert(w) \/ Write(w)
    BY <1>3 DEF Insert, Write
<1>4. CASE Commit(w)
    BY <1>4 DEF Commit
<1>5. CASE CommitLost(w)
    BY <1>5 DEF CommitLost
<1>6. CASE Fail(w) \/ Reply(w) \/ Settle(w)
    BY <1>6 DEF Fail, Reply, Settle
<1> QED
    BY <1>1, <1>2, <1>3, <1>4, <1>5, <1>6 DEF Act, Step

\* Only a commit changes the rows, and only a commit touches other requests.
LEMMA RowsChange ==
    ASSUME Core, NEW w \in Workers, Act(w)
    PROVE  \/ /\ Commit(w) \/ CommitLost(w) \/ Settle(w)
              /\ Open(w) /\ Apply(w)
           \/ /\ UNCHANGED <<table, dead>>
              /\ \A x \in Workers \ {w} : touched'[x] = touched[x]
<1> USE DEF Core
<1>1. CASE Arrive(w)
    BY <1>1 DEF Arrive, Call, db
<1>2. CASE TakeConn(w) \/ Read(w)
    BY <1>2 DEF TakeConn, Read, db
<1>3. CASE Insert(w) \/ Write(w)
    BY <1>3 DEF Insert, Write, db
<1>4. CASE Commit(w) \/ CommitLost(w)
    BY <1>4 DEF Commit, CommitLost, Goto
<1>5. CASE Fail(w) \/ Reply(w)
    BY <1>5 DEF Fail, Reply, db
<1>6. CASE Settle(w)
    BY <1>6 DEF Settle, Goto, db
<1> QED
    BY <1>1, <1>2, <1>3, <1>4, <1>5, <1>6 DEF Act, Step

LEMMA CorePreserved ==
    ASSUME Core, Shape, NEW w \in Workers, Act(w)
    PROVE  Core'
<1> USE SampleAssumption DEF Core, Goto, Answer, Ids, Reads, Ops
<1>1. ASSUME NEW op \in Ops, NEW i \in 0..MaxId, NEW v \in Vals \cup {None}, Call(w, op, i, v)
      PROVE  Core'
    <2>1. FirstStmt(op) \in {"insert", "select", "list", "update", "delete"}
        BY Statements
    <2>2. stmt' \in [Workers -> {"none", "insert", "update", "delete"} \cup Reads]
        BY <1>1, <2>1 DEF Call
    <2> QED
        BY <1>1, <2>2 DEF Call, db
<1>2. CASE Arrive(w)
    <2>1. \E op \in Ops, i \in 0..MaxId, v \in Vals \cup {None} : Call(w, op, i, v)
        BY <1>2 DEF Arrive
    <2> QED
        BY <2>1, <1>1
<1>3. CASE TakeConn(w) \/ Read(w) \/ Write(w)
    BY <1>3 DEF TakeConn, Read, Write, Release, db
<1>4. CASE Insert(w)
    <2>1. nextId \in 0..MaxId /\ nextId' \in 1..(MaxId + 1)
        BY <1>4 DEF Insert
    <2>2. req' \in [Workers -> [op : Ops \cup {"none"}, id : 0..MaxId, val : Vals \cup {None}]]
        <3> DEFINE R == [op : Ops \cup {"none"}, id : 0..MaxId, val : Vals \cup {None}]
        <3>1. req[w] \in R
            OBVIOUS
        <3>2. \A r \in R, i \in 0..MaxId : [r EXCEPT !.id = i] \in R
            OBVIOUS
        <3>3. req' = [req EXCEPT ![w] = [req[w] EXCEPT !.id = nextId]]
            BY <1>4 DEF Insert
        <3>4. [req[w] EXCEPT !.id = nextId] \in R
            BY <3>1, <3>2, <2>1
        <3> HIDE DEF R
        <3>5. req \in [Workers -> R]
            BY DEF R
        <3>6. req' \in [Workers -> R]
            BY <3>3, <3>4, <3>5
        <3> QED
            BY <3>6 DEF R
    <2> QED
        BY <1>4, <2>1, <2>2 DEF Insert
<1>5. ASSUME Commit(w) \/ CommitLost(w)
      PROVE  Core'
    <2>1. pc[w] = "commit" /\ Shaped(w) /\ Apply(w)
        BY <1>5 DEF Commit, CommitLost, Shape
    <2>2. table' \in [Ids -> Vals \cup {None}]
        BY <2>1, WrittenRows DEF Apply
    <2>3. nextId' = nextId /\ dead' \subseteq Ids /\ touched' \in [Workers -> BOOLEAN]
        BY <2>1 DEF Apply, Shaped
    <2>4. /\ up' = up /\ others' = others
          /\ pool' \subseteq Workers
          /\ pc' \in [Workers -> {"idle", "queued", "exec", "commit", "orphan", "reply"}]
          /\ req' = req
          /\ stmt' \in [Workers -> {"none", "insert", "update", "delete"} \cup Reads]
          /\ DOMAIN reply' = Workers
        <3>1. CASE CommitLost(w)
            BY <3>1 DEF CommitLost, Release
        <3>2. CASE Commit(w) /\ stmt[w] = "update"
            BY <3>2 DEF Commit, Release
        <3>3. CASE Commit(w) /\ stmt[w] # "update"
            BY <3>3 DEF Commit, Release
        <3> QED
            BY <1>5, <3>1, <3>2, <3>3
    <2> QED
        BY <2>2, <2>3, <2>4
<1>6. CASE Fail(w)
    BY <1>6 DEF Fail, Release, db
<1>7. CASE Reply(w)
    BY <1>7 DEF Reply, NoReq, db
<1>8. CASE Settle(w)
    <2>1. /\ table' \in [Ids -> Vals \cup {None}] /\ nextId' = nextId
          /\ dead' \subseteq Ids /\ touched' \in [Workers -> BOOLEAN]
        <3>1. CASE Apply(w)
            <4>1. Open(w) /\ Shaped(w)
                BY <1>8 DEF Settle, Shape
            <4>2. table' \in [Ids -> Vals \cup {None}]
                BY <3>1, <4>1, WrittenRows DEF Apply
            <4> QED
                BY <3>1, <4>1, <4>2 DEF Apply, Shaped
        <3>2. CASE ~Apply(w)
            BY <1>8, <3>2 DEF Settle, db
        <3> QED
            BY <3>1, <3>2
    <2>2. /\ up' = up /\ pool' = pool /\ others' = others /\ reply' = reply
          /\ pc' \in [Workers -> {"idle", "queued", "exec", "commit", "orphan", "reply"}]
          /\ stmt' \in [Workers -> {"none", "insert", "update", "delete"} \cup Reads]
        BY <1>8 DEF Settle
    <2>3. req' \in [Workers -> [op : Ops \cup {"none"}, id : 0..MaxId, val : Vals \cup {None}]]
        BY <1>8 DEF Settle, NoReq
    <2> QED
        BY <2>1, <2>2, <2>3
<1> QED
    BY <1>2, <1>3, <1>4, <1>5, <1>6, <1>7, <1>8 DEF Act, Step

LEMMA ShapePreserved ==
    ASSUME Core, Shape, NEW w \in Workers, Act(w)
    PROVE  Shape'
<1> SUFFICES ASSUME NEW x \in Workers
             PROVE  Shaped(x)'
    BY DEF Shape
<1>1. CASE x # w
    BY <1>1, Frame DEF Shape, Shaped
<1>2. CASE x = w
    <2> USE <1>2 DEF Core, Goto
    <2>1. CASE Arrive(w)
        <3>1. ASSUME NEW op \in Ops, NEW i \in 0..MaxId, NEW v \in Vals \cup {None},
                     Call(w, op, i, v), op \in {"Create", "Update"} => v \in Vals,
                     op \in {"Get", "Update", "Delete"} => i \in Ids
              PROVE  Shaped(w)'
            BY <3>1 DEF Call, Shaped
        <3> QED
            BY <2>1, <3>1, SampleAssumption DEF Arrive, Ops, Ids
    <2>2. CASE TakeConn(w)
        BY <2>2 DEF TakeConn, Shape, Shaped
    <2>3. CASE Read(w)
        BY <2>3 DEF Read, Shape, Shaped
    <2>4. CASE Insert(w)
        <3>1. req[w].op = "Create"
            BY <2>4, Statements DEF Insert, Shape, Shaped, Ops
        <3>2. /\ req'[w].id = nextId /\ req'[w].op = req[w].op /\ req'[w].val = req[w].val
              /\ pc'[w] = "commit" /\ stmt'[w] = "insert"
            BY <2>4 DEF Insert
        <3>3. nextId \in Ids
            BY <2>4, SampleAssumption DEF Insert, Ids
        <3> QED
            BY <3>1, <3>2, <3>3, Statements DEF Shape, Shaped, Ops
    <2>5. CASE Write(w)
        BY <2>5, Statements DEF Write, Shape, Shaped, Ops
    <2>6. CASE Commit(w)
        <3>1. CASE stmt[w] = "update"
            <4>1. req[w].op = "Update"
                BY <2>6, <3>1, Statements DEF Commit, Shape, Shaped, Ops
            <4>2. pc'[w] = "queued" /\ stmt'[w] = "select" /\ req'[w] = req[w]
                BY <2>6, <3>1 DEF Commit
            <4> QED
                BY <4>1, <4>2 DEF Shape, Shaped, Ops
        <3>2. CASE stmt[w] # "update"
            <4>1. pc'[w] = "reply" /\ req'[w] = req[w]
                BY <2>6, <3>2 DEF Commit
            <4> QED
                BY <4>1 DEF Shape, Shaped
        <3> QED
            BY <3>1, <3>2
    <2>7. CASE CommitLost(w) \/ Fail(w)
        BY <2>7 DEF CommitLost, Fail, Shape, Shaped
    <2>8. CASE Reply(w) \/ Settle(w)
        BY <2>8 DEF Reply, Settle, NoReq, Shaped
    <2> QED
        BY <2>1, <2>2, <2>3, <2>4, <2>5, <2>6, <2>7, <2>8 DEF Act, Step
<1> QED
    BY <1>1, <1>2

\* Whatever a request does to the ids, besides the commit of a write.
LEMMA RowsKept ==
    ASSUME Core, Shape, Rows, NEW w \in Workers, Act(w), UNCHANGED <<table, dead>>
    PROVE  Rows'
<1>1. Present' = Present
    BY DEF Present
<1>2. CASE Insert(w)
    <2>1. /\ nextId' = nextId + 1 /\ nextId \in Ids
          /\ req'[w].id = nextId /\ pc'[w] = "commit"
          /\ \A x \in Workers : Open(x) => req[x].id # nextId
        BY <1>2, SampleAssumption DEF Insert, Goto, Locked, Core, Ids
    <2>2. nextId \notin Present /\ nextId \notin dead /\ nextId \in Int
        BY <2>1 DEF Rows, Core, Ids
    <2>3. NoResurrection'
        BY <1>1 DEF Rows, NoResurrection
    <2>4. ASSUME NEW i \in Ids, i >= nextId'
          PROVE  i \notin Present' /\ i \notin dead'
        BY <1>1, <2>1, <2>2, <2>4 DEF Rows, Ids
    <2>5. ASSUME NEW x \in Workers
          PROVE  Inserting(x)'
        <3>1. CASE x = w
            BY <1>1, <2>1, <2>2, <3>1 DEF Inserting
        <3>2. CASE x # w
            <4>1. pc'[x] = pc[x] /\ req'[x] = req[x] /\ stmt'[x] = stmt[x]
                BY <3>2, Frame
            <4>2. Inserting(x) /\ (Open(x) => req[x].id \in Int)
                BY DEF Rows, Shape, Shaped, Ids
            <4> QED
                BY <1>1, <2>1, <2>2, <4>1, <4>2 DEF Inserting
        <3> QED
            BY <3>1, <3>2
    <2>6. ASSUME NEW x \in Workers, NEW y \in Workers, x # y,
                 Open(x)', Open(y)'
          PROVE  req'[x].id # req'[y].id
        BY <2>1, <2>6, Frame DEF Rows
    <2> QED
        BY <2>3, <2>4, <2>5, <2>6 DEF Rows
<1>3. CASE ~Insert(w)
    <2>1. nextId' = nextId
        BY <1>3 DEF Act, Arrive, Call, Step, TakeConn, Read, Write, Commit, CommitLost,
                    Apply, Fail, Reply, Settle, db
    <2>2. CASE Write(w)
        <3>1. /\ req' = req /\ stmt' = stmt /\ stmt[w] # "insert"
              /\ \A x \in Workers : Open(x) => req[x].id # req[w].id
            BY <2>2 DEF Write, Locked
        <3>2. \A x \in Workers \ {w} : pc'[x] = pc[x]
            BY Frame
        <3>3. \A x \in Workers : Inserting(x)'
            BY <1>1, <2>1, <3>1, <3>2 DEF Rows, Inserting
        <3>4. \A x, y \in Workers :
                x # y /\ Open(x)' /\ Open(y)' => req'[x].id # req'[y].id
            BY <3>1, <3>2 DEF Rows
        <3> QED
            BY <1>1, <2>1, <3>3, <3>4 DEF Rows, NoResurrection
    <2>3. CASE ~Write(w)
        <3>1. ~Open(w)'
            BY <1>3, <2>3 DEF Act, Arrive, Call, Step, TakeConn, Read, Commit, CommitLost,
                              Fail, Reply, Settle, Goto, Core
        <3>2. \A x \in Workers \ {w} :
                pc'[x] = pc[x] /\ req'[x] = req[x] /\ stmt'[x] = stmt[x]
            BY Frame
        <3>3. \A x \in Workers : Inserting(x)'
            BY <1>1, <2>1, <3>1, <3>2 DEF Rows, Inserting
        <3>4. \A x, y \in Workers :
                x # y /\ Open(x)' /\ Open(y)' => req'[x].id # req'[y].id
            BY <3>1, <3>2 DEF Rows
        <3> QED
            BY <1>1, <2>1, <3>3, <3>4 DEF Rows, NoResurrection
    <2> QED
        BY <2>2, <2>3
<1> QED
    BY <1>2, <1>3

\* A commit gives an id to a row only if it had none, or had one already.
LEMMA RowsCommitted ==
    ASSUME Core, Shape, Rows, NEW w \in Workers, Act(w),
           Commit(w) \/ CommitLost(w) \/ Settle(w), Open(w), Apply(w)
    PROVE  Rows'
<1>1. Open(w) /\ Shaped(w) /\ Apply(w) /\ ~Open(w)' /\ nextId' = nextId
    BY DEF Commit, CommitLost, Settle, Apply, Goto, Shape, Core
<1>2. /\ table' = Written(w)
      /\ req[w].id \in Ids
      /\ stmt[w] \in {"insert", "update", "delete"}
    BY <1>1 DEF Apply, Shaped
<1>3. stmt[w] \in {"insert", "update"} => req[w].val \in Vals
    BY <1>1, <1>2, Statements DEF Shaped, Ops
<1>4. \A i \in Ids \ {req[w].id} : (i \in Present' <=> i \in Present)
    BY <1>1, <1>2, WrittenRows DEF Present
<1>5. /\ stmt[w] = "insert" => req[w].id \in Present'
      /\ stmt[w] = "update" => (req[w].id \in Present' <=> req[w].id \in Present)
      /\ stmt[w] = "delete" => req[w].id \notin Present'
    BY <1>1, <1>2, <1>3, WrittenRows, SampleAssumption DEF Present
<1>6. dead' = IF stmt[w] = "delete" THEN dead \cup ({req[w].id} \cap Present) ELSE dead
    BY <1>1 DEF Apply
<1>7. Inserting(w)
    BY DEF Rows
<1>8. NoResurrection'
    BY <1>1, <1>2, <1>4, <1>5, <1>6, <1>7 DEF Rows, NoResurrection, Inserting, Core, Present
<1>9. ASSUME NEW i \in Ids, i >= nextId'
      PROVE  i \notin Present' /\ i \notin dead'
    <2>1. i \notin Present /\ i \notin dead
        BY <1>1, <1>9 DEF Rows
    <2>2. CASE i = req[w].id
        <3>1. stmt[w] # "insert"
            BY <1>1, <1>7, <1>9, <2>2 DEF Inserting, Core, Ids
        <3> QED
            BY <1>2, <1>5, <1>6, <2>1, <2>2, <3>1
    <2>3. CASE i # req[w].id
        BY <1>4, <1>6, <2>1, <2>3
    <2> QED
        BY <2>2, <2>3
<1>10. ASSUME NEW x \in Workers \ {w}
       PROVE  /\ pc'[x] = pc[x] /\ req'[x] = req[x] /\ Inserting(x)'
              /\ Open(x) => req[x].id # req[w].id /\ req[x].id \in Ids
    <2>1. pc'[x] = pc[x] /\ req'[x] = req[x] /\ stmt'[x] = stmt[x] /\ Inserting(x)
        BY Frame DEF Rows
    <2>2. Open(x) => req[x].id # req[w].id /\ req[x].id \in Ids
        BY <1>1 DEF Rows, Shape, Shaped
    <2> QED
        BY <1>1, <1>4, <1>6, <2>1, <2>2 DEF Inserting
<1>11. \A x \in Workers : Inserting(x)'
    BY <1>1, <1>10 DEF Inserting
<1>12. \A x, y \in Workers :
        x # y /\ Open(x)' /\ Open(y)' => req'[x].id # req'[y].id
    BY <1>1, <1>10 DEF Rows
<1> QED
    BY <1>8, <1>9, <1>11, <1>12 DEF Rows

LEMMA ConnsPreserved ==
    ASSUME Core, Conns, NEW w \in Workers, Act(w)
    PROVE  Conns'
<1> USE DEF Core
<1>1. /\ pool = {x \in Workers : pc[x] \in {"exec", "commit"}}
      /\ IsFiniteSet(pool) /\ Cardinality(pool) \in Nat
      /\ others \in Nat /\ Cardinality(pool) + others <= PoolSize
    BY FS_CardinalityType, SampleAssumption DEF Conns, ConnsAccounted
<1>2. /\ \A x \in Workers \ {w} : pc'[x] = pc[x]
      /\ others' = others
    <2>1. others' = others
        BY DEF Act, Step, Arrive, Call, TakeConn, Read, Insert, Write, Commit, CommitLost,
               Fail, Reply, Settle, Goto
    <2> QED
        BY <2>1, Frame
<1>3. CASE TakeConn(w)
    <2>1. /\ Cardinality(pool) + others < PoolSize /\ pool' = pool \cup {w}
          /\ pc'[w] = "exec" /\ pc[w] = "queued"
        BY <1>3 DEF TakeConn, Goto
    <2>2. pool' = {x \in Workers : pc'[x] \in {"exec", "commit"}}
        BY <1>1, <1>2, <2>1
    <2>3. IsFiniteSet(pool') /\ Cardinality(pool') = Cardinality(pool) + 1
        BY <1>1, <2>1, FS_AddElement
    <2>4. Cardinality(pool') + others' <= PoolSize
        BY <1>1, <1>2, <2>1, <2>3, SampleAssumption
    <2> QED
        BY <2>2, <2>3, <2>4 DEF Conns, ConnsAccounted
<1>4. CASE Arrive(w) \/ Insert(w) \/ Write(w) \/ Reply(w) \/ Settle(w)
    <2>1. pool' = pool
        BY <1>4 DEF Arrive, Call, Insert, Write, Reply, Settle
    <2>2. pc[w] \in {"exec", "commit"} <=> pc'[w] \in {"exec", "commit"}
        BY <1>4 DEF Arrive, Call, Insert, Write, Reply, Settle, Goto
    <2>3. pool' = {x \in Workers : pc'[x] \in {"exec", "commit"}}
        BY <1>1, <1>2, <2>1, <2>2
    <2> QED
        BY <1>1, <1>2, <2>1, <2>3 DEF Conns, ConnsAccounted
<1>5. CASE Read(w) \/ Commit(w) \/ CommitLost(w) \/ Fail(w)
    <2>1. pool' = pool \ {w} /\ pc'[w] \notin {"exec", "commit"}
        BY <1>5 DEF Read, Commit, CommitLost, Fail, Release, Goto
    <2>2. pool' = {x \in Workers : pc'[x] \in {"exec", "commit"}}
        BY <1>1, <1>2, <2>1
    <2>3. IsFiniteSet(pool') /\ Cardinality(pool') <= Cardinality(pool)
        <3>1. /\ IsFiniteSet(pool \ {w})
              /\ Cardinality(pool \ {w}) =
                    IF w \in pool THEN Cardinality(pool) - 1 ELSE Cardinality(pool)
            BY <1>1, FS_RemoveElement
        <3>2. Cardinality(pool \ {w}) <= Cardinality(pool)
            BY <1>1, <3>1
        <3> QED
            BY <2>1, <3>1, <3>2
    <2>4. Cardinality(pool') \in Nat
        BY <2>3, FS_CardinalityType
    <2>5. Cardinality(pool') + others' <= PoolSize
        BY <1>1, <1>2, <2>3, <2>4, SampleAssumption
    <2> QED
        BY <2>2, <2>3, <2>5 DEF Conns, ConnsAccounted
<1> QED
    BY <1>3, <1>4, <1>5 DEF Act, Step

\* What is true of x while it is untouched survives a step of another worker.
LEMMA TruthOfOthers ==
    ASSUME Core, Shape, Truth, NEW w \in Workers, Act(w), NEW x \in Workers, x # w
    PROVE  Current(x)'
<1>1. pc'[x] = pc[x] /\ req'[x] = req[x] /\ stmt'[x] = stmt[x] /\ reply'[x] = reply[x]
    BY Frame
<1>2. Current(x) /\ Shaped(x)
    BY DEF Truth, Shape
<1>3. CASE table' = table /\ touched'[x] = touched[x]
    <2>1. /\ Present' = Present /\ Listed(table') = Listed(table)
          /\ \A i : Selected(i)' = Selected(i)
        BY <1>3 DEF Present, Selected, Sample
    <2> QED
        BY <1>1, <1>2, <1>3, <2>1 DEF Current, Answered
<1>4. CASE Open(w) /\ Apply(w)
    <2>1. SUFFICES ASSUME ~touched'[x]
                   PROVE  Current(x)'
        BY DEF Current
    <2>2. /\ ~touched[x]
          /\ \A i \in Ids : Reports(x, i) => table'[i] = table[i]
        BY <1>4, <2>1 DEF Apply, Core
    <2>3. table' \in [Ids -> Vals \cup {None}]
        BY <1>4, WrittenRows DEF Apply, Shape
    <2>4. CASE req[x].op = "List"
        <3>1. table' = table
            BY <2>2, <2>3, <2>4 DEF Reports, Core
        <3>2. Listed(table') = Listed(table)
            BY <3>1
        <3> QED
            BY <1>1, <1>2, <2>2, <2>4, <3>2 DEF Current, Answered
    <2>5. CASE req[x].op # "List"
        <3>1. req[x].id \in Ids => table'[req[x].id] = table[req[x].id]
            BY <2>2 DEF Reports
        <3>2. req[x].id \in Ids => (req[x].id \in Present' <=> req[x].id \in Present)
            BY <3>1 DEF Present
        <3>3. req[x].id \in Ids => Selected(req[x].id)' = Selected(req'[x].id)
                /\ Selected(req[x].id)' = Selected(req[x].id)
            BY <1>1, <3>1, <3>2 DEF Selected, Sample
        <3> QED
            BY <1>1, <1>2, <2>2, <2>5, <3>1, <3>2, <3>3 DEF Current, Answered, Shaped
    <2> QED
        BY <2>4, <2>5
<1> QED
    BY <1>3, <1>4, RowsChange

\* What w reports, or will report, is true when w itself has made a step.
LEMMA TruthOfActor ==
    ASSUME Core, Shape, Truth, NEW w \in Workers, Act(w)
    PROVE  Current(w)'
<1> USE DEF Core, Goto
<1>1. Shaped(w) /\ Current(w)
    BY DEF Shape, Truth
<1>2. CASE Arrive(w)
    <2>1. /\ pc'[w] = "queued"
          /\ req'[w].op = "Update" => stmt'[w] = "update"
        BY <1>2, Statements DEF Arrive, Call
    <2> QED
        BY <2>1 DEF Current, Answered
<1>3. CASE TakeConn(w)
    <2>1. /\ pc'[w] = "exec" /\ pc[w] = "queued"
          /\ req' = req /\ stmt' = stmt /\ table' = table /\ touched' = touched
        BY <1>3 DEF TakeConn, db
    <2> QED
        BY <1>1, <2>1 DEF Current, Answered
<1>4. CASE Read(w)
    <2>1. /\ pc[w] = "exec" /\ stmt[w] \in Reads
          /\ pc'[w] = "reply" /\ req' = req /\ stmt' = stmt
          /\ table' = table /\ touched' = touched
          /\ reply'[w].samples = IF stmt[w] = "list" THEN Listed(table)
                                                     ELSE Selected(req[w].id)
        BY <1>4 DEF Read, Answer, OK, db
    <2>2. /\ req[w].op \in {"Get", "List", "Update"}
          /\ req[w].op = "List" <=> stmt[w] = "list"
          /\ req[w].op = "Update" => stmt[w] = "select"
        BY <1>1, <2>1, Statements DEF Shaped, Reads, Ops
    <2>3. Listed(table') = Listed(table) /\ Selected(req[w].id)' = Selected(req[w].id)
        BY <2>1 DEF Selected, Sample, Present
    <2> QED
        BY <1>1, <2>1, <2>2, <2>3 DEF Current, Answered
<1>5. CASE Insert(w) \/ Write(w)
    <2>1. pc'[w] = "commit"
        BY <1>5 DEF Insert, Write
    <2> QED
        BY <2>1 DEF Current, Answered
<1>6. CASE Commit(w)
    <2>1. /\ pc[w] = "commit" /\ req' = req /\ table' = Written(w)
          /\ req[w].id \in Ids /\ stmt[w] \in {"insert", "update", "delete"}
        BY <1>1, <1>6 DEF Commit, Apply, Shaped
    <2>2. CASE stmt[w] = "update"
        <3>1. req[w].op = "Update" /\ pc'[w] = "queued"
            BY <1>1, <1>6, <2>1, <2>2, Statements DEF Commit, Shaped, Ops
        <3>2. table'[req[w].id] \in {req[w].val, None}
            BY <1>1, <2>1, <2>2, WrittenRows
        <3> QED
            BY <2>1, <3>1, <3>2 DEF Current, Answered
    <2>3. CASE stmt[w] = "insert"
        <3>1. /\ req[w].op = "Create" /\ pc'[w] = "reply"
              /\ reply'[w].samples = <<[id |-> req[w].id, val |-> req[w].val]>>
            BY <1>1, <1>6, <2>1, <2>3, Statements DEF Commit, Shaped, Ops, Answer, OK
        <3>2. table'[req[w].id] = req[w].val
            BY <1>1, <2>1, <2>3, WrittenRows
        <3> QED
            BY <2>1, <3>1, <3>2 DEF Current, Answered
    <2>4. CASE stmt[w] = "delete"
        <3>1. req[w].op = "Delete" /\ pc'[w] = "reply"
            BY <1>1, <1>6, <2>1, <2>4, Statements DEF Commit, Shaped, Ops
        <3>2. table'[req[w].id] = None
            BY <1>1, <2>1, <2>4, WrittenRows
        <3> QED
            BY <2>1, <3>1, <3>2 DEF Current, Answered, Present
    <2> QED
        BY <2>1, <2>2, <2>3, <2>4
<1>7. CASE CommitLost(w) \/ Fail(w)
    <2>1. pc'[w] = "reply" /\ reply'[w].code = "internal"
        BY <1>7 DEF CommitLost, Fail, Answer, Internal
    <2> QED
        BY <2>1 DEF Current, Answered
<1>8. CASE Reply(w) \/ Settle(w)
    <2>1. pc'[w] = "idle"
        BY <1>8 DEF Reply, Settle
    <2> QED
        BY <2>1 DEF Current, Answered
<1> QED
    BY <1>2, <1>3, <1>4, <1>5, <1>6, <1>7, <1>8 DEF Act, Step

LEMMA InvInit == Init => IInv
<1> SUFFICES ASSUME Init
             PROVE  IInv
    OBVIOUS
<1> USE SampleAssumption DEF Init, NoReq, NoReply, Ids, Ops, Reads
<1>1. Core
    <2>1. up \in BOOLEAN
        OBVIOUS
    <2>2. /\ DOMAIN reply = Workers
          /\ touched \in [Workers -> BOOLEAN]
          /\ req \in [Workers -> [op : Ops \cup {"none"}, id : 0..MaxId, val : Vals \cup {None}]]
        OBVIOUS
    <2> QED
        BY <2>1, <2>2 DEF Core
<1>2. Shape
    BY DEF Shape, Shaped
<1>3. Rows
    BY DEF Rows, NoResurrection, Inserting, Present
<1>4. Conns
    <2>1. IsFiniteSet(pool) /\ Cardinality(pool) = 0
        BY FS_EmptySet
    <2> QED
        BY <2>1 DEF Conns, ConnsAccounted
<1>5. Truth
    BY DEF Truth, Current, Answered
<1> QED
    BY <1>1, <1>2, <1>3, <1>4, <1>5 DEF IInv

\* The dead server's requests are gone; an open transaction is as it was.
LEMMA CrashPreserves == IInv /\ Crash => IInv'
<1> SUFFICES ASSUME IInv, Crash
             PROVE  IInv'
    OBVIOUS
<1>1. /\ UNCHANGED <<table, nextId, dead>>
      /\ pool' = {} /\ others' = 0
      /\ \A w \in Workers :
            /\ Open(w) => pc'[w] = "orphan" /\ req'[w] = req[w] /\ stmt'[w] = stmt[w]
            /\ ~Open(w) => pc'[w] = "idle" /\ req'[w] = NoReq
    BY DEF Crash, db
<1>2. Core'
    <2> USE DEF IInv, Core, Crash
    <2>1. up' \in BOOLEAN /\ DOMAIN reply' = Workers
        OBVIOUS
    <2> HIDE DEF IInv, Core, Crash
    <2>5. others' \in 0..Others
        BY <1>1, SampleAssumption
    <2> USE DEF IInv, Core, Crash
    <2>2. /\ touched' \in [Workers -> BOOLEAN]
          /\ pc' \in [Workers -> {"idle", "queued", "exec", "commit", "orphan", "reply"}]
        OBVIOUS
    <2>3. req' \in [Workers -> [op : Ops \cup {"none"}, id : 0..MaxId, val : Vals \cup {None}]]
        BY SampleAssumption DEF NoReq, Ops, Ids
    <2>4. stmt' \in [Workers -> {"none", "insert", "update", "delete"} \cup Reads]
        OBVIOUS
    <2> QED
        BY <1>1, <2>1, <2>2, <2>3, <2>4, <2>5
<1>3. Shape'
    BY <1>1, Statements DEF IInv, Shape, Shaped, NoReq, Core
<1>4. Rows'
    <2>1. Present' = Present
        BY <1>1 DEF Present
    <2>2. \A w \in Workers : Open(w)' => Open(w) /\ req'[w] = req[w] /\ stmt'[w] = stmt[w]
        BY <1>1
    <2>3. \A w \in Workers : Inserting(w)'
        BY <1>1, <2>1, <2>2 DEF IInv, Rows, Inserting
    <2>4. \A w, x \in Workers : w # x /\ Open(w)' /\ Open(x)' => req'[w].id # req'[x].id
        BY <2>2 DEF IInv, Rows
    <2> QED
        BY <1>1, <2>1, <2>3, <2>4 DEF IInv, Rows, NoResurrection
<1>5. Conns'
    <2>1. pool' = {w \in Workers : pc'[w] \in {"exec", "commit"}}
        BY <1>1
    <2>2. IsFiniteSet(pool') /\ Cardinality(pool') = 0
        BY <1>1, FS_EmptySet
    <2> QED
        BY <1>1, <2>1, <2>2, SampleAssumption DEF Conns, ConnsAccounted
<1>6. Truth'
    BY <1>1 DEF Truth, Current, Answered
<1> QED
    BY <1>2, <1>3, <1>4, <1>5, <1>6 DEF IInv

\* What UserService does with the pool.
LEMMA OthersPreserve == IInv /\ (OtherTakes \/ OtherGives) => IInv'
<1> SUFFICES ASSUME IInv, OtherTakes \/ OtherGives
             PROVE  IInv'
    OBVIOUS
<1>1. UNCHANGED <<up, table, nextId, dead, pool, pc, req, stmt, reply, touched>>
    BY DEF OtherTakes, OtherGives, db
<1>2. others' \in 0..Others /\ Cardinality(pool) + others' <= PoolSize
    <2>1. IsFiniteSet(pool) /\ Cardinality(pool) \in Nat
        BY FS_CardinalityType DEF IInv, Conns
    <2> QED
        BY <2>1, SampleAssumption
        DEF OtherTakes, OtherGives, IInv, Core, Conns, ConnsAccounted
<1>3. Core' /\ Shape'
    BY <1>1, <1>2 DEF IInv, Core, Shape, Shaped
<1>4. Rows' /\ Conns'
    BY <1>1, <1>2 DEF IInv, Rows, NoResurrection, Inserting, Present, Conns, ConnsAccounted
<1>5. Truth'
    BY <1>1 DEF IInv, Truth, Current, Answered, Selected, Sample, Present
<1> QED
    BY <1>3, <1>4, <1>5 DEF IInv

LEMMA InvPreserved == IInv /\ [Next]_vars => IInv'
<1> SUFFICES ASSUME IInv, [Next]_vars
             PROVE  IInv'
    OBVIOUS
<1>1. CASE \E w \in Workers : Act(w)
    <2>1. PICK w \in Workers : Act(w)
        BY <1>1
    <2>2. Core' /\ Shape' /\ Conns'
        BY <2>1, CorePreserved, ShapePreserved, ConnsPreserved DEF IInv
    <2>3. Rows'
        BY <2>1, RowsChange, RowsKept, RowsCommitted DEF IInv
    <2>4. Truth'
        BY <2>1, TruthOfActor, TruthOfOthers DEF IInv, Truth
    <2> QED
        BY <2>2, <2>3, <2>4 DEF IInv
<1>2. CASE UNCHANGED vars
    <2>1. Core' /\ Shape'
        BY <1>2 DEF IInv, vars, Core, Shape, Shaped
    <2>2. Rows' /\ Conns'
        BY <1>2 DEF IInv, vars, Rows, NoResurrection, Inserting, Present, Conns, ConnsAccounted
    <2>3. Truth'
        BY <1>2 DEF IInv, vars, Truth, Current, Answered, Selected, Sample, Present
    <2> QED
        BY <2>1, <2>2, <2>3 DEF IInv
<1>3. CASE Start
    <2>1. Core' /\ Shape'
        BY <1>3 DEF IInv, Start, db, Core, Shape, Shaped
    <2>2. Rows' /\ Conns'
        BY <1>3 DEF IInv, Start, db, Rows, NoResurrection, Inserting, Present, Conns, ConnsAccounted
    <2>3. Truth'
        BY <1>3 DEF IInv, Start, db, Truth, Current, Answered, Selected, Sample, Present
    <2> QED
        BY <2>1, <2>2, <2>3 DEF IInv
<1> QED
    BY <1>1, <1>2, <1>3, CrashPreserves, OthersPreserve DEF Next, Act

\* The inductive invariant holds in every reachable state.
THEOREM Invariance == Spec => []IInv
    BY InvInit, InvPreserved, PTL DEF Spec

(* A deleted sample never comes back, and its id is not given again          *)
(* (UpdateSample against DeleteSample, AUTO_INCREMENT).                      *)
THEOREM DeletedStayDeleted == Spec => []NoResurrection
<1>1. IInv => NoResurrection
    BY DEF IInv, Rows
<1> QED
    BY <1>1, Invariance, PTL

(* A worker holds a connection exactly while a statement of its runs, and    *)
(* no more are held than the pool has.                                       *)
THEOREM ConnectionsAreAccounted == Spec => []ConnsAccounted
<1>1. IInv => ConnsAccounted
    BY DEF IInv, Conns
<1> QED
    BY <1>1, Invariance, PTL

(* An OK reply to a write means it is in the table, unless another request's *)
(* write came after it.                                                      *)
THEOREM WritesAreThere == Spec => []WritesStick
<1>1. IInv => WritesStick
    BY DEF IInv, Truth, Current, WritesStick
<1> QED
    BY <1>1, Invariance, PTL

(* An OK reply agrees with the table, unless another request's write came in *)
(* between.                                                                  *)
THEOREM RepliesAreCurrent == Spec => []RepliesCurrent
<1>1. IInv => RepliesCurrent
    <2> SUFFICES ASSUME IInv, NEW w \in Workers,
                        pc[w] = "reply", reply[w].code = "ok", ~touched[w]
                 PROVE  /\ req[w].op \in {"Create", "Get", "Update"} =>
                            reply[w].samples = Selected(req[w].id)
                        /\ req[w].op = "List" => reply[w].samples = Listed(table)
                        /\ req[w].op = "Delete" => req[w].id \notin Present
        BY DEF RepliesCurrent
    <2>1. Current(w) /\ Shaped(w)
        BY DEF IInv, Truth, Shape
    <2>2. req[w].op = "Create" => reply[w].samples = Selected(req[w].id)
        BY <2>1, SampleAssumption DEF Current, Answered, Shaped, Selected, Sample, Present
    <2> QED
        BY <2>1, <2>2 DEF Current, Answered
<1> QED
    BY <1>1, Invariance, PTL

------------------------------------------------------------------------------
\* An answer of the right type.
Typed(r) ==
    /\ r.code \in {"none", "ok", "internal"}
    /\ \A n \in 1..Len(r.samples) : r.samples[n] \in [id : Ids, val : Vals]

(* Who has not been answered has no answer; what is reported are rows.      *)
Replied ==
    /\ reply = [w \in Workers |-> reply[w]]
    /\ \A w \in Workers : Typed(reply[w]) /\ (pc[w] # "reply" => reply[w] = NoReply)

LEMMA TypedAnswers ==
    /\ Typed(NoReply) /\ Typed(Internal) /\ Typed(OK(<<>>))
    /\ \A i \in Ids, v \in Vals : Typed(OK(<<[id |-> i, val |-> v]>>))
<1> USE DEF Typed, NoReply, Internal, OK
<1>1. Typed(NoReply) /\ Typed(Internal) /\ Typed(OK(<<>>))
    OBVIOUS
<1>2. ASSUME NEW i \in Ids, NEW v \in Vals
      PROVE  Typed(OK(<<[id |-> i, val |-> v]>>))
    <2> DEFINE s == <<[id |-> i, val |-> v]>>
    <2>1. Len(s) = 1 /\ s[1] \in [id : Ids, val : Vals]
        OBVIOUS
    <2> HIDE DEF s
    <2>2. \A n \in 1..Len(s) : n = 1
        BY <2>1
    <2>3. Typed(OK(s))
        BY <2>1, <2>2
    <2> QED
        BY <2>3 DEF s
<1> QED
    BY <1>1, <1>2

\* A statement that reads reports rows.
LEMMA TypedRead ==
    ASSUME Core, Shape, NEW w \in Workers, Read(w)
    PROVE  Typed(reply'[w])
<1>1. stmt[w] \in Reads /\ pc[w] = "exec" /\
      reply'[w] = OK(IF stmt[w] = "list" THEN Listed(table) ELSE Selected(req[w].id))
    BY DEF Read, Goto, Answer, Core
<1>2. CASE stmt[w] = "list"
    <2>1. Typed(OK(Listed(table)))
        <3>1. \A n \in 1..Len(Listed(table)) : Listed(table)[n] \in [id : Ids, val : Vals]
            BY ListedRows DEF Core
        <3> QED
            BY <3>1 DEF Typed, OK
    <2> QED
        BY <1>1, <1>2, <2>1
<1>3. CASE stmt[w] # "list"
    <2>1. req[w].id \in Ids
        BY <1>1, <1>3, Statements DEF Shape, Shaped, Ops, Reads
    <2>2. req[w].id \in Present => table[req[w].id] \in Vals
        BY <2>1 DEF Core, Present
    <2>3. Typed(OK(Selected(req[w].id)))
        BY <2>1, <2>2, TypedAnswers DEF Selected, Sample
    <2> QED
        BY <1>1, <1>3, <2>3
<1> QED
    BY <1>2, <1>3

LEMMA RepliedPreserved ==
    ASSUME Core, Shape, Replied, NEW w \in Workers, Act(w)
    PROVE  Replied'
<1> USE DEF Core
<1>1. ASSUME NEW r, reply' = [reply EXCEPT ![w] = r], Typed(r),
             pc'[w] = "reply" \/ r = NoReply
      PROVE  Replied'
    <2>1. reply' = [x \in Workers |-> reply'[x]]
        BY <1>1
    <2>2. \A x \in Workers : Typed(reply'[x])
        BY <1>1 DEF Replied
    <2>3. \A x \in Workers : pc'[x] # "reply" => reply'[x] = NoReply
        BY <1>1, Frame DEF Replied
    <2> QED
        BY <2>1, <2>2, <2>3 DEF Replied, Typed
<1>2. ASSUME reply' = reply, pc[w] # "reply"
      PROVE  Replied'
    BY <1>2, Frame DEF Replied, Typed
<1>3. CASE Arrive(w) \/ TakeConn(w) \/ Insert(w) \/ Write(w) \/ Settle(w)
    <2>1. reply' = reply /\ pc[w] # "reply"
        BY <1>3 DEF Arrive, Call, TakeConn, Insert, Write, Settle, Goto
    <2> QED
        BY <1>2, <2>1
<1>4. CASE Read(w)
    <2>1. pc'[w] = "reply" /\ reply' = [reply EXCEPT ![w] = reply'[w]]
        BY <1>4 DEF Read, Goto, Answer
    <2> QED
        BY <1>1, <1>4, <2>1, TypedRead
<1>5. CASE Commit(w)
    <2>1. CASE stmt[w] = "update"
        BY <1>2, <1>5, <2>1 DEF Commit
    <2>2. CASE stmt[w] # "update"
        <3> DEFINE r == OK(IF stmt[w] = "insert"
                           THEN <<[id |-> req[w].id, val |-> req[w].val]>> ELSE <<>>)
        <3>1. pc'[w] = "reply" /\ reply' = [reply EXCEPT ![w] = r]
            BY <1>5, <2>2 DEF Commit, Goto, Answer
        <3>2. stmt[w] = "insert" => req[w].id \in Ids /\ req[w].val \in Vals
            BY <1>5, Statements DEF Commit, Shape, Shaped, Ops
        <3>3. Typed(r)
            BY <3>2, TypedAnswers
        <3> HIDE DEF r
        <3> QED
            BY <1>1, <3>1, <3>3
    <2> QED
        BY <2>1, <2>2
<1>6. CASE CommitLost(w) \/ Fail(w)
    <2>1. pc'[w] = "reply" /\ reply' = [reply EXCEPT ![w] = Internal]
        BY <1>6 DEF CommitLost, Fail, Goto, Answer
    <2> QED
        BY <1>1, <2>1, TypedAnswers
<1>7. CASE Reply(w)
    <2>1. reply' = [reply EXCEPT ![w] = NoReply]
        BY <1>7 DEF Reply, Answer
    <2> QED
        BY <1>1, <2>1, TypedAnswers
<1> QED
    BY <1>3, <1>4, <1>5, <1>6, <1>7 DEF Act, Step

LEMMA RepliedInvariance == Spec => []Replied
<1>1. Init => Replied
    BY TypedAnswers DEF Init, Replied
<1>2. IInv /\ Replied /\ [Next]_vars => Replied'
    <2> SUFFICES ASSUME IInv, Replied, [Next]_vars
                 PROVE  Replied'
        OBVIOUS
    <2>1. CASE \E w \in Workers : Act(w)
        BY <2>1, RepliedPreserved DEF IInv
    <2>2. CASE Crash
        BY <2>2, TypedAnswers DEF Crash, Replied, Typed
    <2>3. CASE Start \/ OtherTakes \/ OtherGives \/ UNCHANGED vars
        BY <2>3 DEF Start, OtherTakes, OtherGives, vars, Replied, Typed
    <2> QED
        BY <2>1, <2>2, <2>3 DEF Next, Act
<1> QED
    BY <1>1, <1>2, Invariance, PTL DEF Spec

(* Every variable has its type; what an RPC reports are rows the table may   *)
(* hold, with ids AUTO_INCREMENT has given.                                  *)
THEOREM TypeCorrect == Spec => []TypeOK
<1>1. IInv /\ Replied => TypeOK
    BY DEF IInv, Core, Replied, Typed, TypeOK
<1> QED
    BY <1>1, Invariance, RepliedInvariance, PTL

------------------------------------------------------------------------------
(***************************************************************************)
(* The refinement.  Waiting for a connection and running a statement are   *)
(* stutters of the store; a read or a commit is where the operation takes  *)
(* effect, and for an update the read that follows is what it reports.     *)
(***************************************************************************)
LEMMA StoreInit == Init => Store!Init
<1> SUFFICES ASSUME Init
             PROVE  Store!Init
    OBVIOUS
<1>1. storePhase = [w \in Workers |-> "idle"]
    BY DEF Init, storePhase, PhaseOf
<1>2. storeReq = [w \in Workers |-> NoReq]
    BY DEF Init, storeReq, AskedOf, NoReq
<1>3. storeUsed = {}
    BY DEF Init, storeUsed, Present
<1> QED
    BY <1>1, <1>2, <1>3 DEF Init, Store!Init, Store!NoReq, Store!NoReply, NoReq, NoReply,
                            Store!Ids, Ids

\* For the store, too, a step of w is a step of w alone.
LEMMA StoreFrame ==
    ASSUME Core, NEW w \in Workers, Act(w)
    PROVE  /\ storePhase' = [storePhase EXCEPT ![w] = PhaseOf(w)']
           /\ storeReq' = [storeReq EXCEPT ![w] = AskedOf(w)']
<1>1. \A x \in Workers \ {w} : PhaseOf(x)' = PhaseOf(x) /\ AskedOf(x)' = AskedOf(x)
    BY Frame DEF PhaseOf, AskedOf
<1> QED
    BY <1>1 DEF storePhase, storeReq

\* What the store sees of w.
LEMMA StoreView ==
    ASSUME NEW w \in Workers
    PROVE  storePhase[w] = PhaseOf(w) /\ storeReq[w] = AskedOf(w)
    BY DEF storePhase, storeReq

\* A step of w that the store does not see.
LEMMA StoreStutters ==
    ASSUME Core, NEW w \in Workers, Act(w), UNCHANGED <<table, dead, reply>>,
           PhaseOf(w)' = PhaseOf(w), AskedOf(w)' = AskedOf(w)
    PROVE  UNCHANGED Store!vars
<1>1. storePhase' = storePhase /\ storeReq' = storeReq
    BY StoreFrame DEF storePhase, storeReq
<1>2. storeUsed' = storeUsed
    BY DEF storeUsed, Present
<1> QED
    BY <1>1, <1>2 DEF Store!vars

\* A commit is a write of the store: an INSERT gives a row an id of its own.
LEMMA StoreWrites ==
    ASSUME Core, Shape, Rows, NEW w \in Workers, Open(w), Apply(w)
    PROVE  req[w].id \in Store!Ids /\ Store!Write(w, req[w].id)
<1> DEFINE i == req[w].id
<1>1. /\ Shaped(w) /\ Inserting(w) /\ i \in Ids
      /\ stmt[w] \in {"insert", "update", "delete"} /\ table' = Written(w)
      /\ storeReq[w] = AskedOf(w)
    BY StoreView DEF Shape, Shaped, Rows, Apply
<1>2. dead' = IF stmt[w] = "delete" THEN dead \cup ({i} \cap Present) ELSE dead
    BY DEF Apply
<1>3. CASE stmt[w] = "insert"
    <2>1. req[w].op = "Create" /\ req[w].val \in Vals
        BY <1>1, <1>3, Statements DEF Shaped, Ops
    <2>2. storeReq[w].op = "Create" /\ storeReq[w].val = req[w].val
        BY <1>1, <2>1 DEF AskedOf
    <2>3. table' = [table EXCEPT ![i] = req[w].val]
        BY <1>1, <1>3 DEF Written
    <2>4. i \notin storeUsed
        BY <1>1, <1>3 DEF Inserting, storeUsed
    <2>5. Present' = Present \cup {i}
        BY <1>1, <2>1, <2>3, SampleAssumption DEF Core, Present
    <2>6. storeUsed' = storeUsed \cup {i}
        BY <1>2, <1>3, <2>5 DEF storeUsed
    <2> QED
        BY <1>1, <2>2, <2>3, <2>4, <2>6 DEF Store!Write, Store!Ids, Ids
<1>4. CASE stmt[w] = "update"
    <2>1. req[w].op = "Update" /\ req[w].val \in Vals
        BY <1>1, <1>4, Statements DEF Shaped, Ops
    <2>2. storeReq[w] = req[w]
        BY <1>1, <2>1 DEF AskedOf
    <2>3. table' = IF table[i] = None THEN table ELSE [table EXCEPT ![i] = req[w].val]
        BY <1>1, <1>4 DEF Written, Present
    <2>4. Present' = Present
        BY <1>1, <2>1, <2>3, SampleAssumption DEF Core, Present
    <2>5. storeUsed' = storeUsed
        BY <1>2, <1>4, <2>4 DEF storeUsed
    <2> QED
        BY <1>1, <2>1, <2>2, <2>3, <2>5 DEF Store!Write, Store!Ids, Ids
<1>5. CASE stmt[w] = "delete"
    <2>1. req[w].op = "Delete"
        BY <1>1, <1>5, Statements DEF Shaped, Ops
    <2>2. storeReq[w] = req[w]
        BY <1>1, <2>1 DEF AskedOf
    <2>3. table' = [table EXCEPT ![i] = None]
        BY <1>1, <1>5 DEF Written
    <2>4. Present' = Present \ {i}
        BY <1>1, <2>3 DEF Core, Present
    <2>5. storeUsed' = storeUsed
        BY <1>2, <1>5, <2>4 DEF storeUsed
    <2> QED
        BY <1>1, <2>1, <2>2, <2>3, <2>5 DEF Store!Write, Store!Ids, Ids
<1> QED
    BY <1>1, <1>3, <1>4, <1>5

\* What a query for one row, or for a page, reports.
LEMMA StoreReads ==
    ASSUME Core
    PROVE  /\ \A i \in Ids : Selected(i) = Store!Row(table, i)
           /\ Store!IsPage(Listed(table))
<1>1. \A i \in Ids : Selected(i) = Store!Row(table, i)
    BY DEF Selected, Store!Row, Sample, Present
<1>2. Store!IsPage(Listed(table))
    <2> DEFINE n == Cardinality(Present)
               page == Listed(table)
    <2>1. /\ Len(page) = PageSize(n) /\ PageSize(n) \in Nat
          /\ \A k \in 1..PageSize(n) :
                /\ page[k].id \in Present /\ page[k] = Sample(page[k].id)
                /\ \A j \in 1..(k - 1) : page[j].id # page[k].id
        BY ListedRows DEF Core
    <2> HIDE DEF page
    <2>2. Present = {i \in Store!Ids : table[i] # None}
        BY DEF Present, Store!Ids, Ids
    <2>4. Len(page) = IF n < DefaultLimit THEN n ELSE DefaultLimit
        BY <2>1 DEF PageSize
    <2>5. \A k \in 1..Len(page) :
            /\ page[k].id \in Present
            /\ page[k] = [id |-> page[k].id, val |-> table[page[k].id]]
            /\ \A j \in 1..(k - 1) : page[j].id # page[k].id
        BY <2>1 DEF Sample
    <2> HIDE DEF n
    <2>6. Store!IsPage(page)
        <3>1. Store!Cardinality(Present) = Cardinality(Present)
            BY DEF Store!Cardinality, Cardinality, Store!IsFiniteSet, IsFiniteSet
        <3> QED
            BY <2>2, <2>4, <2>5, <3>1 DEF Store!IsPage, n
    <2> QED
        BY <2>6 DEF page
<1> QED
    BY <1>1, <1>2

LEMMA StoreStepOfWorker ==
    ASSUME Core, Shape, Rows, Replied, NEW w \in Workers, Act(w)
    PROVE  [Store!Next]_Store!vars
<1> USE DEF Core, Goto, Answer
<1>1. /\ storePhase[w] = PhaseOf(w) /\ storeReq[w] = AskedOf(w)
      /\ storePhase' = [storePhase EXCEPT ![w] = PhaseOf(w)']
      /\ storeReq' = [storeReq EXCEPT ![w] = AskedOf(w)']
      /\ Shaped(w)
    BY StoreView, StoreFrame DEF Shape
<1>2. UNCHANGED <<table, dead>> => UNCHANGED storeUsed
    BY DEF storeUsed, Present
<1>3. ASSUME Store!Begin(w) \/ Store!Perform(w) \/ Store!Overwrite(w) \/ Store!Report(w)
             \/ Store!Fail(w) \/ Store!Return(w) \/ Store!Settle(w)
      PROVE  [Store!Next]_Store!vars
    BY <1>3 DEF Store!Next
<1>4. AskedOf(w).op = req[w].op /\ (req[w].op # "Create" => AskedOf(w) = req[w])
    BY DEF AskedOf
<1>5. CASE Arrive(w)
    <2>1. ASSUME NEW op \in Ops, NEW i, NEW v, Call(w, op, i, v),
                 op \in {"Create", "Update"} => v \in Vals,
                 op \in {"Get", "List", "Delete"} => v = None,
                 i \in IF op \in {"Create", "List"} THEN {0} ELSE Ids
          PROVE  Store!Begin(w)
        <3> DEFINE r == [op |-> op, id |-> i, val |-> v]
        <3>1. /\ pc[w] = "idle" /\ pc'[w] = "queued" /\ req'[w] = r
              /\ stmt'[w] = FirstStmt(op) /\ UNCHANGED <<table, dead, reply>>
            BY <2>1 DEF Call, db
        <3>2. PhaseOf(w) = "idle" /\ PhaseOf(w)' = "open"
            BY <3>1, Statements DEF PhaseOf
        <3>3. AskedOf(w)' = r
            BY <2>1, <3>1 DEF AskedOf
        <3>4. storeReq'[w] = r
            BY <1>1, <3>3 DEF storeReq
        <3>5. r.op = op /\ r.id = i /\ r.val = v
            OBVIOUS
        <3> HIDE DEF r
        <3>6. storePhase[w] = "idle" /\ storePhase' = [storePhase EXCEPT ![w] = "open"]
              /\ storeReq' = [storeReq EXCEPT ![w] = r]
            BY <1>1, <3>2, <3>3
        <3>7. r = [op |-> storeReq'[w].op, id |-> storeReq'[w].id, val |-> storeReq'[w].val]
            BY <3>4, <3>5 DEF r
        <3> QED
            BY <1>2, <2>1, <3>1, <3>4, <3>5, <3>6, <3>7 DEF Store!Begin, Store!Ids, Ids, Ops
    <2>2. Store!Begin(w)
        BY <1>5, <2>1 DEF Arrive, Ops
    <2> QED
        BY <1>3, <2>2
<1>6. CASE TakeConn(w) \/ Insert(w) \/ Write(w)
    <2>1. UNCHANGED <<table, dead, reply, stmt>>
        BY <1>6 DEF TakeConn, Insert, Write, db
    <2>2. PhaseOf(w)' = PhaseOf(w) /\ AskedOf(w)' = AskedOf(w)
        <3>1. CASE TakeConn(w) \/ Write(w)
            BY <3>1 DEF TakeConn, Write, PhaseOf, AskedOf
        <3>2. CASE Insert(w)
            <4>1. req[w].op = "Create"
                BY <1>1, <3>2, Statements DEF Insert, Shaped, Ops
            <4>2. req' = [req EXCEPT ![w].id = nextId] /\ pc[w] = "exec" /\ pc'[w] = "commit"
                BY <3>2 DEF Insert
            <4>3. req'[w].op = "Create" /\ req'[w].val = req[w].val
                BY <4>1, <4>2
            <4> QED
                BY <2>1, <4>1, <4>2, <4>3 DEF PhaseOf, AskedOf
        <3> QED
            BY <1>6, <3>1, <3>2
    <2> QED
        BY <2>1, <2>2, StoreStutters
<1>7. CASE Read(w)
    <2>1. /\ pc[w] = "exec" /\ pc'[w] = "reply" /\ stmt[w] \in Reads
          /\ UNCHANGED <<table, dead, req, stmt>>
          /\ reply' = [reply EXCEPT ![w] =
                OK(IF stmt[w] = "list" THEN Listed(table) ELSE Selected(req[w].id))]
        BY <1>7 DEF Read, db
    <2>2. /\ req[w].op \in {"Get", "List", "Update"} /\ AskedOf(w) = req[w]
          /\ req[w].op = "List" <=> stmt[w] = "list"
          /\ req[w].op = "Update" => stmt[w] = "select"
          /\ req[w].op # "List" => req[w].id \in Ids
        BY <1>1, <1>4, <2>1, Statements DEF Shaped, Reads, Ops
    <2>3. /\ PhaseOf(w)' = "done" /\ AskedOf(w)' = req[w]
          /\ PhaseOf(w) = IF req[w].op = "Update" THEN "written" ELSE "open"
        BY <2>1, <2>2 DEF PhaseOf, AskedOf
    <2>4. storePhase' = [storePhase EXCEPT ![w] = "done"] /\ UNCHANGED <<storeReq, storeUsed>>
        <3>1. storePhase' = [storePhase EXCEPT ![w] = "done"]
            BY <1>1, <2>3
        <3>2. storeReq' = storeReq
            BY <1>1, <2>2, <2>3 DEF storeReq
        <3>3. storeUsed' = storeUsed
            BY <1>2, <2>1
        <3> QED
            BY <3>1, <3>2, <3>3
    <2>5. CASE req[w].op = "List"
        <3>1. reply'[w] = OK(Listed(table)) /\ reply'[w].samples = Listed(table)
            BY <2>1, <2>2, <2>5 DEF OK
        <3>2. reply' = [reply EXCEPT ![w] = Store!OK(reply'[w].samples)]
            BY <2>1, <2>2, <2>5, <3>1 DEF Store!OK, OK
        <3>3. Store!IsPage(reply'[w].samples)
            BY <3>1, StoreReads
        <3>4. Store!Perform(w)
            BY <1>1, <2>1, <2>2, <2>3, <2>4, <2>5, <3>2, <3>3 DEF Store!Perform, Store!End
        <3> QED
            BY <1>3, <3>4
    <2>6. CASE req[w].op # "List"
        <3>1. reply' = [reply EXCEPT ![w] = Store!OK(Store!Row(table, req[w].id))]
            BY <2>1, <2>2, <2>6, StoreReads DEF Store!OK, OK
        <3>2. Store!Perform(w) \/ Store!Report(w)
            BY <1>1, <2>1, <2>2, <2>3, <2>4, <2>6, <3>1
               DEF Store!Perform, Store!Report, Store!End
        <3> QED
            BY <1>3, <3>2
    <2> QED
        BY <2>5, <2>6
<1>8. CASE Commit(w)
    <2>1. /\ pc[w] = "commit" /\ Apply(w) /\ req' = req
          /\ stmt[w] \in {"insert", "update", "delete"}
        BY <1>1, <1>8 DEF Commit, Shaped
    <2>2. PhaseOf(w) = "open" /\ AskedOf(w)' = AskedOf(w)
        BY <2>1 DEF PhaseOf, AskedOf
    <2>3. storePhase[w] = "open" /\ UNCHANGED storeReq
        BY <1>1, <2>2 DEF storeReq
    <2>4. req[w].id \in Store!Ids /\ Store!Write(w, req[w].id)
        BY <2>1, StoreWrites
    <2>5. CASE stmt[w] = "update"
        <3>1. req[w].op = "Update" /\ AskedOf(w) = req[w]
            BY <1>1, <1>4, <2>1, <2>5, Statements DEF Shaped, Ops
        <3>2. pc'[w] = "queued" /\ stmt'[w] = "select" /\ reply' = reply
            BY <1>8, <2>5 DEF Commit
        <3>3. PhaseOf(w)' = "written"
            BY <2>1, <3>1, <3>2 DEF PhaseOf
        <3>4. Store!Overwrite(w)
            BY <1>1, <2>3, <2>4, <3>1, <3>2, <3>3 DEF Store!Overwrite
        <3> QED
            BY <1>3, <3>4
    <2>6. CASE stmt[w] # "update"
        <3>1. /\ pc'[w] = "reply"
              /\ reply' = [reply EXCEPT ![w] =
                    OK(IF stmt[w] = "insert"
                       THEN <<[id |-> req[w].id, val |-> req[w].val]>> ELSE <<>>)]
            BY <1>8, <2>6 DEF Commit
        <3>2. PhaseOf(w)' = "done"
            BY <3>1 DEF PhaseOf
        <3>3. /\ stmt[w] = "insert" => req[w].op = "Create" /\ req[w].val \in Vals
              /\ stmt[w] = "delete" => req[w].op = "Delete"
            BY <1>1, <2>1, Statements DEF Shaped, Ops
        <3>4. stmt[w] = "insert" => table'[req[w].id] = req[w].val
            BY <1>1, <2>1, WrittenRows DEF Apply
        <3>5. stmt[w] = "insert" =>
                Store!Row(table', req[w].id) = <<[id |-> req[w].id, val |-> req[w].val]>>
            BY <3>3, <3>4, SampleAssumption DEF Store!Row
        <3>6. reply' = [reply EXCEPT ![w] =
                Store!OK(IF storeReq[w].op = "Delete"
                         THEN <<>> ELSE Store!Row(table', req[w].id))]
            <4>1. CASE stmt[w] = "insert"
                BY <1>1, <1>4, <3>1, <3>3, <3>5, <4>1 DEF Store!OK, OK
            <4>2. CASE stmt[w] = "delete"
                BY <1>1, <1>4, <3>1, <3>3, <4>2 DEF Store!OK, OK
            <4> QED
                BY <2>1, <2>6, <4>1, <4>2
        <3>7. storePhase' = [storePhase EXCEPT ![w] = "done"]
            BY <1>1, <3>2
        <3>8. Store!Perform(w)
            BY <2>3, <2>4, <3>6, <3>7 DEF Store!Perform, Store!End
        <3> QED
            BY <1>3, <3>8
    <2> QED
        BY <2>5, <2>6
<1>9. CASE CommitLost(w) \/ Fail(w)
    <2>1. /\ pc[w] \in {"queued", "exec", "commit"} /\ pc'[w] = "reply"
          /\ reply' = [reply EXCEPT ![w] = Store!Internal] /\ UNCHANGED <<req, stmt>>
        BY <1>9 DEF CommitLost, Fail, Internal, Store!Internal
    <2>2. /\ PhaseOf(w) \in {"open", "written"} /\ PhaseOf(w)' = "done"
          /\ AskedOf(w)' = AskedOf(w)
        BY <2>1 DEF PhaseOf, AskedOf
    <2>3. /\ storePhase[w] \in {"open", "written"} /\ UNCHANGED storeReq
          /\ storePhase' = [storePhase EXCEPT ![w] = "done"]
        BY <1>1, <2>2 DEF storeReq
    <2>4. UNCHANGED <<table, storeUsed>>
          \/ (storePhase[w] = "open" /\ \E i \in Store!Ids : Store!Write(w, i))
        <3>1. CASE CommitLost(w)
            <4>1. pc[w] = "commit" /\ Apply(w)
                BY <3>1 DEF CommitLost
            <4>2. PhaseOf(w) = "open"
                BY <1>1, <4>1 DEF PhaseOf, Shaped
            <4> QED
                BY <1>1, <4>1, <4>2, StoreWrites
        <3>2. CASE Fail(w)
            BY <1>2, <3>2 DEF Fail, db
        <3> QED
            BY <1>9, <3>1, <3>2
    <2>5. Store!Fail(w)
        BY <2>1, <2>3, <2>4 DEF Store!Fail, Store!End
    <2> QED
        BY <1>3, <2>5
<1>10. CASE Reply(w) \/ Settle(w)
    <2>1. pc'[w] = "idle" /\ req'[w] = NoReq /\ pc[w] \in {"reply", "orphan"}
        BY <1>10 DEF Reply, Settle
    <2>2. PhaseOf(w)' = "idle" /\ AskedOf(w)' = NoReq
        BY <2>1 DEF PhaseOf, AskedOf, NoReq
    <2>3. storePhase' = [storePhase EXCEPT ![w] = "idle"]
        BY <1>1, <2>2
    <2>4. storeReq' = [x \in Workers |-> IF x \in {w} THEN Store!NoReq ELSE storeReq[x]]
        BY <1>1, <2>2 DEF storeReq, NoReq, Store!NoReq
    <2>5. reply' = [x \in Workers |-> IF x \in {w} THEN Store!NoReply ELSE reply[x]]
        <3>1. CASE Reply(w)
            BY <3>1 DEF Reply, NoReply, Store!NoReply
        <3>2. CASE Settle(w)
            <4>1. reply' = reply /\ reply[w] = NoReply /\ reply = [x \in Workers |-> reply[x]]
                BY <3>2 DEF Settle, Replied
            <4> QED
                BY <4>1 DEF NoReply, Store!NoReply
        <3> QED
            BY <1>10, <3>1, <3>2
    <2>6. Store!Reset({w})
        BY <2>4, <2>5 DEF Store!Reset
    <2>7. CASE Reply(w)
        <3>1. pc[w] = "reply" /\ UNCHANGED <<table, dead>>
            BY <2>7 DEF Reply, db
        <3>2. storePhase[w] = "done"
            BY <1>1, <3>1 DEF PhaseOf
        <3>3. Store!Return(w)
            BY <1>2, <2>3, <2>6, <3>1, <3>2 DEF Store!Return
        <3> QED
            BY <1>3, <3>3
    <2>8. CASE Settle(w)
        <3>1. pc[w] = "orphan" /\ (Apply(w) \/ UNCHANGED <<table, dead>>)
            BY <2>8 DEF Settle, db
        <3>2. storePhase[w] = "lost"
            BY <1>1, <3>1 DEF PhaseOf
        <3>3. UNCHANGED <<table, storeUsed>> \/ \E i \in Store!Ids : Store!Write(w, i)
            BY <1>2, <3>1, StoreWrites
        <3>4. Store!Settle(w)
            BY <2>3, <2>6, <3>2, <3>3 DEF Store!Settle
        <3> QED
            BY <1>3, <3>4
    <2> QED
        BY <1>10, <2>7, <2>8
<1> QED
    BY <1>5, <1>6, <1>7, <1>8, <1>9, <1>10 DEF Act, Step

\* When the server dies, what had no transaction is gone without an effect.
LEMMA StoreCrashes == IInv /\ Replied /\ Crash => Store!Crash
<1> SUFFICES ASSUME IInv, Replied, Crash
             PROVE  Store!Crash
    OBVIOUS
<1>1. /\ UNCHANGED <<table, dead>>
      /\ \A w \in Workers :
            /\ reply'[w] = NoReply
            /\ Open(w) => pc'[w] = "orphan" /\ req'[w] = req[w] /\ reply[w] = NoReply
            /\ ~Open(w) => pc'[w] = "idle" /\ req'[w] = NoReq
    BY DEF Crash, db, Replied
<1>2. ASSUME NEW w \in Workers
      PROVE  /\ storePhase'[w] = IF Open(w) THEN "lost" ELSE "idle"
             /\ Open(w) => storePhase[w] \in {"open", "lost"}
             /\ storeReq'[w] = IF Open(w) THEN storeReq[w] ELSE NoReq
    <2>1. PhaseOf(w)' = IF Open(w) THEN "lost" ELSE "idle"
        BY <1>1 DEF PhaseOf
    <2>2. Open(w) => PhaseOf(w) \in {"open", "lost"}
        BY DEF PhaseOf, IInv, Shape, Shaped
    <2>3. AskedOf(w)' = IF Open(w) THEN AskedOf(w) ELSE NoReq
        BY <1>1 DEF AskedOf, NoReq
    <2> QED
        BY <2>1, <2>2, <2>3 DEF storePhase, storeReq
<1>3. storePhase' = [w \in Workers |-> storePhase'[w]]
    BY DEF storePhase
<1>4. Store!Reset({w \in Workers : storePhase'[w] = "idle"})
    <2>1. storeReq' = [w \in Workers |-> storeReq'[w]] /\ reply' = [w \in Workers |-> reply'[w]]
        BY DEF storeReq, Crash
    <2>2. \A w \in Workers : storePhase'[w] = "idle" <=> ~Open(w)
        BY <1>2
    <2>3. storeReq' = [w \in Workers |->
                        IF w \in {x \in Workers : storePhase'[x] = "idle"}
                        THEN Store!NoReq ELSE storeReq[w]]
        BY <1>2, <2>1, <2>2 DEF NoReq, Store!NoReq
    <2>4. reply' = [w \in Workers |->
                        IF w \in {x \in Workers : storePhase'[x] = "idle"}
                        THEN Store!NoReply ELSE reply[w]]
        BY <1>1, <2>1, <2>2 DEF NoReply, Store!NoReply
    <2> QED
        BY <2>3, <2>4 DEF Store!Reset
<1>5. storeUsed' = storeUsed
    BY <1>1 DEF storeUsed, Present
<1> QED
    BY <1>1, <1>2, <1>3, <1>4, <1>5 DEF Store!Crash

(* Every RPC takes effect once, at one instant between its call and its      *)
(* reply, or says that it failed; when the server dies under it, once or not *)
(* at all (SampleRepository over MySQL).                                     *)
THEOREM Refinement == Spec => ImplementsStore
<1>1. IInv /\ Replied /\ [Next]_vars => [Store!Next]_Store!vars
    <2> SUFFICES ASSUME IInv, Replied, [Next]_vars
                 PROVE  [Store!Next]_Store!vars
        OBVIOUS
    <2>1. CASE \E w \in Workers : Act(w)
        BY <2>1, StoreStepOfWorker DEF IInv
    <2>2. CASE Crash
        BY <2>2, StoreCrashes DEF Store!Next
    <2>3. CASE Start \/ OtherTakes \/ OtherGives \/ UNCHANGED vars
        <3>1. UNCHANGED <<table, dead, pc, req, stmt, reply>>
            BY <2>3 DEF Start, OtherTakes, OtherGives, vars, db
        <3> QED
            BY <3>1 DEF Store!vars, storePhase, storeReq, storeUsed, PhaseOf, AskedOf, Present
    <2> QED
        BY <2>1, <2>2, <2>3 DEF Next, Act
<1> QED
    BY <1>1, StoreInit, Invariance, RepliedInvariance, PTL DEF Spec, ImplementsStore, Store!Spec
==============================================================================
