--------------------------- MODULE UserServiceProofs ---------------------------
(***************************************************************************)
(* Proofs about UserService, for any workers, accounts, roles, profiles    *)
(* and pool size.                                                          *)
(*                                                                         *)
(* The properties speak of requests that are answered.  The inductive      *)
(* invariant says of each place on the way what its next statement will    *)
(* rely on: whose request it is, that the roles of the account lie between *)
(* those it always had and those it ever had, and that the row read last   *)
(* is still the row, if nobody else has changed it.                        *)
(***************************************************************************)
EXTENDS UserService, FiniteSetTheorems, TLAPS

Busy(w) == pc[w] \in {"queued", "exec", "commit"}

(* A request under way, or answered, is of an account, and what is committed *)
(* is a profile for it.                                                     *)
Shaped(w) ==
    /\ Busy(w) \/ Answered(w) => req[w].user \in Users
    /\ Busy(w) => stmt[w] \in {"update", "user", "roles"}
    /\ Busy(w) /\ stmt[w] = "update" => req[w].val \in Profiles
    /\ pc[w] = "commit" => stmt[w] = "update"

Shape == \A w \in Workers : Shaped(w)

Conns == ConnsAccounted /\ IsFiniteSet(pool)

(* Roles are granted to accounts that are there.                            *)
Granted == \A g \in granted : users[g[1]] # None

(* The roles of the account are all those it had throughout, and some of    *)
(* those it had at some moment; so are the ones the reply has, for good.    *)
RolesOk(w) ==
    /\ Busy(w) =>
        /\ always[w] \subseteq RolesOf(req[w].user)
        /\ RolesOf(req[w].user) \subseteq ever[w]
    /\ Answered(w) /\ reply[w].profile # None =>
        /\ always[w] \subseteq reply[w].roles
        /\ reply[w].roles \subseteq ever[w]

Truth == \A w \in Workers : RolesOk(w)

(* Until another change of the row: after the commit it is what was sent,   *)
(* and after the first statement it is what was read.                       *)
ProfileOk(w) ==
    ~touched[w] =>
        /\ Busy(w) /\ stmt[w] = "user" /\ req[w].op = "UpdateMyProfile" =>
            users[req[w].user] \in {req[w].val, None}
        /\ (Busy(w) /\ stmt[w] = "roles") \/ Answered(w) =>
            /\ reply[w].profile = users[req[w].user]
            /\ req[w].op = "UpdateMyProfile" => reply[w].profile \in {req[w].val, None}

Profile == \A w \in Workers : ProfileOk(w)

IInv == TypeOK /\ Shape /\ Conns /\ Granted /\ Truth /\ Profile

Act(w) == Arrive(w) \/ Step(w) \/ Reply(w)

ReqType == [op : Ops \cup {"none"}, user : Users \cup {Nobody},
            roles : Claims \cup {{}}, val : Profiles \cup {None}]
ReplyType == [code : {"none", "ok", "internal", "unauthenticated"},
              profile : Profiles \cup {None}, roles : SUBSET Roles]

------------------------------------------------------------------------------
\* The replies there can be.
LEMMA Replies ==
    /\ NoReply \in ReplyType
    /\ \A c \in {"internal", "unauthenticated"} :
        Error(c) \in ReplyType /\ Error(c).code = c
    /\ \A p \in Profiles \cup {None}, rs \in SUBSET Roles :
        OK(p, rs) \in ReplyType /\ OK(p, rs).profile = p /\ OK(p, rs).roles = rs
    /\ \A r \in ReplyType, p \in Profiles \cup {None} :
        [r EXCEPT !.profile = p] \in ReplyType
BY DEF NoReply, Error, OK, ReplyType

\* The profile another request commits: the one sent, if there is a row.
LEMMA Applied ==
    ASSUME TypeOK, NEW w \in Workers, pc[w] = "commit", Shaped(w), Apply(w)
    PROVE  /\ users' \in [Users -> Profiles \cup {None}]
           /\ touched' \in [Workers -> BOOLEAN]
           /\ ~touched'[w]
           /\ users'[req[w].user] \in {req[w].val, None}
           /\ \A u \in Users : users'[u] = None <=> users[u] = None
           /\ \A x \in Workers \ {w} : ~touched'[x] =>
                /\ ~touched[x]
                /\ req[x].user \in Users => users'[req[x].user] = users[req[x].user]
<1> DEFINE u == req[w].user
           p == IF users[u] = None THEN None ELSE req[w].val
<1>1. Change(u, p, w)
    BY DEF Apply
<1>2. u \in Users /\ req[w].val \in Profiles /\ req[w].val # None
    BY UserAssumption DEF Shaped, Busy
<1>3. p \in {req[w].val, None} /\ p \in Profiles \cup {None} /\ (p = None <=> users[u] = None)
    BY <1>2
<1> HIDE DEF p
<1>4. users' = [users EXCEPT ![u] = p]
    BY <1>1 DEF Change
<1>5. touched' = [x \in Workers |->
                    IF x = w THEN FALSE
                    ELSE touched[x] \/ (req[x].user = u /\ users[u] # p)]
    BY <1>1 DEF Change
<1>6. users \in [Users -> Profiles \cup {None}] /\ touched \in [Workers -> BOOLEAN]
    BY DEF TypeOK
<1>7. touched' \in [Workers -> BOOLEAN] /\ ~touched'[w]
    BY <1>5, <1>6
<1>8. ASSUME NEW x \in Workers \ {w}, ~touched'[x]
      PROVE  /\ ~touched[x]
             /\ req[x].user \in Users => users'[req[x].user] = users[req[x].user]
    BY <1>2, <1>4, <1>5, <1>6, <1>8
<1>9. /\ users' \in [Users -> Profiles \cup {None}]
      /\ users'[u] \in {req[w].val, None}
      /\ \A v \in Users : users'[v] = None <=> users[v] = None
    BY <1>2, <1>3, <1>4, <1>6
<1> QED
    BY <1>7, <1>8, <1>9

\* A step of w leaves the others where they are.
LEMMA Frame ==
    ASSUME TypeOK, NEW w \in Workers, Act(w), NEW x \in Workers, x # w
    PROVE  /\ pc'[x] = pc[x] /\ req'[x] = req[x] /\ stmt'[x] = stmt[x]
           /\ reply'[x] = reply[x] /\ ever'[x] = ever[x] /\ always'[x] = always[x]
<1> USE DEF TypeOK, Goto, Answer, history
<1>1. CASE Arrive(w)
    BY <1>1 DEF Arrive, Call
<1>2. CASE TakeConn(w) \/ SelectUser(w) \/ SelectRoles(w)
    BY <1>2 DEF TakeConn, SelectUser, SelectRoles
<1>3. CASE Update(w) \/ Fail(w) \/ Reply(w)
    BY <1>3 DEF Update, Fail, Reply
<1>4. CASE Commit(w) \/ CommitLost(w)
    BY <1>4 DEF Commit, CommitLost
<1> QED
    BY <1>1, <1>2, <1>3, <1>4 DEF Act, Step

\* Only a commit changes rows of users, and no step of a request changes roles.
LEMMA RowsChange ==
    ASSUME TypeOK, NEW w \in Workers, Act(w)
    PROVE  /\ granted' = granted
           /\ \/ (Commit(w) \/ CommitLost(w)) /\ Apply(w)
              \/ users' = users /\ \A x \in Workers \ {w} : touched'[x] = touched[x]
<1> USE DEF TypeOK, account, history
<1>1. CASE Arrive(w)
    BY <1>1 DEF Arrive, Call
<1>2. CASE TakeConn(w) \/ SelectUser(w) \/ SelectRoles(w)
    BY <1>2 DEF TakeConn, SelectUser, SelectRoles
<1>3. CASE Update(w) \/ Fail(w) \/ Reply(w)
    BY <1>3 DEF Update, Fail, Reply
<1>4. CASE Commit(w) \/ CommitLost(w)
    BY <1>4 DEF Commit, CommitLost
<1> QED
    BY <1>1, <1>2, <1>3, <1>4 DEF Act, Step

------------------------------------------------------------------------------
LEMMA TypesPreserved ==
    ASSUME TypeOK, Shape, NEW w \in Workers, Act(w)
    PROVE  TypeOK'
<1> USE DEF Goto, account, history
<1>1. /\ users \in [Users -> Profiles \cup {None}] /\ granted \subseteq Users \X Roles
      /\ pool \subseteq Workers /\ others \in 0..PoolSize
      /\ pc \in [Workers -> {"idle", "queued", "exec", "commit", "reply"}]
      /\ req \in [Workers -> ReqType]
      /\ stmt \in [Workers -> {"none", "update"} \cup Reads]
      /\ reply \in [Workers -> ReplyType]
      /\ touched \in [Workers -> BOOLEAN]
      /\ ever \in [Workers -> SUBSET Roles] /\ always \in [Workers -> SUBSET Roles]
    BY DEF TypeOK, ReqType, ReplyType
<1>2. \A u : RolesOf(u) \in SUBSET Roles
    BY DEF RolesOf
<1> SUFFICES
      /\ users' \in [Users -> Profiles \cup {None}] /\ granted' \subseteq Users \X Roles
      /\ pool' \subseteq Workers /\ others' \in 0..PoolSize
      /\ pc' \in [Workers -> {"idle", "queued", "exec", "commit", "reply"}]
      /\ req' \in [Workers -> ReqType]
      /\ stmt' \in [Workers -> {"none", "update"} \cup Reads]
      /\ reply' \in [Workers -> ReplyType]
      /\ touched' \in [Workers -> BOOLEAN]
      /\ ever' \in [Workers -> SUBSET Roles] /\ always' \in [Workers -> SUBSET Roles]
    BY DEF TypeOK, ReqType, ReplyType
<1>3. CASE Arrive(w)
    <2>1. PICK op \in Ops, u \in Users \cup {Nobody}, rs \in Claims, v \in Profiles \cup {None} :
            Call(w, op, u, rs, v)
        BY <1>3 DEF Arrive, Ops
    <2>2. [op |-> op, user |-> u, roles |-> rs, val |-> v] \in ReqType
        BY DEF ReqType
    <2>3. Error("unauthenticated") \in ReplyType
        BY Replies
    <2>4. CASE u = Nobody
        BY <1>1, <2>1, <2>2, <2>3, <2>4 DEF Call, Answer
    <2>5. CASE u # Nobody
        <3>1. touched' \in [Workers -> BOOLEAN]
            BY <1>1, <2>1, <2>5 DEF Call
        <3>2. ever' \in [Workers -> SUBSET Roles] /\ always' \in [Workers -> SUBSET Roles]
            BY <1>1, <1>2, <2>1, <2>5 DEF Call
        <3>3. req' \in [Workers -> ReqType]
            BY <1>1, <2>1, <2>2 DEF Call
        <3> QED
            BY <1>1, <2>1, <2>5, <3>1, <3>2, <3>3 DEF Call, Reads
    <2> QED
        BY <2>4, <2>5
<1>4. CASE TakeConn(w)
    BY <1>1, <1>4 DEF TakeConn
<1>5. CASE SelectUser(w)
    <2>1. /\ req[w].user \in Users
          /\ users[req[w].user] \in Profiles \cup {None}
          /\ OK(None, {}) \in ReplyType
          /\ [reply[w] EXCEPT !.profile = users[req[w].user]] \in ReplyType
        BY <1>1, <1>5, Replies DEF SelectUser, Shape, Shaped, Busy
    <2>2. reply' \in [Workers -> ReplyType]
        BY <1>1, <1>5, <2>1 DEF SelectUser, Answer
    <2> QED
        BY <1>1, <1>5, <2>2 DEF SelectUser, Release, Reads
<1>6. CASE SelectRoles(w)
    <2>1. reply[w].profile \in Profiles \cup {None}
        BY <1>1 DEF ReplyType
    <2>2. OK(reply[w].profile, RolesOf(req[w].user)) \in ReplyType
        BY <1>2, <2>1, Replies
    <2> QED
        BY <1>1, <1>6, <2>2 DEF SelectRoles, Release, Answer
<1>7. CASE Update(w)
    BY <1>1, <1>7 DEF Update
<1>8. CASE Commit(w) \/ CommitLost(w)
    <2>1. Apply(w) /\ pc[w] = "commit" /\ Shaped(w)
        BY <1>8 DEF Commit, CommitLost, Shape
    <2>2. users' \in [Users -> Profiles \cup {None}] /\ touched' \in [Workers -> BOOLEAN]
        BY <2>1, Applied
    <2>3. Error("internal") \in ReplyType
        BY Replies
    <2> QED
        BY <1>1, <1>8, <2>2, <2>3 DEF Commit, CommitLost, Release, Answer, Reads
<1>9. CASE Fail(w)
    <2>1. Error("internal") \in ReplyType
        BY Replies
    <2> QED
        BY <1>1, <1>9, <2>1 DEF Fail, Release, Answer
<1>10. CASE Reply(w)
    <2>1. NoReq \in ReqType /\ NoReply \in ReplyType
        BY Replies DEF NoReq, ReqType
    <2> QED
        BY <1>1, <1>10, <2>1 DEF Reply, Answer
<1> QED
    BY <1>3, <1>4, <1>5, <1>6, <1>7, <1>8, <1>9, <1>10 DEF Act, Step

LEMMA ShapePreserved ==
    ASSUME TypeOK, Shape, NEW w \in Workers, Act(w)
    PROVE  Shape'
<1> SUFFICES ASSUME NEW x \in Workers
             PROVE  Shaped(x)'
    BY DEF Shape
<1> USE DEF TypeOK, Goto
<1>1. Shaped(x) /\ Shaped(w)
    BY DEF Shape
<1>2. CASE x # w
    BY <1>1, <1>2, Frame DEF Shaped, Busy, Answered
<1>3. CASE x = w
    <2>1. CASE Arrive(w)
        <3>1. PICK op \in Ops, u \in Users \cup {Nobody}, rs \in Claims,
                   v \in Profiles \cup {None} :
                /\ Call(w, op, u, rs, v)
                /\ op # "GetMe" => v \in Profiles
            BY <2>1 DEF Arrive, Ops
        <3>2. CASE u = Nobody
            <4>1. pc'[w] = "reply" /\ reply'[w].code = "unauthenticated"
                BY <3>1, <3>2, Replies DEF Call, Answer
            <4> QED
                BY <1>3, <4>1 DEF Shaped, Busy, Answered
        <3>3. CASE u # Nobody
            BY <1>3, <3>1, <3>3 DEF Call, Shaped, Busy, Answered
        <3> QED
            BY <3>2, <3>3
    <2>2. CASE TakeConn(w) \/ Update(w)
        BY <1>1, <1>3, <2>2 DEF TakeConn, Update, Shaped, Busy, Answered
    <2>3. CASE SelectUser(w)
        BY <1>1, <1>3, <2>3 DEF SelectUser, Shaped, Busy, Answered
    <2>4. CASE Commit(w)
        BY <1>1, <1>3, <2>4 DEF Commit, Shaped, Busy, Answered
    <2>5. CASE SelectRoles(w)
        BY <1>1, <1>3, <2>5 DEF SelectRoles, Shaped, Busy
    <2>6. CASE CommitLost(w) \/ Fail(w)
        <3>1. pc'[w] = "reply" /\ reply'[w].code = "internal"
            BY <2>6, Replies DEF CommitLost, Fail, Answer
        <3> QED
            BY <1>3, <3>1 DEF Shaped, Busy, Answered
    <2>7. CASE Reply(w)
        BY <1>3, <2>7 DEF Reply, Shaped, Busy, Answered
    <2> QED
        BY <2>1, <2>2, <2>3, <2>4, <2>5, <2>6, <2>7 DEF Act, Step
<1> QED
    BY <1>2, <1>3

\* Taking a connection is the only step that adds one.
LEMMA ConnsPreserved ==
    ASSUME TypeOK, Conns, NEW w \in Workers, Act(w)
    PROVE  Conns'
<1> USE DEF TypeOK, Goto
<1>1. /\ pool = {x \in Workers : pc[x] \in {"exec", "commit"}}
      /\ IsFiniteSet(pool) /\ Cardinality(pool) \in Nat
      /\ others \in Nat /\ Cardinality(pool) + others <= PoolSize
    BY FS_CardinalityType, UserAssumption DEF Conns, ConnsAccounted
<1>2. \A x \in Workers \ {w} : pc'[x] = pc[x]
    BY Frame
<1>3. others' = others
    BY DEF Act, Step, Arrive, Call, TakeConn, SelectUser, SelectRoles, Update, Commit,
           CommitLost, Fail, Reply
<1>4. CASE TakeConn(w)
    <2>1. /\ Cardinality(pool) + others < PoolSize /\ pool' = pool \cup {w}
          /\ pc'[w] = "exec" /\ pc[w] = "queued"
        BY <1>4 DEF TakeConn
    <2>2. pool' = {x \in Workers : pc'[x] \in {"exec", "commit"}}
        BY <1>1, <1>2, <2>1
    <2>3. IsFiniteSet(pool') /\ Cardinality(pool') = Cardinality(pool) + 1
        BY <1>1, <2>1, FS_AddElement
    <2>4. Cardinality(pool') + others' <= PoolSize
        BY <1>1, <1>3, <2>1, <2>3, UserAssumption
    <2> QED
        BY <2>2, <2>3, <2>4 DEF Conns, ConnsAccounted
<1>5. CASE Arrive(w) \/ Update(w) \/ Reply(w)
    <2>1. pool' = pool
        BY <1>5 DEF Arrive, Call, Update, Reply
    <2>2. pc[w] \in {"exec", "commit"} <=> pc'[w] \in {"exec", "commit"}
        BY <1>5 DEF Arrive, Call, Update, Reply
    <2>3. pool' = {x \in Workers : pc'[x] \in {"exec", "commit"}}
        BY <1>1, <1>2, <2>1, <2>2
    <2> QED
        BY <1>1, <1>3, <2>1, <2>3 DEF Conns, ConnsAccounted
<1>6. CASE SelectUser(w) \/ SelectRoles(w) \/ Commit(w) \/ CommitLost(w) \/ Fail(w)
    <2>1. pool' = pool \ {w}
        BY <1>6 DEF SelectUser, SelectRoles, Commit, CommitLost, Fail, Release
    <2>2. pc'[w] \notin {"exec", "commit"}
        BY <1>6 DEF SelectUser, SelectRoles, Commit, CommitLost, Fail
    <2>3. pool' = {x \in Workers : pc'[x] \in {"exec", "commit"}}
        BY <1>1, <1>2, <2>1, <2>2
    <2>4. IsFiniteSet(pool') /\ Cardinality(pool') <= Cardinality(pool)
        <3>1. /\ IsFiniteSet(pool \ {w})
              /\ Cardinality(pool \ {w}) =
                    IF w \in pool THEN Cardinality(pool) - 1 ELSE Cardinality(pool)
            BY <1>1, FS_RemoveElement
        <3>2. Cardinality(pool \ {w}) <= Cardinality(pool)
            BY <1>1, <3>1
        <3> QED
            BY <2>1, <3>1, <3>2
    <2>5. Cardinality(pool') \in Nat
        BY <2>4, FS_CardinalityType
    <2>6. Cardinality(pool') + others' <= PoolSize
        BY <1>1, <1>3, <2>4, <2>5, UserAssumption
    <2> QED
        BY <2>3, <2>4, <2>6 DEF Conns, ConnsAccounted
<1> QED
    BY <1>4, <1>5, <1>6 DEF Act, Step

\* A step of w does not change the roles of the account of anybody.
LEMMA TruthPreserved ==
    ASSUME TypeOK, Shape, Truth, NEW w \in Workers, Act(w)
    PROVE  Truth'
<1> SUFFICES ASSUME NEW x \in Workers
             PROVE  RolesOk(x)'
    BY DEF Truth
<1> USE DEF TypeOK, Goto, history
<1>1. RolesOk(x) /\ RolesOk(w) /\ Shaped(w) /\ Shaped(x)
    BY DEF Truth, Shape
<1>2. granted' = granted
    BY RowsChange
<1>3. \A u : RolesOf(u)' = RolesOf(u)
    BY <1>2 DEF RolesOf
<1>4. CASE x # w
    BY <1>1, <1>3, <1>4, Frame DEF RolesOk, Busy, Answered
<1>5. CASE x = w
    <2>1. CASE Arrive(w)
        <3>1. PICK op \in Ops, u \in Users \cup {Nobody}, rs \in Claims,
                   v \in Profiles \cup {None} : Call(w, op, u, rs, v)
            BY <2>1 DEF Arrive, Ops
        <3>2. CASE u = Nobody
            <4>1. pc'[w] = "reply" /\ reply'[w].code = "unauthenticated"
                BY <3>1, <3>2, Replies DEF Call, Answer
            <4> QED
                BY <1>5, <4>1 DEF RolesOk, Busy, Answered
        <3>3. CASE u # Nobody
            <4>1. /\ pc'[w] = "queued" /\ req'[w].user = u
                  /\ ever'[w] = RolesOf(u) /\ always'[w] = RolesOf(u)
                BY <3>1, <3>3 DEF Call
            <4> QED
                BY <1>3, <1>5, <4>1 DEF RolesOk, Busy, Answered
        <3> QED
            BY <3>2, <3>3
    <2>2. CASE TakeConn(w) \/ Update(w)
        <3>1. /\ Busy(w) /\ Busy(w)' /\ req' = req
              /\ ever' = ever /\ always' = always
            BY <2>2 DEF TakeConn, Update, Busy
        <3> QED
            BY <1>1, <1>3, <1>5, <3>1 DEF RolesOk, Busy, Answered
    <2>3. CASE SelectUser(w)
        <3>1. Busy(w) /\ req' = req /\ ever' = ever /\ always' = always
            BY <2>3 DEF SelectUser, Busy
        <3>2. CASE users[req[w].user] = None
            <4>1. pc'[w] = "reply" /\ reply'[w] = OK(None, {})
                BY <2>3, <3>2 DEF SelectUser, Answer
            <4> QED
                BY <1>5, <4>1 DEF RolesOk, Busy, Answered, OK
        <3>3. CASE users[req[w].user] # None
            <4>1. pc'[w] = "queued"
                BY <2>3, <3>3 DEF SelectUser
            <4> QED
                BY <1>1, <1>3, <1>5, <3>1, <4>1 DEF RolesOk, Busy, Answered
        <3> QED
            BY <3>2, <3>3
    <2>4. CASE SelectRoles(w)
        <3>1. /\ Busy(w) /\ pc'[w] = "reply" /\ ever' = ever /\ always' = always
              /\ reply'[w] = OK(reply[w].profile, RolesOf(req[w].user))
            BY <2>4 DEF SelectRoles, Busy, Answer
        <3>2. reply'[w].roles = RolesOf(req[w].user)
            BY <3>1 DEF OK
        <3> QED
            BY <1>1, <1>5, <3>1, <3>2 DEF RolesOk, Busy, Answered
    <2>5. CASE Commit(w)
        <3>1. /\ Busy(w) /\ pc'[w] = "queued" /\ req' = req
              /\ ever' = ever /\ always' = always
            BY <2>5 DEF Commit, Busy
        <3> QED
            BY <1>1, <1>3, <1>5, <3>1 DEF RolesOk, Busy, Answered
    <2>6. CASE CommitLost(w) \/ Fail(w)
        <3>1. pc'[w] = "reply" /\ reply'[w].code = "internal"
            BY <2>6, Replies DEF CommitLost, Fail, Answer
        <3> QED
            BY <1>5, <3>1 DEF RolesOk, Busy, Answered
    <2>7. CASE Reply(w)
        <3>1. pc'[w] = "idle"
            BY <2>7 DEF Reply
        <3> QED
            BY <1>5, <3>1 DEF RolesOk, Busy, Answered
    <2> QED
        BY <2>1, <2>2, <2>3, <2>4, <2>5, <2>6, <2>7 DEF Act, Step
<1> QED
    BY <1>4, <1>5

\* A commit changes the row under whoever else reports it, and says so.
LEMMA ProfilePreserved ==
    ASSUME TypeOK, Shape, Profile, NEW w \in Workers, Act(w)
    PROVE  Profile'
<1> SUFFICES ASSUME NEW x \in Workers, ~touched'[x]
             PROVE  ProfileOk(x)'
    BY DEF Profile, ProfileOk
<1> USE DEF TypeOK, Goto, account, history
<1>1. ProfileOk(x) /\ ProfileOk(w) /\ Shaped(w) /\ Shaped(x)
    BY DEF Profile, Shape
<1>2. CASE x # w
    <2>1. /\ pc'[x] = pc[x] /\ req'[x] = req[x] /\ stmt'[x] = stmt[x] /\ reply'[x] = reply[x]
        BY <1>2, Frame
    <2>2. CASE users' = users /\ touched'[x] = touched[x]
        BY <1>1, <2>1, <2>2 DEF ProfileOk, Busy, Answered
    <2>3. CASE (Commit(w) \/ CommitLost(w)) /\ Apply(w)
        <3>1. /\ ~touched[x]
              /\ req[x].user \in Users => users'[req[x].user] = users[req[x].user]
            BY <1>1, <1>2, <2>3, Applied DEF Commit, CommitLost
        <3> QED
            BY <1>1, <2>1, <3>1 DEF ProfileOk, Shaped, Busy, Answered
    <2> QED
        BY <1>2, <2>2, <2>3, RowsChange
<1>3. CASE x = w
    <2>1. CASE Arrive(w)
        <3>1. PICK op \in Ops, u \in Users \cup {Nobody}, rs \in Claims,
                   v \in Profiles \cup {None} : Call(w, op, u, rs, v)
            BY <2>1 DEF Arrive, Ops
        <3>2. CASE u = Nobody
            <4>1. pc'[w] = "reply" /\ reply'[w].code = "unauthenticated"
                BY <3>1, <3>2, Replies DEF Call, Answer
            <4> QED
                BY <1>3, <4>1 DEF ProfileOk, Busy, Answered
        <3>3. CASE u # Nobody
            <4>1. /\ pc'[w] = "queued" /\ req'[w].op = op
                  /\ stmt'[w] = IF op = "GetMe" THEN "user" ELSE "update"
                BY <3>1, <3>3 DEF Call
            <4> QED
                BY <1>3, <4>1 DEF ProfileOk, Busy, Answered
        <3> QED
            BY <3>2, <3>3
    <2>2. CASE TakeConn(w) \/ Update(w)
        BY <1>1, <1>3, <2>2 DEF TakeConn, Update, ProfileOk, Busy, Answered
    <2>3. CASE SelectUser(w)
        <3>1. /\ Busy(w) /\ stmt[w] = "user" /\ req' = req /\ users' = users
              /\ ~touched[w]
            BY <1>3, <2>3 DEF SelectUser, Busy
        <3>2. CASE users[req[w].user] = None
            <4>1. pc'[w] = "reply" /\ reply'[w].profile = None
                BY <2>3, <3>2 DEF SelectUser, Answer, OK
            <4> QED
                BY <1>3, <3>1, <3>2, <4>1 DEF ProfileOk, Busy, Answered
        <3>3. CASE users[req[w].user] # None
            <4>1. pc'[w] = "queued" /\ stmt'[w] = "roles"
                BY <2>3, <3>3 DEF SelectUser
            <4>2. reply'[w].profile = users[req[w].user]
                BY <2>3, <3>3 DEF SelectUser
            <4> QED
                BY <1>1, <1>3, <3>1, <4>1, <4>2 DEF ProfileOk, Busy, Answered
        <3> QED
            BY <3>2, <3>3
    <2>4. CASE SelectRoles(w)
        <3>1. /\ Busy(w) /\ stmt[w] = "roles" /\ pc'[w] = "reply" /\ req' = req
              /\ users' = users /\ ~touched[w] /\ reply'[w].profile = reply[w].profile
            BY <1>3, <2>4 DEF SelectRoles, Busy, Answer, OK
        <3> QED
            BY <1>1, <1>3, <3>1 DEF ProfileOk, Busy, Answered
    <2>5. CASE Commit(w)
        <3>1. users'[req[w].user] \in {req[w].val, None}
            BY <1>1, <2>5, Applied DEF Commit
        <3>2. pc'[w] = "queued" /\ stmt'[w] = "user" /\ req' = req
            BY <2>5 DEF Commit
        <3> QED
            BY <1>3, <3>1, <3>2 DEF ProfileOk, Busy, Answered
    <2>6. CASE CommitLost(w) \/ Fail(w)
        <3>1. pc'[w] = "reply" /\ reply'[w].code = "internal"
            BY <2>6, Replies DEF CommitLost, Fail, Answer
        <3> QED
            BY <1>3, <3>1 DEF ProfileOk, Busy, Answered
    <2>7. CASE Reply(w)
        <3>1. pc'[w] = "idle"
            BY <2>7 DEF Reply
        <3> QED
            BY <1>3, <3>1 DEF ProfileOk, Busy, Answered
    <2> QED
        BY <2>1, <2>2, <2>3, <2>4, <2>5, <2>6, <2>7 DEF Act, Step
<1> QED
    BY <1>2, <1>3

\* A commit neither makes a row nor deletes one.
LEMMA GrantedPreserved ==
    ASSUME TypeOK, Shape, Granted, NEW w \in Workers, Act(w)
    PROVE  /\ Granted'
           /\ \A u \in Users : users[u] = None => users'[u] = None
<1>1. granted' = granted /\ granted \subseteq Users \X Roles
    BY RowsChange DEF TypeOK
<1>2. \A u \in Users : users'[u] = None <=> users[u] = None
    <2>1. CASE (Commit(w) \/ CommitLost(w)) /\ Apply(w)
        BY <2>1, Applied DEF Commit, CommitLost, Goto, Shape
    <2> QED
        BY <2>1, RowsChange
<1>3. \A g \in granted : g[1] \in Users
    BY <1>1
<1> QED
    BY <1>1, <1>2, <1>3 DEF Granted

------------------------------------------------------------------------------
\* Roles that change by a grant or a revocation, or go with the account.
LEMMA RegrantPreserves ==
    ASSUME IInv, NEW g, g \subseteq Users \X Roles, Regrant(g),
           UNCHANGED <<pc, req, stmt, reply>>
    PROVE  /\ Truth'
           /\ granted' \subseteq Users \X Roles
           /\ ever' \in [Workers -> SUBSET Roles] /\ always' \in [Workers -> SUBSET Roles]
<1> USE DEF IInv, TypeOK, Regrant
<1>1. \A w \in Workers :
        /\ ever'[w] = ever[w] \cup RolesOf(req[w].user)'
        /\ always'[w] = always[w] \cap RolesOf(req[w].user)'
    BY DEF RolesOf
<1>2. ASSUME NEW w \in Workers
      PROVE  RolesOk(w)'
    <2>1. RolesOk(w)
        BY DEF Truth
    <2> QED
        BY <1>1, <2>1 DEF RolesOk, Busy, Answered
<1> QED
    BY <1>2 DEF Truth

\* What happens besides the requests.
LEMMA OutsidePreserves ==
    ASSUME IInv, Outside
    PROVE  IInv' /\ \A u \in Users : users[u] = None => users'[u] = None
<1> USE DEF IInv
<1>1. CASE OtherTakes \/ OtherGives
    <2>1. /\ UNCHANGED <<users, granted, pool, pc, req, stmt, reply, touched, ever, always>>
        BY <1>1 DEF OtherTakes, OtherGives, account, history
    <2>2. others' \in 0..PoolSize /\ Cardinality(pool) + others' <= PoolSize
        <3>1. IsFiniteSet(pool) /\ Cardinality(pool) \in Nat
            BY FS_CardinalityType DEF Conns
        <3> QED
            BY <1>1, <3>1, UserAssumption
            DEF OtherTakes, OtherGives, TypeOK, Conns, ConnsAccounted
    <2>3. TypeOK' /\ Shape' /\ Granted'
        BY <2>1, <2>2 DEF TypeOK, Shape, Shaped, Busy, Answered, Granted
    <2>4. Conns'
        BY <2>1, <2>2 DEF Conns, ConnsAccounted
    <2>5. Truth' /\ Profile'
        BY <2>1 DEF Truth, RolesOk, RolesOf, Profile, ProfileOk, Busy, Answered
    <2> QED
        BY <2>1, <2>3, <2>4, <2>5
<1>2. ASSUME NEW u \in Users, NEW r \in Roles, Grant(u, r) \/ Revoke(u, r)
      PROVE  IInv' /\ \A v \in Users : users[v] = None => users'[v] = None
    <2>1. UNCHANGED <<users, pool, others, pc, req, stmt, reply, touched>>
        BY <1>2 DEF Grant, Revoke
    <2>2. PICK g \in SUBSET (Users \X Roles) :
            Regrant(g) /\ \A e \in g : e \in granted \/ (e[1] = u /\ users[u] # None)
        <3>1. CASE Grant(u, r)
            BY <3>1 DEF Grant, TypeOK
        <3>2. CASE Revoke(u, r)
            BY <3>2 DEF Revoke, TypeOK
        <3> QED
            BY <1>2, <3>1, <3>2
    <2>3. /\ Truth' /\ granted' \subseteq Users \X Roles
          /\ ever' \in [Workers -> SUBSET Roles] /\ always' \in [Workers -> SUBSET Roles]
        BY <2>1, <2>2, RegrantPreserves
    <2>4. TypeOK' /\ Shape' /\ Conns'
        BY <2>1, <2>3 DEF TypeOK, Shape, Shaped, Busy, Answered, Conns, ConnsAccounted
    <2>5. Granted'
        BY <2>1, <2>2 DEF Granted, Regrant
    <2>6. Profile'
        BY <2>1 DEF Profile, ProfileOk, Busy, Answered
    <2> QED
        BY <2>1, <2>3, <2>4, <2>5, <2>6
<1>3. ASSUME NEW u \in Users, Erase(u)
      PROVE  IInv' /\ \A v \in Users : users[v] = None => users'[v] = None
    <2> DEFINE left == {g \in granted : g[1] # u}
    <2>1. /\ UNCHANGED <<pool, others, pc, req, stmt, reply>>
          /\ Change(u, None, Nobody) /\ Regrant(left)
        BY <1>3 DEF Erase
    <2>2. left \subseteq Users \X Roles
        BY DEF TypeOK
    <2>3. granted' = left
        BY <2>1 DEF Regrant
    <2> HIDE DEF left
    <2>4. /\ Truth' /\ granted' \subseteq Users \X Roles
          /\ ever' \in [Workers -> SUBSET Roles] /\ always' \in [Workers -> SUBSET Roles]
        BY <2>1, <2>2, RegrantPreserves
    <2>5. /\ users' = [users EXCEPT ![u] = None]
          /\ touched' = [x \in Workers |-> touched[x] \/ (req[x].user = u /\ users[u] # None)]
        BY <2>1, UserAssumption DEF Change
    <2>6. /\ users' \in [Users -> Profiles \cup {None}]
          /\ touched' \in [Workers -> BOOLEAN]
          /\ \A v \in Users : v # u => users'[v] = users[v]
          /\ users'[u] = None
        BY <2>5 DEF TypeOK
    <2>7. TypeOK' /\ Shape' /\ Conns'
        BY <2>1, <2>4, <2>6 DEF TypeOK, Shape, Shaped, Busy, Answered, Conns, ConnsAccounted
    <2>8. Granted'
        <3>1. \A g \in left : g \in granted /\ g[1] # u /\ g[1] \in Users
            BY <2>2 DEF left
        <3> QED
            BY <2>3, <2>6, <3>1 DEF Granted
    <2>9. ASSUME NEW w \in Workers, ~touched'[w]
          PROVE  ProfileOk(w)'
        <3>1. ~touched[w] /\ (req[w].user = u => users[u] = None)
            BY <2>5, <2>9
        <3>2. Busy(w) \/ Answered(w) => users'[req[w].user] = users[req[w].user]
            BY <2>6, <3>1 DEF Shape, Shaped
        <3> QED
            BY <2>1, <3>1, <3>2 DEF Profile, ProfileOk, Busy, Answered
    <2> QED
        BY <2>4, <2>6, <2>7, <2>8, <2>9 DEF Profile, ProfileOk
<1> QED
    BY <1>1, <1>2, <1>3 DEF Outside

LEMMA InvInit == Init => IInv
<1> SUFFICES ASSUME Init
             PROVE  IInv
    OBVIOUS
<1> USE UserAssumption DEF Init
<1>1. TypeOK
    <2>1. NoReq \in ReqType /\ NoReply \in ReplyType
        BY Replies DEF NoReq, ReqType
    <2>2. granted \subseteq Users \X Roles /\ users \in [Users -> Profiles \cup {None}]
        OBVIOUS
    <2> QED
        BY <2>1, <2>2 DEF TypeOK, ReqType, ReplyType, Reads
<1>2. Shape
    BY DEF Shape, Shaped, Busy, Answered
<1>3. Conns
    <2>1. IsFiniteSet(pool) /\ Cardinality(pool) = 0
        BY FS_EmptySet
    <2> QED
        BY <2>1 DEF Conns, ConnsAccounted
<1>4. Granted
    BY DEF Granted
<1>5. Truth /\ Profile
    BY DEF Truth, RolesOk, Profile, ProfileOk, Busy, Answered
<1> QED
    BY <1>1, <1>2, <1>3, <1>4, <1>5 DEF IInv

LEMMA InvPreserved ==
    ASSUME IInv, [Next]_vars
    PROVE  IInv' /\ \A u \in Users : users[u] = None => users'[u] = None
<1>1. CASE \E w \in Workers : Act(w)
    <2>1. PICK w \in Workers : Act(w)
        BY <1>1
    <2>2. TypeOK' /\ Shape' /\ Conns'
        BY <2>1, TypesPreserved, ShapePreserved, ConnsPreserved DEF IInv
    <2>3. Granted' /\ Truth' /\ Profile'
        BY <2>1, GrantedPreserved, TruthPreserved, ProfilePreserved DEF IInv
    <2>4. \A u \in Users : users[u] = None => users'[u] = None
        BY <2>1, GrantedPreserved DEF IInv
    <2> QED
        BY <2>2, <2>3, <2>4 DEF IInv
<1>2. CASE UNCHANGED vars
    <2> USE <1>2 DEF IInv, vars, account, history
    <2>1. TypeOK' /\ Shape' /\ Conns' /\ Granted'
        BY DEF TypeOK, Shape, Shaped, Busy, Answered, Conns, ConnsAccounted, Granted
    <2>2. Truth' /\ Profile'
        BY DEF Truth, RolesOk, RolesOf, Profile, ProfileOk, Busy, Answered
    <2> QED
        BY <2>1, <2>2
<1>3. CASE Outside
    BY <1>3, OutsidePreserves
<1> QED
    BY <1>1, <1>2, <1>3 DEF Next, Act

\* The inductive invariant holds in every reachable state.
THEOREM Invariance == Spec => []IInv
<1>1. IInv /\ [Next]_vars => IInv'
    BY InvPreserved
<1> QED
    BY InvInit, <1>1, PTL DEF Spec

(* The variables keep their types.                                           *)
THEOREM TypeCorrect == Spec => []TypeOK
<1>1. IInv => TypeOK
    BY DEF IInv
<1> QED
    BY <1>1, Invariance, PTL

(* A worker holds a connection exactly while a statement of its runs, and no *)
(* more are open than the pool has, with those of the other services.        *)
THEOREM ConnectionsAreAccounted == Spec => []ConnsAccounted
<1>1. IInv => ConnsAccounted
    BY DEF IInv, Conns
<1> QED
    BY <1>1, Invariance, PTL

(* The roles GetMe and UpdateMyProfile report are roles of the account during *)
(* the call, and all those it had throughout (FindByID, loadRoles).           *)
THEOREM RolesAreOfTheCall == Spec => []RolesDuringCall
<1>1. IInv => RolesDuringCall
    BY DEF IInv, Truth, RolesOk, RolesDuringCall
<1> QED
    BY <1>1, Invariance, PTL

(* The profile they report is the row's, and after an update the one sent,   *)
(* unless somebody else changed it (UpdateProfile, FindByID).                *)
THEOREM ProfilesAreCurrent == Spec => []ProfileCurrent
<1>1. IInv => ProfileCurrent
    BY DEF IInv, Profile, ProfileOk, ProfileCurrent
<1> QED
    BY <1>1, Invariance, PTL

(* An erased account does not come back, and has no roles (Updates, and the  *)
(* foreign key of user_roles).                                               *)
THEOREM ErasedStayErased == Spec => ErasedForGood
<1>1. IInv /\ [Next]_vars =>
        [/\ \A u \in Users : users[u] = None => users'[u] = None
         /\ \A g \in granted' : users'[g[1]] # None]_vars
    BY InvPreserved DEF IInv, Granted
<1> QED
    BY <1>1, Invariance, PTL DEF Spec, ErasedForGood
==============================================================================
