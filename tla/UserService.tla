------------------------------ MODULE UserService ------------------------------
(***************************************************************************)
(* UserService: GetMe and UpdateMyProfile, statement by statement, while   *)
(* the accounts behind them are administered: nothing in the repository    *)
(* grants a role or removes an account, so whatever does works on the      *)
(* database at the same time.                                              *)
(*                                                                         *)
(* The caller is whom the auth interceptor named.  GetMe reads the row of  *)
(* users, then, in a second statement, the roles; UpdateMyProfile commits  *)
(* its UPDATE first and then does what GetMe does.  Each statement takes a *)
(* connection of its own, from the pool the other services also use.       *)
(*                                                                         *)
(*   idle -> queued -> exec [-> commit] -> queued -> ... -> reply          *)
(***************************************************************************)
EXTENDS Integers, FiniteSets

CONSTANTS
    Workers,    \* goroutines serving the RPCs of UserService
    Users,      \* ids of accounts
    Removed,    \* accounts with a deleted_at, or a status that is not active:
                \* no statement of the program reads or writes these columns
    Nobody,     \* no principal in the context, or one without a user id
    Roles,
    Claims,     \* sets of roles a token may claim
    Profiles,   \* a display name and a picture
    TooLong,    \* those the columns of users do not hold
    None,       \* no row
    PoolSize    \* SetMaxOpenConns

ASSUME UserAssumption ==
    /\ Nobody \notin Users \cup Workers
    /\ Removed \subseteq Users
    /\ Claims \subseteq SUBSET Roles
    /\ TooLong \subseteq Profiles
    /\ None \notin Profiles
    /\ PoolSize \in Nat \ {0}

Ops == {"GetMe", "UpdateMyProfile"}
Reads == {"user", "roles"}

VARIABLES
    users,     \* users[u]: the profile in the row of u, or None
    granted,   \* user_roles, by the name of the role
    pool,      \* the workers that hold a connection
    others,    \* connections the RPCs of other services hold
    pc,        \* pc[w]: where w is
    req,       \* req[w]: the operation, the principal and the profile sent
    stmt,      \* stmt[w]: the statement w waits to run or runs
    reply,     \* reply[w]: connect code and the User of the response, whose
               \* profile is there once FindByID has read it
    touched,   \* history: another commit changed the row w reports, since w was
               \* called or made its own write
    ever,      \* history: the roles the caller has had at some moment of the call
    always     \* history: the roles the caller has had all through the call

account == <<users, granted>>
history == <<touched, ever, always>>
vars == <<account, pool, others, pc, req, stmt, reply, history>>

NoReq == [op |-> "none", user |-> Nobody, roles |-> {}, val |-> None]
NoReply == [code |-> "none", profile |-> None, roles |-> {}]
Error(code) == [NoReply EXCEPT !.code = code]
\* toProtoUser: nil when there is no row.
OK(profile, roles) == [code |-> "ok", profile |-> profile, roles |-> roles]

RolesOf(u) == {r \in Roles : <<u, r>> \in granted}

\* InnoDB: the row is locked by an UPDATE whose transaction is open.
Locked(u) == \E w \in Workers : pc[w] = "commit" /\ req[w].user = u

------------------------------------------------------------------------------
\* Any accounts, with any roles.
Init ==
    /\ users \in [Users -> (Profiles \ TooLong) \cup {None}]
    /\ granted \in SUBSET ({u \in Users : users[u] # None} \X Roles)
    /\ pool = {}
    /\ others = 0
    /\ pc = [w \in Workers |-> "idle"]
    /\ req = [w \in Workers |-> NoReq]
    /\ stmt = [w \in Workers |-> "none"]
    /\ reply = [w \in Workers |-> NoReply]
    /\ touched = [w \in Workers |-> FALSE]
    /\ ever = [w \in Workers |-> {}]
    /\ always = [w \in Workers |-> {}]

Goto(w, from, to) == pc[w] = from /\ pc' = [pc EXCEPT ![w] = to]

Release(w) == pool' = pool \ {w}

Answer(w, r) == reply' = [reply EXCEPT ![w] = r]

\* An RPC whose principal is u; its token claims the roles rs.
Call(w, op, u, rs, v) ==
    /\ pc[w] = "idle"
    /\ req' = [req EXCEPT ![w] = [op |-> op, user |-> u, roles |-> rs, val |-> v]]
    /\ IF u = Nobody
       THEN /\ pc' = [pc EXCEPT ![w] = "reply"]
            /\ Answer(w, Error("unauthenticated"))
            /\ UNCHANGED <<stmt, history>>
       ELSE /\ pc' = [pc EXCEPT ![w] = "queued"]
            /\ stmt' = [stmt EXCEPT ![w] = IF op = "GetMe" THEN "user" ELSE "update"]
            /\ touched' = [touched EXCEPT ![w] = FALSE]
            /\ ever' = [ever EXCEPT ![w] = RolesOf(u)]
            /\ always' = [always EXCEPT ![w] = RolesOf(u)]
            /\ UNCHANGED reply
    /\ UNCHANGED <<account, pool, others>>

Arrive(w) ==
    \E u \in Users \cup {Nobody}, rs \in Claims :
        \/ Call(w, "GetMe", u, rs, None)
        \/ \E v \in Profiles : Call(w, "UpdateMyProfile", u, rs, v)

TakeConn(w) ==
    /\ Goto(w, "queued", "exec")
    /\ Cardinality(pool) + others < PoolSize
    /\ pool' = pool \cup {w}
    /\ UNCHANGED <<account, others, req, stmt, reply, history>>

\* Mistake: the connection is kept for the next statement, which is also run
\* over the pool and waits for another one.
SelectUserHolding(w) ==
    /\ pc[w] = "exec" /\ stmt[w] = "user"
    /\ IF users[req[w].user] = None
       THEN /\ Goto(w, "exec", "reply")
            /\ Answer(w, OK(None, {}))
            /\ Release(w)
            /\ UNCHANGED stmt
       ELSE /\ Goto(w, "exec", "queued")
            /\ stmt' = [stmt EXCEPT ![w] = "roles"]
            /\ reply' = [reply EXCEPT ![w].profile = users[req[w].user]]
            /\ UNCHANGED pool
    /\ UNCHANGED <<account, others, req, history>>

\* FindByID: First(&u, id); no row is answered at once, with a nil user.
SelectUser(w) ==
    /\ pc[w] = "exec" /\ stmt[w] = "user"
    /\ Release(w)
    /\ IF users[req[w].user] = None
       THEN /\ Goto(w, "exec", "reply")
            /\ Answer(w, OK(None, {}))
            /\ UNCHANGED stmt
       ELSE /\ Goto(w, "exec", "queued")
            /\ stmt' = [stmt EXCEPT ![w] = "roles"]
            /\ reply' = [reply EXCEPT ![w].profile = users[req[w].user]]
    /\ UNCHANGED <<account, others, req, history>>

\* Mistake: the roles are those the token claims.
SelectRolesOfToken(w) ==
    /\ Goto(w, "exec", "reply")
    /\ stmt[w] = "roles"
    /\ Answer(w, OK(reply[w].profile, req[w].roles))
    /\ Release(w)
    /\ UNCHANGED <<account, others, req, stmt, history>>

\* Mistake: LEFT JOIN, which gives whoever has no role a row without a name.
SelectRolesLeftJoin(w) ==
    /\ Goto(w, "exec", "reply")
    /\ stmt[w] = "roles"
    /\ Answer(w, OK(reply[w].profile,
                    IF RolesOf(req[w].user) = {} THEN {None} ELSE RolesOf(req[w].user)))
    /\ Release(w)
    /\ UNCHANGED <<account, others, req, stmt, history>>

\* FindByID: loadRoles, then the entity.
SelectRoles(w) ==
    /\ Goto(w, "exec", "reply")
    /\ stmt[w] = "roles"
    /\ Answer(w, OK(reply[w].profile, RolesOf(req[w].user)))
    /\ Release(w)
    /\ UNCHANGED <<account, others, req, stmt, history>>

\* UPDATE users ... WHERE id = u, once the row's lock is free.
Update(w) ==
    /\ Goto(w, "exec", "commit")
    /\ stmt[w] = "update"
    /\ ~Locked(req[w].user)
    /\ users[req[w].user] # None => req[w].val \notin TooLong
    /\ UNCHANGED <<account, pool, others, req, stmt, reply, history>>

\* The row of u becomes p (None: it is deleted); self is the worker who wrote.
Change(u, p, self) ==
    /\ users' = [users EXCEPT ![u] = p]
    /\ touched' = [x \in Workers |->
                    IF x = self THEN FALSE
                    ELSE touched[x] \/ (req[x].user = u /\ users[u] # p)]

\* Mistake: Save instead of Updates, which inserts the row it does not find.
ApplyUpsert(w) == Change(req[w].user, req[w].val, w)

\* COMMIT takes effect in the database; no row matches an account that is not there.
Apply(w) ==
    LET u == req[w].user
    IN  Change(u, IF users[u] = None THEN None ELSE req[w].val, w)

\* Mistake: UpdateProfile answers with its input.
CommitEcho(w) ==
    /\ Goto(w, "commit", "reply")
    /\ Apply(w)
    /\ Release(w)
    /\ Answer(w, OK(req[w].val, RolesOf(req[w].user)))
    /\ UNCHANGED <<granted, others, req, stmt, ever, always>>

\* UpdateProfile goes on to FindByID.
Commit(w) ==
    /\ Goto(w, "commit", "queued")
    /\ Apply(w)
    /\ Release(w)
    /\ stmt' = [stmt EXCEPT ![w] = "user"]
    /\ UNCHANGED <<granted, others, req, reply, ever, always>>

\* COMMIT took effect but its acknowledgement was lost: the error is reported.
CommitLost(w) ==
    /\ Goto(w, "commit", "reply")
    /\ Apply(w)
    /\ Release(w)
    /\ Answer(w, Error("internal"))
    /\ UNCHANGED <<granted, others, req, stmt, ever, always>>

\* Mistake: the connection of a failed statement is not given back.
FailLeaking(w) ==
    /\ \E at \in {"queued", "exec", "commit"} : Goto(w, at, "reply")
    /\ Answer(w, Error("internal"))
    /\ UNCHANGED <<account, pool, others, req, stmt, history>>

\* The context ends, the connection breaks, the lock wait times out or the
\* statement is refused.
Fail(w) ==
    /\ \E at \in {"queued", "exec", "commit"} : Goto(w, at, "reply")
    /\ Answer(w, Error("internal"))
    /\ Release(w)
    /\ UNCHANGED <<account, others, req, stmt, history>>

Reply(w) ==
    /\ Goto(w, "reply", "idle")
    /\ req' = [req EXCEPT ![w] = NoReq]
    /\ stmt' = [stmt EXCEPT ![w] = "none"]
    /\ Answer(w, NoReply)
    /\ touched' = [touched EXCEPT ![w] = FALSE]
    /\ ever' = [ever EXCEPT ![w] = {}]
    /\ always' = [always EXCEPT ![w] = {}]
    /\ UNCHANGED <<account, pool, others>>

Step(w) ==
    \/ TakeConn(w) \/ SelectUser(w) \/ SelectRoles(w)
    \/ Update(w) \/ Commit(w) \/ CommitLost(w) \/ Fail(w)

------------------------------------------------------------------------------
(* What the other services and the administration of accounts do.          *)

OtherTakes ==
    /\ Cardinality(pool) + others < PoolSize
    /\ others' = others + 1
    /\ UNCHANGED <<account, pool, pc, req, stmt, reply, history>>

OtherGives ==
    /\ others > 0
    /\ others' = others - 1
    /\ UNCHANGED <<account, pool, pc, req, stmt, reply, history>>

\* The roles become g; whoever reports them has had them now, or not always.
Regrant(g) ==
    /\ granted' = g
    /\ ever' = [w \in Workers |->
                    ever[w] \cup {r \in Roles : <<req[w].user, r>> \in g}]
    /\ always' = [w \in Workers |->
                    {r \in always[w] : <<req[w].user, r>> \in g}]

\* A grant names a row of users that no open UPDATE has locked (fk_user_roles_user).
Grant(u, r) ==
    /\ users[u] # None /\ ~Locked(u)
    /\ Regrant(granted \cup {<<u, r>>})
    /\ UNCHANGED <<users, pool, others, pc, req, stmt, reply, touched>>

Revoke(u, r) ==
    /\ <<u, r>> \in granted
    /\ Regrant(granted \ {<<u, r>>})
    /\ UNCHANGED <<users, pool, others, pc, req, stmt, reply, touched>>

\* The row is deleted, and the grants with it (ON DELETE CASCADE).
Erase(u) ==
    /\ users[u] # None /\ ~Locked(u)
    /\ Change(u, None, Nobody)
    /\ Regrant({g \in granted : g[1] # u})
    /\ UNCHANGED <<pool, others, pc, req, stmt, reply>>

Outside ==
    \/ OtherTakes \/ OtherGives
    \/ \E u \in Users, r \in Roles : Grant(u, r) \/ Revoke(u, r)
    \/ \E u \in Users : Erase(u)

Next == Outside \/ \E w \in Workers : Arrive(w) \/ Step(w) \/ Reply(w)

Spec == Init /\ [][Next]_vars

\* A profile the columns do not hold fails; it does not wait.
Refused(w) == pc[w] = "exec" /\ stmt[w] = "update" /\ req[w].val \in TooLong /\ Fail(w)

Progress(w) ==
    TakeConn(w) \/ SelectUser(w) \/ SelectRoles(w) \/ Refused(w) \/ Update(w) \/ Commit(w)

(***************************************************************************)
(* Fairness.  A statement that runs ends, and so do those of the other     *)
(* services, which keep no connection for good (SampleService).  Waiting   *)
(* requests get connections in order (database/sql) and row locks in order *)
(* (InnoDB), hence strong.  A worker stays where it is until its own step, *)
(* so that one condition per worker says this of each of its steps.        *)
(* Nothing is assumed of callers and administrators.                       *)
(***************************************************************************)
Fairness == WF_vars(OtherGives) /\ \A w \in Workers : SF_vars(Progress(w))

FairSpec == Spec /\ Fairness

------------------------------------------------------------------------------
(* Types: roles are granted to users of the program, and what is reported    *)
(* are a profile and names of roles.                                         *)
TypeOK ==
    /\ users \in [Users -> Profiles \cup {None}]
    /\ granted \subseteq Users \X Roles
    /\ pool \subseteq Workers
    /\ others \in 0..PoolSize
    /\ pc \in [Workers -> {"idle", "queued", "exec", "commit", "reply"}]
    /\ req \in [Workers -> [op : Ops \cup {"none"}, user : Users \cup {Nobody},
                            roles : Claims \cup {{}}, val : Profiles \cup {None}]]
    /\ stmt \in [Workers -> {"none", "update"} \cup Reads]
    /\ reply \in [Workers -> [code : {"none", "ok", "internal", "unauthenticated"},
                              profile : Profiles \cup {None}, roles : SUBSET Roles]]
    /\ touched \in [Workers -> BOOLEAN]
    /\ ever \in [Workers -> SUBSET Roles]
    /\ always \in [Workers -> SUBSET Roles]

Answered(w) == pc[w] = "reply" /\ reply[w].code = "ok"

(* The profile of an OK reply is the one in the caller's row, and after an   *)
(* UpdateMyProfile the one that was sent, unless another request or an       *)
(* administrator changed the row since the call or, for an update, since its *)
(* own commit.                                                               *)
ProfileCurrent ==
    \A w \in Workers : Answered(w) /\ ~touched[w] =>
        /\ reply[w].profile = users[req[w].user]
        /\ req[w].op = "UpdateMyProfile" => reply[w].profile \in {req[w].val, None}

(* The roles of an OK reply, read in a statement of their own, are roles the *)
(* account had during the call, and all those it had throughout: a role      *)
(* revoked before the call is not shown, whatever the token says, and one    *)
(* granted before it is not left out.                                        *)
RolesDuringCall ==
    \A w \in Workers : Answered(w) /\ reply[w].profile # None =>
        /\ always[w] \subseteq reply[w].roles
        /\ reply[w].roles \subseteq ever[w]

(* A worker holds a connection exactly while a statement of its runs, and    *)
(* with the other services' no more are open than the pool has.              *)
ConnsAccounted ==
    /\ pool = {w \in Workers : pc[w] \in {"exec", "commit"}}
    /\ Cardinality(pool) + others <= PoolSize

(* No role is left to an account that is not there, and no account comes     *)
(* back by an update that was under way when it was erased.                  *)
ErasedForGood ==
    [][/\ \A u \in Users : users[u] = None => users'[u] = None
       /\ \A g \in granted' : users'[g[1]] # None]_vars

(* Every RPC is answered, also when every connection is taken by the first   *)
(* statement of someone who needs a second one.                              *)
CallsAnswered == \A w \in Workers : pc[w] = "queued" ~> pc[w] = "reply"

(* An account whose deleted_at is set, or whose status is not active, is not *)
(* served.                                                                   *)
RemovedNotServed ==
    \A w \in Workers :
        Answered(w) /\ req[w].user \in Removed => reply[w].profile = None
===============================================================================
