--------------------------- MODULE AuthInterceptor ---------------------------
(***************************************************************************)
(* AuthUnaryInterceptor of internal/adapter/grpc/auth_middleware.go, in    *)
(* front of the handlers, with the clock running and the identity provider *)
(* rotating its keys under it.  The signing keys come from the key source  *)
(* (module KeySource), whose steps are steps of this module: the           *)
(* interceptor is composed with what KeyFor promises, not with how the     *)
(* JWKS cache keeps the promise.                                           *)
(*                                                                         *)
(*   idle -> enter -> done                   (refused)                     *)
(*           enter -> handle -> done         (allowlist, bypass, HS256)    *)
(*           enter -> keyfor -> claims -> handle -> done   (JWKS)          *)
(***************************************************************************)
EXTENDS Integers, Sequences

CONSTANTS
    Callers, Kids, Keys, None, Published, HitAge, FetchAge, MaxTime,
    Envs,       \* environments the process may be started with
    Requests    \* requests clients send

(* An environment: the procedures of the allowlist, DEV_AUTH_BYPASS and     *)
(* DEV_USER_ID, whether AUTH_JWKS_URL is set, AUTH_HS256_SECRET,            *)
(* AUTH_ISSUER, AUTH_AUDIENCE (None: not set), AUTH_CLOCK_SKEW.             *)
(*                                                                         *)
(* A request: its procedure; whether its Authorization header has the form  *)
(* "Bearer <token>"; and of the token, signed: the key or secret that       *)
(* verifies it; alg: "RSA" or "HMAC"; kid, iss, aud (a set), exp, nbf; and  *)
(* sub, the number in the sub claim, 0 when it is not a number.  None: the  *)
(* claim is absent.                                                        *)

ASSUME SourceAssumption ==
    /\ HitAge \in Nat /\ FetchAge \in Nat /\ MaxTime \in Nat
    /\ Published \in Seq([Kids -> Keys \cup {None}]) /\ Published # <<>>

ASSUME InputsAssumption ==
    /\ None \notin Requests
    /\ \A e \in Envs : e.devUser \in Int /\ e.skew \in Int
    /\ \A r \in Requests :
        /\ r.kid \in Kids /\ r.sub \in Int
        /\ r.exp \in Int \cup {None} /\ r.nbf \in Int \cup {None}

VARIABLES
    now, epoch, since, phase, kid, stamp, ret,
    env,        \* the environment
    pc,         \* pc[c]: where the request of c is
    rq,         \* rq[c]: the request of c
    arrived,    \* history: arrived[c]: when the request of c came in
    outcome     \* outcome[c]: who the request is served for, or why it is not

source == <<now, epoch, since, phase, kid, stamp, ret>>
vars == <<now, epoch, since, phase, kid, stamp, ret, env, pc, rq, arrived, outcome>>

KeyFor == INSTANCE KeySource

Pending == [via |-> "none", uid |-> 0]
Refused == [via |-> "unauthenticated", uid |-> 0]

Init ==
    /\ KeyFor!Init
    /\ env \in Envs
    /\ pc = [c \in Callers |-> "idle"]
    /\ rq = [c \in Callers |-> None]
    /\ arrived = [c \in Callers |-> 0]
    /\ outcome = [c \in Callers |-> Pending]

Goto(c, from, to) == pc[c] = from /\ pc' = [pc EXCEPT ![c] = to]

Outcome(c, o) == outcome' = [outcome EXCEPT ![c] = o]

\* next(ctx, req) with a principal for uid in the context.
Proceed(c, from, via, uid) ==
    /\ Goto(c, from, "handle")
    /\ Outcome(c, [via |-> via, uid |-> uid])

\* apperr.Unauthenticated, mapped to connect.CodeUnauthenticated.
Refuse(c, from) == Goto(c, from, "done") /\ Outcome(c, Refused)

Receive(c, r) ==
    /\ Goto(c, "idle", "enter")
    /\ rq' = [rq EXCEPT ![c] = r]
    /\ arrived' = [arrived EXCEPT ![c] = now]
    /\ UNCHANGED <<source, env, outcome>>

\* The first two branches: no token is looked at.
AllowListed(c) == pc[c] = "enter" /\ rq[c].proc \in env.allow

Allow(c) ==
    /\ AllowListed(c)
    /\ Proceed(c, "enter", "allowlist", 0)
    /\ UNCHANGED <<source, env, rq, arrived>>

Bypass(c) ==
    /\ pc[c] = "enter" /\ ~AllowListed(c)
    /\ env.bypass
    /\ Proceed(c, "enter", "bypass", env.devUser)
    /\ UNCHANGED <<source, env, rq, arrived>>

NeedsToken(c) == pc[c] = "enter" /\ ~AllowListed(c) /\ ~env.bypass

\* golang-jwt's own validation of exp and nbf, which the code calls without
\* jwt.WithLeeway: the clock is compared as it is.
Timely(t) ==
    /\ t.exp # None => now < t.exp
    /\ t.nbf # None => now >= t.nbf

\* verifyStandardClaims.
StandardClaims(t) ==
    /\ env.iss # None => t.iss = env.iss
    /\ env.aud # None /\ t.aud # None => env.aud \in t.aud
    /\ t.exp # None => now <= t.exp + env.skew
    /\ t.nbf # None => now >= t.nbf - env.skew

\* withJWTFromHeader: the header, then jwt.Parse, which calls the keyfunc.
AskKey(c) ==
    /\ NeedsToken(c)
    /\ env.jwks
    /\ rq[c].bearer
    /\ Goto(c, "enter", "keyfor")
    /\ KeyFor!Ask(c, rq[c].kid)
    /\ UNCHANGED <<env, rq, arrived, outcome>>

\* Mistake: ParseUnverified, which does not look at the signature.
ParseUnverified(c) ==
    /\ pc[c] = "keyfor" /\ phase[c] = "done"
    /\ KeyFor!Return(c)
    /\ IF Timely(rq[c])
       THEN Goto(c, "keyfor", "claims") /\ UNCHANGED outcome
       ELSE Refuse(c, "keyfor")
    /\ UNCHANGED <<env, rq, arrived>>

\* Mistake: an unknown key is asked for again until it is there.
ParseRetrying(c) ==
    /\ pc[c] = "keyfor" /\ phase[c] = "done"
    /\ KeyFor!Return(c)
    /\ IF ret[c].key = None
       THEN Goto(c, "keyfor", "enter") /\ UNCHANGED outcome
       ELSE Refuse(c, "keyfor")
    /\ UNCHANGED <<env, rq, arrived>>

\* Mistake: the answer is used before KeyFor has returned.
ParseEarly(c) ==
    /\ pc[c] = "keyfor" /\ phase[c] = "done"
    /\ IF ret[c].key # None /\ rq[c].signed = ret[c].key
       THEN Goto(c, "keyfor", "claims") /\ UNCHANGED outcome
       ELSE Refuse(c, "keyfor")
    /\ UNCHANGED <<source, env, rq, arrived>>

\* The keyfunc has returned; jwt.Parse verifies signature and times.
ParseJwks(c) ==
    /\ pc[c] = "keyfor" /\ phase[c] = "done"
    /\ KeyFor!Return(c)
    /\ IF /\ ret[c].key # None
          /\ rq[c].alg = "RSA" /\ rq[c].signed = ret[c].key
          /\ Timely(rq[c])
       THEN Goto(c, "keyfor", "claims") /\ UNCHANGED outcome
       ELSE Refuse(c, "keyfor")
    /\ UNCHANGED <<env, rq, arrived>>

CheckClaims(c) ==
    /\ pc[c] = "claims"
    /\ IF StandardClaims(rq[c])
       THEN Proceed(c, "claims", "jwks", rq[c].sub)
       ELSE Refuse(c, "claims")
    /\ UNCHANGED <<source, env, rq, arrived>>

\* Mistake: the claims of an HS256 token are checked by the branch alone, which
\* looks at exp only.
ParseHmacOwnTimes(c) ==
    /\ NeedsToken(c)
    /\ ~env.jwks
    /\ IF /\ rq[c].bearer
          /\ env.secret # None
          /\ rq[c].alg = "HMAC" /\ rq[c].signed = env.secret
          /\ rq[c].exp # None => now <= rq[c].exp
       THEN Proceed(c, "enter", "hmac", rq[c].sub)
       ELSE Refuse(c, "enter")
    /\ UNCHANGED <<source, env, rq, arrived>>

\* The HS256 branch, taken when AUTH_JWKS_URL is not set.  Its own test of exp
\* only refuses what jwt.Parse has refused already.
ParseHmac(c) ==
    /\ NeedsToken(c)
    /\ ~env.jwks
    /\ IF /\ rq[c].bearer
          /\ env.secret # None
          /\ rq[c].alg = "HMAC" /\ rq[c].signed = env.secret
          /\ Timely(rq[c])
       THEN Proceed(c, "enter", "hmac", rq[c].sub)
       ELSE Refuse(c, "enter")
    /\ UNCHANGED <<source, env, rq, arrived>>

NoHeader(c) ==
    /\ NeedsToken(c)
    /\ env.jwks
    /\ ~rq[c].bearer
    /\ Refuse(c, "enter")
    /\ UNCHANGED <<source, env, rq, arrived>>

\* Mistake: the user id of the principal is not looked at.
HandleAnyone(c) ==
    /\ Goto(c, "handle", "done")
    /\ UNCHANGED <<source, env, rq, arrived, outcome>>

\* The handler: UserService wants a principal with a user id, others do not ask.
Handle(c) ==
    /\ pc[c] = "handle"
    /\ IF rq[c].proc = "GetMe" /\ outcome[c].uid = 0
       THEN Refuse(c, "handle")
       ELSE Goto(c, "handle", "done") /\ UNCHANGED outcome
    /\ UNCHANGED <<source, env, rq, arrived>>

Respond(c) ==
    /\ Goto(c, "done", "idle")
    /\ rq' = [rq EXCEPT ![c] = None]
    /\ arrived' = [arrived EXCEPT ![c] = 0]
    /\ Outcome(c, Pending)
    /\ UNCHANGED <<source, env>>

\* The key source works on its own, and so do the clock and the provider.
SourceStep(c) ==
    /\ \/ KeyFor!Remeasure(c) \/ KeyFor!AnswerFromMemory(c)
       \/ KeyFor!AnswerAfterFetch(c) \/ KeyFor!Refuse(c)
    /\ UNCHANGED <<env, pc, rq, arrived, outcome>>

Environment ==
    /\ KeyFor!Tick \/ KeyFor!Rotate
    /\ UNCHANGED <<env, pc, rq, arrived, outcome>>

Intercept(c) ==
    \/ Allow(c) \/ Bypass(c) \/ NoHeader(c) \/ AskKey(c) \/ ParseJwks(c)
    \/ CheckClaims(c) \/ ParseHmac(c) \/ Handle(c)

Next ==
    \/ \E c \in Callers :
        (\E r \in Requests : Receive(c, r)) \/ Intercept(c) \/ SourceStep(c) \/ Respond(c)
    \/ Environment

Spec == Init /\ [][Next]_vars

\* A runnable goroutine is scheduled, and KeyFor returns (CallsReturn of
\* module JwksCache): with an answer it is entitled to, or with an error.
KeyForReturns(c) ==
    SourceStep(c) /\ phase'[c] = "done"

Fairness ==
    \A c \in Callers : WF_vars(Intercept(c)) /\ WF_vars(KeyForReturns(c))

FairSpec == Spec /\ Fairness

------------------------------------------------------------------------------
(* Types; KeyFor works for a request exactly while the request is inside     *)
(* jwt.Parse.                                                                *)
TypeOK ==
    /\ now \in 0..MaxTime
    /\ epoch \in 1..Len(Published)
    /\ since \in Seq(0..MaxTime) /\ Len(since) = epoch
    /\ phase \in [Callers -> {"idle", "asked", "done"}]
    /\ kid \in [Callers -> Kids \cup {None}]
    /\ stamp \in [Callers -> 0..MaxTime]
    /\ ret \in [Callers -> [how : {"none", "hit", "fetch", "error"},
                           key : Keys \cup {None}]]
    /\ env \in Envs
    /\ pc \in [Callers -> {"idle", "enter", "keyfor", "claims", "handle", "done"}]
    /\ rq \in [Callers -> Requests \cup {None}]
    /\ arrived \in [Callers -> 0..MaxTime]
    /\ outcome \in [Callers -> [via : {"none", "allowlist", "bypass", "jwks", "hmac",
                                      "unauthenticated"}, uid : Int]]
    /\ \A c \in Callers :
        /\ phase[c] # "idle" <=> pc[c] = "keyfor"
        /\ rq[c] = None <=> pc[c] = "idle"

Served(c) == pc[c] = "done" /\ outcome[c].via # "unauthenticated"

OldestKey == IF HitAge > FetchAge THEN HitAge ELSE FetchAge

(* Through the JWKS branch a request is only served on a signature by a key *)
(* the provider published under the token's kid when the request came in,   *)
(* or not longer ago than a key may live in the cache: withdrawing a key    *)
(* takes effect within that time, whatever the cache was doing.             *)
KeyWithdrawn ==
    \A c \in Callers :
        Served(c) /\ outcome[c].via = "jwks" =>
            /\ rq[c].signed # None
            /\ KeyFor!PublishedSince(rq[c].kid, rq[c].signed, arrived[c] - OldestKey)

\* By how much the clocks may differ, at the most, for the documents.
Leeway == IF env.skew > 0 THEN env.skew ELSE 0

(* In both branches that look at a token, it serves no request that came in *)
(* after it had expired, nor one that is answered before it has become      *)
(* valid, by more than AUTH_CLOCK_SKEW allows.                              *)
TokenInTime ==
    \A c \in Callers :
        Served(c) /\ outcome[c].via \in {"jwks", "hmac"} =>
            /\ rq[c].exp # None => arrived[c] <= rq[c].exp + Leeway
            /\ rq[c].nbf # None => now >= rq[c].nbf - Leeway

(* UserService acts for nobody but the user the token or the bypass names,  *)
(* and never for the user id 0 of a request that names none.                *)
UserIsNamed ==
    \A c \in Callers :
        Served(c) /\ rq[c].proc = "GetMe" =>
            /\ outcome[c].uid # 0
            /\ outcome[c].uid = IF env.bypass THEN env.devUser ELSE rq[c].sub

(* Every request is answered, whether or not the JWKS URL works.            *)
RequestsAnswered == \A c \in Callers : pc[c] = "enter" ~> pc[c] = "done"

(* AUTH_CLOCK_SKEW absorbs a difference of the clocks: a token whose        *)
(* signature verifies is refused for its exp or nbf only when they are out  *)
(* by more than the skew.                                                   *)
SkewAbsorbed ==
    [][\A c \in Callers :
        /\ pc[c] = "keyfor" /\ pc'[c] = "done"
        /\ rq[c].alg = "RSA" /\ ret[c].key = rq[c].signed
        => ~StandardClaims(rq[c])]_vars
==============================================================================
