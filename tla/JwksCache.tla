------------------------------ MODULE JwksCache ------------------------------
(***************************************************************************)
(* The JWKS cache of internal/auth/jwks.go: a process-wide table of RSA    *)
(* keys that every request with a bearer token consults concurrently.      *)
(*                                                                         *)
(* KeyFor reads the table under a read lock, and on a miss or after expiry *)
(* fetches the JWKS URL with no lock held, replaces the table under the    *)
(* write lock, and reads it again.  Nothing joins concurrent fetches, so   *)
(* several callers may fetch at once and the last one to take the write    *)
(* lock wins, whatever the age of the body it holds.                       *)
(*                                                                         *)
(* Each caller is one goroutine inside KeyFor:                             *)
(*   idle -> rlock -> check -> done                              (hit)     *)
(*                    check -> get -> wait -> answered -> lock -> drain    *)
(*                          -> relock -> relook -> done          (fetch)   *)
(*                            wait, answered -> done             (error)   *)
(***************************************************************************)
EXTENDS Integers, Sequences, FiniteSets

CONSTANTS
    Callers,   \* goroutines that call KeyFor
    Kids,      \* key ids
    Keys,      \* RSA public keys
    None,      \* no key id, no key
    Served,    \* Served[v]: entries of the v-th JWKS body the URL serves
    TTL,       \* JWKSCache.ttl
    Timeout,   \* http.Client.Timeout
    Lag,       \* bound on the time from the end of a fetch to its store
    MaxTime    \* bound of the clock

\* One element of the body's "keys" array.
Entry == [kid : Kids, kty : {"RSA", "EC"}, decodes : BOOLEAN, key : Keys]

ASSUME TimesAssumption ==
    /\ TTL \in Int
    /\ Timeout \in Nat
    /\ Lag \in Nat
    /\ MaxTime \in Nat
ASSUME NoneAssumption == None \notin Keys
ASSUME ServedAssumption ==
    /\ Served \in Seq(Seq(Entry))
    /\ Len(Served) > 0

VARIABLES
    now,       \* time.Now()
    epoch,     \* index in Served of the body the URL serves now
    since,     \* since[v]: time at which body v was first served
    keys,      \* JWKSCache.keys, None where the map has no entry
    expires,   \* JWKSCache.expires
    mu,        \* JWKSCache.mu: readers inside, writer that has announced itself
    pc,        \* pc[c]: where c is in KeyFor
    kid,       \* kid[c]: the argument of the call
    stamp,     \* stamp[c]: when c called, read the cache (a hit) or sent its request
    fetched,   \* fetched[c]: the map built from the body c was sent
    ret        \* ret[c]: the result of the call and where it came from

cache == <<keys, expires>>
server == <<now, epoch, since>>
vars == <<now, epoch, since, keys, expires, mu, pc, kid, stamp, fetched, ret>>

NoAnswer == [how |-> "none", key |-> None]
NoKeys == [k \in Kids |-> None]

------------------------------------------------------------------------------
(* The map refresh builds from a body: entries that are not RSA or do not  *)
(* decode are skipped, and a later entry overwrites an earlier one.        *)

Usable(e, k) == e.kid = k /\ e.kty = "RSA" /\ e.decodes

IsLastFor(body, k, i) ==
    /\ i \in 1..Len(body)
    /\ Usable(body[i], k)
    /\ \A j \in (i + 1)..Len(body) : ~Usable(body[j], k)

KeysOf(body) ==
    [k \in Kids |->
        IF \E i \in 1..Len(body) : IsLastFor(body, k, i)
        THEN body[CHOOSE i \in 1..Len(body) : IsLastFor(body, k, i)].key
        ELSE None]

------------------------------------------------------------------------------
Init ==
    /\ now = 0
    /\ epoch = 1
    /\ since = <<0>>
    /\ keys = NoKeys
    /\ expires = 0
    /\ mu = [readers |-> {}, writer |-> {}]
    /\ pc = [c \in Callers |-> "idle"]
    /\ kid = [c \in Callers |-> None]
    /\ stamp = [c \in Callers |-> 0]
    /\ fetched = [c \in Callers |-> NoKeys]
    /\ ret = [c \in Callers |-> NoAnswer]

Goto(c, from, to) == pc[c] = from /\ pc' = [pc EXCEPT ![c] = to]

\* Mistake: the call forgets which key it is for.
StartCallWithoutKid(c, k) ==
    /\ Goto(c, "idle", "rlock")
    /\ stamp' = [stamp EXCEPT ![c] = now]
    /\ UNCHANGED <<server, cache, mu, kid, fetched, ret>>

StartCall(c, k) ==
    /\ Goto(c, "idle", "rlock")
    /\ kid' = [kid EXCEPT ![c] = k]
    /\ stamp' = [stamp EXCEPT ![c] = now]
    /\ UNCHANGED <<server, cache, mu, fetched, ret>>

\* sync.RWMutex.RLock: admitted unless a writer holds or waits for the lock.
AcquireRead(c) ==
    /\ mu.writer = {}
    /\ mu' = [mu EXCEPT !.readers = @ \cup {c}]

ReleaseRead(c) == mu' = [mu EXCEPT !.readers = @ \ {c}]

RLock(c) ==
    /\ Goto(c, "rlock", "check")
    /\ AcquireRead(c)
    /\ UNCHANGED <<server, cache, kid, stamp, fetched, ret>>

\* Mistake: the test of expires is left out.
HitWithoutExpiry(c) ==
    /\ Goto(c, "check", "done")
    /\ keys[kid[c]] # None
    /\ ret' = [ret EXCEPT ![c] = [how |-> "hit", key |-> keys[kid[c]]]]
    /\ stamp' = [stamp EXCEPT ![c] = now]
    /\ ReleaseRead(c)
    /\ UNCHANGED <<server, cache, kid, fetched>>

\* The read-locked test, with its RUnlock on both branches.
Hit(c) ==
    /\ Goto(c, "check", "done")
    /\ keys[kid[c]] # None
    /\ now < expires
    /\ ret' = [ret EXCEPT ![c] = [how |-> "hit", key |-> keys[kid[c]]]]
    /\ stamp' = [stamp EXCEPT ![c] = now]
    /\ ReleaseRead(c)
    /\ UNCHANGED <<server, cache, kid, fetched>>

\* Mistake: RUnlock on the hit branch only.
MissWithoutRUnlock(c) ==
    /\ Goto(c, "check", "get")
    /\ keys[kid[c]] = None \/ now >= expires
    /\ UNCHANGED <<server, cache, mu, kid, stamp, fetched, ret>>

Miss(c) ==
    /\ Goto(c, "check", "get")
    /\ keys[kid[c]] = None \/ now >= expires
    /\ ReleaseRead(c)
    /\ UNCHANGED <<server, cache, kid, stamp, fetched, ret>>

Get(c) ==
    /\ Goto(c, "get", "wait")
    /\ stamp' = [stamp EXCEPT ![c] = now]
    /\ UNCHANGED <<server, cache, mu, kid, fetched, ret>>

\* The server composes its response.  refresh ignores the status code, so an
\* error page that is a JSON object counts as a body with no keys.
Answer(c) ==
    /\ Goto(c, "wait", "answered")
    /\ fetched' = [fetched EXCEPT ![c] = KeysOf(Served[epoch])]
    /\ UNCHANGED <<server, cache, mu, kid, stamp, ret>>

\* Mistake: an error starts the request over.
FailAndRetry(c) ==
    /\ Goto(c, "wait", "get") \/ Goto(c, "answered", "get")
    /\ fetched' = [fetched EXCEPT ![c] = NoKeys]
    /\ UNCHANGED <<server, cache, mu, kid, stamp, ret>>

\* Network error, client timeout, or a body that is not JSON.
Fail(c) ==
    /\ Goto(c, "wait", "done") \/ Goto(c, "answered", "done")
    /\ ret' = [ret EXCEPT ![c] = [how |-> "error", key |-> None]]
    /\ fetched' = [fetched EXCEPT ![c] = NoKeys]
    /\ UNCHANGED <<server, cache, mu, kid, stamp>>

\* Mistake: the client has no timeout.
ReceiveLate(c) ==
    /\ Goto(c, "answered", "lock")
    /\ UNCHANGED <<server, cache, mu, kid, stamp, fetched, ret>>

\* The whole body has been read, which http.Client.Timeout covers.
Receive(c) ==
    /\ Goto(c, "answered", "lock")
    /\ now <= stamp[c] + Timeout
    /\ UNCHANGED <<server, cache, mu, kid, stamp, fetched, ret>>

\* sync.RWMutex.Lock: first exclude other writers and turn new readers away ...
Lock(c) ==
    /\ Goto(c, "lock", "drain")
    /\ mu.writer = {}
    /\ mu' = [mu EXCEPT !.writer = {c}]
    /\ UNCHANGED <<server, cache, kid, stamp, fetched, ret>>

\* Mistake: a body without keys extends the life of the table it should replace.
StoreKeepingOld(c) ==
    /\ Goto(c, "drain", "relock")
    /\ mu.readers = {}
    /\ keys' = IF fetched[c] = NoKeys THEN keys ELSE fetched[c]
    /\ expires' = now + TTL
    /\ mu' = [mu EXCEPT !.writer = {}]
    /\ fetched' = [fetched EXCEPT ![c] = NoKeys]
    /\ UNCHANGED <<server, kid, stamp, ret>>

\* ... then wait for the readers inside.  The body of the critical section.
Store(c) ==
    /\ Goto(c, "drain", "relock")
    /\ mu.readers = {}
    /\ keys' = fetched[c]
    /\ expires' = now + TTL
    /\ mu' = [mu EXCEPT !.writer = {}]
    /\ fetched' = [fetched EXCEPT ![c] = NoKeys]
    /\ UNCHANGED <<server, kid, stamp, ret>>

RelockRead(c) ==
    /\ Goto(c, "relock", "relook")
    /\ AcquireRead(c)
    /\ UNCHANGED <<server, cache, kid, stamp, fetched, ret>>

\* The second look does not test expires; None stands for "key not found".
Relook(c) ==
    /\ Goto(c, "relook", "done")
    /\ ret' = [ret EXCEPT ![c] = [how |-> "fetch", key |-> keys[kid[c]]]]
    /\ ReleaseRead(c)
    /\ UNCHANGED <<server, cache, kid, stamp, fetched>>

\* The caller consumes the result; its variables go out of scope.
Return(c) ==
    /\ Goto(c, "done", "idle")
    /\ kid' = [kid EXCEPT ![c] = None]
    /\ stamp' = [stamp EXCEPT ![c] = 0]
    /\ ret' = [ret EXCEPT ![c] = NoAnswer]
    /\ UNCHANGED <<server, cache, mu, fetched>>

\* Time passes, but a goroutine that has its body stores it within Lag.
Tick ==
    /\ now < MaxTime
    /\ \A c \in Callers :
        pc[c] \in {"lock", "drain"} => now < stamp[c] + Timeout + Lag
    /\ now' = now + 1
    /\ UNCHANGED <<epoch, since, cache, mu, pc, kid, stamp, fetched, ret>>

\* The identity provider publishes its next key set.
Rotate ==
    /\ epoch < Len(Served)
    /\ epoch' = epoch + 1
    /\ since' = Append(since, now)
    /\ UNCHANGED <<now, cache, mu, pc, kid, stamp, fetched, ret>>

Step(c) ==
    \/ RLock(c) \/ Hit(c) \/ Miss(c)
    \/ Get(c) \/ Answer(c) \/ Fail(c) \/ Receive(c)
    \/ Lock(c) \/ Store(c) \/ RelockRead(c) \/ Relook(c)

Next ==
    \/ \E c \in Callers : (\E k \in Kids : StartCall(c, k)) \/ Step(c) \/ Return(c)
    \/ Tick
    \/ Rotate

Spec == Init /\ [][Next]_vars

Progress(c) ==
    \/ RLock(c) \/ Hit(c) \/ Miss(c) \/ Get(c) \/ Receive(c) \/ Fail(c)
    \/ Lock(c) \/ Store(c) \/ RelockRead(c) \/ Relook(c)

(***************************************************************************)
(* Fairness.  A runnable goroutine is scheduled; http.Client.Timeout makes *)
(* every request end, by a body or an error; sync.RWMutex admits a reader  *)
(* that waits when the writer ahead of it unlocks, and queues writers, so  *)
(* a lock that is released again and again is obtained: hence strong.  A   *)
(* caller stays where it is until its own step, so that one condition per  *)
(* caller says this of each step.  Neither the server's answer, nor time,  *)
(* nor a new call is assumed to come.                                      *)
(***************************************************************************)
Fairness == \A c \in Callers : SF_vars(Progress(c))

FairSpec == Spec /\ Fairness

------------------------------------------------------------------------------
(* Types.                                                                    *)
TypeOK ==
    /\ now \in 0..MaxTime
    /\ epoch \in 1..Len(Served)
    /\ since \in Seq(0..MaxTime)
    /\ Len(since) = epoch
    /\ keys \in [Kids -> Keys \cup {None}]
    /\ expires \in Int
    /\ mu \in [readers : SUBSET Callers, writer : SUBSET Callers]
    /\ pc \in [Callers -> {"idle", "rlock", "check", "get", "wait", "answered",
                           "lock", "drain", "relock", "relook", "done"}]
    /\ kid \in [Callers -> Kids \cup {None}]
    /\ \A c \in Callers : pc[c] # "idle" => kid[c] \in Kids
    /\ stamp \in [Callers -> 0..MaxTime]
    /\ fetched \in [Callers -> [Kids -> Keys \cup {None}]]
    /\ ret \in [Callers -> [how : {"none", "hit", "fetch", "error"},
                            key : Keys \cup {None}]]

\* Body v was still what the URL served at time t, or later.
ServedSince(v, t) ==
    /\ v \in 1..epoch
    /\ v < epoch => since[v + 1] >= t

\* Some body served at time t or later gives k that key (None: gives k none).
PublishedSince(k, key, t) ==
    \E v \in 1..epoch : ServedSince(v, t) /\ KeysOf(Served[v])[k] = key

\* How old what a hit returns may be: the request was sent, took up to Timeout
\* to be answered, up to Lag to be stored, and then lived less than TTL.
HitAge == TTL + Timeout + Lag - 1

\* How old what a fetch returns may be: another caller's older body may have
\* replaced this caller's between its store and its second look.
FetchAge == Timeout + Lag

(* A key returned from memory was published by the provider no more than   *)
(* HitAge before the cache was read, whatever fetches overlapped, failed   *)
(* or landed late (KeyFor's expiry test and refresh's expires).            *)
HitFresh ==
    \A c \in Callers :
        pc[c] = "done" /\ ret[c].how = "hit" =>
            /\ ret[c].key # None
            /\ PublishedSince(kid[c], ret[c].key, stamp[c] - HitAge)

(* What a call reports after a fetch, "key not found" included, is what a  *)
(* body served no more than FetchAge before its own request says: a miss   *)
(* is never answered from a table older than that.                         *)
FetchFresh ==
    \A c \in Callers :
        pc[c] = "done" /\ ret[c].how = "fetch" =>
            PublishedSince(kid[c], ret[c].key, stamp[c] - FetchAge)

(* The mutex is held across the two looks and the store only: never while  *)
(* the HTTP request is in flight, never after KeyFor has returned, and a   *)
(* reader and a storing writer are never inside together.                  *)
LockDiscipline ==
    /\ mu.readers = {c \in Callers : pc[c] \in {"check", "relook"}}
    /\ mu.writer = {c \in Callers : pc[c] = "drain"}
    /\ Cardinality(mu.writer) <= 1

(* Every call of KeyFor returns, however many others fetch and store, and  *)
(* whether or not the JWKS URL ever answers.                               *)
CallsReturn == \A c \in Callers : pc[c] = "rlock" ~> pc[c] = "done"

(* The cache implements the key source: the table, the lock and the HTTP   *)
(* exchange are hidden, a call is open from StartCall to its result.       *)
phase ==
    [c \in Callers |->
        IF pc[c] \in {"idle", "done"} THEN pc[c] ELSE "asked"]

Abstract ==
    INSTANCE KeySource WITH
        Published <- [v \in 1..Len(Served) |-> KeysOf(Served[v])]

ImplementsKeySource == Abstract!Spec
==============================================================================
