--------------------------- MODULE JwksCacheProofs ---------------------------
(***************************************************************************)
(* Proofs about JwksCache, for every set of callers, key ids and keys,     *)
(* every finite history of key sets the provider serves, every TTL, every  *)
(* client timeout and every bound on the store's delay.                    *)
(***************************************************************************)
EXTENDS JwksCache, FiniteSetTheorems, WellFoundedInduction, TLAPS

\* The whole map m is what a body served at time t or later builds.
FromServed(m, t) == \E v \in 1..epoch : ServedSince(v, t) /\ m = KeysOf(Served[v])

LockInv ==
    /\ \A c \in Callers :
        /\ c \in mu.readers <=> pc[c] \in {"check", "relook"}
        /\ c \in mu.writer <=> pc[c] = "drain"
    /\ \A c, d \in Callers : pc[c] = "drain" /\ pc[d] = "drain" => c = d

SinceInv == \A v \in 1..epoch : since[v] <= now

\* The table, while it lives, is no older than its expiry says.
TableInv ==
    now < expires =>
        /\ expires - TTL <= now
        /\ FromServed(keys, expires - TTL - FetchAge)

\* Where a caller stands in time.  A body in flight was served when its request
\* was sent or later; a caller that has stored finds the table no older than
\* FetchAge, whoever stored since; a result is as fresh as the properties say.
CallerInv(c) ==
    /\ stamp[c] <= now
    /\ pc[c] \in {"lock", "drain"} => now <= stamp[c] + FetchAge
    /\ pc[c] \in {"answered", "lock", "drain"} => FromServed(fetched[c], stamp[c])
    /\ pc[c] \in {"relock", "relook"} => FromServed(keys, stamp[c] - FetchAge)
    /\ pc[c] = "done" /\ ret[c].how = "hit" =>
        /\ TTL > 0
        /\ ret[c].key # None
        /\ PublishedSince(kid[c], ret[c].key, stamp[c] - HitAge)
    /\ pc[c] = "done" /\ ret[c].how = "fetch" =>
        PublishedSince(kid[c], ret[c].key, stamp[c] - FetchAge)

IInv ==
    /\ TypeOK
    /\ LockInv
    /\ SinceInv
    /\ TableInv
    /\ \A c \in Callers : CallerInv(c)

------------------------------------------------------------------------------
\* refresh builds a map from key ids to keys out of every body it may be sent.
LEMMA KeysOfType ==
    ASSUME NEW v \in 1..Len(Served)
    PROVE  KeysOf(Served[v]) \in [Kids -> Keys \cup {None}]
<1> DEFINE body == Served[v]
<1>1. body \in Seq(Entry)
    BY ServedAssumption
<1>2. ASSUME NEW k \in Kids
      PROVE  KeysOf(body)[k] \in Keys \cup {None}
    <2>1. CASE \E i \in 1..Len(body) : IsLastFor(body, k, i)
        <3> DEFINE last == CHOOSE i \in 1..Len(body) : IsLastFor(body, k, i)
        <3>1. last \in 1..Len(body)
            BY <2>1
        <3> HIDE DEF last
        <3>2. body[last] \in Entry
            BY <1>1, <3>1
        <3> QED
            BY <1>2, <2>1, <3>2 DEF KeysOf, Entry, last
    <2>2. CASE ~\E i \in 1..Len(body) : IsLastFor(body, k, i)
        BY <1>2, <2>2 DEF KeysOf
    <2> QED
        BY <2>1, <2>2
<1>3. KeysOf(body) = [k \in Kids |-> KeysOf(body)[k]]
    BY DEF KeysOf
<1> QED
    BY <1>2, <1>3

LEMMA Smallest ==
    ASSUME NEW T \in SUBSET Nat, T # {}
    PROVE  \E x \in T : \A y \in T : x <= y
<1>1. \E x \in T : \A y \in T : ~ (<<y, x>> \in OpToRel(<, Nat))
    BY NatLessThanWellFounded, WFMin, Zenon
<1>2. ASSUME NEW x \in Nat, NEW y \in Nat, y < x
      PROVE  <<y, x>> \in OpToRel(<, Nat)
    BY <1>2 DEF OpToRel
<1>3. \E x \in T : \A y \in T : ~(y < x)
    BY <1>1, <1>2, Zenon
<1> QED
    BY <1>3

\* refresh assigns m[k.Kid] once for each entry it can use: a key id has the key
\* of its last usable entry, whatever else the body holds, and is absent only if
\* no entry of the body can be used.
THEOREM LastEntryWins ==
    ASSUME NEW v \in 1..Len(Served), NEW k \in Kids
    PROVE  \/ \E i \in 1..Len(Served[v]) :
                /\ Usable(Served[v][i], k)
                /\ \A j \in 1..Len(Served[v]) : Usable(Served[v][j], k) => j <= i
                /\ KeysOf(Served[v])[k] = Served[v][i].key
                /\ KeysOf(Served[v])[k] # None
           \/ /\ \A i \in 1..Len(Served[v]) : ~Usable(Served[v][i], k)
              /\ KeysOf(Served[v])[k] = None
<1> DEFINE body == Served[v]
<1>1. body \in Seq(Entry) /\ Len(body) \in Nat
    BY ServedAssumption
<1>2. ASSUME NEW i \in 1..Len(body)
      PROVE  IsLastFor(body, k, i) <=>
                /\ Usable(body[i], k)
                /\ \A j \in 1..Len(body) : Usable(body[j], k) => j <= i
    BY <1>1 DEF IsLastFor
<1>3. CASE \A i \in 1..Len(body) : ~Usable(body[i], k)
    BY <1>3 DEF KeysOf, IsLastFor
<1>4. CASE \E i \in 1..Len(body) : Usable(body[i], k)
    <2> DEFINE T == {n \in Nat : \E i \in 1..Len(body) : Usable(body[i], k) /\ n = Len(body) - i}
    <2>1. PICK n \in T : \A m \in T : n <= m
        <3>1. T # {}
            <4>1. PICK i \in 1..Len(body) : Usable(body[i], k)
                BY <1>4
            <4>2. Len(body) - i \in Nat
                BY <1>1
            <4>3. Len(body) - i \in T
                BY <4>1, <4>2
            <4> QED
                BY <4>3
        <3> HIDE DEF T
        <3>2. T \in SUBSET Nat
            BY DEF T
        <3> QED
            BY <3>1, <3>2, Smallest
    <2>2. PICK l \in 1..Len(body) : Usable(body[l], k) /\ n = Len(body) - l
        OBVIOUS
    <2>3. \A j \in 1..Len(body) : Usable(body[j], k) => j <= l
        <3>1. SUFFICES ASSUME NEW j \in 1..Len(body), Usable(body[j], k)
                       PROVE  j <= l
            OBVIOUS
        <3>2. Len(body) - j \in T
            BY <1>1, <3>1
        <3>3. n <= Len(body) - j
            BY <2>1, <3>2
        <3> QED
            BY <1>1, <2>2, <3>3
    <2> DEFINE last == CHOOSE i \in 1..Len(body) : IsLastFor(body, k, i)
    <2>4. last \in 1..Len(body) /\ IsLastFor(body, k, last)
        BY <1>2, <2>2, <2>3
    <2>5. KeysOf(body)[k] = body[last].key
        BY <2>4 DEF KeysOf
    <2> HIDE DEF last, T
    <2>6. body[last].key # None
        <3>1. body[last] \in Entry
            BY <1>1, <2>4
        <3>2. body[last].key \in Keys
            BY <3>1 DEF Entry
        <3> QED
            BY <3>2, NoneAssumption
    <2> QED
        BY <1>2, <2>4, <2>5, <2>6
<1> QED
    BY <1>3, <1>4

\* Every variable keeps its type through every step of every caller.
LEMMA TypePreserved == TypeOK /\ [Next]_vars => TypeOK'
<1> SUFFICES ASSUME TypeOK, [Next]_vars
             PROVE  TypeOK'
    OBVIOUS
<1> USE TimesAssumption, ServedAssumption DEF TypeOK
<1>1. ASSUME NEW c \in Callers, NEW k \in Kids, StartCall(c, k)
      PROVE  TypeOK'
    BY <1>1 DEF StartCall, Goto, server, cache
<1>2. ASSUME NEW c \in Callers, RLock(c)
      PROVE  TypeOK'
    BY <1>2 DEF RLock, Goto, AcquireRead, server, cache
<1>3. ASSUME NEW c \in Callers, Hit(c)
      PROVE  TypeOK'
    <2>1. keys[kid[c]] \in Keys \cup {None}
        BY <1>3 DEF Hit, Goto
    <2> QED
        BY <1>3, <2>1 DEF Hit, Goto, ReleaseRead, server, cache
<1>4. ASSUME NEW c \in Callers, Miss(c)
      PROVE  TypeOK'
    BY <1>4 DEF Miss, Goto, ReleaseRead, server, cache
<1>5. ASSUME NEW c \in Callers, Get(c)
      PROVE  TypeOK'
    BY <1>5 DEF Get, Goto, server, cache
<1>6. ASSUME NEW c \in Callers, Answer(c)
      PROVE  TypeOK'
    <2>1. KeysOf(Served[epoch]) \in [Kids -> Keys \cup {None}]
        BY KeysOfType
    <2> QED
        BY <1>6, <2>1 DEF Answer, Goto, server, cache
<1>7. ASSUME NEW c \in Callers, Fail(c)
      PROVE  TypeOK'
    BY <1>7 DEF Fail, Goto, server, cache, NoKeys
<1>8. ASSUME NEW c \in Callers, Receive(c)
      PROVE  TypeOK'
    BY <1>8 DEF Receive, Goto, server, cache
<1>9. ASSUME NEW c \in Callers, Lock(c)
      PROVE  TypeOK'
    BY <1>9 DEF Lock, Goto, server, cache
<1>10. ASSUME NEW c \in Callers, Store(c)
       PROVE  TypeOK'
    <2>1. fetched[c] \in [Kids -> Keys \cup {None}] /\ expires' \in Int
        BY <1>10 DEF Store
    <2>2. NoKeys \in [Kids -> Keys \cup {None}]
        BY DEF NoKeys
    <2> QED
        BY <1>10, <2>1, <2>2 DEF Store, Goto, server
<1>11. ASSUME NEW c \in Callers, RelockRead(c)
       PROVE  TypeOK'
    BY <1>11 DEF RelockRead, Goto, AcquireRead, server, cache
<1>12. ASSUME NEW c \in Callers, Relook(c)
       PROVE  TypeOK'
    <2>1. keys[kid[c]] \in Keys \cup {None}
        BY <1>12 DEF Relook, Goto
    <2> QED
        BY <1>12, <2>1 DEF Relook, Goto, ReleaseRead, server, cache
<1>13. ASSUME NEW c \in Callers, Return(c)
       PROVE  TypeOK'
    BY <1>13 DEF Return, Goto, server, cache, NoAnswer
<1>14. CASE Tick
    BY <1>14 DEF Tick, cache
<1>15. CASE Rotate
    BY <1>15 DEF Rotate, cache
<1>16. CASE UNCHANGED vars
    BY <1>16 DEF vars
<1> QED
    BY <1>1, <1>2, <1>3, <1>4, <1>5, <1>6, <1>7, <1>8, <1>9, <1>10, <1>11,
       <1>12, <1>13, <1>14, <1>15, <1>16 DEF Next, Step

------------------------------------------------------------------------------
\* Readers and the writer are the callers whose pc says so, after every step.
LEMMA LockPreserved == TypeOK /\ LockInv /\ [Next]_vars => LockInv'
<1> SUFFICES ASSUME TypeOK, LockInv, [Next]_vars
             PROVE  LockInv'
    OBVIOUS
<1> USE DEF TypeOK, LockInv
<1>1. ASSUME NEW c \in Callers, NEW k \in Kids, StartCall(c, k)
      PROVE  LockInv'
    BY <1>1 DEF StartCall, Goto
<1>2. ASSUME NEW c \in Callers, RLock(c) \/ RelockRead(c)
      PROVE  LockInv'
    BY <1>2 DEF RLock, RelockRead, Goto, AcquireRead
<1>3. ASSUME NEW c \in Callers, Hit(c) \/ Miss(c) \/ Relook(c)
      PROVE  LockInv'
    <2>1. pc[c] \in {"check", "relook"} /\ ReleaseRead(c)
        BY <1>3 DEF Hit, Miss, Relook, Goto
    <2>2. \E l \in {"done", "get"} : pc' = [pc EXCEPT ![c] = l]
        BY <1>3 DEF Hit, Miss, Relook, Goto
    <2> QED
        BY <2>1, <2>2 DEF ReleaseRead
<1>4. ASSUME NEW c \in Callers, Get(c) \/ Answer(c) \/ Receive(c) \/ Return(c)
      PROVE  LockInv'
    BY <1>4 DEF Get, Answer, Receive, Return, Goto
<1>5. ASSUME NEW c \in Callers, Fail(c)
      PROVE  LockInv'
    BY <1>5 DEF Fail, Goto
<1>6. ASSUME NEW c \in Callers, Lock(c)
      PROVE  LockInv'
    BY <1>6 DEF Lock, Goto
<1>7. ASSUME NEW c \in Callers, Store(c)
      PROVE  LockInv'
    BY <1>7 DEF Store, Goto
<1>8. CASE Tick \/ Rotate \/ UNCHANGED vars
    BY <1>8 DEF Tick, Rotate, vars
<1> QED
    BY <1>1, <1>2, <1>3, <1>4, <1>5, <1>6, <1>7, <1>8 DEF Next, Step

\* Rotation only ends the service of the current body, and ends it now: what
\* was served at t or later still was, for every t that has come.
LEMMA RotateKeeps ==
    ASSUME TypeOK, Rotate, NEW t \in Int, t <= now,
           NEW v \in 1..epoch, ServedSince(v, t)
    PROVE  v \in 1..epoch' /\ ServedSince(v, t)'
<1>1. epoch' = epoch + 1 /\ since' = Append(since, now)
    BY DEF Rotate
<1>2. \A i \in 1..epoch : since'[i] = since[i]
    BY <1>1 DEF TypeOK
<1>3. since'[epoch + 1] = now
    BY <1>1 DEF TypeOK
<1>4. CASE v < epoch
    BY <1>1, <1>2, <1>4 DEF TypeOK, ServedSince
<1>5. CASE v = epoch
    BY <1>1, <1>3, <1>5 DEF TypeOK, ServedSince
<1> QED
    BY <1>4, <1>5 DEF TypeOK

\* Being published at t or later is being published at any earlier time or later.
LEMMA SinceMonotone ==
    ASSUME TypeOK, NEW t \in Int, NEW u \in Int, u <= t,
           NEW v \in 1..epoch, ServedSince(v, t)
    PROVE  ServedSince(v, u)
<1>1. v < epoch => since[v + 1] \in Int
    BY TimesAssumption DEF TypeOK
<1> QED
    BY <1>1 DEF ServedSince

------------------------------------------------------------------------------
\* A caller's step that touches neither the provider, the clock nor the table
\* disturbs nobody else, and only has to keep what is known of that caller.
LEMMA OwnStep ==
    ASSUME IInv, NEW c \in Callers, UNCHANGED <<server, cache>>,
           \A d \in Callers \ {c} :
               UNCHANGED <<pc[d], kid[d], stamp[d], fetched[d], ret[d]>>,
           CallerInv(c)'
    PROVE  SinceInv' /\ TableInv' /\ \A d \in Callers : CallerInv(d)'
<1>1. UNCHANGED <<now, epoch, since, keys, expires>>
    BY DEF server, cache
<1>2. SinceInv'
    BY <1>1 DEF IInv, SinceInv
<1>3. TableInv'
    BY <1>1 DEF IInv, TableInv, FromServed, ServedSince
<1>4. ASSUME NEW d \in Callers \ {c}
      PROVE  CallerInv(d)'
    BY <1>1, <1>4 DEF IInv, CallerInv, FromServed, PublishedSince, ServedSince
<1> QED
    BY <1>2, <1>3, <1>4

\* The invariant is inductive.  Only Store touches the table, only Tick the
\* clock and only Rotate the provider; every other step is its caller's own.
LEMMA InvPreserved == IInv /\ [Next]_vars => IInv'
<1> SUFFICES ASSUME IInv, [Next]_vars
             PROVE  IInv'
    OBVIOUS
<1>t. TypeOK' /\ LockInv'
    BY TypePreserved, LockPreserved DEF IInv
<1> DEFINE Rest == SinceInv /\ TableInv /\ \A d \in Callers : CallerInv(d)
<1> USE TimesAssumption DEF HitAge, FetchAge
<1>1. ASSUME NEW c \in Callers, NEW k \in Kids, StartCall(c, k)
      PROVE  Rest'
    <2>1. CallerInv(c)'
        BY <1>1 DEF IInv, TypeOK, StartCall, Goto, server, CallerInv
    <2> QED
        BY <1>1, <2>1, OwnStep DEF IInv, TypeOK, StartCall, Goto
<1>2. ASSUME NEW c \in Callers, RLock(c) \/ Miss(c) \/ Fail(c)
      PROVE  Rest'
    <2>1. CallerInv(c)'
        BY <1>2 DEF IInv, TypeOK, RLock, Miss, Fail, Goto, server, CallerInv
    <2> QED
        BY <1>2, <2>1, OwnStep DEF IInv, TypeOK, RLock, Miss, Fail, Goto
<1>3. ASSUME NEW c \in Callers, Hit(c)
      PROVE  Rest'
    <2>1. /\ now < expires /\ keys[kid[c]] # None /\ kid[c] \in Kids
          /\ UNCHANGED <<now, epoch, since, keys, expires, kid>>
        BY <1>3 DEF IInv, TypeOK, Hit, Goto, server, cache
    <2>2. /\ pc'[c] = "done"
          /\ ret'[c] = [how |-> "hit", key |-> keys[kid[c]]]
          /\ stamp'[c] = now
        BY <1>3 DEF IInv, TypeOK, Hit, Goto
    <2>3. PICK v \in 1..epoch :
            ServedSince(v, expires - TTL - FetchAge) /\ keys = KeysOf(Served[v])
        BY <2>1 DEF IInv, TableInv, FromServed
    <2>4. expires \in Int /\ now \in Int
        BY DEF IInv, TypeOK
    <2>5. ServedSince(v, now - HitAge)
        BY <2>1, <2>3, <2>4, SinceMonotone DEF IInv
    <2>6. PublishedSince(kid[c], keys[kid[c]], now - HitAge)
        BY <2>3, <2>5 DEF PublishedSince
    <2>7. CallerInv(c)'
        BY <2>1, <2>2, <2>4, <2>6 DEF IInv, TableInv, CallerInv, PublishedSince, ServedSince
    <2> QED
        BY <1>3, <2>7, OwnStep DEF IInv, TypeOK, Hit, Goto
<1>4. ASSUME NEW c \in Callers, Get(c) \/ Return(c)
      PROVE  Rest'
    <2>1. CallerInv(c)'
        BY <1>4 DEF IInv, TypeOK, Get, Return, Goto, server, CallerInv
    <2> QED
        BY <1>4, <2>1, OwnStep DEF IInv, TypeOK, Get, Return, Goto
<1>5. ASSUME NEW c \in Callers, Answer(c)
      PROVE  Rest'
    <2>1. /\ fetched'[c] = KeysOf(Served[epoch])
          /\ pc'[c] = "answered"
          /\ UNCHANGED <<now, epoch, since, stamp>>
        BY <1>5 DEF IInv, TypeOK, Answer, Goto, server
    <2>2. epoch \in 1..epoch /\ ServedSince(epoch, stamp[c])
        BY DEF IInv, TypeOK, ServedSince
    <2>3. CallerInv(c)'
        BY <2>1, <2>2 DEF IInv, CallerInv, FromServed, ServedSince
    <2> QED
        BY <1>5, <2>3, OwnStep DEF IInv, TypeOK, Answer, Goto
<1>6. ASSUME NEW c \in Callers, Receive(c) \/ Lock(c)
      PROVE  Rest'
    <2>1. /\ pc[c] \in {"answered", "lock"} /\ pc'[c] \in {"lock", "drain"}
          /\ pc[c] = "answered" => now <= stamp[c] + Timeout
          /\ UNCHANGED <<now, epoch, since, keys, stamp, fetched>>
        BY <1>6 DEF IInv, TypeOK, Receive, Lock, Goto, server, cache
    <2>2. now' <= stamp'[c] + FetchAge
        BY <2>1 DEF IInv, TypeOK, CallerInv
    <2>3. CallerInv(c)'
        BY <2>1, <2>2 DEF IInv, CallerInv, FromServed, ServedSince
    <2> QED
        BY <1>6, <2>3, OwnStep DEF IInv, TypeOK, Receive, Lock, Goto
<1>7. ASSUME NEW c \in Callers, Store(c)
      PROVE  Rest'
    <2>1. /\ pc[c] = "drain" /\ pc' = [pc EXCEPT ![c] = "relock"]
          /\ keys' = fetched[c] /\ expires' = now + TTL
          /\ UNCHANGED <<now, epoch, since, stamp, kid, ret>>
          /\ \A d \in Callers \ {c} : fetched'[d] = fetched[d]
        BY <1>7 DEF IInv, TypeOK, Store, Goto, server
    <2>2. /\ now \in Int
          /\ \A d \in Callers : stamp[d] \in Int /\ stamp[d] <= now
          /\ now <= stamp[c] + FetchAge
        BY <2>1 DEF IInv, TypeOK, CallerInv
    <2>3. PICK v \in 1..epoch : ServedSince(v, stamp[c]) /\ keys' = KeysOf(Served[v])
        BY <2>1 DEF IInv, CallerInv, FromServed
    <2>4. \A t \in Int : t <= stamp[c] => FromServed(keys, t)'
        <3>1. ASSUME NEW t \in Int, t <= stamp[c]
              PROVE  ServedSince(v, t)
            BY <2>2, <2>3, <3>1, SinceMonotone DEF IInv
        <3> QED
            BY <2>1, <2>3, <3>1 DEF FromServed, ServedSince
    <2>5. SinceInv'
        BY <2>1 DEF IInv, SinceInv
    <2>6. TableInv'
        BY <2>1, <2>2, <2>4 DEF TableInv
    <2>7. ASSUME NEW d \in Callers
          PROVE  CallerInv(d)'
        <3>1. FromServed(keys, stamp[d] - FetchAge)'
            <4>1. stamp[d] - FetchAge \in Int /\ stamp[d] - FetchAge <= stamp[c]
                BY <2>2
            <4> QED
                BY <2>1, <2>4, <4>1
        <3>2. CASE d = c
            BY <2>1, <2>2, <3>1, <3>2 DEF IInv, TypeOK, CallerInv
        <3>3. CASE d # c
            <4>1. UNCHANGED <<pc[d], fetched[d]>>
                BY <2>1, <3>3 DEF IInv, TypeOK
            <4> QED
                BY <2>1, <3>1, <4>1
                   DEF IInv, CallerInv, FromServed, PublishedSince, ServedSince
        <3> QED
            BY <3>2, <3>3
    <2> QED
        BY <2>5, <2>6, <2>7
<1>8. ASSUME NEW c \in Callers, RelockRead(c)
      PROVE  Rest'
    <2>1. CallerInv(c)'
        BY <1>8 DEF IInv, TypeOK, RelockRead, Goto, server, cache, CallerInv,
                    FromServed, ServedSince
    <2> QED
        BY <1>8, <2>1, OwnStep DEF IInv, TypeOK, RelockRead, Goto
<1>9. ASSUME NEW c \in Callers, Relook(c)
      PROVE  Rest'
    <2>1. /\ pc[c] = "relook" /\ pc'[c] = "done"
          /\ ret'[c] = [how |-> "fetch", key |-> keys[kid[c]]]
          /\ UNCHANGED <<now, epoch, since, keys, kid, stamp>>
        BY <1>9 DEF IInv, TypeOK, Relook, Goto, server, cache
    <2>2. PublishedSince(kid[c], keys[kid[c]], stamp[c] - FetchAge)
        BY <2>1 DEF IInv, CallerInv, FromServed, PublishedSince
    <2>3. CallerInv(c)'
        BY <2>1, <2>2 DEF IInv, CallerInv, PublishedSince, ServedSince
    <2> QED
        BY <1>9, <2>3, OwnStep DEF IInv, TypeOK, Relook, Goto
<1>10. ASSUME Tick
       PROVE  Rest'
    <2>1. /\ now' = now + 1 /\ UNCHANGED <<epoch, since, keys, expires>>
          /\ UNCHANGED <<pc, kid, stamp, fetched, ret>>
          /\ \A c \in Callers :
                pc[c] \in {"lock", "drain"} => now + 1 <= stamp[c] + FetchAge
        BY <1>10 DEF IInv, TypeOK, Tick, cache
    <2>2. now \in Int /\ expires \in Int /\ stamp \in [Callers -> Int]
        BY DEF IInv, TypeOK
    <2>3. SinceInv'
        BY <2>1, <2>2 DEF IInv, TypeOK, SinceInv
    <2>4. TableInv'
        BY <2>1, <2>2 DEF IInv, TableInv, FromServed, ServedSince
    <2>5. \A c \in Callers : CallerInv(c)'
        BY <2>1, <2>2 DEF IInv, CallerInv, FromServed, PublishedSince, ServedSince
    <2> QED
        BY <2>3, <2>4, <2>5
<1>11. ASSUME Rotate
       PROVE  Rest'
    <2>1. /\ UNCHANGED <<now, keys, expires, pc, kid, stamp, fetched, ret>>
          /\ since' = Append(since, now) /\ epoch' = epoch + 1
        BY <1>11 DEF Rotate, cache
    <2>2. now \in Int /\ expires \in Int /\ stamp \in [Callers -> Int]
        BY DEF IInv, TypeOK
    <2>3. SinceInv'
        BY <2>1, <2>2 DEF IInv, TypeOK, SinceInv
    <2>4. ASSUME NEW m, NEW t \in Int, t <= now, FromServed(m, t)
          PROVE  \E v \in 1..epoch' :
                    (v < epoch' => since'[v + 1] >= t) /\ m = KeysOf(Served[v])
        BY <1>11, <2>4, RotateKeeps DEF IInv, FromServed, ServedSince
    <2>5. ASSUME NEW k, NEW key, NEW t \in Int, t <= now, PublishedSince(k, key, t)
          PROVE  \E v \in 1..epoch' :
                    (v < epoch' => since'[v + 1] >= t) /\ KeysOf(Served[v])[k] = key
        BY <1>11, <2>5, RotateKeeps DEF IInv, PublishedSince, ServedSince
    <2>6. TableInv'
        <3> SUFFICES ASSUME now < expires
                     PROVE  TableInv'
            BY <2>1 DEF TableInv
        <3> DEFINE t == expires - TTL - FetchAge
        <3>1. expires - TTL <= now /\ t \in Int /\ t <= now /\ FromServed(keys, t)
            BY <2>2 DEF IInv, TableInv
        <3>2. \E v \in 1..epoch' :
                (v < epoch' => since'[v + 1] >= t) /\ keys = KeysOf(Served[v])
            BY <2>4, <3>1
        <3> QED
            BY <2>1, <3>1, <3>2 DEF TableInv, FromServed, ServedSince
    <2>7. ASSUME NEW c \in Callers
          PROVE  CallerInv(c)'
        <3>1. now \in Int /\ stamp[c] \in Int /\ stamp[c] <= now
            BY <2>2 DEF IInv, CallerInv
        <3>2. ASSUME pc[c] \in {"answered", "lock", "drain"}
              PROVE  FromServed(fetched[c], stamp[c])'
            <4>1. FromServed(fetched[c], stamp[c])
                BY <3>2 DEF IInv, CallerInv
            <4>2. \E v \in 1..epoch' :
                    /\ v < epoch' => since'[v + 1] >= stamp[c]
                    /\ fetched[c] = KeysOf(Served[v])
                BY <2>4, <3>1, <4>1
            <4> QED
                BY <2>1, <4>2 DEF FromServed, ServedSince
        <3>3. ASSUME pc[c] \in {"relock", "relook"}
              PROVE  FromServed(keys, stamp[c] - FetchAge)'
            <4> DEFINE t == stamp[c] - FetchAge
            <4>1. t \in Int /\ t <= now /\ FromServed(keys, t)
                BY <3>1, <3>3 DEF IInv, CallerInv
            <4>2. \E v \in 1..epoch' :
                    (v < epoch' => since'[v + 1] >= t) /\ keys = KeysOf(Served[v])
                BY <2>4, <4>1
            <4> QED
                BY <2>1, <4>2 DEF FromServed, ServedSince
        <3>4. ASSUME pc[c] = "done", ret[c].how = "hit"
              PROVE  TTL > 0 /\ ret[c].key # None
                        /\ PublishedSince(kid[c], ret[c].key, stamp[c] - HitAge)'
            <4> DEFINE t == stamp[c] - HitAge
            <4>1. TTL > 0 /\ ret[c].key # None /\ PublishedSince(kid[c], ret[c].key, t)
                BY <3>4 DEF IInv, CallerInv
            <4>2. t \in Int /\ t <= now
                BY <3>1, <4>1
            <4>3. \E v \in 1..epoch' :
                    /\ v < epoch' => since'[v + 1] >= t
                    /\ KeysOf(Served[v])[kid[c]] = ret[c].key
                BY <2>5, <4>1, <4>2
            <4> QED
                BY <2>1, <4>1, <4>3 DEF PublishedSince, ServedSince
        <3>5. ASSUME pc[c] = "done", ret[c].how = "fetch"
              PROVE  PublishedSince(kid[c], ret[c].key, stamp[c] - FetchAge)'
            <4> DEFINE t == stamp[c] - FetchAge
            <4>1. t \in Int /\ t <= now /\ PublishedSince(kid[c], ret[c].key, t)
                BY <3>1, <3>5 DEF IInv, CallerInv
            <4>2. \E v \in 1..epoch' :
                    /\ v < epoch' => since'[v + 1] >= t
                    /\ KeysOf(Served[v])[kid[c]] = ret[c].key
                BY <2>5, <4>1
            <4> QED
                BY <2>1, <4>2 DEF PublishedSince, ServedSince
        <3> QED
            BY <2>1, <3>1, <3>2, <3>3, <3>4, <3>5 DEF IInv, CallerInv
    <2> QED
        BY <2>3, <2>6, <2>7
<1>12. ASSUME UNCHANGED vars
       PROVE  Rest'
    BY <1>12 DEF IInv, vars, SinceInv, TableInv, CallerInv, FromServed,
                 PublishedSince, ServedSince
<1> QED
    BY <1>t, <1>1, <1>2, <1>3, <1>4, <1>5, <1>6, <1>7, <1>8, <1>9, <1>10,
       <1>11, <1>12 DEF Next, Step, IInv

------------------------------------------------------------------------------
LEMMA InvInit == Init => IInv
<1> USE TimesAssumption, ServedAssumption DEF Init
<1>1. Init => TypeOK
    BY DEF TypeOK, NoKeys, NoAnswer
<1>2. Init => LockInv /\ SinceInv /\ TableInv
    BY DEF LockInv, SinceInv, TableInv
<1>3. Init => \A c \in Callers : CallerInv(c)
    BY DEF CallerInv
<1> QED
    BY <1>1, <1>2, <1>3 DEF IInv

\* KeyFor and refresh keep every variable within its type.
THEOREM TypeCorrect == Spec => []TypeOK
<1>1. Init => TypeOK
    BY InvInit DEF IInv
<1> QED
    BY <1>1, TypePreserved, PTL DEF Spec

\* IInv holds in every state the cache reaches.
THEOREM Invariance == Spec => []IInv
    BY InvInit, InvPreserved, PTL DEF Spec

\* No key leaves the cache from memory longer than HitAge after the provider
\* stopped publishing it: the expiry test and the order of fetches see to it.
THEOREM HitsAreFresh == Spec => []HitFresh
<1>1. IInv => HitFresh
    BY DEF IInv, CallerInv, HitFresh
<1> QED
    BY <1>1, Invariance, PTL

\* A call that fetched reports, key or no key, what a body served no more than
\* FetchAge before its request says, whoever stored over its own.
THEOREM FetchesAreFresh == Spec => []FetchFresh
<1>1. IInv => FetchFresh
    BY DEF IInv, CallerInv, FetchFresh
<1> QED
    BY <1>1, Invariance, PTL

\* The mutex is held by the callers inside the two looks and the store, and by
\* nobody who waits for the network or has returned; one writer at a time.
THEOREM LockIsDisciplined == Spec => []LockDiscipline
<1>1. IInv => LockDiscipline
    <2> SUFFICES ASSUME IInv
                 PROVE  LockDiscipline
        OBVIOUS
    <2>1. mu.readers \subseteq Callers /\ mu.writer \subseteq Callers
        BY DEF IInv, TypeOK
    <2>2. mu.readers = {c \in Callers : pc[c] \in {"check", "relook"}}
        BY <2>1 DEF IInv, LockInv
    <2>3. mu.writer = {c \in Callers : pc[c] = "drain"}
        BY <2>1 DEF IInv, LockInv
    <2>4. Cardinality(mu.writer) <= 1
        <3>1. CASE mu.writer = {}
            BY <3>1, FS_EmptySet
        <3>2. ASSUME NEW c \in mu.writer
              PROVE  Cardinality(mu.writer) <= 1
            <4>1. mu.writer = {c}
                BY <2>1, <3>2 DEF IInv, LockInv
            <4> QED
                BY <4>1, FS_Singleton
        <3> QED
            BY <3>1, <3>2
    <2> QED
        BY <2>2, <2>3, <2>4 DEF LockDiscipline
<1> QED
    BY <1>1, Invariance, PTL

------------------------------------------------------------------------------
\* Each step of KeyFor is the key source's step of the same caller, or none:
\* only the start, the sending of the request and the result show.
LEMMA StepRefines == IInv /\ IInv' /\ [Next]_vars => [Abstract!Next]_Abstract!vars
<1> SUFFICES ASSUME IInv, IInv', [Next]_vars
             PROVE  [Abstract!Next]_Abstract!vars
    OBVIOUS
<1> USE DEF Abstract!vars, phase
<1>1. ASSUME NEW c \in Callers, NEW k \in Kids, StartCall(c, k)
      PROVE  Abstract!Ask(c, k)
    BY <1>1 DEF IInv, TypeOK, StartCall, Goto, server, Abstract!Ask
<1>2. ASSUME NEW c \in Callers,
             \/ RLock(c) \/ Miss(c) \/ Answer(c) \/ Receive(c)
             \/ Lock(c) \/ Store(c) \/ RelockRead(c)
      PROVE  UNCHANGED Abstract!vars
    <2>1. UNCHANGED <<now, epoch, since, kid, stamp, ret>>
        BY <1>2 DEF RLock, Miss, Answer, Receive, Lock, Store, RelockRead, server
    <2>2. \E from, to \in {"rlock", "check", "get", "wait", "answered", "lock",
                           "drain", "relock", "relook"} :
            pc[c] = from /\ pc' = [pc EXCEPT ![c] = to]
        BY <1>2 DEF RLock, Miss, Answer, Receive, Lock, Store, RelockRead, Goto
    <2>3. UNCHANGED phase
        BY <2>2 DEF IInv, TypeOK
    <2> QED
        BY <2>1, <2>3
<1>3. ASSUME NEW c \in Callers, Hit(c)
      PROVE  Abstract!AnswerFromMemory(c)
    <2>1. /\ pc[c] = "check" /\ pc' = [pc EXCEPT ![c] = "done"]
          /\ keys[kid[c]] # None
          /\ ret' = [ret EXCEPT ![c] = [how |-> "hit", key |-> keys[kid[c]]]]
          /\ stamp' = [stamp EXCEPT ![c] = now]
          /\ UNCHANGED <<now, epoch, since, kid>>
        BY <1>3 DEF Hit, Goto, server
    <2>2. /\ pc'[c] = "done" /\ stamp'[c] = now
          /\ ret'[c] = [how |-> "hit", key |-> keys[kid[c]]]
        BY <2>1 DEF IInv, TypeOK
    <2>3. keys[kid[c]] \in Keys
        BY <2>1 DEF IInv, TypeOK
    <2>4. PublishedSince(kid[c], ret'[c].key, now - HitAge)
        BY <2>1, <2>2 DEF IInv, CallerInv, PublishedSince, ServedSince
    <2>5. Abstract!PublishedSince(kid[c], keys[kid[c]], now - HitAge)
        BY <2>2, <2>4 DEF IInv, TypeOK, PublishedSince, ServedSince,
                          Abstract!PublishedSince, Abstract!ServedSince
    <2>6. phase[c] = "asked" /\ phase' = [phase EXCEPT ![c] = "done"]
        BY <2>1 DEF IInv, TypeOK
    <2> QED
        BY <2>1, <2>3, <2>5, <2>6 DEF Abstract!AnswerFromMemory
<1>4. ASSUME NEW c \in Callers, Get(c)
      PROVE  Abstract!Remeasure(c)
    BY <1>4 DEF IInv, TypeOK, Get, Goto, server, Abstract!Remeasure
<1>5. ASSUME NEW c \in Callers, Fail(c)
      PROVE  Abstract!Refuse(c)
    BY <1>5 DEF IInv, TypeOK, Fail, Goto, server, Abstract!Refuse
<1>6. ASSUME NEW c \in Callers, Relook(c)
      PROVE  Abstract!AnswerAfterFetch(c)
    <2>1. /\ pc[c] = "relook" /\ pc' = [pc EXCEPT ![c] = "done"]
          /\ ret' = [ret EXCEPT ![c] = [how |-> "fetch", key |-> keys[kid[c]]]]
          /\ UNCHANGED <<now, epoch, since, kid, stamp>>
        BY <1>6 DEF Relook, Goto, server
    <2>2. /\ pc'[c] = "done"
          /\ ret'[c] = [how |-> "fetch", key |-> keys[kid[c]]]
        BY <2>1 DEF IInv, TypeOK
    <2>3. keys[kid[c]] \in Keys \cup {None}
        BY <2>1 DEF IInv, TypeOK
    <2>4. PublishedSince(kid[c], ret'[c].key, stamp[c] - FetchAge)
        BY <2>1, <2>2 DEF IInv, CallerInv, PublishedSince, ServedSince
    <2>5. Abstract!PublishedSince(kid[c], keys[kid[c]], stamp[c] - FetchAge)
        BY <2>2, <2>4 DEF IInv, TypeOK, PublishedSince, ServedSince,
                          Abstract!PublishedSince, Abstract!ServedSince
    <2>6. phase[c] = "asked" /\ phase' = [phase EXCEPT ![c] = "done"]
        BY <2>1 DEF IInv, TypeOK
    <2> QED
        BY <2>1, <2>3, <2>5, <2>6 DEF Abstract!AnswerAfterFetch
<1>7. ASSUME NEW c \in Callers, Return(c)
      PROVE  Abstract!Return(c)
    BY <1>7 DEF IInv, TypeOK, Return, Goto, server, NoAnswer,
                Abstract!Return, Abstract!NoAnswer
<1>8. ASSUME Tick
      PROVE  Abstract!Tick
    BY <1>8 DEF Tick, Abstract!Tick
<1>9. ASSUME Rotate
      PROVE  Abstract!Rotate
    BY <1>9, ServedAssumption DEF Rotate, Abstract!Rotate
<1>10. ASSUME UNCHANGED vars
       PROVE  UNCHANGED Abstract!vars
    BY <1>10 DEF vars
<1> QED
    BY <1>1, <1>2, <1>3, <1>4, <1>5, <1>6, <1>7, <1>8, <1>9, <1>10
       DEF Next, Step, Abstract!Next

\* The cache, with its lock, its fetches and its races, does nothing that the
\* key source of module KeySource could not do.
THEOREM Refinement == Spec => ImplementsKeySource
<1>1. Init => Abstract!Init
    BY DEF Init, Abstract!Init, phase, NoAnswer, Abstract!NoAnswer
<1> QED
    BY <1>1, StepRefines, Invariance, PTL DEF Spec, ImplementsKeySource, Abstract!Spec
==============================================================================
