------------------------ MODULE AuthInterceptorProofs ------------------------
(***************************************************************************)
(* Proofs about AuthInterceptor, for every set of callers, environments    *)
(* and requests, every finite history of key sets and all ages the key     *)
(* source may give its answers.                                            *)
(***************************************************************************)
EXTENDS AuthInterceptor, SequenceTheorems, TLAPS

Entitled(c, key) ==
    KeyFor!PublishedSince(rq[c].kid, key, arrived[c] - OldestKey)

\* The request of c goes on, or went on, by one of the branches in ways.
Past(c, at, ways) ==
    \/ pc[c] = at
    \/ pc[c] \in {"handle", "done"} /\ outcome[c].via \in ways

\* A request in the keyfunc: its question is the token's, its answer is measured
\* from no earlier than the arrival, and a key in it is one it is entitled to.
Asking(c) ==
    pc[c] = "keyfor" =>
        /\ kid[c] = rq[c].kid
        /\ arrived[c] <= stamp[c] /\ stamp[c] <= now
        /\ phase[c] = "done" /\ ret[c].key # None => Entitled(c, ret[c].key)

Verified(c) ==
    Past(c, "claims", {"jwks"}) =>
        rq[c].signed \in Keys \ {None} /\ Entitled(c, rq[c].signed)

InTime(c) ==
    Past(c, "claims", {"jwks", "hmac"}) =>
        /\ rq[c].exp # None => arrived[c] < rq[c].exp
        /\ rq[c].nbf # None => now >= rq[c].nbf

\* Whom an answer is for, by the branch the request took.
Named(c) ==
    /\ pc[c] \in {"keyfor", "claims"} => ~env.bypass
    /\ pc[c] = "handle" => outcome[c].via # "unauthenticated"
    /\ pc[c] \in {"handle", "done"} =>
        /\ outcome[c].via \in {"allowlist", "bypass", "jwks", "hmac", "unauthenticated"}
        /\ outcome[c].via = "allowlist" => outcome[c].uid = 0
        /\ outcome[c].via = "bypass" => env.bypass /\ outcome[c].uid = env.devUser
        /\ outcome[c].via \in {"jwks", "hmac"} =>
            ~env.bypass /\ outcome[c].uid = rq[c].sub
    /\ Served(c) /\ rq[c].proc = "GetMe" => outcome[c].uid # 0

CallerInv(c) ==
    /\ arrived[c] <= now
    /\ Asking(c) /\ Verified(c) /\ InTime(c) /\ Named(c)

IInv == TypeOK /\ \A c \in Callers : CallerInv(c)

\* A step leaves the request of c where it is.
Untouched(c) ==
    /\ pc'[c] = pc[c] /\ rq'[c] = rq[c] /\ arrived'[c] = arrived[c]
    /\ outcome'[c] = outcome[c] /\ phase'[c] = phase[c] /\ kid'[c] = kid[c]
    /\ stamp'[c] = stamp[c] /\ ret'[c] = ret[c]

------------------------------------------------------------------------------
\* A step never takes back what the provider has published, and time does not
\* run backwards.
Onward ==
    /\ now' \in Int /\ now <= now'
    /\ env' = env
    /\ \A k \in Kids, key \in Keys \cup {None}, t \in Int :
        t <= now /\ KeyFor!PublishedSince(k, key, t) => KeyFor!PublishedSince(k, key, t)'

LEMMA StepsGoOn ==
    ASSUME TypeOK, [Next]_vars
    PROVE  Onward
<1> USE DEF TypeOK
<1>1. CASE UNCHANGED <<now, epoch, since, env>>
    BY <1>1 DEF Onward, KeyFor!PublishedSince, KeyFor!ServedSince
<1>2. CASE Environment
    <2>1. CASE KeyFor!Tick
        BY <1>2, <2>1 DEF Environment, KeyFor!Tick, Onward, KeyFor!PublishedSince,
                          KeyFor!ServedSince
    <2>2. CASE KeyFor!Rotate
        <3>1. /\ now' = now /\ env' = env /\ epoch' = epoch + 1
              /\ since' = Append(since, now)
            BY <1>2, <2>2 DEF Environment, KeyFor!Rotate
        <3>2. \A v \in 1..epoch : since'[v] = since[v]
            BY <3>1
        <3>3. since'[epoch + 1] = now
            BY <3>1
        <3>4. ASSUME NEW v \in 1..epoch, NEW t \in Int, t <= now, KeyFor!ServedSince(v, t)
              PROVE  KeyFor!ServedSince(v, t)'
            <4>1. CASE v = epoch
                BY <3>1, <3>3, <3>4, <4>1 DEF KeyFor!ServedSince
            <4>2. CASE v # epoch
                <5>1. v + 1 \in 1..epoch /\ v < epoch
                    BY <4>2
                <5> QED
                    BY <3>1, <3>2, <3>4, <5>1 DEF KeyFor!ServedSince
            <4> QED
                BY <4>1, <4>2
        <3> QED
            BY <3>1, <3>4 DEF Onward, KeyFor!PublishedSince
    <2> QED
        BY <1>2, <2>1, <2>2 DEF Environment
<1> QED
    BY <1>1, <1>2 DEF Next, vars, source, Receive, Intercept, Allow, Bypass, NoHeader,
        AskKey, ParseJwks, CheckClaims, ParseHmac, Handle, SourceStep, Respond,
        KeyFor!Ask, KeyFor!Remeasure, KeyFor!AnswerFromMemory, KeyFor!AnswerAfterFetch,
        KeyFor!Refuse, KeyFor!Return

\* The requests a step does not touch stay as they should be.
LEMMA Frame ==
    ASSUME IInv, Onward, NEW c \in Callers, Untouched(c)
    PROVE  CallerInv(c)'
<1> USE SourceAssumption, InputsAssumption
<1>1. CallerInv(c)
    BY DEF IInv
<1>2. arrived[c] \in Int /\ now \in Int /\ OldestKey \in Nat
    BY DEF IInv, TypeOK, OldestKey
<1>3. ASSUME NEW key \in Keys \cup {None}, rq[c] # None, Entitled(c, key)
      PROVE  Entitled(c, key)'
    <2>1. rq[c].kid \in Kids /\ arrived[c] - OldestKey \in Int
          /\ arrived[c] - OldestKey <= now
        BY <1>1, <1>2, <1>3 DEF IInv, TypeOK, CallerInv
    <2>2. ASSUME NEW k \in Kids, NEW t \in Int, t <= now, k = rq[c].kid,
                 t = arrived[c] - OldestKey
          PROVE  Entitled(c, key)'
        <3>1. KeyFor!PublishedSince(k, key, t)'
            BY <1>3, <2>2 DEF Onward, Entitled
        <3>2. k = rq'[c].kid /\ t = arrived'[c] - OldestKey
            BY <2>2 DEF Untouched
        <3> QED
            BY <3>1, <3>2 DEF Entitled, OldestKey, KeyFor!PublishedSince, KeyFor!ServedSince
    <2> QED
        BY <2>1, <2>2
<1>4. Asking(c)'
    <2>1. ret[c].key \in Keys \cup {None} /\ (pc[c] = "keyfor" => rq[c] # None)
        BY DEF IInv, TypeOK
    <2> QED
        BY <1>1, <1>2, <1>3, <2>1 DEF CallerInv, Asking, Onward, Untouched, IInv, TypeOK
<1>5. Verified(c)'
    <2>1. Past(c, "claims", {"jwks"}) => rq[c] # None
        BY DEF IInv, TypeOK, Past
    <2> QED
        BY <1>1, <1>3, <2>1 DEF CallerInv, Verified, Past, Untouched
<1>6. InTime(c)'
    <2>1. Past(c, "claims", {"jwks", "hmac"}) =>
            rq[c].nbf \in Int \cup {None} /\ rq[c].exp \in Int \cup {None}
        BY DEF IInv, TypeOK, Past
    <2> QED
        BY <1>1, <1>2, <2>1 DEF CallerInv, InTime, Past, Onward, Untouched
<1>7. Named(c)' /\ (arrived[c] <= now)'
    BY <1>1, <1>2 DEF CallerInv, Named, Served, Onward, Untouched
<1> QED
    BY <1>4, <1>5, <1>6, <1>7 DEF CallerInv

------------------------------------------------------------------------------
Outcomes ==
    [Callers -> [via : {"none", "allowlist", "bypass", "jwks", "hmac", "unauthenticated"},
                 uid : Int]]
Answers ==
    [Callers -> [how : {"none", "hit", "fetch", "error"}, key : Keys \cup {None}]]

LEMMA ProceedTyped ==
    ASSUME TypeOK, NEW c \in Callers, NEW from \in {"enter", "claims"},
           NEW via \in {"allowlist", "bypass", "jwks", "hmac"}, NEW uid \in Int,
           Proceed(c, from, via, uid),
           UNCHANGED <<now, epoch, since, phase, kid, stamp, ret, env, rq, arrived>>
    PROVE  TypeOK'
BY DEF TypeOK, Proceed, Goto, Outcome

LEMMA RefuseTyped ==
    ASSUME TypeOK, NEW c \in Callers, NEW from \in {"enter", "claims", "handle"},
           Refuse(c, from),
           UNCHANGED <<now, epoch, since, phase, kid, stamp, ret, env, rq, arrived>>
    PROVE  TypeOK'
BY DEF TypeOK, Refuse, Refused, Goto, Outcome

LEMMA TypesPreserved ==
    ASSUME TypeOK, [Next]_vars
    PROVE  TypeOK'
<1> USE SourceAssumption, InputsAssumption DEF TypeOK
<1>1. ASSUME NEW c \in Callers, NEW r \in Requests, Receive(c, r)
      PROVE  TypeOK'
    BY <1>1 DEF Receive, Goto, source
<1>2. ASSUME NEW c \in Callers, Allow(c)
      PROVE  TypeOK'
    BY <1>2, ProceedTyped, 0 \in Int DEF Allow, source
<1>3. ASSUME NEW c \in Callers, Bypass(c)
      PROVE  TypeOK'
    BY <1>3, ProceedTyped DEF Bypass, source
<1>4. ASSUME NEW c \in Callers, NoHeader(c)
      PROVE  TypeOK'
    BY <1>4, RefuseTyped DEF NoHeader, NeedsToken, source
<1>5. ASSUME NEW c \in Callers, AskKey(c)
      PROVE  TypeOK'
    BY <1>5 DEF AskKey, NeedsToken, Goto, KeyFor!Ask
<1>6. ASSUME NEW c \in Callers, ParseJwks(c)
      PROVE  TypeOK'
    <2>1. /\ outcome' = outcome \/ outcome' = [outcome EXCEPT ![c] = Refused]
          /\ \E at \in {"claims", "done"} : pc' = [pc EXCEPT ![c] = at]
          /\ UNCHANGED <<now, epoch, since, env, rq, arrived>>
        BY <1>6 DEF ParseJwks, Refuse, Goto, Outcome, KeyFor!Return
    <2>2. outcome' \in Outcomes
        <3>1. outcome \in Outcomes
            BY DEF Outcomes
        <3>2. CASE outcome' = outcome
            BY <3>1, <3>2
        <3>3. CASE outcome' = [outcome EXCEPT ![c] = Refused]
            BY <3>1, <3>3 DEF Refused, Outcomes
        <3> QED
            BY <2>1, <3>2, <3>3
    <2>3. /\ phase' \in [Callers -> {"idle", "asked", "done"}]
          /\ kid' \in [Callers -> Kids \cup {None}]
          /\ stamp' \in [Callers -> 0..MaxTime]
          /\ ret' \in Answers
        BY <1>6 DEF ParseJwks, KeyFor!Return, KeyFor!NoAnswer, Answers
    <2>4. \A d \in Callers : phase'[d] # "idle" <=> pc'[d] = "keyfor"
        BY <1>6, <2>1 DEF ParseJwks, KeyFor!Return
    <2> QED
        <3>1. \A d \in Callers : rq'[d] = None <=> pc'[d] = "idle"
            BY <1>6, <2>1 DEF ParseJwks
        <3>2. pc' \in [Callers -> {"idle", "enter", "keyfor", "claims", "handle", "done"}]
            BY <2>1
        <3>3. /\ now' = now /\ epoch' = epoch /\ since' = since /\ env' = env
              /\ rq' = rq /\ arrived' = arrived
            BY <2>1
        <3> QED
            BY <2>2, <2>3, <2>4, <3>1, <3>2, <3>3 DEF Outcomes, Answers
<1>7. ASSUME NEW c \in Callers, CheckClaims(c)
      PROVE  TypeOK'
    <2>1. rq[c].sub \in Int
        BY <1>7 DEF CheckClaims
    <2>2. UNCHANGED <<now, epoch, since, phase, kid, stamp, ret, env, rq, arrived>>
        BY <1>7 DEF CheckClaims, source
    <2>3. CASE Proceed(c, "claims", "jwks", rq[c].sub)
        BY <2>1, <2>2, <2>3, ProceedTyped
    <2>4. CASE Refuse(c, "claims")
        BY <2>2, <2>4, RefuseTyped
    <2> QED
        BY <1>7, <2>3, <2>4 DEF CheckClaims
<1>8. ASSUME NEW c \in Callers, ParseHmac(c)
      PROVE  TypeOK'
    <2>1. rq[c].sub \in Int
        BY <1>8 DEF ParseHmac, NeedsToken
    <2>2. UNCHANGED <<now, epoch, since, phase, kid, stamp, ret, env, rq, arrived>>
        BY <1>8 DEF ParseHmac, source
    <2>3. CASE Proceed(c, "enter", "hmac", rq[c].sub)
        BY <2>1, <2>2, <2>3, ProceedTyped
    <2>4. CASE Refuse(c, "enter")
        BY <2>2, <2>4, RefuseTyped
    <2> QED
        BY <1>8, <2>3, <2>4 DEF ParseHmac
<1>9. ASSUME NEW c \in Callers, Handle(c)
      PROVE  TypeOK'
    <2>1. CASE Refuse(c, "handle")
        BY <1>9, <2>1, RefuseTyped DEF Handle, source
    <2>2. CASE Goto(c, "handle", "done") /\ UNCHANGED outcome
        BY <1>9, <2>2 DEF Handle, Goto, source
    <2> QED
        BY <1>9, <2>1, <2>2 DEF Handle
<1>10. ASSUME NEW c \in Callers, Respond(c)
       PROVE  TypeOK'
    BY <1>10 DEF Respond, Goto, Outcome, Pending, source
<1>11. ASSUME NEW c \in Callers, SourceStep(c)
       PROVE  TypeOK'
    <2>1. CASE KeyFor!Remeasure(c)
        BY <1>11, <2>1 DEF SourceStep, KeyFor!Remeasure
    <2>2. CASE KeyFor!AnswerFromMemory(c)
        BY <1>11, <2>2 DEF SourceStep, KeyFor!AnswerFromMemory
    <2>3. CASE KeyFor!AnswerAfterFetch(c)
        BY <1>11, <2>3 DEF SourceStep, KeyFor!AnswerAfterFetch
    <2>4. CASE KeyFor!Refuse(c)
        BY <1>11, <2>4 DEF SourceStep, KeyFor!Refuse
    <2> QED
        BY <1>11, <2>1, <2>2, <2>3, <2>4 DEF SourceStep
<1>12. ASSUME Environment
       PROVE  TypeOK'
    <2>1. CASE KeyFor!Tick
        BY <1>12, <2>1 DEF Environment, KeyFor!Tick
    <2>2. CASE KeyFor!Rotate
        BY <1>12, <2>2 DEF Environment, KeyFor!Rotate
    <2> QED
        BY <1>12, <2>1, <2>2 DEF Environment
<1>13. ASSUME UNCHANGED vars
       PROVE  TypeOK'
    BY <1>13 DEF vars
<1> QED
    BY <1>1, <1>2, <1>3, <1>4, <1>5, <1>6, <1>7, <1>8, <1>9, <1>10, <1>11, <1>12, <1>13
       DEF Next, Intercept

\* A request moves alone.
LEMMA OthersUntouched ==
    ASSUME TypeOK, NEW c \in Callers, NEW d \in Callers, c # d,
           \/ \E r \in Requests : Receive(c, r)
           \/ Intercept(c) \/ SourceStep(c) \/ Respond(c)
    PROVE  Untouched(d)
BY DEF TypeOK, Untouched, Receive, Intercept, Allow, Bypass, NoHeader, AskKey, ParseJwks,
    CheckClaims, ParseHmac, Handle, SourceStep, Respond, Proceed, Refuse, Goto, Outcome,
    source, KeyFor!Ask, KeyFor!Remeasure, KeyFor!AnswerFromMemory,
    KeyFor!AnswerAfterFetch, KeyFor!Refuse, KeyFor!Return

------------------------------------------------------------------------------
\* An answer the key source may give after a question asked, or measured, at s is
\* one a request that arrived before is entitled to.
LEMMA OlderIsWeaker ==
    ASSUME TypeOK, NEW k, NEW key, NEW s \in Int, NEW t \in Int, t <= s,
           KeyFor!PublishedSince(k, key, s)
    PROVE  KeyFor!PublishedSince(k, key, t)
<1>1. PICK v \in 1..epoch : KeyFor!ServedSince(v, s) /\ Published[v][k] = key
    BY DEF KeyFor!PublishedSince
<1>2. ASSUME v < epoch
      PROVE  since[v + 1] \in Int
    <2>1. since \in Seq(0..MaxTime) /\ v + 1 \in 1..Len(since)
        <3>1. epoch \in Nat
            BY SourceAssumption DEF TypeOK
        <3> QED
            BY <1>2, <3>1 DEF TypeOK
    <2>2. since[v + 1] \in 0..MaxTime
        BY <2>1, ElementOfSeq
    <2> QED
        BY <2>2, SourceAssumption
<1> QED
    BY <1>1, <1>2 DEF KeyFor!PublishedSince, KeyFor!ServedSince

LEMMA SourcePreserves ==
    ASSUME IInv, Onward, TypeOK', NEW c \in Callers, SourceStep(c)
    PROVE  CallerInv(c)'
<1> USE SourceAssumption
<1> USE DEF IInv, TypeOK, SourceStep
<1>1. CallerInv(c) /\ phase[c] = "asked" /\ pc[c] = "keyfor"
    BY DEF KeyFor!Remeasure, KeyFor!AnswerFromMemory, KeyFor!AnswerAfterFetch, KeyFor!Refuse
<1>2. /\ pc'[c] = "keyfor" /\ rq'[c] = rq[c] /\ arrived'[c] = arrived[c] /\ env' = env
      /\ now' = now /\ epoch' = epoch /\ since' = since /\ kid' = kid
    BY <1>1 DEF KeyFor!Remeasure, KeyFor!AnswerFromMemory, KeyFor!AnswerAfterFetch,
                KeyFor!Refuse
<1>3. \A key : Entitled(c, key)' <=> Entitled(c, key)
    BY <1>2 DEF Entitled, OldestKey, KeyFor!PublishedSince, KeyFor!ServedSince
<1>4. OldestKey \in Nat /\ HitAge <= OldestKey /\ FetchAge <= OldestKey
    BY DEF OldestKey
<1>5. Asking(c)'
    <2>1. CASE KeyFor!Remeasure(c)
        BY <1>1, <1>2, <2>1 DEF CallerInv, Asking, KeyFor!Remeasure
    <2>2. CASE KeyFor!AnswerFromMemory(c)
        <3>1. PICK key \in Keys :
                /\ KeyFor!PublishedSince(kid[c], key, now - HitAge)
                /\ ret'[c].key = key
            BY <2>2 DEF KeyFor!AnswerFromMemory
        <3>2. Entitled(c, key)
            BY <1>1, <1>4, <3>1, OlderIsWeaker, now - HitAge \in Int,
               arrived[c] - OldestKey \in Int, arrived[c] - OldestKey <= now - HitAge
               DEF CallerInv, Asking, Entitled
        <3> QED
            BY <1>1, <1>2, <1>3, <2>2, <3>1, <3>2
               DEF CallerInv, Asking, KeyFor!AnswerFromMemory
    <2>3. CASE KeyFor!AnswerAfterFetch(c)
        <3>1. PICK key \in Keys \cup {None} :
                /\ KeyFor!PublishedSince(kid[c], key, stamp[c] - FetchAge)
                /\ ret'[c].key = key
            BY <2>3 DEF KeyFor!AnswerAfterFetch
        <3>2. Entitled(c, key)
            <4>1. arrived[c] - OldestKey <= stamp[c] - FetchAge
                BY <1>1, <1>4 DEF CallerInv, Asking
            <4> QED
                BY <1>1, <1>4, <3>1, <4>1, OlderIsWeaker, stamp[c] - FetchAge \in Int,
                   arrived[c] - OldestKey \in Int
                   DEF CallerInv, Asking, Entitled
        <3> QED
            BY <1>1, <1>2, <1>3, <2>3, <3>1, <3>2
               DEF CallerInv, Asking, KeyFor!AnswerAfterFetch
    <2>4. CASE KeyFor!Refuse(c)
        BY <1>1, <1>2, <2>4 DEF CallerInv, Asking, KeyFor!Refuse
    <2> QED
        BY <2>1, <2>2, <2>3, <2>4
<1> QED
    BY <1>1, <1>2, <1>5 DEF CallerInv, Verified, InTime, Named, Past, Served

------------------------------------------------------------------------------
\* The request that moves stays as it should be, branch by branch.
LEMMA EnterPreserves ==
    ASSUME IInv, Onward, NEW c \in Callers,
           \/ \E r \in Requests : Receive(c, r)
           \/ Allow(c) \/ Bypass(c) \/ NoHeader(c) \/ AskKey(c) \/ Respond(c)
    PROVE  CallerInv(c)'
<1> USE DEF IInv, TypeOK
<1>1. now' = now /\ env' = env /\ now \in Nat
    BY DEF Receive, Allow, Bypass, NoHeader, AskKey, Respond, source, KeyFor!Ask
<1>2. ASSUME NEW r \in Requests, Receive(c, r)
      PROVE  CallerInv(c)'
    <2>1. pc'[c] = "enter" /\ arrived'[c] = now
        BY <1>2 DEF Receive, Goto
    <2> QED
        BY <1>1, <2>1 DEF CallerInv, Asking, Verified, InTime, Named, Past, Served
<1>3. CASE Allow(c)
    <2>1. pc'[c] = "handle" /\ arrived' = arrived /\ outcome'[c] = [via |-> "allowlist", uid |-> 0]
        BY <1>3 DEF Allow, Proceed, Goto, Outcome
    <2> QED
        BY <1>1, <2>1 DEF CallerInv, Asking, Verified, InTime, Named, Past, Served
<1>4. CASE Bypass(c)
    <2>1. /\ pc'[c] = "handle" /\ arrived' = arrived /\ env.bypass
          /\ outcome'[c] = [via |-> "bypass", uid |-> env.devUser]
        BY <1>4 DEF Bypass, Proceed, Goto, Outcome
    <2> QED
        BY <1>1, <2>1 DEF CallerInv, Asking, Verified, InTime, Named, Past, Served
<1>5. CASE NoHeader(c)
    <2>1. pc'[c] = "done" /\ arrived' = arrived /\ outcome'[c] = Refused
        BY <1>5 DEF NoHeader, Refuse, Goto, Outcome
    <2> QED
        BY <1>1, <2>1 DEF CallerInv, Asking, Verified, InTime, Named, Past, Served, Refused
<1>6. CASE AskKey(c)
    <2>1. /\ pc'[c] = "keyfor" /\ phase'[c] = "asked" /\ kid'[c] = rq[c].kid
          /\ stamp'[c] = now /\ UNCHANGED <<rq, arrived, env>> /\ ~env.bypass
        BY <1>6 DEF AskKey, NeedsToken, Goto, KeyFor!Ask
    <2> QED
        BY <1>1, <2>1 DEF CallerInv, Asking, Verified, InTime, Named, Past, Served
<1>7. CASE Respond(c)
    <2>1. pc'[c] = "idle" /\ arrived'[c] = 0
        BY <1>7 DEF Respond, Goto
    <2> QED
        BY <1>1, <2>1 DEF CallerInv, Asking, Verified, InTime, Named, Past, Served
<1> QED
    BY <1>2, <1>3, <1>4, <1>5, <1>6, <1>7

\* jwt.Parse: what its tests have seen is what the request is then known for.
LEMMA ParsePreserves ==
    ASSUME IInv, Onward, NEW c \in Callers, ParseJwks(c) \/ ParseHmac(c)
    PROVE  CallerInv(c)'
<1> USE DEF IInv, TypeOK
<1>1. /\ now' = now /\ epoch' = epoch /\ since' = since /\ env' = env /\ rq' = rq
      /\ arrived' = arrived
    BY DEF ParseJwks, ParseHmac, source, KeyFor!Return
<1>2. CallerInv(c) /\ pc[c] \in {"enter", "keyfor"} /\ rq[c] \in Requests
    BY DEF ParseJwks, ParseHmac, NeedsToken
<1>3. arrived[c] \in Nat /\ now \in Nat /\ arrived[c] <= now
    BY <1>2 DEF CallerInv
<1>4. CASE pc'[c] = "done" /\ outcome'[c] = Refused
    BY <1>1, <1>3, <1>4 DEF CallerInv, Asking, Verified, InTime, Named, Past, Served, Refused
<1>5. ASSUME Timely(rq[c])
      PROVE  /\ rq[c].exp # None => arrived[c] < rq[c].exp
             /\ rq[c].nbf # None => now >= rq[c].nbf
    <2>1. rq[c].exp \in Int \cup {None}
        BY <1>2, InputsAssumption
    <2> QED
        BY <1>3, <1>5, <2>1 DEF Timely
<1>6. CASE ParseJwks(c) /\ pc'[c] = "claims"
    <2>1. /\ pc[c] = "keyfor" /\ phase[c] = "done"
          /\ ret[c].key # None /\ rq[c].signed = ret[c].key /\ Timely(rq[c])
        BY <1>6 DEF ParseJwks, Refuse, Goto
    <2>2. rq[c].signed \in Keys \ {None} /\ Entitled(c, rq[c].signed)
        BY <1>2, <2>1 DEF CallerInv, Asking
    <2>3. Entitled(c, rq[c].signed)'
        BY <1>1, <2>2 DEF Entitled, OldestKey, KeyFor!PublishedSince, KeyFor!ServedSince
    <2>4. ~env.bypass
        BY <1>2, <2>1 DEF CallerInv, Named
    <2> QED
        BY <1>1, <1>3, <1>5, <1>6, <2>1, <2>2, <2>3, <2>4
           DEF CallerInv, Asking, Verified, InTime, Named, Past, Served
<1>7. CASE ParseHmac(c) /\ pc'[c] = "handle"
    <2>1. /\ Timely(rq[c]) /\ ~env.bypass
          /\ outcome'[c] = [via |-> "hmac", uid |-> rq[c].sub]
        BY <1>7 DEF ParseHmac, NeedsToken, Proceed, Refuse, Goto, Outcome
    <2> QED
        BY <1>1, <1>3, <1>5, <1>7, <2>1
           DEF CallerInv, Asking, Verified, InTime, Named, Past, Served
<1> QED
    BY <1>4, <1>6, <1>7 DEF ParseJwks, ParseHmac, Proceed, Refuse, Goto, Outcome

LEMMA AcceptPreserves ==
    ASSUME IInv, Onward, NEW c \in Callers, CheckClaims(c) \/ Handle(c)
    PROVE  CallerInv(c)'
<1> USE DEF IInv, TypeOK
<1>1. /\ now' = now /\ epoch' = epoch /\ since' = since /\ env' = env /\ rq' = rq
      /\ arrived' = arrived
    BY DEF CheckClaims, Handle, source
<1>2. CallerInv(c)
    OBVIOUS
<1>3. Entitled(c, rq[c].signed)' <=> Entitled(c, rq[c].signed)
    BY <1>1 DEF Entitled, OldestKey, KeyFor!PublishedSince, KeyFor!ServedSince
<1>4. CASE pc'[c] = "done" /\ outcome'[c] = Refused
    BY <1>1, <1>2, <1>4 DEF CallerInv, Asking, Verified, InTime, Named, Past, Served, Refused
<1>5. CASE CheckClaims(c) /\ pc'[c] = "handle"
    <2>1. pc[c] = "claims" /\ outcome'[c] = [via |-> "jwks", uid |-> rq[c].sub]
        BY <1>5 DEF CheckClaims, Proceed, Refuse, Goto, Outcome
    <2>2. Verified(c)'
        <3>1. rq[c].signed \in Keys \ {None} /\ Entitled(c, rq[c].signed)
            BY <1>2, <2>1 DEF CallerInv, Verified, Past
        <3> QED
            BY <1>1, <1>3, <3>1 DEF Verified
    <2>3. InTime(c)'
        <3>1. /\ rq[c].exp # None => arrived[c] < rq[c].exp
              /\ rq[c].nbf # None => now >= rq[c].nbf
            BY <1>2, <2>1 DEF CallerInv, InTime, Past
        <3> QED
            BY <1>1, <3>1 DEF InTime
    <2>4. Named(c)' /\ Asking(c)'
        BY <1>1, <1>2, <1>5, <2>1 DEF CallerInv, Named, Asking, Served
    <2> QED
        BY <1>1, <1>2, <2>2, <2>3, <2>4 DEF CallerInv
<1>6. CASE Handle(c) /\ outcome' = outcome
    <2>1. /\ pc[c] = "handle" /\ pc'[c] = "done"
          /\ rq[c].proc = "GetMe" => outcome[c].uid # 0
        <3>1. CASE rq[c].proc = "GetMe" /\ outcome[c].uid = 0
            <4>1. outcome'[c] = Refused
                BY <1>6, <3>1 DEF Handle, Refuse, Outcome
            <4> QED
                BY <1>2, <1>6, <3>1, <4>1 DEF Handle, Refused, CallerInv, Named
        <3> QED
            BY <1>6, <3>1 DEF Handle, Goto
    <2> QED
        BY <1>1, <1>2, <1>3, <1>6, <2>1
           DEF CallerInv, Asking, Verified, InTime, Named, Past, Served
<1> QED
    BY <1>4, <1>5, <1>6 DEF CheckClaims, Handle, Proceed, Refuse, Goto, Outcome

------------------------------------------------------------------------------
LEMMA InvInit == Init => IInv
<1> SUFFICES ASSUME Init
             PROVE  IInv
    OBVIOUS
<1> USE SourceAssumption, InputsAssumption
<1> USE DEF Init, KeyFor!Init
<1>1. epoch \in 1..Len(Published) /\ since \in Seq(0..MaxTime) /\ Len(since) = epoch
    OBVIOUS
<1>2. ret \in Answers /\ outcome \in Outcomes
    BY DEF Answers, Outcomes, KeyFor!NoAnswer, Pending
<1>3. TypeOK
    BY <1>1, <1>2 DEF TypeOK, Answers, Outcomes
<1> QED
    BY <1>3 DEF IInv, CallerInv, Asking, Verified, InTime, Named, Past, Served

LEMMA InvPreserved == IInv /\ [Next]_vars => IInv'
<1> SUFFICES ASSUME IInv, [Next]_vars
             PROVE  IInv'
    OBVIOUS
<1>1. TypeOK /\ TypeOK' /\ Onward
    BY TypesPreserved, StepsGoOn DEF IInv
<1>2. ASSUME NEW c \in Callers,
             \/ \E r \in Requests : Receive(c, r)
             \/ Intercept(c) \/ SourceStep(c) \/ Respond(c)
      PROVE  IInv'
    <2>1. CallerInv(c)'
        BY <1>1, <1>2, EnterPreserves, ParsePreserves, AcceptPreserves, SourcePreserves
           DEF Intercept
    <2>2. ASSUME NEW d \in Callers, d # c
          PROVE  CallerInv(d)'
        BY <1>1, <1>2, <2>2, OthersUntouched, Frame
    <2> QED
        BY <1>1, <2>1, <2>2 DEF IInv
<1>3. CASE Environment \/ UNCHANGED vars
    <2>1. ASSUME NEW d \in Callers
          PROVE  Untouched(d)
        BY <1>3 DEF Environment, KeyFor!Tick, KeyFor!Rotate, vars, Untouched
    <2> QED
        BY <1>1, <2>1, Frame DEF IInv
<1> QED
    BY <1>2, <1>3 DEF Next

LEMMA Invariance == Spec => []IInv
BY InvInit, InvPreserved, PTL DEF Spec

\* Every variable keeps its type, and KeyFor works for a request exactly while
\* the request is inside jwt.Parse.
THEOREM TypeCorrect == Spec => []TypeOK
<1>1. IInv => TypeOK
    BY DEF IInv
<1> QED
    BY <1>1, Invariance, PTL

\* A request served on a JWKS signature was signed with a key that was published
\* under its kid at the latest OldestKey before it came in.
THEOREM WithdrawnKeysDie == Spec => []KeyWithdrawn
<1>1. IInv => KeyWithdrawn
    BY DEF IInv, CallerInv, Verified, Past, Entitled, KeyWithdrawn, Served
<1> QED
    BY <1>1, Invariance, PTL

\* No token serves a request that came in after its exp or was answered before its
\* nbf by more than the skew, however long the fetch of the keys took.
THEOREM TokensAreInTime == Spec => []TokenInTime
<1>1. ASSUME IInv, NEW c \in Callers, Served(c), outcome[c].via \in {"jwks", "hmac"}
      PROVE  /\ rq[c].exp # None => arrived[c] <= rq[c].exp + Leeway
             /\ rq[c].nbf # None => now >= rq[c].nbf - Leeway
    <2>1. rq[c] \in Requests
        BY <1>1 DEF IInv, TypeOK, Served
    <2>2. /\ rq[c].exp # None => rq[c].exp \in Int
          /\ rq[c].nbf # None => rq[c].nbf \in Int
        BY <2>1, InputsAssumption
    <2>3. Leeway \in Nat /\ arrived[c] \in Nat /\ now \in Nat
        BY <1>1, InputsAssumption, SourceAssumption DEF Leeway, IInv, TypeOK
    <2>4. /\ rq[c].exp # None => arrived[c] < rq[c].exp
          /\ rq[c].nbf # None => now >= rq[c].nbf
        BY <1>1 DEF IInv, CallerInv, InTime, Past, Served
    <2> QED
        BY <2>2, <2>3, <2>4
<1>2. IInv => TokenInTime
    BY <1>1 DEF TokenInTime
<1> QED
    BY <1>2, Invariance, PTL

\* UserService acts for the user the request names, and for nobody without one.
THEOREM UsersAreNamed == Spec => []UserIsNamed
<1>1. ASSUME IInv, NEW c \in Callers, Served(c), rq[c].proc = "GetMe"
      PROVE  /\ outcome[c].uid # 0
             /\ outcome[c].uid = IF env.bypass THEN env.devUser ELSE rq[c].sub
    BY <1>1 DEF IInv, CallerInv, Named, Served
<1>2. IInv => UserIsNamed
    BY <1>1 DEF UserIsNamed
<1> QED
    BY <1>2, Invariance, PTL
==============================================================================
