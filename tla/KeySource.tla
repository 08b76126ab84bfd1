------------------------------ MODULE KeySource ------------------------------
(***************************************************************************)
(* What a caller of JWKSCache.KeyFor may rely on, with no cache, no lock   *)
(* and no HTTP exchange in it: a call names a key id and ends either in an *)
(* error or in an answer that agrees with a key set the JWKS URL published *)
(* not too long ago.                                                       *)
(*                                                                         *)
(* The identity provider publishes Served[1], Served[2], ... in turn;      *)
(* since[v] is the time at which it began to serve Served[v].  An answer   *)
(* is measured from stamp[c], some moment between the call and the answer. *)
(***************************************************************************)
EXTENDS Integers, Sequences

CONSTANTS
    Callers,     \* goroutines verifying a token
    Kids,        \* key ids a token header may name
    Keys,        \* RSA public keys
    None,        \* no key, no key id
    Published,   \* Published[v][k]: the key of k in the v-th key set, or None
    HitAge,      \* age an answer given from memory may have
    FetchAge,    \* age an answer given after a fetch may have
    MaxTime      \* bound of the clock

VARIABLES
    now,     \* the clock
    epoch,   \* index of the key set being served
    since,   \* since[v]: when the v-th key set was first served
    phase,   \* phase[c]: "idle", "asked" or "done"
    kid,     \* kid[c]: the key id c asked for
    stamp,   \* stamp[c]: the moment the answer to c is measured from
    ret      \* ret[c]: the answer to c

vars == <<now, epoch, since, phase, kid, stamp, ret>>

NoAnswer == [how |-> "none", key |-> None]

Init ==
    /\ now = 0
    /\ epoch = 1
    /\ since = <<0>>
    /\ phase = [c \in Callers |-> "idle"]
    /\ kid = [c \in Callers |-> None]
    /\ stamp = [c \in Callers |-> 0]
    /\ ret = [c \in Callers |-> NoAnswer]

\* The v-th key set was still being served at time t, or later.
ServedSince(v, t) ==
    /\ v \in 1..epoch
    /\ v < epoch => since[v + 1] >= t

\* Some key set served at time t or later has key (or, for None, nothing) at k.
PublishedSince(k, key, t) ==
    \E v \in 1..epoch : ServedSince(v, t) /\ Published[v][k] = key

Ask(c, k) ==
    /\ phase[c] = "idle"
    /\ phase' = [phase EXCEPT ![c] = "asked"]
    /\ kid' = [kid EXCEPT ![c] = k]
    /\ stamp' = [stamp EXCEPT ![c] = now]
    /\ UNCHANGED <<now, epoch, since, ret>>

Remeasure(c) ==
    /\ phase[c] = "asked"
    /\ stamp' = [stamp EXCEPT ![c] = now]
    /\ UNCHANGED <<now, epoch, since, phase, kid, ret>>

AnswerFromMemory(c) ==
    /\ phase[c] = "asked"
    /\ \E key \in Keys :
        /\ PublishedSince(kid[c], key, now - HitAge)
        /\ ret' = [ret EXCEPT ![c] = [how |-> "hit", key |-> key]]
    /\ phase' = [phase EXCEPT ![c] = "done"]
    /\ stamp' = [stamp EXCEPT ![c] = now]
    /\ UNCHANGED <<now, epoch, since, kid>>

AnswerAfterFetch(c) ==
    /\ phase[c] = "asked"
    /\ \E key \in Keys \cup {None} :
        /\ PublishedSince(kid[c], key, stamp[c] - FetchAge)
        /\ ret' = [ret EXCEPT ![c] = [how |-> "fetch", key |-> key]]
    /\ phase' = [phase EXCEPT ![c] = "done"]
    /\ UNCHANGED <<now, epoch, since, kid, stamp>>

Refuse(c) ==
    /\ phase[c] = "asked"
    /\ phase' = [phase EXCEPT ![c] = "done"]
    /\ ret' = [ret EXCEPT ![c] = [how |-> "error", key |-> None]]
    /\ UNCHANGED <<now, epoch, since, kid, stamp>>

Return(c) ==
    /\ phase[c] = "done"
    /\ phase' = [phase EXCEPT ![c] = "idle"]
    /\ kid' = [kid EXCEPT ![c] = None]
    /\ stamp' = [stamp EXCEPT ![c] = 0]
    /\ ret' = [ret EXCEPT ![c] = NoAnswer]
    /\ UNCHANGED <<now, epoch, since>>

Tick ==
    /\ now < MaxTime
    /\ now' = now + 1
    /\ UNCHANGED <<epoch, since, phase, kid, stamp, ret>>

Rotate ==
    /\ epoch < Len(Published)
    /\ epoch' = epoch + 1
    /\ since' = Append(since, now)
    /\ UNCHANGED <<now, phase, kid, stamp, ret>>

Next ==
    \/ \E c \in Callers :
        \/ \E k \in Kids : Ask(c, k)
        \/ Remeasure(c) \/ AnswerFromMemory(c) \/ AnswerAfterFetch(c)
        \/ Refuse(c) \/ Return(c)
    \/ Tick
    \/ Rotate

Spec == Init /\ [][Next]_vars
==============================================================================
