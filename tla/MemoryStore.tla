------------------------------ MODULE MemoryStore ------------------------------
(***************************************************************************)
(* The repository in memory that the scaffold generates for an entity, and *)
(* the handlers it generates over it (cmd/scaffold/main.go: handlerTmpl,   *)
(* usecaseTmpl, repoMemoryTmpl).                                           *)
(*                                                                         *)
(* One mutex guards the map of pointers.  Create and Update put a copy of  *)
(* their input in the map and return the very pointer they put there: the  *)
(* handler reads the fields of an object that is in the map after the      *)
(* mutex was released.  Get and List return copies made under the mutex.   *)
(*                                                                         *)
(*   idle -> lock -> first [-> second] -> unlock -> [render ->] reply      *)
(***************************************************************************)
EXTENDS ListParams, FiniteSets

CONSTANTS
    Workers,    \* goroutines serving RPCs
    Vals,       \* contents of an entity: its fields
    Addrs,      \* addresses of objects
    None,       \* nil, no object, no owner
    MaxId       \* bound: the last id Create hands out

Ids == 1..MaxId
Ops == {"Create", "Get", "List", "Update", "Delete"}
Entity == [id : Ids, val : Vals]

ASSUME MemoryAssumption ==
    /\ MaxId \in Nat
    /\ None \notin Vals \cup Addrs \cup Workers
    /\ None \notin Entity

VARIABLES
    heap,     \* heap[a]: the object at a; objects nothing points to are None
    data,     \* data[i]: the address the map has for i, or None
    seq,      \* the last id handed out
    mu,       \* the worker that holds the mutex, or None
    pc,       \* pc[w]: where w is
    req,      \* req[w]: operation, id and contents
    out,      \* out[w]: the pointer w has from the map
    reply     \* reply[w]: the response

vars == <<heap, data, seq, mu, pc, req, out, reply>>

NoReq == [op |-> "none", id |-> 0, val |-> None]
NoReply == [code |-> "none", samples |-> <<>>]
OK(samples) == [code |-> "ok", samples |-> samples]

Present == {i \in Ids : data[i] # None}

------------------------------------------------------------------------------
Init ==
    /\ heap = [a \in Addrs |-> None]
    /\ data = [i \in Ids |-> None]
    /\ seq = 0
    /\ mu = None
    /\ pc = [w \in Workers |-> "idle"]
    /\ req = [w \in Workers |-> NoReq]
    /\ out = [w \in Workers |-> None]
    /\ reply = [w \in Workers |-> NoReply]

Goto(w, from, to) == pc[w] = from /\ pc' = [pc EXCEPT ![w] = to]

Answer(w, r) == reply' = [reply EXCEPT ![w] = r]

\* The heap h without what neither a map d nor a pointer of p reaches.
Collected(h, d, p) ==
    [a \in Addrs |-> IF \/ \E i \in Ids : d[i] = a
                        \/ \E w \in Workers : p[w] = a
                     THEN h[a] ELSE None]

\* The handler: the request as an entity.
Call(w, op, i, v) ==
    /\ Goto(w, "idle", "lock")
    /\ req' = [req EXCEPT ![w] = [op |-> op, id |-> i, val |-> v]]
    /\ UNCHANGED <<heap, data, seq, mu, out, reply>>

\* Creates that will still take an id (bound: MaxId).
Creating == {w \in Workers : req[w].op = "Create" /\ pc[w] \in {"lock", "first"}}

Arrive(w) ==
    \/ seq + Cardinality(Creating) < MaxId /\ \E v \in Vals : Call(w, "Create", 0, v)
    \/ \E i \in Ids : Call(w, "Get", i, None) \/ Call(w, "Delete", i, None)
    \/ \E i \in Ids, v \in Vals : Call(w, "Update", i, v)
    \/ Call(w, "List", 0, None)

\* r.mu.Lock
Lock(w) ==
    /\ Goto(w, "lock", "first")
    /\ mu = None
    /\ mu' = w
    /\ UNCHANGED <<heap, data, seq, req, out, reply>>

\* Create: r.seq++
NextId(w) ==
    /\ Goto(w, "first", "second")
    /\ req[w].op = "Create"
    /\ seq' = seq + 1
    /\ UNCHANGED <<heap, data, mu, req, out, reply>>

\* Get and Update: v, ok := r.data[id]
Find(w) ==
    /\ req[w].op \in {"Get", "Update"}
    /\ IF req[w].id \in Present
       THEN /\ Goto(w, "first", "second")
            /\ out' = [out EXCEPT ![w] = IF req[w].op = "Get" THEN data[req[w].id] ELSE None]
            /\ UNCHANGED reply
       ELSE /\ Goto(w, "first", "unlock")
            /\ Answer(w, OK(<<>>))
            /\ UNCHANGED out
    /\ UNCHANGED <<heap, data, seq, mu, req>>

\* Get: cp := *v
Copy(w) ==
    /\ Goto(w, "second", "unlock")
    /\ req[w].op = "Get"
    /\ Answer(w, OK(<<heap[out[w]]>>))
    /\ out' = [out EXCEPT ![w] = None]
    /\ heap' = Collected(heap, data, out')
    /\ UNCHANGED <<data, seq, mu, req>>

\* The id of the entity w stores: r.seq for Create, the caller's for Update.
Key(w) == IF req[w].op = "Create" THEN seq ELSE req[w].id

\* Mistake: Update writes into the object the map has.
PutInPlace(w) ==
    /\ Goto(w, "second", "unlock")
    /\ req[w].op \in {"Create", "Update"}
    /\ \E a \in Addrs :
        /\ IF req[w].op = "Update" THEN a = data[req[w].id] ELSE heap[a] = None
        /\ data' = [data EXCEPT ![Key(w)] = a]
        /\ out' = [out EXCEPT ![w] = a]
        /\ heap' = Collected([heap EXCEPT ![a] = [id |-> Key(w), val |-> req[w].val]],
                             data', out')
    /\ UNCHANGED <<seq, mu, req, reply>>

\* Mistake: the id is set after the object is stored, in a copy of it.
PutWithoutId(w) ==
    /\ Goto(w, "second", "unlock")
    /\ req[w].op \in {"Create", "Update"}
    /\ LET a == CHOOSE x \in Addrs : heap[x] = None
       IN  /\ data' = [data EXCEPT ![Key(w)] = a]
           /\ out' = [out EXCEPT ![w] = a]
           /\ heap' = Collected([heap EXCEPT ![a] = [id |-> req[w].id, val |-> req[w].val]],
                                data', out')
    /\ UNCHANGED <<seq, mu, req, reply>>

\* Create and Update: cp := *in, r.data[cp.ID] = &cp, return &cp.  The new
\* object is at an address nothing uses.
Put(w) ==
    /\ Goto(w, "second", "unlock")
    /\ req[w].op \in {"Create", "Update"}
    /\ \E x \in Addrs : heap[x] = None
    /\ LET a == CHOOSE x \in Addrs : heap[x] = None
       IN  /\ data' = [data EXCEPT ![Key(w)] = a]
           /\ out' = [out EXCEPT ![w] = a]
           /\ heap' = Collected([heap EXCEPT ![a] = [id |-> Key(w), val |-> req[w].val]],
                                data', out')
    /\ UNCHANGED <<seq, mu, req, reply>>

\* Delete: delete(r.data, id)
Remove(w) ==
    /\ Goto(w, "first", "unlock")
    /\ req[w].op = "Delete"
    /\ data' = [data EXCEPT ![req[w].id] = None]
    /\ heap' = Collected(heap, data', out)
    /\ Answer(w, OK(<<>>))
    /\ UNCHANGED <<seq, mu, req, out>>

\* The ids of the map in the order an iteration may visit them.
Orders ==
    LET n == Cardinality(Present)
    IN  {s \in [1..n -> Present] : \A j, k \in 1..n : s[j] = s[k] => j = k}

\* List: a copy of each object, in the order of the iteration, and the page of
\* it that an empty ListParams asks for.
List(w) ==
    /\ Goto(w, "first", "unlock")
    /\ req[w].op = "List"
    /\ \E s \in Orders :
        LET tmp == [n \in 1..Cardinality(Present) |-> heap[data[s[n]]]]
        IN  Answer(w, OK(Page(tmp, Sanitize([offset |-> 0, limit |-> 0]))))
    /\ UNCHANGED <<heap, data, seq, mu, req, out>>

\* Mistake: a method that finds nothing returns without the deferred unlock.
UnlockIfFound(w) ==
    /\ Goto(w, "unlock", IF out[w] = None THEN "reply" ELSE "render")
    /\ mu' = IF req[w].op \in {"Get", "Update"} /\ reply[w].samples = <<>> /\ out[w] = None
             THEN mu ELSE None
    /\ UNCHANGED <<heap, data, seq, req, out, reply>>

\* The deferred r.mu.Unlock
Unlock(w) ==
    /\ Goto(w, "unlock", IF out[w] = None THEN "reply" ELSE "render")
    /\ mu' = None
    /\ UNCHANGED <<heap, data, seq, req, out, reply>>

\* The handler: toProto reads the object the repository returned.
Render(w) ==
    /\ Goto(w, "render", "reply")
    /\ Answer(w, OK(<<heap[out[w]]>>))
    /\ out' = [out EXCEPT ![w] = None]
    /\ heap' = Collected(heap, data, out')
    /\ UNCHANGED <<data, seq, mu, req>>

Reply(w) ==
    /\ Goto(w, "reply", "idle")
    /\ req' = [req EXCEPT ![w] = NoReq]
    /\ Answer(w, NoReply)
    /\ UNCHANGED <<heap, data, seq, mu, out>>

Step(w) ==
    \/ NextId(w) \/ Find(w) \/ Copy(w) \/ Put(w) \/ Remove(w) \/ List(w)
    \/ Unlock(w) \/ Render(w)

Next == \E w \in Workers : Arrive(w) \/ Lock(w) \/ Step(w) \/ Reply(w)

Spec == Init /\ [][Next]_vars

(* Fairness.  A goroutine that is not blocked runs on, and a sync.Mutex     *)
(* starves nobody: it is handed over to who has waited for a millisecond.   *)
Fairness == \A w \in Workers : WF_vars(Step(w)) /\ SF_vars(Lock(w))

FairSpec == Spec /\ Fairness

------------------------------------------------------------------------------
(* The map has under each id an object with that id; the objects of the map  *)
(* are distinct, and what a request has in hand is there to be read.         *)
TypeOK ==
    /\ heap \in [Addrs -> Entity \cup {None}]
    /\ data \in [Ids -> Addrs \cup {None}]
    /\ \A i \in Present : heap[data[i]] # None /\ heap[data[i]].id = i
    /\ seq \in 0..MaxId
    /\ mu \in Workers \cup {None}
    /\ pc \in [Workers -> {"idle", "lock", "first", "second", "unlock", "render", "reply"}]
    /\ req \in [Workers -> [op : Ops \cup {"none"}, id : Ids \cup {0},
                            val : Vals \cup {None}]]
    /\ out \in [Workers -> Addrs \cup {None}]
    /\ \A w \in Workers :
        /\ out[w] # None => heap[out[w]] # None
        /\ reply[w].code \in {"none", "ok"}
        /\ \A n \in 1..Len(reply[w].samples) : reply[w].samples[n] \in Entity

\* What the map holds under each id.
storeRows == [i \in Ids |-> IF data[i] = None THEN None ELSE heap[data[i]].val]

\* Create has taken the last id, and not stored anything under it yet.
Unstored == \E w \in Workers : pc[w] = "second" /\ req[w].op = "Create"

storeUsed == {i \in 1..seq : Unstored => i # seq}

\* How far the call of w is, for the repository.
PhaseOf(w) ==
    IF pc[w] = "idle" THEN "idle"
    ELSE IF pc[w] \in {"lock", "first", "second"} THEN "open" ELSE "done"

\* Its answer: what the pointer it has from the map points to.
ReplyOf(w) ==
    IF pc[w] \in {"unlock", "render"} /\ out[w] # None THEN OK(<<heap[out[w]]>>) ELSE reply[w]

storePhase == [w \in Workers |-> PhaseOf(w)]
storeReply == [w \in Workers |-> ReplyOf(w)]

Store ==
    INSTANCE SampleStore WITH
        rows <- storeRows, used <- storeUsed, phase <- storePhase, reply <- storeReply

(* Every RPC takes effect once, at an instant between the call and the       *)
(* reply, and says so: what a handler renders after the mutex was released   *)
(* is what the operation stored, although the object is in the map.          *)
ImplementsStore == Store!Spec

(* Every RPC is answered: no path through the repository keeps the mutex.    *)
CallsAnswered == \A w \in Workers : pc[w] = "lock" ~> pc[w] = "reply"
===============================================================================
