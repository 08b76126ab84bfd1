-------------------------- MODULE MemoryStoreProofs --------------------------
(***************************************************************************)
(* Proofs about MemoryStore, for any workers, contents, addresses and      *)
(* bound on the ids.                                                       *)
(*                                                                         *)
(* The mutex is held exactly between Lock and Unlock; so what a holder has *)
(* looked up stays true until it uses it, and an id Create has taken is    *)
(* nobody else's.  What the map or a handler points to is not written      *)
(* again: that is why a handler may read it after the mutex was released.  *)
(***************************************************************************)
EXTENDS MemoryStore, ListParamsProofs, FiniteSetTheorems, TLAPS

\* A response of the right type.
Typed(r) ==
    /\ r.code \in {"none", "ok"}
    /\ \A n \in 1..Len(r.samples) : r.samples[n] \in Entity

Types ==
    /\ heap \in [Addrs -> Entity \cup {None}]
    /\ data \in [Ids -> Addrs \cup {None}]
    /\ seq \in 0..MaxId
    /\ mu \in Workers \cup {None}
    /\ pc \in [Workers -> {"idle", "lock", "first", "second", "unlock", "render", "reply"}]
    /\ req \in [Workers -> [op : Ops \cup {"none"}, id : Ids \cup {0},
                            val : Vals \cup {None}]]
    /\ out \in [Workers -> Addrs \cup {None}]
    /\ reply = [w \in Workers |-> reply[w]]

Replied == \A w \in Workers : Typed(reply[w])

(* What the map has under an id, and what a worker points to, is an object. *)
Objects ==
    /\ \A i \in Present : heap[data[i]] \in Entity /\ heap[data[i]].id = i
    /\ \A w \in Workers : out[w] # None => heap[out[w]] \in Entity

Holds(w) == pc[w] \in {"first", "second", "unlock"}

Mutex == \A w \in Workers : mu = w <=> Holds(w)

(* What a holder of the mutex has looked up, or taken, is still so.         *)
Shaped(w) ==
    /\ req[w].op \in {"Create", "Update"} => req[w].val \in Vals
    /\ req[w].op \in {"Get", "Update", "Delete"} => req[w].id \in Ids
    /\ pc[w] = "second" =>
        \/ req[w].op = "Create" /\ seq \in Ids \ Present
        \/ req[w].op = "Get" /\ req[w].id \in Present /\ out[w] = data[req[w].id]
        \/ req[w].op = "Update" /\ req[w].id \in Present
    /\ out[w] # None =>
        pc[w] \in {"unlock", "render"} \/ (pc[w] = "second" /\ req[w].op = "Get")
    /\ pc[w] = "render" => out[w] # None

Shape == \A w \in Workers : Shaped(w)

(* No row has an id that is still to be handed out.                         *)
Numbered ==
    /\ IsFiniteSet(Creating) /\ seq + Cardinality(Creating) <= MaxId
    /\ \A i \in Present : i <= seq

IInv == Types /\ Replied /\ Objects /\ Mutex /\ Shape /\ Numbered

Act(w) == Arrive(w) \/ Lock(w) \/ Step(w) \/ Reply(w)

------------------------------------------------------------------------------
\* The collector leaves what is reachable as it is.
LEMMA Reachable ==
    ASSUME NEW h, NEW d, NEW p, NEW a \in Addrs,
           \/ \E i \in Ids : d[i] = a
           \/ \E w \in Workers : p[w] = a
    PROVE  Collected(h, d, p)[a] = h[a]
BY DEF Collected

\* What it leaves has the type of what there was.
LEMMA CollectedType ==
    ASSUME NEW h \in [Addrs -> Entity \cup {None}], NEW d, NEW p
    PROVE  Collected(h, d, p) \in [Addrs -> Entity \cup {None}]
BY DEF Collected

\* Put stores a new object, at an address nothing had.
LEMMA PutAt ==
    ASSUME NEW w \in Workers, Put(w)
    PROVE  \E a \in Addrs :
            /\ heap[a] = None
            /\ data' = [data EXCEPT ![Key(w)] = a]
            /\ out' = [out EXCEPT ![w] = a]
            /\ heap' = Collected([heap EXCEPT ![a] = [id |-> Key(w), val |-> req[w].val]],
                                 data', out')
<1> DEFINE a == CHOOSE x \in Addrs : heap[x] = None
<1>1. a \in Addrs /\ heap[a] = None
    BY DEF Put
<1>2. /\ data' = [data EXCEPT ![Key(w)] = a]
      /\ out' = [out EXCEPT ![w] = a]
      /\ heap' = Collected([heap EXCEPT ![a] = [id |-> Key(w), val |-> req[w].val]],
                           data', out')
    BY DEF Put
<1> HIDE DEF a
<1> QED
    BY <1>1, <1>2

\* The id under which w stores is one of the ids, and its contents are contents.
LEMMA PutKey ==
    ASSUME Types, Shape, NEW w \in Workers, Put(w)
    PROVE  Key(w) \in Ids /\ [id |-> Key(w), val |-> req[w].val] \in Entity
<1>1. Shaped(w) /\ pc[w] = "second" /\ req[w].op \in {"Create", "Update"}
    BY DEF Put, Goto, Shape
<1>2. Key(w) \in Ids /\ req[w].val \in Vals
    BY <1>1 DEF Shaped, Key
<1> QED
    BY <1>2 DEF Entity

\* A step of w leaves the other workers alone.
LEMMA Frame ==
    ASSUME Types, NEW w \in Workers, Act(w), NEW x \in Workers, x # w
    PROVE  pc'[x] = pc[x] /\ req'[x] = req[x] /\ out'[x] = out[x] /\ reply'[x] = reply[x]
<1> USE DEF Types, Goto, Answer
<1>1. CASE Arrive(w) \/ Lock(w) \/ Reply(w)
    BY <1>1 DEF Arrive, Call, Lock, Reply
<1>2. CASE NextId(w) \/ Find(w) \/ Copy(w)
    BY <1>2 DEF NextId, Find, Copy
<1>3. CASE Put(w)
    <2>1. PICK a \in Addrs : out' = [out EXCEPT ![w] = a]
        BY <1>3, PutAt
    <2> QED
        BY <1>3, <2>1 DEF Put
<1>4. CASE List(w)
    <2>1. PICK r : reply' = [reply EXCEPT ![w] = r]
        BY <1>4 DEF List
    <2> QED
        BY <1>4, <2>1 DEF List
<1>5. CASE Remove(w) \/ Unlock(w) \/ Render(w)
    BY <1>5 DEF Remove, Unlock, Render
<1> QED
    BY <1>1, <1>2, <1>3, <1>4, <1>5 DEF Act, Step

\* An object the map keeps, or another worker points to, is not written again.
LEMMA NotRewritten ==
    ASSUME Types, Objects, NEW w \in Workers, Act(w)
    PROVE  /\ \A x \in Workers \ {w} : out[x] # None => heap'[out[x]] = heap[out[x]]
           /\ \A i \in Present : data'[i] = data[i] => heap'[data[i]] = heap[data[i]]
<1>1. CASE Put(w)
    <2>1. PICK a \in Addrs :
            /\ heap[a] = None
            /\ heap' = Collected([heap EXCEPT ![a] = [id |-> Key(w), val |-> req[w].val]],
                                 data', out')
        BY <1>1, PutAt
    <2> DEFINE h == [heap EXCEPT ![a] = [id |-> Key(w), val |-> req[w].val]]
    <2>2. heap' = Collected(h, data', out') /\ \A b \in Addrs \ {a} : h[b] = heap[b]
        BY <2>1 DEF Types
    <2> HIDE DEF h
    <2>3. ASSUME NEW x \in Workers, x # w, out[x] # None
          PROVE  heap'[out[x]] = heap[out[x]]
        <3>1. out'[x] = out[x] /\ out[x] \in Addrs /\ out[x] # a
            BY <2>1, <2>3, Frame, MemoryAssumption DEF Types, Objects
        <3> QED
            BY <2>2, <3>1, Reachable
    <2>4. ASSUME NEW i \in Present, data'[i] = data[i]
          PROVE  heap'[data[i]] = heap[data[i]]
        <3>1. i \in Ids /\ data[i] \in Addrs /\ data[i] # a
            BY <2>1, <2>4, MemoryAssumption DEF Types, Objects, Present
        <3> QED
            BY <2>2, <2>4, <3>1, Reachable
    <2> QED
        BY <2>3, <2>4
<1>2. CASE heap' = heap \/ heap' = Collected(heap, data', out')
    <2>1. ASSUME NEW x \in Workers, x # w, out[x] # None
          PROVE  heap'[out[x]] = heap[out[x]]
        <3>1. out'[x] = out[x] /\ out[x] \in Addrs
            BY <2>1, Frame DEF Types
        <3> QED
            BY <1>2, <3>1, Reachable
    <2>2. ASSUME NEW i \in Present, data'[i] = data[i]
          PROVE  heap'[data[i]] = heap[data[i]]
        <3>1. i \in Ids /\ data[i] \in Addrs
            BY DEF Types, Present
        <3> QED
            BY <1>2, <2>2, <3>1, Reachable
    <2> QED
        BY <2>1, <2>2
<1>3. CASE Arrive(w) \/ Lock(w) \/ NextId(w) \/ Find(w) \/ List(w) \/ Unlock(w) \/ Reply(w)
    BY <1>2, <1>3 DEF Arrive, Call, Lock, NextId, Find, List, Unlock, Reply
<1>4. CASE Copy(w) \/ Remove(w) \/ Render(w)
    BY <1>2, <1>4 DEF Copy, Remove, Render
<1> QED
    BY <1>1, <1>3, <1>4 DEF Act, Step

\* Only the holder of the mutex changes the map or takes an id.
LEMMA HolderAlone ==
    ASSUME Types, Mutex, NEW w \in Workers, Act(w), ~Holds(w) \/ \E x \in Workers \ {w} : Holds(x)
    PROVE  data' = data /\ seq' = seq
<1>1. ~Holds(w)
    BY DEF Mutex
<1>2. Arrive(w) \/ Lock(w) \/ Render(w) \/ Reply(w)
    BY <1>1 DEF Act, Step, NextId, Find, Copy, Put, Remove, List, Unlock, Goto, Holds
<1> QED
    BY <1>2 DEF Arrive, Call, Lock, Render, Reply

\* What List answers: a page of the map, each row once.
LEMMA ListAnswers ==
    ASSUME Types, Objects, NEW w \in Workers, List(w)
    PROVE  \E page :
            /\ reply' = [reply EXCEPT ![w] = OK(page)]
            /\ PageSize(Cardinality(Present)) \in Nat
            /\ Len(page) = PageSize(Cardinality(Present))
            /\ \A k \in 1..Len(page) :
                /\ page[k] \in Entity /\ page[k].id \in Present
                /\ page[k] = heap[data[page[k].id]]
                /\ \A j \in 1..(k - 1) : page[j].id # page[k].id
<1> DEFINE n == Cardinality(Present)
           size == PageSize(n)
<1>1. n \in Nat
    <2>1. IsFiniteSet(Ids) /\ Present \in SUBSET Ids
        BY FS_Interval, MemoryAssumption DEF Ids, Present
    <2> QED
        BY <2>1, FS_Subset, FS_CardinalityType
<1>2. size \in Nat /\ size <= n
    BY <1>1, LimitsAssumption DEF PageSize
<1>3. PICK s \in Orders :
        reply' = [reply EXCEPT ![w] =
            OK(Page([k \in 1..Cardinality(Present) |-> heap[data[s[k]]]],
                    Sanitize([offset |-> 0, limit |-> 0])))]
    BY DEF List, Answer
<1> DEFINE tmp == [k \in 1..n |-> heap[data[s[k]]]]
           page == Page(tmp, Sanitize([offset |-> 0, limit |-> 0]))
<1>4. s \in [1..n -> Present] /\ \A j, k \in 1..n : s[j] = s[k] => j = k
    BY DEF Orders
<1> HIDE DEF n
<1>5. \A k \in 1..n : tmp[k] \in Entity /\ tmp[k].id = s[k] /\ s[k] \in Present
                      /\ tmp[k] = heap[data[s[k]]]
    BY <1>4 DEF Objects
<1>6. reply' = [reply EXCEPT ![w] = OK(page)]
    BY <1>3 DEF n
<1> HIDE DEF tmp, page, size
<1>7. Len(page) = size /\ \A k \in 1..size : page[k] = tmp[k]
    <2>1. page = [k \in 1..size |-> tmp[k]]
        <3>1. tmp = [k \in 1..n |-> tmp[k]]
            BY DEF tmp
        <3> QED
            BY <1>1, <3>1, FirstPage DEF page, size
    <2> QED
        BY <1>2, <2>1
<1>8. ASSUME NEW k \in 1..size
      PROVE  /\ page[k] \in Entity /\ page[k].id \in Present
             /\ page[k] = heap[data[page[k].id]]
             /\ \A j \in 1..(k - 1) : page[j].id # page[k].id
    <2>1. k \in 1..n /\ \A j \in 1..(k - 1) : j \in 1..n /\ j \in 1..size /\ j # k
        BY <1>1, <1>2
    <2>2. page[k] = tmp[k] /\ \A j \in 1..(k - 1) : page[j] = tmp[j]
        BY <1>7, <2>1
    <2> QED
        BY <1>4, <1>5, <2>1, <2>2
<1> QED
    BY <1>2, <1>6, <1>7, <1>8 DEF size, n

\* An entity, and nothing, are responses of the right type.
LEMMA TypedAnswers ==
    /\ Typed(NoReply) /\ Typed(OK(<<>>))
    /\ \A e \in Entity : Typed(OK(<<e>>))
<1> USE DEF Typed, NoReply, OK
<1>1. Typed(NoReply) /\ Typed(OK(<<>>))
    OBVIOUS
<1>2. ASSUME NEW e \in Entity
      PROVE  Typed(OK(<<e>>))
    <2> DEFINE s == <<e>>
    <2>1. Len(s) = 1 /\ s[1] \in Entity
        OBVIOUS
    <2> HIDE DEF s
    <2>2. \A n \in 1..Len(s) : n = 1
        BY <2>1
    <2>3. Typed(OK(s))
        BY <2>1, <2>2
    <2> QED
        BY <2>3 DEF s
<1> QED
    BY <1>1, <1>2

------------------------------------------------------------------------------
LEMMA TypesPreserved ==
    ASSUME Types, Objects, Shape, Numbered, NEW w \in Workers, Act(w)
    PROVE  Types'
<1> USE DEF Types, Goto, Answer
<1>1. CASE Arrive(w)
    <2>1. ASSUME NEW op \in Ops, NEW i \in Ids \cup {0}, NEW v \in Vals \cup {None},
                 Call(w, op, i, v)
          PROVE  Types'
        BY <2>1 DEF Call
    <2> QED
        BY <1>1, <2>1 DEF Arrive, Ops
<1>2. CASE Lock(w) \/ Unlock(w)
    BY <1>2 DEF Lock, Unlock
<1>3. CASE NextId(w)
    <2>1. w \in Creating
        BY <1>3 DEF NextId, Creating
    <2>2. Cardinality(Creating) \in Nat /\ Cardinality(Creating) # 0
        BY <2>1, FS_CardinalityType, FS_EmptySet DEF Numbered
    <2>3. seq' \in 0..MaxId
        <3>1. seq \in Nat /\ seq + Cardinality(Creating) <= MaxId
            BY DEF Numbered
        <3>2. seq' = seq + 1
            BY <1>3 DEF NextId
        <3> HIDE DEF Types
        <3> QED
            BY <2>2, <3>1, <3>2, MemoryAssumption
    <2> QED
        BY <1>3, <2>3 DEF NextId
<1>4. CASE Find(w)
    <2>1. out' \in [Workers -> Addrs \cup {None}]
        BY <1>4 DEF Find, Present
    <2> QED
        BY <1>4, <2>1 DEF Find
<1>5. CASE Copy(w) \/ Render(w)
    <2>1. heap' \in [Addrs -> Entity \cup {None}]
        BY <1>5, CollectedType DEF Copy, Render
    <2> QED
        BY <1>5, <2>1 DEF Copy, Render
<1>6. CASE Put(w)
    <2>1. PICK a \in Addrs :
            /\ data' = [data EXCEPT ![Key(w)] = a]
            /\ out' = [out EXCEPT ![w] = a]
            /\ heap' = Collected([heap EXCEPT ![a] = [id |-> Key(w), val |-> req[w].val]],
                                 data', out')
        BY <1>6, PutAt
    <2> DEFINE h == [heap EXCEPT ![a] = [id |-> Key(w), val |-> req[w].val]]
    <2>2. h \in [Addrs -> Entity \cup {None}]
        BY <1>6, PutKey
    <2> HIDE DEF h
    <2>3. heap' \in [Addrs -> Entity \cup {None}]
        BY <2>1, <2>2, CollectedType DEF h
    <2>4. data' \in [Ids -> Addrs \cup {None}] /\ out' \in [Workers -> Addrs \cup {None}]
        BY <2>1
    <2> QED
        BY <1>6, <2>3, <2>4 DEF Put
<1>7. CASE Remove(w)
    <2>1. heap' \in [Addrs -> Entity \cup {None}]
        BY <1>7, CollectedType DEF Remove
    <2>2. data' \in [Ids -> Addrs \cup {None}]
        BY <1>7 DEF Remove
    <2> QED
        BY <1>7, <2>1, <2>2 DEF Remove
<1>8. CASE List(w)
    <2>1. PICK r : reply' = [reply EXCEPT ![w] = r]
        BY <1>8 DEF List
    <2> QED
        BY <1>8, <2>1 DEF List
<1>9. CASE Reply(w)
    BY <1>9 DEF Reply, NoReq
<1> QED
    BY <1>1, <1>2, <1>3, <1>4, <1>5, <1>6, <1>7, <1>8, <1>9 DEF Act, Step

LEMMA RepliedPreserved ==
    ASSUME Types, Replied, Objects, Shape, NEW w \in Workers, Act(w)
    PROVE  Replied'
<1> USE DEF Types, Goto, Answer
<1>1. ASSUME Typed(reply'[w])
      PROVE  Replied'
    BY <1>1, Frame DEF Replied, Typed
<1>2. CASE reply' = reply
    BY <1>2 DEF Replied, Typed
<1>3. CASE Copy(w) \/ Render(w)
    <2>1. out[w] # None
        BY <1>3, MemoryAssumption DEF Copy, Render, Shape, Shaped, Present
    <2>2. heap[out[w]] \in Entity /\ reply'[w] = OK(<<heap[out[w]]>>)
        BY <1>3, <2>1 DEF Copy, Render, Objects
    <2> QED
        BY <1>1, <2>2, TypedAnswers
<1>4. CASE Find(w) \/ Remove(w)
    <2>1. reply' = reply \/ reply'[w] = OK(<<>>)
        BY <1>4 DEF Find, Remove
    <2> QED
        BY <1>1, <1>2, <2>1, TypedAnswers
<1>5. CASE List(w)
    <2>1. PICK page : /\ reply' = [reply EXCEPT ![w] = OK(page)]
                      /\ \A k \in 1..Len(page) : page[k] \in Entity
        BY <1>5, ListAnswers
    <2>2. Typed(OK(page))
        BY <2>1 DEF Typed, OK
    <2>3. reply'[w] = OK(page)
        BY <2>1
    <2> QED
        BY <1>1, <2>2, <2>3
<1>6. CASE Reply(w)
    BY <1>1, <1>6, TypedAnswers DEF Reply
<1>7. CASE Arrive(w) \/ Lock(w) \/ NextId(w) \/ Put(w) \/ Unlock(w)
    BY <1>2, <1>7 DEF Arrive, Call, Lock, NextId, Put, Unlock
<1> QED
    BY <1>3, <1>4, <1>5, <1>6, <1>7 DEF Act, Step

LEMMA ObjectsPreserved ==
    ASSUME Types, Objects, Mutex, Shape, NEW w \in Workers, Act(w)
    PROVE  Objects'
<1> USE DEF Types, Goto
<1>1. \A x \in Workers \ {w} : out'[x] # None => heap'[out'[x]] \in Entity
    BY Frame, NotRewritten DEF Objects
<1>2. \A i \in Present : data'[i] = data[i] => heap'[data'[i]] = heap[data[i]]
    BY NotRewritten
<1>3. CASE Put(w)
    <2>1. PICK a \in Addrs :
            /\ data' = [data EXCEPT ![Key(w)] = a]
            /\ out' = [out EXCEPT ![w] = a]
            /\ heap' = Collected([heap EXCEPT ![a] = [id |-> Key(w), val |-> req[w].val]],
                                 data', out')
        BY <1>3, PutAt
    <2> DEFINE e == [id |-> Key(w), val |-> req[w].val]
               h == [heap EXCEPT ![a] = e]
    <2>2. e \in Entity /\ e.id = Key(w) /\ Key(w) \in Ids
        BY <1>3, PutKey
    <2>3. h[a] = e
        OBVIOUS
    <2>4. out'[w] = a /\ data'[Key(w)] = a
        BY <2>1, <2>2
    <2> HIDE DEF h, e
    <2>5. heap' = Collected(h, data', out')
        BY <2>1 DEF h, e
    <2>6. heap'[a] = e
        BY <2>3, <2>4, <2>5, Reachable
    <2>7. \A i \in Present' : i # Key(w) => i \in Present /\ data'[i] = data[i]
        BY <2>1 DEF Present
    <2>8. \A i \in Present' : heap'[data'[i]] \in Entity /\ heap'[data'[i]].id = i
        BY <1>2, <2>2, <2>4, <2>6, <2>7 DEF Objects
    <2>9. heap'[out'[w]] \in Entity
        BY <2>2, <2>4, <2>6
    <2> QED
        BY <1>1, <2>8, <2>9 DEF Objects
<1>4. CASE ~Put(w)
    <2>1. \A i \in Present' : i \in Present /\ data'[i] = data[i]
        <3>1. data' = data \/ data' = [data EXCEPT ![req[w].id] = None]
            BY <1>4 DEF Act, Step, Arrive, Call, Lock, NextId, Find, Copy, Remove, List,
                        Unlock, Render, Reply
        <3> QED
            BY <3>1 DEF Present
    <2>2. \A i \in Present' : heap'[data'[i]] \in Entity /\ heap'[data'[i]].id = i
        BY <1>2, <2>1 DEF Objects
    <2>3. out'[w] # None => heap'[out'[w]] \in Entity
        <3>1. CASE out' = out /\ heap' = heap
            BY <3>1 DEF Objects
        <3>2. CASE Remove(w)
            <4>1. out' = out /\ heap' = Collected(heap, data', out)
                BY <3>2 DEF Remove
            <4>2. out[w] # None => heap'[out[w]] = heap[out[w]]
                BY <4>1, Reachable
            <4> QED
                BY <4>1, <4>2 DEF Objects
        <3>3. CASE Find(w)
            BY <3>3, MemoryAssumption DEF Find, Objects, Present
        <3>4. CASE Copy(w) \/ Render(w)
            BY <3>4 DEF Copy, Render
        <3> QED
            BY <1>4, <3>1, <3>2, <3>3, <3>4
               DEF Act, Step, Arrive, Call, Lock, NextId, List, Unlock, Reply
    <2> QED
        BY <1>1, <2>2, <2>3 DEF Objects
<1> QED
    BY <1>3, <1>4

LEMMA MutexPreserved ==
    ASSUME Types, Mutex, NEW w \in Workers, Act(w)
    PROVE  Mutex'
<1> USE DEF Types, Goto
<1>1. \A x \in Workers \ {w} : (Holds(x)' <=> Holds(x))
    BY Frame DEF Holds
<1>2. CASE Lock(w)
    BY <1>1, <1>2, MemoryAssumption DEF Lock, Mutex, Holds
<1>3. CASE Unlock(w)
    <2>1. mu' = None /\ mu = w /\ ~Holds(w)'
        BY <1>3 DEF Unlock, Mutex, Holds
    <2> QED
        BY <1>1, <2>1, MemoryAssumption DEF Mutex
<1>4. CASE ~Lock(w) /\ ~Unlock(w)
    <2>1. mu' = mu
        BY <1>4 DEF Act, Step, Arrive, Call, NextId, Find, Copy, Put, Remove, List, Render, Reply
    <2>2. Holds(w)' <=> Holds(w)
        BY <1>4 DEF Act, Step, Arrive, Call, NextId, Find, Copy, Put, Remove, List, Render,
                    Reply, Holds
    <2> QED
        BY <1>1, <2>1, <2>2 DEF Mutex
<1> QED
    BY <1>2, <1>3, <1>4

LEMMA ShapePreserved ==
    ASSUME Types, Mutex, Shape, Numbered, Types', NEW w \in Workers, Act(w)
    PROVE  Shape'
<1> SUFFICES ASSUME NEW x \in Workers
             PROVE  Shaped(x)'
    BY DEF Shape
<1>1. CASE x # w
    <2>1. pc'[x] = pc[x] /\ req'[x] = req[x] /\ out'[x] = out[x] /\ Shaped(x)
        BY <1>1, Frame DEF Shape
    <2>2. pc[x] = "second" => data' = data /\ seq' = seq
        BY <1>1, HolderAlone DEF Holds
    <2> QED
        BY <2>1, <2>2 DEF Shaped, Present
<1>2. CASE x = w
    <2> USE <1>2 DEF Types, Goto
    <2>1. CASE Arrive(w)
        <3>1. ASSUME NEW op \in Ops, NEW i, NEW v, Call(w, op, i, v),
                     op \in {"Create", "Update"} => v \in Vals,
                     op \in {"Get", "Update", "Delete"} => i \in Ids
              PROVE  Shaped(w)'
            BY <3>1 DEF Call, Shape, Shaped
        <3> QED
            BY <2>1, <3>1 DEF Arrive, Ops
    <2>2. CASE Lock(w)
        BY <2>2 DEF Lock, Shape, Shaped
    <2>3. CASE NextId(w)
        <3>1. /\ pc'[w] = "second" /\ req' = req /\ out' = out /\ data' = data
              /\ seq' = seq + 1 /\ pc[w] = "first" /\ req[w].op = "Create"
            BY <2>3 DEF NextId
        <3>2. seq' \in Ids /\ seq' \notin Present
            BY <3>1, MemoryAssumption DEF Numbered, Ids
        <3> QED
            BY <3>1, <3>2 DEF Shape, Shaped, Present
    <2>4. CASE Find(w)
        BY <2>4, MemoryAssumption DEF Find, Shape, Shaped, Present
    <2>5. CASE Copy(w) \/ Render(w)
        BY <2>5 DEF Copy, Render, Shape, Shaped
    <2>6. CASE Put(w)
        BY <2>6 DEF Put, Shape, Shaped
    <2>7. CASE Remove(w) \/ List(w)
        BY <2>7 DEF Remove, List, Shape, Shaped
    <2>8. CASE Unlock(w)
        BY <2>8 DEF Unlock, Shape, Shaped
    <2>9. CASE Reply(w)
        BY <2>9 DEF Reply, Shape, Shaped, NoReq
    <2> QED
        BY <2>1, <2>2, <2>3, <2>4, <2>5, <2>6, <2>7, <2>8, <2>9 DEF Act, Step
<1> QED
    BY <1>1, <1>2

LEMMA NumberedPreserved ==
    ASSUME Types, Shape, Numbered, NEW w \in Workers, Act(w)
    PROVE  Numbered'
<1> USE DEF Types, Goto
<1>1. IsFiniteSet(Creating) /\ Cardinality(Creating) \in Nat
    BY FS_CardinalityType DEF Numbered
<1>2. \A x \in Workers \ {w} : (x \in Creating' <=> x \in Creating)
    BY Frame DEF Creating
<1>3. CASE Arrive(w)
    <2>1. w \notin Creating /\ seq' = seq /\ Present' = Present
        BY <1>3 DEF Arrive, Call, Creating, Present
    <2>2. CASE seq + Cardinality(Creating) < MaxId
        <3>1. Creating' = Creating \/ Creating' = Creating \cup {w}
            BY <1>2, <2>1 DEF Creating
        <3>2. /\ IsFiniteSet(Creating \cup {w})
              /\ Cardinality(Creating \cup {w}) = Cardinality(Creating) + 1
            BY <1>1, <2>1, FS_AddElement
        <3>3. IsFiniteSet(Creating') /\ seq' + Cardinality(Creating') <= MaxId
            <4>1. seq \in Nat /\ seq + Cardinality(Creating) <= MaxId
                BY DEF Numbered
            <4> HIDE DEF Types
            <4>2. \/ IsFiniteSet(Creating') /\ Cardinality(Creating') = Cardinality(Creating)
                  \/ IsFiniteSet(Creating') /\ Cardinality(Creating') = Cardinality(Creating) + 1
                BY <1>1, <3>1, <3>2
            <4> QED
                BY <1>1, <2>1, <2>2, <4>1, <4>2, MemoryAssumption
        <3> QED
            BY <2>1, <3>3 DEF Numbered
    <2>3. CASE ~(seq + Cardinality(Creating) < MaxId)
        <3>1. req'[w].op # "Create"
            BY <1>3, <2>3 DEF Arrive, Call
        <3>2. Creating' = Creating
            BY <1>2, <2>1, <3>1 DEF Creating
        <3> QED
            BY <2>1, <3>2 DEF Numbered
    <2> QED
        BY <2>2, <2>3
<1>4. CASE NextId(w)
    <2>1. /\ w \in Creating /\ w \notin Creating' /\ seq' = seq + 1 /\ Present' = Present
        BY <1>4 DEF NextId, Creating, Present
    <2>2. Creating' = Creating \ {w}
        BY <1>2, <2>1 DEF Creating
    <2>3. IsFiniteSet(Creating') /\ Cardinality(Creating') = Cardinality(Creating) - 1
        BY <1>1, <2>1, <2>2, FS_RemoveElement
    <2>4. \A i \in Present : i <= seq + 1
        BY DEF Numbered, Present, Ids
    <2> QED
        BY <1>1, <2>1, <2>3, <2>4, MemoryAssumption DEF Numbered
<1>5. CASE ~Arrive(w) /\ ~NextId(w)
    <2>1. seq' = seq
        BY <1>5 DEF Act, Step, Lock, Find, Copy, Put, Remove, List, Unlock, Render, Reply
    <2>2. w \in Creating' <=> w \in Creating
        BY <1>5 DEF Act, Step, Lock, Find, Copy, Put, Remove, List, Unlock, Render, Reply,
                    Creating, NoReq
    <2>3. Creating' = Creating
        BY <1>2, <2>2 DEF Creating
    <2>4. \A i \in Present' : i <= seq
        <3>1. CASE Put(w)
            <4>1. PICK a \in Addrs : data' = [data EXCEPT ![Key(w)] = a]
                BY <3>1, PutAt
            <4>2. \A i \in Present' : i \in Present \/ i = Key(w)
                BY <4>1 DEF Present
            <4>3. Key(w) <= seq
                BY <3>1 DEF Put, Key, Shape, Shaped, Numbered
            <4> QED
                BY <4>2, <4>3 DEF Numbered
        <3>2. CASE ~Put(w)
            <4>1. data' = data \/ data' = [data EXCEPT ![req[w].id] = None]
                BY <1>5, <3>2 DEF Act, Step, Lock, Find, Copy, Remove, List, Unlock, Render, Reply
            <4>2. Present' \subseteq Present
                BY <4>1 DEF Present
            <4> QED
                BY <4>2 DEF Numbered
        <3> QED
            BY <3>1, <3>2
    <2> QED
        BY <2>1, <2>3, <2>4 DEF Numbered
<1> QED
    BY <1>3, <1>4, <1>5

LEMMA InvInit == Init => IInv
<1> SUFFICES ASSUME Init
             PROVE  IInv
    OBVIOUS
<1> USE MemoryAssumption DEF Init
<1>1. Types
    BY DEF Types, NoReq
<1>2. Replied /\ Objects /\ Mutex /\ Shape
    BY TypedAnswers DEF Replied, Objects, Mutex, Shape, Shaped, Holds, Present, NoReq
<1>3. Numbered
    <2>1. Creating = {} /\ Present = {}
        BY DEF Creating, Present
    <2>2. IsFiniteSet(Creating) /\ Cardinality(Creating) = 0
        BY <2>1, FS_EmptySet
    <2> QED
        BY <2>1, <2>2 DEF Numbered
<1> QED
    BY <1>1, <1>2, <1>3 DEF IInv

LEMMA InvPreserved == IInv /\ [Next]_vars => IInv'
<1> SUFFICES ASSUME IInv, [Next]_vars
             PROVE  IInv'
    OBVIOUS
<1>1. CASE \E w \in Workers : Act(w)
    <2>1. PICK w \in Workers : Act(w)
        BY <1>1
    <2>2. Types' /\ Replied'
        BY <2>1, TypesPreserved, RepliedPreserved DEF IInv
    <2>3. Objects' /\ Mutex' /\ Numbered'
        BY <2>1, ObjectsPreserved, MutexPreserved, NumberedPreserved DEF IInv
    <2>4. Shape'
        BY <2>1, <2>2, ShapePreserved DEF IInv
    <2> QED
        BY <2>2, <2>3, <2>4 DEF IInv
<1>2. CASE UNCHANGED vars
    BY <1>2 DEF IInv, vars, Types, Replied, Typed, Objects, Mutex, Holds, Shape, Shaped,
                Numbered, Creating, Present
<1> QED
    BY <1>1, <1>2 DEF Next, Act

\* The inductive invariant holds in every reachable state.
THEOREM Invariance == Spec => []IInv
    BY InvInit, InvPreserved, PTL DEF Spec

(* The map has under each id an object with that id, and what a handler       *)
(* reads after the mutex was released is an object.                           *)
THEOREM TypeCorrect == Spec => []TypeOK
<1>1. IInv => TypeOK
    BY MemoryAssumption DEF IInv, Types, Replied, Typed, Objects, TypeOK
<1> QED
    BY <1>1, Invariance, PTL

------------------------------------------------------------------------------
(***************************************************************************)
(* The refinement.  Taking the mutex or an id, finding a row that is there *)
(* and rendering are stutters of the store; the one access to the map that *)
(* decides the answer is where the operation takes effect.                 *)
(***************************************************************************)
LEMMA StoreInit == Init => Store!Init
<1> SUFFICES ASSUME Init
             PROVE  Store!Init
    OBVIOUS
<1>1. storeRows = [i \in Ids |-> None] /\ storePhase = [w \in Workers |-> "idle"]
    BY DEF Init, storeRows, storePhase, PhaseOf
<1>2. storeReply = [w \in Workers |-> NoReply]
    BY DEF Init, storeReply, ReplyOf
<1>3. storeUsed = {}
    BY DEF Init, storeUsed
<1> QED
    BY <1>1, <1>2, <1>3 DEF Init, Store!Init, Store!NoReq, Store!NoReply, NoReq, NoReply,
                            Store!Ids, Ids

\* What the store sees of w.
LEMMA StoreView ==
    ASSUME NEW w \in Workers
    PROVE  storePhase[w] = PhaseOf(w) /\ storeReply[w] = ReplyOf(w)
BY DEF storePhase, storeReply

\* For the store, too, a step of w is a step of w alone, and a row the map keeps
\* is the row it was.
LEMMA StoreFrame ==
    ASSUME Types, Objects, Types', NEW w \in Workers, Act(w)
    PROVE  /\ storePhase' = [storePhase EXCEPT ![w] = PhaseOf(w)']
           /\ storeReply' = [storeReply EXCEPT ![w] = ReplyOf(w)']
           /\ \A i \in Ids : data'[i] = data[i] => storeRows'[i] = storeRows[i]
<1>1. ASSUME NEW x \in Workers, x # w
      PROVE  PhaseOf(x)' = PhaseOf(x) /\ ReplyOf(x)' = ReplyOf(x)
    <2>1. pc'[x] = pc[x] /\ out'[x] = out[x] /\ reply'[x] = reply[x]
        BY <1>1, Frame
    <2>2. out[x] # None => heap'[out[x]] = heap[out[x]]
        BY <1>1, NotRewritten
    <2> QED
        BY <2>1, <2>2 DEF PhaseOf, ReplyOf
<1>2. /\ storePhase' = [storePhase EXCEPT ![w] = PhaseOf(w)']
      /\ storeReply' = [storeReply EXCEPT ![w] = ReplyOf(w)']
    BY <1>1 DEF storePhase, storeReply
<1>3. ASSUME NEW i \in Ids, data'[i] = data[i]
      PROVE  storeRows'[i] = storeRows[i]
    <2>1. i \in Present => heap'[data[i]] = heap[data[i]]
        BY <1>3, NotRewritten
    <2> QED
        BY <1>3, <2>1 DEF storeRows, Present
<1> QED
    BY <1>2, <1>3

\* A step that leaves the map alone leaves the rows alone.
LEMMA RowsKept ==
    ASSUME Types, Objects, Types', NEW w \in Workers, Act(w), data' = data
    PROVE  storeRows' = storeRows
<1>1. storeRows = [i \in Ids |-> storeRows[i]] /\ storeRows' = [i \in Ids |-> storeRows'[i]]
    BY DEF storeRows
<1> QED
    BY <1>1, StoreFrame

Storing(w) == pc[w] = "second" /\ req[w].op = "Create"

\* A step that neither takes an id nor stores under it leaves the used ids alone.
LEMMA UsedKept ==
    ASSUME Types, NEW w \in Workers, Act(w), seq' = seq, Storing(w)' <=> Storing(w)
    PROVE  storeUsed' = storeUsed
<1>1. \A x \in Workers : Storing(x)' <=> Storing(x)
    BY Frame DEF Storing
<1>2. Unstored' <=> Unstored
    BY <1>1 DEF Unstored, Storing
<1> QED
    BY <1>2 DEF storeUsed

\* While w holds the mutex, only w can have taken an id and not stored under it.
LEMMA UsedByHolder ==
    ASSUME Types, Mutex, NEW w \in Workers, Holds(w)
    PROVE  storeUsed = IF Storing(w) THEN (1..seq) \ {seq} ELSE 1..seq
<1>1. Unstored <=> Storing(w)
    BY DEF Mutex, Holds, Unstored, Storing
<1> QED
    BY <1>1 DEF storeUsed

\* A step of w that the store does not see.
LEMMA StoreStutters ==
    ASSUME Types, Objects, Types', NEW w \in Workers, Act(w),
           data' = data, req' = req, storeUsed' = storeUsed,
           PhaseOf(w)' = PhaseOf(w), ReplyOf(w)' = ReplyOf(w)
    PROVE  UNCHANGED Store!vars
<1>1. storePhase' = storePhase /\ storeReply' = storeReply
    <2>1. storePhase' = [storePhase EXCEPT ![w] = storePhase[w]]
          /\ storeReply' = [storeReply EXCEPT ![w] = storeReply[w]]
        BY StoreFrame, StoreView
    <2> QED
        BY <2>1 DEF storePhase, storeReply
<1>2. storeRows' = storeRows
    BY RowsKept
<1> QED
    BY <1>1, <1>2 DEF Store!vars

\* What the rows say of the map.
LEMMA RowsOfMap ==
    ASSUME Types, Objects, NEW i \in Ids
    PROVE  /\ storeRows[i] = None <=> i \notin Present
           /\ i \in Present => heap[data[i]] = [id |-> i, val |-> storeRows[i]]
<1>1. CASE i \in Present
    <2>1. heap[data[i]] \in Entity /\ heap[data[i]].id = i /\ storeRows[i] = heap[data[i]].val
        BY <1>1 DEF Objects, Present, storeRows
    <2>2. heap[data[i]].val \in Vals
        BY <2>1 DEF Entity
    <2>3. heap[data[i]] = [id |-> heap[data[i]].id, val |-> heap[data[i]].val]
        BY <2>1 DEF Entity
    <2> QED
        BY <1>1, <2>1, <2>2, <2>3, MemoryAssumption
<1>2. CASE i \notin Present
    BY <1>2 DEF Present, storeRows
<1> QED
    BY <1>1, <1>2

\* What List answers is a page of the rows.
LEMMA PageOfRows ==
    ASSUME Types, Objects, NEW page,
           Len(page) = PageSize(Cardinality(Present)),
           \A k \in 1..Len(page) :
                /\ page[k] \in Entity /\ page[k].id \in Present
                /\ page[k] = heap[data[page[k].id]]
                /\ \A j \in 1..(k - 1) : page[j].id # page[k].id
    PROVE  Store!IsPage(page)
<1> DEFINE n == Cardinality(Present)
           present == {i \in Store!Ids : storeRows[i] # None}
<1>1. Present = present
    BY RowsOfMap DEF Present, Store!Ids, Ids
<1>2. Store!Cardinality(present) = n
    <2>1. Store!Cardinality(Present) = Cardinality(Present)
        BY DEF Store!Cardinality, Cardinality, Store!IsFiniteSet, IsFiniteSet
    <2> QED
        BY <1>1, <2>1
<1>4. \A k \in 1..Len(page) :
        /\ page[k].id \in present
        /\ page[k] = [id |-> page[k].id, val |-> storeRows[page[k].id]]
        /\ \A j \in 1..(k - 1) : page[j].id # page[k].id
    BY <1>1, RowsOfMap DEF Present
<1>5. Len(page) = IF n < DefaultLimit THEN n ELSE DefaultLimit
    BY DEF PageSize
<1> HIDE DEF n
<1> QED
    BY <1>2, <1>4, <1>5 DEF Store!IsPage

\* The step of the store for what w has put in the map.
LEMMA StorePuts ==
    ASSUME Types, Objects, Mutex, Shape, Types', Mutex', Objects', NEW w \in Workers, Put(w)
    PROVE  Store!Perform(w)
<1> USE DEF Types, Goto
<1>0. Act(w)
    BY DEF Act, Step
<1>1. PICK a \in Addrs :
        /\ heap[a] = None
        /\ data' = [data EXCEPT ![Key(w)] = a]
        /\ out' = [out EXCEPT ![w] = a]
        /\ heap' = Collected([heap EXCEPT ![a] = [id |-> Key(w), val |-> req[w].val]],
                             data', out')
    BY PutAt
<1> DEFINE i == Key(w)
           e == [id |-> i, val |-> req[w].val]
           h == [heap EXCEPT ![a] = e]
<1>2. /\ pc[w] = "second" /\ pc'[w] = "unlock" /\ req' = req /\ seq' = seq
      /\ req[w].op \in {"Create", "Update"} /\ Shaped(w)
    BY DEF Put, Shape
<1>3. i \in Ids /\ e \in Entity /\ req[w].val \in Vals /\ e.val = req[w].val
    BY <1>2, PutKey DEF Shaped
<1>4. h[a] = e /\ out'[w] = a /\ data'[i] = a
    BY <1>1, <1>3
<1> HIDE DEF h
<1>5. heap'[a] = e
    <2>1. heap' = Collected(h, data', out')
        BY <1>1 DEF h
    <2> QED
        BY <1>3, <1>4, <2>1, Reachable
<1> HIDE DEF i
<1>6. storeRows'[i] = req[w].val
    <2>1. a # None
        BY MemoryAssumption
    <2> QED
        BY <1>3, <1>4, <1>5, <2>1 DEF storeRows
<1>7. \A j \in Ids \ {i} : storeRows'[j] = storeRows[j]
    <2>1. \A j \in Ids \ {i} : data'[j] = data[j]
        BY <1>1 DEF i
    <2> QED
        BY <1>0, <2>1, StoreFrame
<1>8. storeRows' = [storeRows EXCEPT ![i] = req[w].val]
    <2>1. storeRows = [j \in Ids |-> storeRows[j]] /\ storeRows' = [j \in Ids |-> storeRows'[j]]
        BY DEF storeRows
    <2> QED
        BY <1>3, <1>6, <1>7, <2>1
<1>9. storePhase[w] = "open" /\ storePhase' = [storePhase EXCEPT ![w] = "done"]
    <2>1. PhaseOf(w) = "open" /\ PhaseOf(w)' = "done"
        BY <1>2 DEF PhaseOf
    <2> QED
        BY <1>0, <2>1, StoreView, StoreFrame
<1>10. storeReply' = [storeReply EXCEPT ![w] = Store!OK(Store!Row(storeRows', i))]
    <2>1. ReplyOf(w)' = OK(<<e>>)
        BY <1>2, <1>4, <1>5, MemoryAssumption DEF ReplyOf
    <2>2. Store!OK(Store!Row(storeRows', i)) = OK(<<e>>)
        BY <1>3, <1>6, MemoryAssumption DEF Store!Row, Store!OK, OK
    <2> HIDE DEF e
    <2> QED
        BY <1>0, <2>1, <2>2, StoreFrame
<1>11. Store!Write(w, i)
    <2>1. CASE req[w].op = "Create"
        <3>1. i = seq /\ seq \in Nat
            BY <2>1 DEF i, Key
        <3>2. Storing(w) /\ ~Storing(w)' /\ Holds(w) /\ Holds(w)'
            BY <1>2, <2>1 DEF Storing, Holds
        <3>3. storeUsed = (1..seq) \ {seq} /\ storeUsed' = 1..seq
            <4>1. storeUsed = (1..seq) \ {seq}
                BY <3>2, UsedByHolder
            <4>2. Mutex' /\ Types' /\ Holds(w)' => storeUsed' = IF Storing(w)' THEN (1..seq') \ {seq'}
                                                                ELSE 1..seq'
                <5>1. Mutex' /\ Holds(w)' => (Unstored' <=> Storing(w)')
                    BY DEF Mutex, Holds, Unstored, Storing
                <5> QED
                    BY <5>1 DEF storeUsed
            <4> QED
                BY <1>2, <3>2, <4>1, <4>2
        <3>4. seq \in 1..seq
            BY <1>3, <3>1 DEF Ids
        <3>5. i \notin storeUsed /\ storeUsed' = storeUsed \cup {i}
            BY <3>1, <3>3, <3>4
        <3> QED
            BY <1>8, <2>1, <3>5 DEF Store!Write
    <2>2. CASE req[w].op = "Update"
        <3>1. i = req[w].id /\ i \in Present
            BY <1>2, <2>2 DEF i, Key, Shaped
        <3>2. storeRows[i] # None
            BY <1>3, <3>1, RowsOfMap
        <3>3. storeUsed' = storeUsed
            BY <1>0, <1>2, <2>2, UsedKept DEF Storing
        <3> QED
            BY <1>8, <2>2, <3>1, <3>2, <3>3 DEF Store!Write
    <2> QED
        BY <1>2, <2>1, <2>2
<1> HIDE DEF e
<1>12. i \in Store!Ids
    BY <1>3 DEF Store!Ids, Ids
<1>13. Store!End(w, Store!OK(IF req[w].op = "Delete" THEN <<>> ELSE Store!Row(storeRows', i)))
    BY <1>2, <1>9, <1>10 DEF Store!End
<1> QED
    BY <1>9, <1>11, <1>12, <1>13 DEF Store!Perform

LEMMA StoreStep ==
    ASSUME IInv, IInv', NEW w \in Workers, Act(w)
    PROVE  [Store!Next]_Store!vars
<1> USE DEF IInv, Types, Goto, Answer
<1>1. /\ storePhase[w] = PhaseOf(w) /\ storeReply[w] = ReplyOf(w)
      /\ storePhase' = [storePhase EXCEPT ![w] = PhaseOf(w)']
      /\ storeReply' = [storeReply EXCEPT ![w] = ReplyOf(w)']
      /\ Shaped(w)
    BY StoreView, StoreFrame DEF Shape
<1>2. ASSUME Store!Begin(w) \/ Store!Perform(w) \/ Store!Return(w)
      PROVE  [Store!Next]_Store!vars
    BY <1>2 DEF Store!Next
<1>3. data' = data => storeRows' = storeRows
    BY RowsKept
<1>4. seq' = seq /\ (Storing(w)' <=> Storing(w)) => storeUsed' = storeUsed
    BY UsedKept
<1>5. ASSUME NEW r, PhaseOf(w) = "open", PhaseOf(w)' = "done", ReplyOf(w)' = r, req' = req
      PROVE  storePhase[w] = "open" /\ Store!End(w, r)
    BY <1>1, <1>5 DEF Store!End
<1>6. CASE Arrive(w)
    <2>1. ASSUME NEW op \in Ops, NEW i, NEW v, Call(w, op, i, v),
                 op \in {"Create", "Update"} => v \in Vals,
                 op \in {"Get", "List", "Delete"} => v = None,
                 i \in IF op \in {"Create", "List"} THEN {0} ELSE Ids
          PROVE  Store!Begin(w)
        <3> DEFINE r == [op |-> op, id |-> i, val |-> v]
        <3>1. /\ pc[w] = "idle" /\ pc'[w] = "lock" /\ req'[w] = r
              /\ req' = [req EXCEPT ![w] = r]
              /\ UNCHANGED <<heap, data, seq, out, reply>>
            BY <2>1 DEF Call
        <3>2. PhaseOf(w) = "idle" /\ PhaseOf(w)' = "open" /\ ReplyOf(w)' = ReplyOf(w)
            BY <3>1 DEF PhaseOf, ReplyOf
        <3>3. storeReply' = storeReply
            BY <1>1, <3>2 DEF storeReply
        <3>4. storeUsed' = storeUsed /\ storeRows' = storeRows
            BY <1>3, <1>4, <3>1 DEF Storing
        <3>5. r.op = op /\ r.id = i /\ r.val = v
            OBVIOUS
        <3>6. r = [op |-> req'[w].op, id |-> req'[w].id, val |-> req'[w].val]
            BY <3>1
        <3> HIDE DEF r
        <3> QED
            BY <1>1, <2>1, <3>1, <3>2, <3>3, <3>4, <3>5, <3>6
               DEF Store!Begin, Store!Ids, Ids, Ops
    <2>2. Store!Begin(w)
        BY <1>6, <2>1 DEF Arrive, Ops
    <2> QED
        BY <1>2, <2>2
<1>7. CASE Lock(w) \/ Unlock(w)
    <2>1. /\ data' = data /\ req' = req /\ PhaseOf(w)' = PhaseOf(w)
          /\ ReplyOf(w)' = ReplyOf(w) /\ storeUsed' = storeUsed
        <3>1. CASE Lock(w)
            BY <1>4, <3>1 DEF Lock, PhaseOf, ReplyOf, Storing
        <3>2. CASE Unlock(w)
            BY <1>4, <3>2 DEF Unlock, PhaseOf, ReplyOf, Storing
        <3> QED
            BY <1>7, <3>1, <3>2
    <2> QED
        BY <2>1, StoreStutters
<1>8. CASE NextId(w)
    <2>1. /\ pc[w] = "first" /\ pc'[w] = "second" /\ req[w].op = "Create" /\ seq' = seq + 1
          /\ UNCHANGED <<heap, data, req, out, reply>>
        BY <1>8 DEF NextId
    <2>2. PhaseOf(w)' = PhaseOf(w) /\ ReplyOf(w)' = ReplyOf(w)
        BY <2>1 DEF PhaseOf, ReplyOf
    <2>3. storeUsed' = storeUsed
        <3>1. storeUsed = 1..seq
            BY <2>1, UsedByHolder DEF Holds, Storing
        <3>2. storeUsed' = (1..seq') \ {seq'}
            BY <2>1 DEF storeUsed, Unstored
        <3> QED
            BY <2>1, <3>1, <3>2
    <2> QED
        BY <2>1, <2>2, <2>3, StoreStutters
<1>9. CASE Find(w)
    <2>1. /\ pc[w] = "first" /\ req[w].op \in {"Get", "Update"} /\ req[w].id \in Ids
          /\ UNCHANGED <<heap, data, seq, req>> /\ out[w] = None
        BY <1>1, <1>9 DEF Find, Shaped
    <2>2. storeUsed' = storeUsed /\ storeRows' = storeRows
        BY <1>3, <1>4, <2>1 DEF Storing
    <2>3. CASE req[w].id \in Present
        <3>1. pc'[w] = "second" /\ reply' = reply
            BY <1>9, <2>3 DEF Find
        <3>2. PhaseOf(w)' = PhaseOf(w) /\ ReplyOf(w)' = ReplyOf(w)
            BY <2>1, <3>1 DEF PhaseOf, ReplyOf
        <3> QED
            BY <2>1, <2>2, <3>2, StoreStutters
    <2>4. CASE req[w].id \notin Present
        <3>1. pc'[w] = "unlock" /\ reply'[w] = OK(<<>>) /\ out' = out
            BY <1>9, <2>4 DEF Find
        <3>2. PhaseOf(w) = "open" /\ PhaseOf(w)' = "done" /\ ReplyOf(w)' = OK(<<>>)
            BY <2>1, <3>1 DEF PhaseOf, ReplyOf
        <3>3. storeRows[req[w].id] = None
            BY <2>1, <2>4, RowsOfMap
        <3>4. Store!OK(Store!Row(storeRows, req[w].id)) = OK(<<>>)
            BY <3>3 DEF Store!OK, Store!Row, OK
        <3>5. storePhase[w] = "open" /\ Store!End(w, Store!OK(Store!Row(storeRows, req[w].id)))
            BY <1>5, <2>1, <3>2, <3>4
        <3>6. req[w].op = "Update" => Store!Write(w, req[w].id)
            BY <2>2, <3>3 DEF Store!Write
        <3>7. Store!Perform(w)
            BY <2>1, <2>2, <3>5, <3>6 DEF Store!Perform, Store!Ids, Ids
        <3> QED
            BY <1>2, <3>7
    <2> QED
        BY <2>3, <2>4
<1>10. CASE Copy(w)
    <2>1. /\ pc[w] = "second" /\ pc'[w] = "unlock" /\ req[w].op = "Get"
          /\ UNCHANGED <<data, seq, req>> /\ out'[w] = None
          /\ reply'[w] = OK(<<heap[out[w]]>>)
        BY <1>10 DEF Copy
    <2>2. req[w].id \in Ids /\ req[w].id \in Present /\ out[w] = data[req[w].id]
        BY <1>1, <2>1 DEF Shaped
    <2>3. PhaseOf(w) = "open" /\ PhaseOf(w)' = "done" /\ ReplyOf(w)' = reply'[w]
        BY <2>1 DEF PhaseOf, ReplyOf
    <2>4. /\ heap[out[w]] = [id |-> req[w].id, val |-> storeRows[req[w].id]]
          /\ storeRows[req[w].id] # None
        BY <2>2, RowsOfMap
    <2>5. reply'[w] = Store!OK(Store!Row(storeRows, req[w].id))
        BY <2>1, <2>4 DEF Store!OK, Store!Row, OK
    <2>6. storePhase[w] = "open" /\ Store!End(w, Store!OK(Store!Row(storeRows, req[w].id)))
        BY <1>5, <2>1, <2>3, <2>5
    <2>7. storeUsed' = storeUsed /\ storeRows' = storeRows
        BY <1>3, <1>4, <2>1 DEF Storing
    <2>8. Store!Perform(w)
        BY <2>1, <2>6, <2>7 DEF Store!Perform
    <2> QED
        BY <1>2, <2>8
<1>11. CASE Put(w)
    BY <1>2, <1>11, StorePuts
<1>12. CASE Remove(w)
    <2>1. /\ pc[w] = "first" /\ pc'[w] = "unlock" /\ req[w].op = "Delete" /\ out[w] = None
          /\ UNCHANGED <<seq, req, out>> /\ reply'[w] = OK(<<>>)
          /\ data' = [data EXCEPT ![req[w].id] = None] /\ req[w].id \in Ids
        BY <1>1, <1>12 DEF Remove, Shaped
    <2>2. PhaseOf(w) = "open" /\ PhaseOf(w)' = "done" /\ ReplyOf(w)' = OK(<<>>)
        BY <2>1 DEF PhaseOf, ReplyOf
    <2>3. storeRows' = [storeRows EXCEPT ![req[w].id] = None]
        <3>1. storeRows = [j \in Ids |-> storeRows[j]] /\ storeRows' = [j \in Ids |-> storeRows'[j]]
            BY DEF storeRows
        <3>2. storeRows'[req[w].id] = None
            BY <2>1 DEF storeRows
        <3>3. \A j \in Ids \ {req[w].id} : storeRows'[j] = storeRows[j]
            BY <2>1, StoreFrame
        <3> QED
            BY <2>1, <3>1, <3>2, <3>3
    <2>4. storeUsed' = storeUsed
        BY <1>4, <2>1 DEF Storing
    <2>5. req[w].id \in Store!Ids /\ Store!Write(w, req[w].id)
        BY <2>1, <2>3, <2>4 DEF Store!Write, Store!Ids, Ids
    <2>6. storePhase[w] = "open" /\ Store!End(w, Store!OK(<<>>))
        BY <1>5, <2>1, <2>2 DEF Store!OK, OK
    <2>7. Store!Perform(w)
        BY <2>1, <2>5, <2>6 DEF Store!Perform
    <2> QED
        BY <1>2, <2>7
<1>13. CASE List(w)
    <2>1. /\ pc[w] = "first" /\ pc'[w] = "unlock" /\ req[w].op = "List" /\ out[w] = None
          /\ UNCHANGED <<data, seq, req, out>>
        BY <1>1, <1>13 DEF List, Shaped
    <2>2. PICK page :
            /\ reply' = [reply EXCEPT ![w] = OK(page)]
            /\ Len(page) = PageSize(Cardinality(Present))
            /\ \A k \in 1..Len(page) :
                /\ page[k] \in Entity /\ page[k].id \in Present
                /\ page[k] = heap[data[page[k].id]]
                /\ \A j \in 1..(k - 1) : page[j].id # page[k].id
        BY <1>13, ListAnswers
    <2>3. Store!IsPage(page)
        BY <2>2, PageOfRows
    <2>4. reply'[w] = OK(page) /\ OK(page) = Store!OK(page)
        BY <2>2 DEF Store!OK, OK
    <2>5. PhaseOf(w) = "open" /\ PhaseOf(w)' = "done" /\ ReplyOf(w)' = Store!OK(page)
        BY <2>1, <2>4 DEF PhaseOf, ReplyOf
    <2>6. storePhase[w] = "open" /\ Store!End(w, Store!OK(page))
        BY <1>5, <2>1, <2>5
    <2>7. storeReply'[w].samples = page
        <3>1. storeReply'[w] = Store!OK(page)
            BY <1>1, <2>5 DEF storeReply
        <3> QED
            BY <3>1 DEF Store!OK
    <2>8. storeUsed' = storeUsed /\ storeRows' = storeRows
        BY <1>3, <1>4, <2>1 DEF Storing
    <2>9. Store!Perform(w)
        BY <2>1, <2>3, <2>6, <2>7, <2>8 DEF Store!Perform
    <2> QED
        BY <1>2, <2>9
<1>14. CASE Render(w)
    <2>1. /\ pc[w] = "render" /\ pc'[w] = "reply" /\ out[w] # None
          /\ UNCHANGED <<data, seq, req>> /\ reply'[w] = OK(<<heap[out[w]]>>)
        BY <1>1, <1>14 DEF Render, Shaped
    <2>2. /\ PhaseOf(w)' = PhaseOf(w) /\ ReplyOf(w)' = ReplyOf(w)
          /\ storeUsed' = storeUsed
        BY <1>4, <2>1 DEF PhaseOf, ReplyOf, Storing
    <2> QED
        BY <2>1, <2>2, StoreStutters
<1>15. CASE Reply(w)
    <2>1. /\ pc[w] = "reply" /\ pc'[w] = "idle" /\ reply'[w] = NoReply
          /\ req' = [req EXCEPT ![w] = NoReq]
          /\ UNCHANGED <<heap, data, seq, out>>
        BY <1>15 DEF Reply
    <2>2. PhaseOf(w) = "done" /\ PhaseOf(w)' = "idle" /\ ReplyOf(w)' = NoReply
        BY <2>1 DEF PhaseOf, ReplyOf
    <2>3. storeUsed' = storeUsed /\ storeRows' = storeRows
        BY <1>3, <1>4, <2>1 DEF Storing
    <2>4. storeReply' = [x \in Workers |-> IF x \in {w} THEN Store!NoReply ELSE storeReply[x]]
        BY <1>1, <2>2 DEF storeReply, NoReply, Store!NoReply
    <2>5. req' = [x \in Workers |-> IF x \in {w} THEN Store!NoReq ELSE req[x]]
        BY <2>1 DEF NoReq, Store!NoReq
    <2>6. Store!Return(w)
        BY <1>1, <2>2, <2>3, <2>4, <2>5 DEF Store!Return, Store!Reset
    <2> QED
        BY <1>2, <2>6
<1> QED
    BY <1>6, <1>7, <1>8, <1>9, <1>10, <1>11, <1>12, <1>13, <1>14, <1>15 DEF Act, Step

(* Every RPC takes effect once, at an instant between its call and its reply, *)
(* and says so, although a handler reads an object of the map after the mutex *)
(* was released (repoMemoryTmpl, handlerTmpl).                                *)
THEOREM Refinement == Spec => ImplementsStore
<1>1. IInv /\ IInv' /\ [Next]_vars => [Store!Next]_Store!vars
    <2> SUFFICES ASSUME IInv, IInv', [Next]_vars
                 PROVE  [Store!Next]_Store!vars
        OBVIOUS
    <2>1. CASE \E w \in Workers : Act(w)
        BY <2>1, StoreStep
    <2>2. CASE UNCHANGED vars
        BY <2>2 DEF vars, Store!vars, storeRows, storeUsed, storePhase, storeReply, PhaseOf,
                   ReplyOf, Unstored
    <2> QED
        BY <2>1, <2>2 DEF Next, Act
<1> QED
    BY <1>1, StoreInit, Invariance, PTL DEF Spec, ImplementsStore, Store!Spec
==============================================================================
