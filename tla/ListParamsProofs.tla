--------------------------- MODULE ListParamsProofs ---------------------------
(***************************************************************************)
(* Facts about ListParams, for any paging parameters and any rows.         *)
(***************************************************************************)
EXTENDS ListParams, TLAPS

\* Whatever a caller passes, List skips no negative number of rows and asks for
\* at least one and at most MaxLimit of them; to sanitize what was sanitized
\* before changes nothing.
THEOREM SanitizeBounds ==
    ASSUME NEW p \in [offset : Int, limit : Int]
    PROVE  /\ Sanitize(p) \in [offset : Nat, limit : 1..MaxLimit]
           /\ Sanitize(Sanitize(p)) = Sanitize(p)
           /\ p \in [offset : Nat, limit : 1..MaxLimit] => Sanitize(p) = p
<1> DEFINE q == Sanitize(p)
<1>1. q \in [offset : Nat, limit : 1..MaxLimit]
    <2>1. p.offset \in Int /\ p.limit \in Int
        OBVIOUS
    <2>2. (IF p.offset < 0 THEN 0 ELSE p.offset) \in Nat
        BY <2>1
    <2>3. (IF p.limit <= 0 \/ p.limit > MaxLimit THEN DefaultLimit ELSE p.limit)
            \in 1..MaxLimit
        BY <2>1, LimitsAssumption
    <2> QED
        BY <2>2, <2>3 DEF Sanitize
<1>2. ASSUME NEW r \in [offset : Nat, limit : 1..MaxLimit]
      PROVE  Sanitize(r) = r
    <2>1. r = [offset |-> r.offset, limit |-> r.limit]
        BY <1>2
    <2>2. r.offset \in Nat /\ r.limit \in Int /\ r.limit > 0 /\ r.limit <= MaxLimit
        BY <1>2, LimitsAssumption
    <2>3. Sanitize(r) = [offset |-> r.offset, limit |-> r.limit]
        BY <2>2, LimitsAssumption DEF Sanitize
    <2> QED
        BY <2>1, <2>3
<1> QED
    BY <1>1, <1>2

\* How many of n rows an empty ListParams asks for.
PageSize(n) == IF n < DefaultLimit THEN n ELSE DefaultLimit

\* An empty ListParams asks for the first DefaultLimit rows.
LEMMA FirstPage ==
    ASSUME NEW n \in Nat, NEW rows, rows = [i \in 1..n |-> rows[i]]
    PROVE  /\ PageSize(n) \in Nat /\ PageSize(n) <= n
           /\ Page(rows, Sanitize([offset |-> 0, limit |-> 0])) =
                [i \in 1..PageSize(n) |-> rows[i]]
<1>1. Sanitize([offset |-> 0, limit |-> 0]) = [offset |-> 0, limit |-> DefaultLimit]
    BY LimitsAssumption DEF Sanitize
<1> DEFINE T == {rows[i] : i \in 1..n}
<1>2. rows \in Seq(T) /\ Len(rows) = n
    <2>1. \A i \in 1..n : rows[i] \in T
        OBVIOUS
    <2> HIDE DEF T
    <2>2. rows \in [1..n -> T]
        BY <2>1
    <2> QED
        BY <2>2
<1> HIDE DEF T
<1>3. PageSize(n) \in Nat /\ PageSize(n) <= n
    BY LimitsAssumption DEF PageSize
<1>4. PageSize(n) = IF DefaultLimit < n THEN DefaultLimit ELSE n
    BY LimitsAssumption DEF PageSize
<1>5. Page(rows, [offset |-> 0, limit |-> DefaultLimit]) = SubSeq(rows, 1, PageSize(n))
    BY <1>2, <1>4, LimitsAssumption DEF Page
<1>6. SubSeq(rows, 1, PageSize(n)) = [i \in 1..PageSize(n) |-> rows[i]]
    BY <1>2, <1>3
<1> QED
    BY <1>1, <1>3, <1>5, <1>6
===============================================================================
