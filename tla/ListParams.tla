------------------------------ MODULE ListParams ------------------------------
(***************************************************************************)
(* domain.ListParams: the paging parameters of list queries, and the page  *)
(* a list query returns.                                                   *)
(***************************************************************************)
EXTENDS Integers, Sequences

CONSTANTS
    DefaultLimit,  \* the 50 of Sanitize
    MaxLimit       \* the 100 of Sanitize

ASSUME LimitsAssumption ==
    /\ DefaultLimit \in Nat \ {0}
    /\ MaxLimit \in Nat
    /\ DefaultLimit <= MaxLimit

Sanitize(p) ==
    [offset |-> IF p.offset < 0 THEN 0 ELSE p.offset,
     limit  |-> IF p.limit <= 0 \/ p.limit > MaxLimit THEN DefaultLimit ELSE p.limit]

\* What Offset(p.Offset).Limit(p.Limit) keeps of the ordered rows.
Page(rows, p) ==
    LET last == p.offset + p.limit
    IN  SubSeq(rows, p.offset + 1, IF last < Len(rows) THEN last ELSE Len(rows))
===============================================================================
