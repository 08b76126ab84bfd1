------------------------------ MODULE SampleStore ------------------------------
(***************************************************************************)
(* What the repository of samples promises the RPCs (the interface         *)
(* SampleRepository, and the one the scaffold generates for any entity),   *)
(* whatever keeps the rows: an operation takes effect at one instant       *)
(* between the call and the reply, or not at all, and never twice.         *)
(*                                                                         *)
(* Two things are promised less firmly.  An update may report its row at a *)
(* moment after its effect.  An error does not say whether a write took    *)
(* effect; and what was under way when the server died may still take      *)
(* effect after it, once.                                                  *)
(***************************************************************************)
EXTENDS ListParams, FiniteSets

CONSTANTS
    Workers,    \* calls that may be under way together
    Vals,       \* contents
    None,       \* no row
    MaxId       \* the last id there is

Ids == 1..MaxId

VARIABLES
    rows,     \* rows[i]: the contents of row i, or None
    used,     \* the ids that some row has had
    phase,    \* phase[w]: of the call of w
    req,      \* req[w]: its operation, id and contents
    reply     \* reply[w]: its answer

vars == <<rows, used, phase, req, reply>>

NoReq == [op |-> "none", id |-> 0, val |-> None]
NoReply == [code |-> "none", samples |-> <<>>]
OK(samples) == [code |-> "ok", samples |-> samples]
Internal == [code |-> "internal", samples |-> <<>>]

\* Row i of r: a sequence of one sample, or of none.
Row(r, i) == IF r[i] = None THEN <<>> ELSE <<[id |-> i, val |-> r[i]]>>

\* A page of the rows: the default number of them, or all, in any order.
IsPage(samples) ==
    LET present == {i \in Ids : rows[i] # None}
        size == Cardinality(present)
    IN  /\ Len(samples) = IF size < DefaultLimit THEN size ELSE DefaultLimit
        /\ \A n \in 1..Len(samples) :
            /\ samples[n].id \in present
            /\ samples[n] = [id |-> samples[n].id, val |-> rows[samples[n].id]]
            /\ \A m \in 1..(n - 1) : samples[m].id # samples[n].id

------------------------------------------------------------------------------
Init ==
    /\ rows = [i \in Ids |-> None]
    /\ used = {}
    /\ phase = [w \in Workers |-> "idle"]
    /\ req = [w \in Workers |-> NoReq]
    /\ reply = [w \in Workers |-> NoReply]

Begin(w) ==
    /\ phase[w] = "idle"
    /\ phase' = [phase EXCEPT ![w] = "open"]
    /\ \/ req'[w].op \in {"Create", "Update"} /\ req'[w].val \in Vals
       \/ req'[w].op \in {"Get", "List", "Delete"} /\ req'[w].val = None
    /\ req'[w].id \in IF req'[w].op \in {"Create", "List"} THEN {0} ELSE Ids
    /\ req' = [req EXCEPT ![w] = [op |-> req'[w].op, id |-> req'[w].id, val |-> req'[w].val]]
    /\ UNCHANGED <<rows, used, reply>>

\* A write takes effect, on row i: a row of its own for Create.
Write(w, i) ==
    \/ /\ req[w].op = "Create"
       /\ i \notin used
       /\ rows' = [rows EXCEPT ![i] = req[w].val]
       /\ used' = used \cup {i}
    \/ /\ req[w].op = "Update"
       /\ i = req[w].id
       /\ rows' = IF rows[i] = None THEN rows ELSE [rows EXCEPT ![i] = req[w].val]
       /\ UNCHANGED used
    \/ /\ req[w].op = "Delete"
       /\ i = req[w].id
       /\ rows' = [rows EXCEPT ![i] = None]
       /\ UNCHANGED used

End(w, r) ==
    /\ phase' = [phase EXCEPT ![w] = "done"]
    /\ reply' = [reply EXCEPT ![w] = r]
    /\ UNCHANGED req

\* The operation takes effect, and its answer says so.
Perform(w) ==
    /\ phase[w] = "open"
    /\ \/ \E i \in Ids :
            Write(w, i) /\ End(w, OK(IF req[w].op = "Delete" THEN <<>> ELSE Row(rows', i)))
       \/ /\ req[w].op = "Get"
          /\ End(w, OK(Row(rows, req[w].id)))
          /\ UNCHANGED <<rows, used>>
       \/ /\ req[w].op = "List"
          /\ IsPage(reply'[w].samples)
          /\ End(w, OK(reply'[w].samples))
          /\ UNCHANGED <<rows, used>>

\* An update takes effect; what it reports is still to be read.
Overwrite(w) ==
    /\ phase[w] = "open"
    /\ req[w].op = "Update"
    /\ Write(w, req[w].id)
    /\ phase' = [phase EXCEPT ![w] = "written"]
    /\ UNCHANGED <<req, reply>>

Report(w) ==
    /\ phase[w] = "written"
    /\ End(w, OK(Row(rows, req[w].id)))
    /\ UNCHANGED <<rows, used>>

\* An error; a write may have taken effect nevertheless.
Fail(w) ==
    /\ phase[w] \in {"open", "written"}
    /\ End(w, Internal)
    /\ \/ UNCHANGED <<rows, used>>
       \/ phase[w] = "open" /\ \E i \in Ids : Write(w, i)

Reset(S) ==
    /\ req' = [w \in Workers |-> IF w \in S THEN NoReq ELSE req[w]]
    /\ reply' = [w \in Workers |-> IF w \in S THEN NoReply ELSE reply[w]]

Return(w) ==
    /\ phase[w] = "done"
    /\ phase' = [phase EXCEPT ![w] = "idle"]
    /\ Reset({w})
    /\ UNCHANGED <<rows, used>>

\* The server dies: no call is answered, and some writes are left in the balance.
Crash ==
    /\ \A w \in Workers : phase'[w] \in
            IF phase[w] \in {"open", "lost"} THEN {"lost", "idle"} ELSE {"idle"}
    /\ phase' = [w \in Workers |-> phase'[w]]
    /\ Reset({w \in Workers : phase'[w] = "idle"})
    /\ UNCHANGED <<rows, used>>

\* A write without a server takes effect, or does not.
Settle(w) ==
    /\ phase[w] = "lost"
    /\ phase' = [phase EXCEPT ![w] = "idle"]
    /\ Reset({w})
    /\ \/ UNCHANGED <<rows, used>>
       \/ \E i \in Ids : Write(w, i)

Next ==
    \/ Crash
    \/ \E w \in Workers :
        \/ Begin(w) \/ Perform(w) \/ Overwrite(w) \/ Report(w)
        \/ Fail(w) \/ Return(w) \/ Settle(w)

Spec == Init /\ [][Next]_vars
==============================================================================
