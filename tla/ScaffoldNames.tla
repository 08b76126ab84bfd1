----------------------------- MODULE ScaffoldNames -----------------------------
(***************************************************************************)
(* The names the scaffold derives from its arguments, and the arguments it *)
(* accepts (buildModel, parseFields and mapType of cmd/scaffold/main.go).  *)
(*                                                                         *)
(* A name is the sequence of its words.  Joined by underscores it is that  *)
(* sequence; in lowerCamel it is marked, unless it is one word, when the   *)
(* two are the same text.                                                  *)
(***************************************************************************)
EXTENDS Integers, Sequences

CONSTANTS
    Plural      \* Plural[w]: w with an s after it, unless it ends in one

\* mapType
Types == {"string", "text", "int", "int32", "int8", "int64",
          "uint8", "uint32", "uint64", "bool"}

\* The columns that would be invalid DDL.
Reserved == {<<"text">>, <<"order">>, <<"group">>, <<"value">>}

Camel(words) == IF Len(words) = 1 THEN words ELSE <<"camel">> \o words

\* Model.NameLower, the generator's name for files.
Lower(e) == Camel(e)

\* toSnake, and the sed of the Makefile.
Snake(e) == e

\* pluralizeSnake
Table(e) == [e EXCEPT ![Len(e)] = Plural[@]]

\* A field is written in snake_case or in lowerCamel; its column is in snake_case.
Field(words, camel, type) ==
    [name |-> IF camel THEN Camel(words) ELSE words, column |-> words, type |-> type]

\* parseFields
Accepted(fields) ==
    /\ fields # <<>>
    /\ \A n \in 1..Len(fields) :
        fields[n].type \in Types /\ fields[n].column \notin Reserved
    /\ \A m, n \in 1..Len(fields) : fields[m].name = fields[n].name => m = n

\* protoTmpl: the messages have a field for the id and one for each column, and
\* no two of them may have the same name.
Parses(fields) ==
    \A m \in 1..Len(fields) :
        /\ fields[m].column # <<"id">>
        /\ \A n \in 1..Len(fields) : fields[m].column = fields[n].column => m = n
===============================================================================
