------------------------------ MODULE MCScaffold ------------------------------
(***************************************************************************)
(* Finite instances of Scaffold: an entity of one word and one of two, and *)
(* two entities one of whose tables, news, begins the other's, newsletters. *)
(***************************************************************************)
EXTENDS Scaffold, TLC

Article == <<"article">>
BlogPost == <<"blog", "post">>
News == <<"news">>
Newsletter == <<"newsletter">>

MCPlural == [article |-> "articles", post |-> "posts", news |-> "news",
             newsletter |-> "newsletters"]
MCExtends ==
    [t \in Tables |-> IF t = <<"news">> THEN {t, <<"newsletters">>} ELSE {t}]

OneWord == {Article}
TwoWords == {BlogPost}
Prefixed == {News, Newsletter}

Name == Field(<<"name">>, FALSE, "string")

\* Two lists that are accepted, the second of which makes one column of two
\* fields, and four that are not.
MCFieldLists ==
    {<<Name>>, <<Field(<<"page", "count">>, TRUE, "int"), Field(<<"page", "count">>, FALSE, "int")>>,
     <<>>, <<Name, Name>>, <<Field(<<"name">>, FALSE, "varchar")>>,
     <<Field(<<"order">>, FALSE, "int")>>}
OneList == {<<Name>>}
===============================================================================
