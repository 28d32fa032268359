------------------------------ MODULE SearchMC ------------------------------
(***************************************************************************)
(* One document in range that passes the filters and one that does not,    *)
(* two fields, two words that are synonyms of each other in one direction. *)
(***************************************************************************)
EXTENDS Search, TLC

CONSTANTS d1, d2, title, body, a, b

doc(t, u) == (title :> t) @@ (body :> u)

MCContents == {doc(<<a>>, <<b, a>>), doc(<<b, b>>, <<a, b>>)}

MCSynonyms == (a :> <<b>>) @@ (b :> <<>>)

clause(type, field, words) == [type |-> type, field |-> field, words |-> words]

MCTitle == {clause(type, title, <<a>>) : type \in {"must", "should", "must_not"}}
MCBody == {clause(type, body, <<b>>) : type \in {"must", "should", "must_not"}}

MCPhrases ==
    {clause("phrase", f, <<a, b>>) : f \in Fields} \cup {clause("phrase", title, <<b, b>>)}

MCClauses == MCTitle \cup MCBody \cup MCPhrases

MCPairs == (MCTitle \X MCClauses) \cup (MCPhrases \X MCPhrases)

\* Two clauses, or one; ranges and filters with at most one.
MCQueries ==
    {[clauses |-> c, range |-> FALSE, filter |-> FALSE] :
        c \in MCPairs \cup {<<x>> : x \in MCClauses}}
        \cup {[clauses |-> c, range |-> r, filter |-> g] :
                 c \in {<<>>} \cup {<<x>> : x \in MCTitle}, r, g \in BOOLEAN}
=============================================================================
