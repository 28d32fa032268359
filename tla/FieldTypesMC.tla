--------------------------- MODULE FieldTypesMC ---------------------------
(***************************************************************************)
(* "New-York", "42" and "3.14": a keyword of two words, an integer and a    *)
(* float, of which the default tokenizer makes no word.  The field has no  *)
(* mapping, one as text that is not stored, or one as an integer.          *)
(***************************************************************************)
EXTENDS FieldTypes, TLC

CONSTANTS d1, d2, newYork, n42, n314

MCInfer == (newYork :> "keyword") @@ (n42 :> "integer") @@ (n314 :> "float")
MCParses == (newYork :> {}) @@ (n42 :> {"integer", "float"}) @@ (n314 :> {"float"})
MCTokens == (newYork :> <<"new", "york">>) @@ (n42 :> <<>>) @@ (n314 :> <<>>)
MCRaw == (newYork :> "New-York") @@ (n42 :> "42") @@ (n314 :> "3.14")

DocSymmetry == Permutations(Docs)

mapping(type, stored) == [Type |-> type, Index |-> TRUE, Store |-> stored, Explicit |-> TRUE]

MCMappings == {None, mapping("text", FALSE), mapping("integer", TRUE)}
=============================================================================
