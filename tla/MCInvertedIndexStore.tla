------------------------ MODULE MCInvertedIndexStore ------------------------
(* Two chunks that share a term, and one whose text has no keyword at all. *)
EXTENDS InvertedIndexStore

CONSTANTS c1, c2, c3, a, b

MCItems    == {c1, c2, c3}
MCTerms    == {a, b}
MCTokensOf == (c1 :> {a, b}) @@ (c2 :> {a}) @@ (c3 :> {})

MCSmallItems    == {c1, c3}
MCSmallTokensOf == (c1 :> {a, b}) @@ (c3 :> {})
=============================================================================
