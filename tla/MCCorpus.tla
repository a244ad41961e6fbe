------------------------------ MODULE MCCorpus ------------------------------
(* A source of two chunks and a source of one. *)
EXTENDS Corpus, TLC

CONSTANTS s1, s2, c1, c2, c3

MCSources  == {s1, s2}
MCChunks   == {c1, c2, c3}
MCSourceOf == (c1 :> s1) @@ (c2 :> s1) @@ (c3 :> s2)

MCTwoChunks == {c1, c3}
MCTwoOf     == (c1 :> s1) @@ (c3 :> s2)

MCOneSource == {s1}
MCOneChunks == {c1}
MCOneOf     == (c1 :> s1)
=============================================================================
