------------------------------- MODULE MCTopK -------------------------------
EXTENDS TopK, TLC

Assign(items, impacts) == UNION {[S -> impacts] : S \in SUBSET items}

(* Three terms over three items.  The third is a term so common that some of *)
(* its impacts are quantised to zero.                                        *)
MCIndexes ==
  {1 :> a @@ 2 :> b @@ 3 :> c :
     a, b \in Assign({1, 2, 3}, {1, 2}),
     c \in {<<>>, 2 :> 0, 1 :> 0 @@ 3 :> 2, 3 :> 1}}

(* All terms queried, two of them with different weights, one, and none.     *)
All == 1 :> 1 @@ 2 :> 1 @@ 3 :> 1
Ask(q, n, alg) == [query |-> q, k |-> n, algorithm |-> alg]
MCRequests ==
  {Ask(All, 1, "Wand"), Ask(All, 2, "Wand"), Ask(1 :> 2 @@ 2 :> 1, 2, "Wand"),
   Ask(All, 0, "Wand"), Ask(<<>>, 1, "Wand"),
   Ask(All, 1, "BlockMaxWand"), Ask(1 :> 1, 1, "BlockMaxWand")}

(* Two terms over four items, for two whole blocks.                          *)
MCTwoLists ==
  {1 :> a @@ 2 :> b : a, b \in Assign({1, 2, 3, 4}, {1, 2})}
MCBlockMax == {Ask(1 :> 1 @@ 2 :> 1, 1, "BlockMaxWand")}

(* What the theorem about the loops asks of the impacts and weights.         *)
ASSUME BoundsAssumption == Unclamped
=============================================================================
