------------------------------ MODULE MCNouns -------------------------------
EXTENDS Nouns

MCCallsIn == [tree |-> 5, tunnels |-> 4, relations |-> 4, traces |-> 4]

Plain == <<"plain", 1>>
Capital == <<"CAPITAL", 1>>
Hint == <<"hint", 2>>
MCWingNames == {Plain, Capital}
MCRoomNames == {Plain}
MCBatches ==
  {<<<<Plain, Plain>>>>, <<<<Capital, Capital>>>>,
   <<<<Plain, Plain>>, <<Plain, Plain>>>>, <<<<Plain, Hint>>, <<Capital, Plain>>>>}
MCSources ==
  {[id |-> 1, handle |-> "h1", anchor |-> "a1"],
   [id |-> 2, handle |-> "h1", anchor |-> "a2"],
   [id |-> 1, handle |-> "h2", anchor |-> "a1"]}
MCSubjects == [d \in {"d1", "d2"} |-> [place |-> "here", state |-> 0]]
=============================================================================
