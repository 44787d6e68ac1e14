---------------------------- MODULE MCSimulator -----------------------------
(***************************************************************************)
(* Simulator with four nodes on five maps: two lines, one of which passes  *)
(* the routers out of the order of their numbers, a star, and two maps     *)
(* with ways of equal length.  A few packets of two sizes, from two nodes  *)
(* to a third; the queues have room for two.                               *)
(***************************************************************************)
EXTENDS Simulator

Line     == {{1, 2}, {2, 3}, {3, 4}}
Zigzag   == {{1, 3}, {3, 2}, {2, 4}}
Star     == {{2, 1}, {2, 3}, {2, 4}}
Square   == {{1, 2}, {2, 4}, {4, 3}, {3, 1}}
Diagonal == Square \cup {{2, 3}}

MCTopology == {Line, Zigzag, Star, Square, Diagonal}
MCFlow == {<<1, 4>>, <<3, 4>>}
MCSize == {1, 3}

=============================================================================
