---------------------------- MODULE MCDeltaFeed ----------------------------
EXTENDS DeltaFeed

\* 1 a place of the account's own, 2 one that is shared with it, 3 its route
ThreeRows    == 1..3
PlaceOrRoute == [i \in ThreeRows |-> IF i = 3 THEN 2 ELSE 1]
Caps         == [k \in 1..2 |-> k]
SharedByTwo  == [i \in {2, 3} |-> 2]
=============================================================================
