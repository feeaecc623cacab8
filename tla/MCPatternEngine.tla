-------------------------- MODULE MCPatternEngine --------------------------
(* A small instance of PatternEngine for TLC.                               *)
EXTENDS PatternEngine

F(n, d) == [num |-> n, den |-> d]
Tx(ago, amount) == [ago |-> ago, amount |-> amount]

MCRatio       == F(5, 1)
MCMatchFactor == F(2, 1)
MCBandFactor  == F(3, 2)
Half          == F(1, 2)
MCDecay       == [age \in 0 .. MaxNow |-> 2 ^ (MaxNow - age)]

(* Tests of three sizes, two of which lie in one band, followed at once, by *)
(* tranches, late or by a chain of growing transfers; a large transfer and  *)
(* a test of their own, and one that the backfill finds between others.     *)
MCBatches ==
  { <<Tx(0, 4), Tx(0, 20)>>, <<Tx(1, 6), Tx(0, 90)>>, <<Tx(2, 9), Tx(1, 90), Tx(0, 90)>>,
    <<Tx(2, 4), Tx(1, 20), Tx(0, 100)>>,
    <<Tx(0, 6)>>, <<Tx(0, 90)>>, <<Tx(1, 4)>>, <<Tx(2, 20)>> }

=============================================================================
