----------------------------- MODULE MCMatcher -----------------------------
(***************************************************************************)
(* Instances of Matcher for TLC.                                           *)
(***************************************************************************)
EXTENDS Matcher

CONSTANTS o1, o2, o3

TwoOrders   == {o1, o2}
ThreeOrders == {o1, o2, o3}
Symmetry3   == Permutations(ThreeOrders)

OnePrice  == {1}
TwoPrices == {1, 2}
TwoQtys   == {1, 2}

NoFailures     == {}
TradeFailures  == {"saveTrade"}
AllFailures    == {"saveOrder", "saveTrade", "updateOrder"}

=============================================================================
