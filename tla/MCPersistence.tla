--------------------------- MODULE MCPersistence ---------------------------
(***************************************************************************)
(* Instances of Persistence for TLC.                                       *)
(***************************************************************************)
EXTENDS Persistence

CONSTANTS o1, o2, o3

OneOrder   == {o1}
TwoOrders  == {o1, o2}
Symmetry2  == Permutations(TwoOrders)
OnePrice   == {1}
OneQty     == {1}
ThreeOrders == {o1, o2, o3}
TwoQtys    == {1, 2}
NoFailures == {}

\* One BUY of 2 filled by two SELLs of 1: the OrderUpdated of the first trade
\* may still be in the bus when the second one fills the BUY.
TwoFillsInit ==
  /\ PInit
  /\ order =
        (o1 :> [side |-> "BUY", price |-> 1, quantity |-> 2, filled |-> 0, status |-> "OPEN"]) @@
        [o \in {o2, o3} |->
           [side |-> "SELL", price |-> 1, quantity |-> 1, filled |-> 0, status |-> "OPEN"]]
TwoFillsSpec == TwoFillsInit /\ [][PNext]_pvars
Symmetry23   == Permutations({o2, o3})

\* The state without the port `pub`, which every engine step overwrites and no
\* step reads afterwards.
NoPort == <<order, repo, trades, phase, ch, closed, accepted, mpc, cur, trade,
            book, index, view, busVars, workerVars, main, feedState, losses, enqueued, joined>>

\* What happens after a loss is of no interest to QuietMeansStored.
Lossless == losses = {}

=============================================================================
