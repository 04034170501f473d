---------------------------- MODULE TradeLedger ----------------------------
(***************************************************************************)
(* What the exchange promises its users about orders and trades, with no   *)
(* word on goroutines, channels, books or storage calls: trades are only   *)
(* ever added, each between a buy and a sell whose limits allow it, at the *)
(* limit price of one of the two, for quantity that both still have; and   *)
(* what is shown of an order's fills only grows and never runs ahead of    *)
(* the trades that count.  Every trade counts, unless Voids: then the tape *)
(* may also hold trades that no order's quantity has paid for.             *)
(* Matcher implements this specification (Matcher!Ledger).                 *)
(***************************************************************************)
EXTENDS Integers, Sequences

CONSTANTS
  Orders, Prices, Quantities,
  Voids   \* TRUE iff a trade may get on the tape and count for nobody

VARIABLES
  terms,   \* side, limit price and quantity of each order, fixed for good
  left,    \* the quantity of each order that has not been traded
  tape,    \* the trades reported, oldest first
  shown    \* the filled quantity a reader is shown for each order

lvars == <<terms, left, tape, shown>>

Terms == [side : {"BUY", "SELL"}, price : Prices, quantity : Quantities]

LInit ==
  /\ terms \in [Orders -> Terms]
  /\ left = [o \in Orders |-> terms[o].quantity]
  /\ tape = <<>>
  /\ shown = [o \in Orders |-> 0]

\* A trade of quantity q at price p that the limits and quantities allow.
Deal(b, s, p, q) ==
  /\ terms[b].side = "BUY" /\ terms[s].side = "SELL"
  /\ terms[s].price <= p /\ p <= terms[b].price
  /\ p \in {terms[b].price, terms[s].price}
  /\ q > 0 /\ q <= left[b] /\ q <= left[s]

Report(b, s, p, q) == tape' = Append(tape, [buy |-> b, sell |-> s, price |-> p, qty |-> q])

\* The trade is made and reported.
Execute(b, s, p, q) ==
  /\ Deal(b, s, p, q)
  /\ Report(b, s, p, q)
  /\ left' = [left EXCEPT ![b] = @ - q, ![s] = @ - q]
  /\ UNCHANGED <<terms, shown>>

\* The trade is reported and not made.
Void(b, s, p, q) ==
  /\ Voids
  /\ Deal(b, s, p, q)
  /\ Report(b, s, p, q)
  /\ UNCHANGED <<terms, left, shown>>

\* Readers are shown more of what o has traded.
Show(o) ==
  /\ \E f \in shown[o]..(terms[o].quantity - left[o]) :
       shown' = [shown EXCEPT ![o] = f]
  /\ UNCHANGED <<terms, left, tape>>

LNext ==
  \/ \E b, s \in Orders : \E p \in Prices, q \in 1..left[b] :
       Execute(b, s, p, q) \/ Void(b, s, p, q)
  \/ \E o \in Orders : Show(o)

LSpec == LInit /\ [][LNext]_lvars

=============================================================================
