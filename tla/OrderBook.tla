----------------------------- MODULE OrderBook -----------------------------
(***************************************************************************)
(* The data the matching engine works on and the operations of its         *)
(* in-memory order book: entity.Order, orderEntry, addOrder, removeOrder   *)
(* and aggregateLevels.  Everything here is a constant-level operator; the *)
(* goroutine that owns the book is module Matcher.                         *)
(*                                                                         *)
(* An order's identity is an opaque value; an entry of the book is         *)
(*   [order |-> id, price |-> limit price, remaining |-> unmatched qty].   *)
(* The code reads the price through the entry's order pointer; prices are  *)
(* immutable, so the entry may carry its own copy.                         *)
(***************************************************************************)
EXTENDS Integers, SequencesExt

Sides == {"BUY", "SELL"}

\* CANCELLED is declared by the code but no operation ever assigns it.
Statuses == {"OPEN", "PARTIAL", "FILLED"}

Opposite(side) == IF side = "BUY" THEN "SELL" ELSE "BUY"

(***************************************************************************)
(* entity.Order                                                            *)
(***************************************************************************)
RemainingQuantity(o) == o.quantity - o.filled

IsActive(o) == o.status \in {"OPEN", "PARTIAL"}

Fill(o, qty) ==
  LET filled == o.filled + qty
  IN  [o EXCEPT !.filled = filled,
                !.status = IF filled >= o.quantity THEN "FILLED" ELSE "PARTIAL"]

(***************************************************************************)
(* Price priority.  Better(side, p, q): on that side of the book price p   *)
(* is served strictly before price q, the comparison passed to             *)
(* sort.SliceStable.  Overlaps: an incoming order on `side` with limit p   *)
(* trades with a resting order of the other side at price q.               *)
(***************************************************************************)
Better(side, p, q) == IF side = "BUY" THEN p > q ELSE p < q

\* Mutant: the prices must be strictly apart.
OverlapsStrict(side, p, q) == IF side = "BUY" THEN q < p ELSE q > p

Overlaps(side, p, q) == IF side = "BUY" THEN q <= p ELSE q >= p

(***************************************************************************)
(* sort.SliceStable: the arrangement of s in which i comes before j iff    *)
(* s[i] has the better price, or neither is better and i was first in s.   *)
(***************************************************************************)
\* Mutant: at equal prices the last one in is served first.
SliceStableLIFO(side, s) ==
  LET before(i, j) == \/ Better(side, s[i].price, s[j].price)
                      \/ s[i].price = s[j].price /\ i > j
      perm == CHOOSE p \in Bijection(DOMAIN s, DOMAIN s) :
                \A i, j \in DOMAIN s : i < j => before(p[i], p[j])
  IN  [i \in DOMAIN s |-> s[perm[i]]]

SliceStable(side, s) ==
  LET before(i, j) == \/ Better(side, s[i].price, s[j].price)
                      \/ s[i].price = s[j].price /\ i < j
      perm == CHOOSE p \in Bijection(DOMAIN s, DOMAIN s) :
                \A i, j \in DOMAIN s : i < j => before(p[i], p[j])
  IN  [i \in DOMAIN s |-> s[perm[i]]]

\* addOrder past the duplicate guard: append the entry, sort the side.
AddEntry(side, s, e) == SliceStable(side, Append(s, e))

\* removeEntry: drop the first entry of that order, if there is one.
RemoveEntry(s, id) == RemoveFirstMatch(s, LAMBDA e : e.order = id)

(***************************************************************************)
(* aggregateLevels: fold the entries into price levels, best price first.  *)
(* Entries with nothing remaining are skipped; an entry at the last        *)
(* level's price joins it; any other opens a level, and the loop is left   *)
(* for good when maxLevels levels are already open (0 means no cap).       *)
(***************************************************************************)
\* Mutant: one level too many.
AggregateLevelsOffByOne(s, maxLevels) ==
  LET step(acc, e) ==
        LET ls == acc.levels
            n  == Len(ls)
        IN  IF acc.stopped \/ e.remaining <= 0 THEN acc
            ELSE IF n > 0 /\ ls[n].price = e.price
            THEN [acc EXCEPT !.levels[n] = [price    |-> @.price,
                                            quantity |-> @.quantity + e.remaining,
                                            count    |-> @.count + 1]]
            ELSE IF maxLevels > 0 /\ n > maxLevels
            THEN [acc EXCEPT !.stopped = TRUE]
            ELSE [acc EXCEPT !.levels = Append(@,
                    [price |-> e.price, quantity |-> e.remaining, count |-> 1])]
  IN  FoldLeft(step, [levels |-> <<>>, stopped |-> FALSE], s).levels

AggregateLevels(s, maxLevels) ==
  LET step(acc, e) ==
        LET ls == acc.levels
            n  == Len(ls)
        IN  IF acc.stopped \/ e.remaining <= 0 THEN acc
            ELSE IF n > 0 /\ ls[n].price = e.price
            THEN [acc EXCEPT !.levels[n] = [price    |-> @.price,
                                            quantity |-> @.quantity + e.remaining,
                                            count    |-> @.count + 1]]
            ELSE IF maxLevels > 0 /\ n >= maxLevels
            THEN [acc EXCEPT !.stopped = TRUE]
            ELSE [acc EXCEPT !.levels = Append(@,
                    [price |-> e.price, quantity |-> e.remaining, count |-> 1])]
  IN  FoldLeft(step, [levels |-> <<>>, stopped |-> FALSE], s).levels

=============================================================================
