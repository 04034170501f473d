------------------------------- MODULE Queries -------------------------------
(***************************************************************************)
(* The list endpoints, GET /orders and GET /trades, over the in-memory and *)
(* the PostgreSQL repositories, while orders are placed and filled: a      *)
(* client fetches page after page.  The in-memory FindAll works under one  *)
(* read lock, in insertion order; the PostgreSQL one counts and selects in *)
(* two queries, newest first by the row's timestamp, which is taken before *)
(* the row is inserted.  A row is named by its timestamp.  Orders change   *)
(* status and can be listed by it; trades never change.                    *)
(***************************************************************************)
EXTENDS Integers, Sequences, SequencesExt

CONSTANTS
  Rows,            \* orders placed or trades made, by created_at or executed_at
  IntLimit,        \* an int lies in -IntLimit .. IntLimit - 1; 2^63 in the build
  PageParams,      \* page as the client may send it with its first request
  PerPageParams,   \* per_page as the client may send it
  DefaultPerPage,  \* validator.DefaultPerPage (20)
  MaxPerPage       \* validator.MaxPerPage (100)

ASSUME QueryAssumption ==
  /\ Rows \subseteq Nat /\ PageParams \subseteq Int /\ PerPageParams \subseteq Int
  /\ DefaultPerPage \in Nat \ {0} /\ MaxPerPage \in Nat \ {0} /\ IntLimit \in Nat

\* A table and a page of it can be counted.
ASSUME TableFits ==
  IsFiniteSet(Rows) /\ Cardinality(Rows) + DefaultPerPage + MaxPerPage < IntLimit

VARIABLES
  storage,   \* STORAGE_TYPE
  resource,  \* orders or trades
  rows,      \* the table of that resource, in insertion order
  open,      \* the orders in status OPEN
  query,     \* what the client asks for: onlyOpen (status=OPEN), the page it
             \* starts at, perPage, and whether it follows meta.pages or reads
             \* on until a short page
  wanted,    \* history: what matched when it began
  seen,      \* history: what it has been sent, in order
  page,      \* the page it fetches next
  walk,      \* idle, ask, select (between count and page), done, failed
  total      \* the count its request has made

queryVars == <<storage, resource, rows, open, query, wanted, seen, page, walk, total>>

\* intParam: what strconv.Atoi cannot read is the default.
IntParam(v, def) == IF -IntLimit <= v /\ v < IntLimit THEN v ELSE def

\* validator.ParsePage and ParsePerPage: a page has no upper bound.
ParsePage(v)    == IF v < 1 THEN 1 ELSE v
ParsePerPage(v) == IF v < 1 THEN DefaultPerPage ELSE IF v > MaxPerPage THEN MaxPerPage ELSE v

\* Mutant: the division is not rounded up.
PagesRoundedDown(count, perPage) == IF perPage > 0 THEN count \div perPage ELSE 0

\* response.NewMeta.
Pages(count, perPage) == IF perPage > 0 THEN (count + perPage - 1) \div perPage ELSE 0

-----------------------------------------------------------------------------
\* The filter.
Matches(q, o) == q.onlyOpen => o \in open

\* The loop of the in-memory FindAll: the rows that match, oldest first.
Matched(q) ==
  LET matched[n \in 0 .. Len(rows)] ==
        IF n = 0 THEN <<>>
        ELSE IF Matches(q, rows[n]) THEN Append(matched[n - 1], rows[n])
        ELSE matched[n - 1]
  IN  matched[Len(rows)]

\* ORDER BY created_at DESC, or executed_at.
NewestFirst(S) ==
  CHOOSE s \in [1 .. Cardinality(S) -> S] : \A i, j \in DOMAIN s : i < j => s[i] > s[j]

\* The rows a filter selects, in the order of the storage.
Selected(q) ==
  IF storage = "memory" THEN Matched(q) ELSE NewestFirst({o \in ToSet(rows) : Matches(q, o)})

\* Mutant: the first page has number zero.
SliceFromZero(list, p, perPage) ==
  SubSeq(list, p * perPage + 1, IF (p + 1) * perPage < Len(list) THEN (p + 1) * perPage ELSE Len(list))

\* What is left of n in an int.
WrapInt(n) ==
  LET u == n % (2 * IntLimit) IN IF u >= IntLimit THEN u - 2 * IntLimit ELSE u

\* (page - 1) * perPage: for a page far past the end the product wraps around, to
\* a negative number or to the start of some other page.
Start(p, perPage) == WrapInt((p - 1) * perPage)

\* LIMIT and OFFSET, or matched[start:end]; past the end it is empty.
Slice(list, p, perPage) ==
  LET start == Start(p, perPage)
      end   == IF start + perPage < Len(list) THEN start + perPage ELSE Len(list)
  IN  SubSeq(list, start + 1, end)

-----------------------------------------------------------------------------
QueriesInit ==
  /\ storage \in {"memory", "postgres"} /\ resource \in {"orders", "trades"}
  /\ rows = <<>> /\ open = {}
  /\ query \in [onlyOpen : BOOLEAN,
                page     : {ParsePage(IntParam(v, 1)) : v \in PageParams},
                perPage  : {ParsePerPage(IntParam(v, DefaultPerPage)) : v \in PerPageParams},
                byMeta   : BOOLEAN]
  /\ resource = "trades" => ~query.onlyOpen
  /\ wanted = {} /\ seen = <<>> /\ page = query.page /\ walk = "idle" /\ total = 0

clientVars == <<query, wanted, seen, page, walk, total>>

SaveOrder(o) ==
  /\ resource = "orders" /\ o \notin ToSet(rows)
  /\ rows' = Append(rows, o) /\ open' = open \cup {o}
  /\ UNCHANGED <<storage, resource, clientVars>>

SaveTrade(t) ==
  /\ resource = "trades" /\ t \notin ToSet(rows)
  /\ rows' = Append(rows, t)
  /\ UNCHANGED <<storage, resource, open, clientVars>>

\* OrderRepo.Update, by the matcher.
UpdateOrder(o) ==
  /\ o \in open /\ open' = open \ {o}
  /\ UNCHANGED <<storage, resource, rows, clientVars>>

\* The client begins; its requests go to OrderHandler.List or TradeHandler.List.
BeginWalk(what) ==
  /\ resource = what /\ walk = "idle" /\ walk' = "ask"
  /\ wanted' = ToSet(Selected(query))
  /\ UNCHANGED <<storage, resource, rows, open, query, seen, page, total>>
ListOrders == BeginWalk("orders")
ListTrades == BeginWalk("trades")

\* What the client does with a page: the next one, or none.
TakePage(list, count) ==
  LET got  == Slice(list, page, query.perPage)
      last == IF query.byMeta THEN page >= Pages(count, query.perPage)
              ELSE Len(got) < query.perPage
  IN  /\ seen' = seen \o got
      /\ walk' = IF last THEN "done" ELSE "ask"
      /\ page' = IF last THEN page ELSE page + 1

\* A negative start: the slice panics and middleware.Recovery answers 500, or
\* PostgreSQL refuses the OFFSET.
Answer(list, count) ==
  \/ Start(page, query.perPage) >= 0 /\ TakePage(list, count)
  \/ Start(page, query.perPage) < 0 /\ walk' = "failed" /\ UNCHANGED <<seen, page>>

\* The in-memory FindAll.
FindAll(what) ==
  /\ resource = what /\ walk = "ask" /\ storage = "memory"
  /\ Answer(Selected(query), Len(Selected(query)))
  /\ UNCHANGED <<storage, resource, rows, open, query, wanted, total>>
FindAllOrders == FindAll("orders")
FindAllTrades == FindAll("trades")

\* The PostgreSQL FindAll: SELECT COUNT(*), then the page.
CountRows(what) ==
  /\ resource = what /\ walk = "ask" /\ storage = "postgres"
  /\ total' = Len(Selected(query)) /\ walk' = "select"
  /\ UNCHANGED <<storage, resource, rows, open, query, wanted, seen, page>>
CountOrders == CountRows("orders")
CountTrades == CountRows("trades")

SelectPage(what) ==
  /\ resource = what /\ walk = "select"
  /\ Answer(Selected(query), total)
  /\ UNCHANGED <<storage, resource, rows, open, query, wanted, total>>
SelectOrders == SelectPage("orders")
SelectTrades == SelectPage("trades")

WalkDone == walk \in {"done", "failed"} /\ UNCHANGED queryVars

QueriesNext ==
  \/ \E o \in Rows : SaveOrder(o) \/ SaveTrade(o) \/ UpdateOrder(o)
  \/ ListOrders \/ FindAllOrders \/ CountOrders \/ SelectOrders
  \/ ListTrades \/ FindAllTrades \/ CountTrades \/ SelectTrades
  \/ WalkDone

QueriesSpec == QueriesInit /\ [][QueriesNext]_queryVars
-----------------------------------------------------------------------------
\* The type invariant.
QueriesTypeOK ==
  /\ storage \in {"memory", "postgres"} /\ resource \in {"orders", "trades"}
  /\ rows \in Seq(Rows) /\ open \subseteq ToSet(rows)
  /\ query.perPage \in 1 .. (DefaultPerPage + MaxPerPage)
  /\ wanted \subseteq ToSet(rows) /\ seen \in Seq(Rows)
  /\ page \in Nat \ {0} /\ total \in 0 .. Len(rows)
  /\ walk \in {"idle", "ask", "select", "done", "failed"}

\* FindAll and NewMeta: at any moment pages 1 to meta.pages, put one after the
\* other, are the filtered list, whatever per_page the client sent.
PagesTile ==
  LET list == Selected(query)
      n    == query.perPage
  IN  FlattenSeq([p \in 1 .. Pages(Len(list), n) |-> Slice(list, p, n)]) = list

\* A client that walks the trades, or the orders without a status filter, while
\* rows are added and filled misses none that was there when it began, and from
\* the in-memory store gets none twice.  With PostgreSQL this takes a client
\* that reads until a page is short: meta.pages is counted before the page is
\* selected, and a row added in between pushes the oldest one off the last page.
\* No request of a walk from the first page fails, filtered or not: its product
\* never leaves the table, whatever wraps around for other pages.
WalkMissesNone ==
  query.page = 1 =>
    /\ walk # "failed"
    /\ walk = "done" /\ ~query.onlyOpen =>
         /\ storage = "memory" \/ ~query.byMeta => wanted \subseteq ToSet(seen)
         /\ storage = "memory" => IsInjective(seen)

=============================================================================
