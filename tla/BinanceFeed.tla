---------------------------- MODULE BinanceFeed ----------------------------
(***************************************************************************)
(* The optional Binance price feed: Start's reconnect loop with its        *)
(* exponential backoff, connect, handleMessage and Stop.  One symbol is    *)
(* configured; its ticker is the last price, 0 before the first one.       *)
(*                                                                         *)
(* A time.Duration is an int64 of nanoseconds.  Here it has Width bits and *)
(* a second has Second units, so that the wrap-around is within reach.     *)
(***************************************************************************)
EXTENDS Integers

CONSTANTS
  Width,       \* bits of a Duration (64 in the code)
  Second,      \* time.Second (10^9 in the code)
  MaxBackoff,  \* BinanceConfig.MaxBackoff
  Prices       \* closing prices a message may carry

ASSUME WidthAssumption == Width \in Nat \ {0}

\* 1 << n, before it is cut to Width bits.
Shift[n \in 0 .. Width] == IF n = 0 THEN 1 ELSE 2 * Shift[n - 1]

\* The cap is any Duration: BINANCE_RECONNECT_MAX is not validated.
ASSUME BackoffAssumption ==
  /\ Second \in Nat \ {0} /\ MaxBackoff \in Int
  /\ -Shift[Width - 1] <= MaxBackoff /\ MaxBackoff < Shift[Width - 1]
ASSUME PriceAssumption == Prices \subseteq Nat \ {0}

VARIABLES
  pc,         \* where Start is
  ctxDone,    \* the context has been cancelled
  attempt,    \* Start's local variable; calcBackoff does not tell values
              \* from Width on apart, so it stays there
  backoff,    \* the delay being waited for
  quote,      \* the price in MarketRepo, -1 before InitStock
  published   \* the price of the last TickerUpdated event

feedVars == <<pc, ctxDone, attempt, backoff, quote, published>>

-----------------------------------------------------------------------------
\* What is left of n in a Duration.
Wrap(n) ==
  LET u == n % Shift[Width] IN IF u >= Shift[Width - 1] THEN u - Shift[Width] ELSE u

\* Mutant: beyond the cap the delay starts over.
CalcBackoffStartsOver(a) ==
  LET d == Wrap(Wrap(Shift[a]) * Second) IN IF d > MaxBackoff THEN Second ELSE d

CalcBackoff(a) ==
  LET d == Wrap(Wrap(Shift[a]) * Second) IN IF d > MaxBackoff THEN MaxBackoff ELSE d

-----------------------------------------------------------------------------
FeedInit ==
  /\ pc = "init" /\ ctxDone = FALSE /\ attempt = 0 /\ backoff = 0
  /\ quote = -1 /\ published = 0

InitStocks ==
  /\ pc = "init" /\ pc' = "loop"
  /\ quote' = 0
  /\ UNCHANGED <<ctxDone, attempt, backoff, published>>

\* Stop, or the server's own context.
Cancel ==
  /\ ~ctxDone /\ ctxDone' = TRUE
  /\ UNCHANGED <<pc, attempt, backoff, quote, published>>

\* The test at the top of the loop.
Loop ==
  /\ pc = "loop"
  /\ pc' = IF ctxDone THEN "stopped" ELSE "dial"
  /\ UNCHANGED <<ctxDone, attempt, backoff, quote, published>>

\* connect returned with an error, the only way it does: Start returns when
\* the context is done, and waits otherwise.
Disconnected ==
  /\ IF ctxDone THEN pc' = "stopped" /\ UNCHANGED backoff
     ELSE pc' = "wait" /\ backoff' = CalcBackoff(attempt)
  /\ UNCHANGED <<ctxDone, attempt, quote, published>>

\* websocket.Dial: it fails at once when the context is done.
Dial ==
  /\ pc = "dial"
  /\ \/ Disconnected
     \/ ~ctxDone /\ pc' = "read" /\ UNCHANGED <<ctxDone, attempt, backoff, quote, published>>

\* Mutant: a peer that closes the stream is taken for the end of the feed.
ReadErrorEnds ==
  /\ pc = "read" /\ pc' = "stopped"
  /\ UNCHANGED <<ctxDone, attempt, backoff, quote, published>>

\* Mutant: the read is not given the context.
ReadErrorIgnoresCtx == pc = "read" /\ ~ctxDone /\ Disconnected

ReadError == pc = "read" /\ Disconnected

\* conn.Read may still return a message that came before the context was done.
\* handleMessage: what does not parse and other symbols are skipped.
SkipMessage ==
  /\ pc = "read"
  /\ UNCHANGED feedVars

HandleMessage(p) ==
  /\ pc = "read" /\ pc' = "publish"
  /\ quote' = p
  /\ UNCHANGED <<ctxDone, attempt, backoff, published>>

PublishQuote ==
  /\ pc = "publish" /\ pc' = "read"
  /\ published' = quote
  /\ UNCHANGED <<ctxDone, attempt, backoff, quote>>

\* The select between ctx.Done and time.After takes either when both are ready.
Wait ==
  /\ pc = "wait"
  /\ \/ ctxDone /\ pc' = "stopped" /\ UNCHANGED attempt
     \/ pc' = "loop" /\ attempt' = IF attempt < Width THEN attempt + 1 ELSE attempt
  /\ UNCHANGED <<ctxDone, backoff, quote, published>>

FeedStep ==
  \/ InitStocks \/ Loop \/ Dial \/ ReadError \/ SkipMessage
  \/ (\E p \in Prices : HandleMessage(p)) \/ PublishQuote \/ Wait

Stopped == pc = "stopped" /\ ctxDone /\ UNCHANGED feedVars

FeedNext == FeedStep \/ Cancel \/ Stopped

(***************************************************************************)
(* The goroutine goes on whenever it can.  A Read may block for ever, but   *)
(* the library closes the connection when the context is cancelled, and    *)
(* after the messages it holds Read returns an error.                      *)
(***************************************************************************)
LoopFairness ==
  /\ WF_feedVars(Loop) /\ WF_feedVars(Dial)
  /\ WF_feedVars(PublishQuote) /\ WF_feedVars(Wait)
  /\ SF_feedVars(ctxDone /\ ReadError)

FeedFairness == WF_feedVars(InitStocks) /\ LoopFairness

FeedSpec == FeedInit /\ [][FeedNext]_feedVars /\ FeedFairness
-----------------------------------------------------------------------------
\* The type invariant; UpdateTicker is only called for a stock the repository
\* knows.
FeedTypeOK ==
  /\ pc \in {"init", "loop", "dial", "read", "publish", "wait", "stopped"}
  /\ ctxDone \in BOOLEAN /\ attempt \in 0..Width
  /\ backoff \in Int
  /\ quote \in Prices \cup {-1, 0} /\ (pc # "init" => quote # -1)
  /\ published \in Prices \cup {0}

\* The feed ends for no other reason than a cancelled context: whatever goes
\* wrong with the connection, Start tries again.
StopsOnlyWhenCancelled == pc = "stopped" => ctxDone

\* "1s, 2s, 4s, 8s ... maxBackoff": no wait exceeds the cap, whatever the number
\* of attempts.  As long as 1<<attempt seconds fit in a Duration, a wait is the
\* cap itself or at least a second, and it does not shrink from one attempt to
\* the next.  The code does not bound attempt; beyond that the wait is negative,
\* later zero.
BackoffGrows ==
  [][pc' = "wait" /\ pc # "wait" =>
       /\ backoff' <= MaxBackoff
       /\ Shift[attempt] * Second < Shift[Width - 1] =>
            /\ backoff' = MaxBackoff \/ backoff' >= Second
            /\ attempt > 0 => backoff' >= backoff]_feedVars

=============================================================================
