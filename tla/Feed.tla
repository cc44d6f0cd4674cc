-------------------------------- MODULE Feed --------------------------------
(***************************************************************************)
(* mdsource.Runner: one goroutine per market data source dials the         *)
(* exchange, reads trades into the shared channel Out until the connection *)
(* ends, and dials again after a pause that doubles each time.  A consumer *)
(* takes trades out of the channel; another goroutine closes it when all   *)
(* sources have returned.  Trades are not told apart, so a channel is the  *)
(* number of its elements.                                                 *)
(***************************************************************************)
EXTENDS Naturals, Sequences, SequencesExt

CONSTANTS Coinbase, Binance,  \* the sources, by kind
          Messages,           \* messages: fields ok, and trades that say if they are usable
          OutSize, ErrSize,   \* capacities of Out and Err
          BaseBackoff, MaxBackoff

Sources == Coinbase \union Binance

ASSUME FeedAssumption ==
  /\ Coinbase \intersect Binance = {}
  /\ OutSize \in Nat \ {0} /\ ErrSize \in Nat \ {0}
  /\ BaseBackoff \in Nat \ {0} /\ MaxBackoff \in Nat /\ BaseBackoff <= MaxBackoff
ASSUME MessagesAssumption ==
  \A m \in Messages : m.ok \in BOOLEAN /\ m.trades \in Seq(BOOLEAN) /\ m.trades # <<>>

VARIABLES st,       \* per source: where its goroutine is
          batch,    \* per source: parsed trades it has still to send
          backoff,  \* per source: runOne's backoff
          out,      \* trades in Out
          errs,     \* errors in Err: no program reads it
          closed,   \* Out and Err are closed
          ctx,      \* the context is cancelled
          taking,   \* the consumer has not left its loop
          up,       \* the exchange can be reached
          timedOut  \* history: sources whose dial has timed out

vars == <<st, batch, backoff, out, errs, closed, ctx, taking, up, timedOut>>

Init ==
  /\ st = [s \in Sources |-> "check"]
  /\ batch = [s \in Sources |-> 0]
  /\ backoff = [s \in Sources |-> BaseBackoff]
  /\ out = 0 /\ errs = 0 /\ closed = FALSE
  /\ ctx = FALSE /\ taking = TRUE /\ up = TRUE /\ timedOut = {}

Goto(s, p) == st' = [st EXCEPT ![s] = p]
Env == <<closed, ctx, taking, up>>

-----------------------------------------------------------------------------
(* Source.Run of the two exchanges.                                        *)

\* DialContext, and Coinbase's subscription: the peer answers or refuses, the
\* dialer's handshake timeout passes (an error that is context.DeadlineExceeded),
\* or the context is cancelled.
Dialled(s) ==
  /\ st[s] = "dial" /\ up
  /\ Goto(s, "loop")
  /\ UNCHANGED <<batch, backoff, out, errs, Env, timedOut>>
DialRefused(s) ==
  /\ st[s] = "dial" /\ ~up
  /\ Goto(s, "failed")
  /\ UNCHANGED <<batch, backoff, out, errs, Env, timedOut>>
DialTimeout(s) ==
  /\ st[s] = "dial" /\ ~up
  /\ Goto(s, "returned")
  /\ timedOut' = timedOut \union {s}
  /\ UNCHANGED <<batch, backoff, out, errs, Env>>
DialCancelled(s) ==
  /\ st[s] = "dial" /\ ctx
  /\ Goto(s, "returned")
  /\ UNCHANGED <<batch, backoff, out, errs, Env, timedOut>>

\* ParseCoinbaseMarketTrades keeps the trades whose product and time parse.
ParseCoinbaseMarketTrades(m) ==
  IF m.ok THEN Len(SelectSeq(m.trades, LAMBDA usable : usable)) ELSE 0

\* ParseBinanceAggTradeCombined: one trade, or an error.
ParseBinanceAggTradeCombined(m) == IF m.ok /\ Head(m.trades) THEN 1 ELSE 0

Parsed(s, m) ==
  IF s \in Coinbase THEN ParseCoinbaseMarketTrades(m) ELSE ParseBinanceAggTradeCombined(m)

\* The loop's condition sees the context; a ReadMessage that waits does not.
Loop(s) ==
  /\ st[s] = "loop"
  /\ Goto(s, IF ctx THEN "returned" ELSE "read")
  /\ UNCHANGED <<batch, backoff, out, errs, Env, timedOut>>

\* A message is read and parsed; one without trades is skipped.
ReadMessage(s, m) ==
  /\ st[s] = "read" /\ up
  /\ batch' = [batch EXCEPT ![s] = Parsed(s, m)]
  /\ Goto(s, IF Parsed(s, m) > 0 THEN "send" ELSE "loop")
  /\ UNCHANGED <<backoff, out, errs, Env, timedOut>>

\* ReadMessage fails: the connection broke, or PongWait passed - the client never
\* pings, so the read deadline is the one set when it connected.
ReadFails(s) ==
  /\ st[s] = "read"
  /\ Goto(s, "failed")
  /\ UNCHANGED <<batch, backoff, out, errs, Env, timedOut>>

\* select: out <- t, or ctx.Done.
Send(s) ==
  /\ st[s] = "send" /\ out < OutSize
  /\ out' = out + 1
  /\ batch' = [batch EXCEPT ![s] = @ - 1]
  /\ Goto(s, IF batch[s] = 1 THEN "loop" ELSE "send")
  /\ UNCHANGED <<backoff, errs, Env, timedOut>>

\* Mutant: a plain send that does not look at the context.
SendCancelledNever(s) == FALSE /\ UNCHANGED vars

SendCancelled(s) ==
  /\ st[s] = "send" /\ ctx
  /\ batch' = [batch EXCEPT ![s] = 0]
  /\ Goto(s, "returned")
  /\ UNCHANGED <<backoff, out, errs, Env, timedOut>>

-----------------------------------------------------------------------------
(* Runner.                                                                 *)

\* The head of runOne's loop.
Check(s) ==
  /\ st[s] = "check"
  /\ Goto(s, IF ctx THEN "returned" ELSE "dial")
  /\ UNCHANGED <<batch, backoff, out, errs, Env, timedOut>>

\* Mutant: a full Err is waited for.
ReportBlocking(s) ==
  /\ st[s] = "failed" /\ errs < ErrSize
  /\ errs' = errs + 1
  /\ Goto(s, "sleep")
  /\ UNCHANGED <<batch, backoff, out, Env, timedOut>>

\* The error goes to Err, or nowhere when Err is full.
Report(s) ==
  /\ st[s] = "failed"
  /\ errs' = IF errs < ErrSize THEN errs + 1 ELSE errs
  /\ Goto(s, "sleep")
  /\ UNCHANGED <<batch, backoff, out, Env, timedOut>>

\* The pause ends; backoff doubles up to MaxBackoff and is never set back.
Wake(s) ==
  /\ st[s] = "sleep"
  /\ backoff' = [backoff EXCEPT ![s] = IF 2 * @ > MaxBackoff THEN MaxBackoff ELSE 2 * @]
  /\ Goto(s, "check")
  /\ UNCHANGED <<batch, out, errs, Env, timedOut>>
SleepCancelled(s) ==
  /\ st[s] = "sleep" /\ ctx
  /\ Goto(s, "returned")
  /\ UNCHANGED <<batch, backoff, out, errs, Env, timedOut>>

Returned == {s \in Sources : st[s] = "returned"}

\* Run: wg.Wait, then close.
Close ==
  /\ ~closed /\ Returned = Sources
  /\ closed' = TRUE
  /\ UNCHANGED <<st, batch, backoff, out, errs, ctx, taking, up, timedOut>>

-----------------------------------------------------------------------------
(* The program: the consumer passes trades on to the aggregator, whose     *)
(* OfferTrade drops what it has no room for.                               *)

Take ==
  /\ taking /\ out > 0
  /\ out' = out - 1
  /\ UNCHANGED <<st, batch, backoff, errs, Env, timedOut>>

\* It ends with the context, or with the closed and drained channel.
ConsumerEnds ==
  /\ taking /\ (ctx \/ (closed /\ out = 0))
  /\ taking' = FALSE
  /\ UNCHANGED <<st, batch, backoff, out, errs, closed, ctx, up, timedOut>>

Signal ==
  /\ ~ctx
  /\ ctx' = TRUE
  /\ UNCHANGED <<st, batch, backoff, out, errs, closed, taking, up, timedOut>>

Network ==
  /\ up' = ~up
  /\ UNCHANGED <<st, batch, backoff, out, errs, closed, ctx, taking, timedOut>>

Source(s) ==
  \/ Dialled(s) \/ DialRefused(s) \/ DialTimeout(s) \/ DialCancelled(s)
  \/ Loop(s) \/ ReadFails(s) \/ Send(s) \/ SendCancelled(s)
  \/ \E m \in Messages : ReadMessage(s, m)
Runner(s) == Check(s) \/ Report(s) \/ Wake(s) \/ SleepCancelled(s)

Next ==
  \/ \E s \in Sources : Source(s) \/ Runner(s)
  \/ Close \/ Take \/ ConsumerEnds \/ Signal \/ Network

Spec == Init /\ [][Next]_vars

\* Goroutines run, timers fire, the dialer ends a dial, the consumer reads on,
\* and a channel serves its waiting senders in turn.
FairSpec ==
  /\ Spec
  /\ \A s \in Sources :
       /\ WF_vars(Dialled(s) \/ DialRefused(s) \/ DialCancelled(s))
       /\ WF_vars(Loop(s)) /\ WF_vars(ReadFails(s))
       /\ SF_vars(Send(s)) /\ WF_vars(SendCancelled(s))
       /\ WF_vars(Runner(s))
  /\ WF_vars(Close) /\ WF_vars(Take) /\ WF_vars(ConsumerEnds)
-----------------------------------------------------------------------------
(* Properties.                                                             *)

\* runOne and Source.Run end after the context is cancelled, wherever they are and
\* even if nobody reads Out any more, and then Out is closed.
StopsOnCancel == ctx ~> closed

\* As long as the exchange can be reached and the program runs, a source is
\* connected again and again, however many errors were reported before - unless a
\* dial has timed out.
Reconnects ==
  \A s \in Sources :
    (<>[](up /\ ~ctx)) => (<>(s \in timedOut) \/ []<>(st[s] = "read"))
=============================================================================
