---------------------------- MODULE PaperTrading ----------------------------
(***************************************************************************)
(* Trading on paper (packages/trading): a run walks the bars once,         *)
(* stopping out, filling, marking to market and asking the strategy in     *)
(* that order (backtest.py), under a risk manager that outlives the run    *)
(* and halts on its caps (risk.py).  Slippage is zero and money is whole.  *)
(***************************************************************************)
EXTENDS Integers, FiniteSets

CONSTANTS Prices, MaxBars, MaxRuns,   \* bounds: bars of a run, runs
          Equity,                     \* what every run starts with
          Risked, MaxPosition,        \* risk_per_trade and max_position, in per cent
          MaxDayLoss, MaxDrawdown     \* in per cent

VARIABLES bar,      \* bars walked in this run
          runs,     \* runs begun
          equity,   \* realised equity of the run
          account,  \* risk.Account: peak, what the day began at, the last mark
          position, \* the open trade, if any
          pending,  \* the signal of the previous bar, if any
          closed,   \* profit and loss of the run's closed trades
          halted    \* RiskManager.halted

tradingVars == <<bar, runs, equity, account, position, pending, closed, halted>>

None == [side |-> 0]
\* side is 1 for a long idea and -1 for a short one.
Signals == {s \in [side : {1, -1}, price : Prices, stop : Prices] : s.side * (s.price - s.stop) > 0}
Bars == {b \in [open : Prices, low : Prices, high : Prices, close : Prices] :
           b.low <= b.high /\ {b.open, b.close} \subseteq b.low..b.high}

TypeOK ==
  /\ bar \in 0..MaxBars /\ runs \in 0..MaxRuns /\ equity \in Int /\ closed \in Int
  /\ account \in [peak : Int, dayStart : Int, marked : Int]
  /\ position # None => position.quantity > 0
  /\ pending \in Signals \cup {None} /\ halted \in BOOLEAN

Fresh == [peak |-> Equity, dayStart |-> Equity, marked |-> Equity]

Init ==
  /\ bar = 0 /\ runs = 0 /\ equity = Equity /\ account = Fresh
  /\ position = None /\ pending = None /\ closed = 0 /\ halted = FALSE
-----------------------------------------------------------------------------
profit(p, exit) == (exit - p.entry) * p.quantity * p.side

\* The stop is looked at before anything else, and exits at its own price.
stopped(b) == position # None /\ IF position.side = 1 THEN b.low <= position.stop
                                                     ELSE b.high >= position.stop

loss(from, to, cap) == 100 * (from - to) >= cap * from
breached(a) == loss(a.peak, a.marked, MaxDrawdown) \/ loss(a.dayStart, a.marked, MaxDayLoss)

\* RiskManager.size(): what the account may lose if the stop is hit, trimmed by the
\* position cap; nothing at all when a cap has been reached.
least(x, y) == IF x < y THEN x ELSE y
quantity(s) == least((account.marked * Risked) \div (100 * s.side * (s.price - s.stop)),
                     (account.marked * MaxPosition) \div (100 * s.price))
sizes(s) == ~halted /\ ~breached(account) /\ quantity(s) > 0

\* A signal fills at the open of the bar after it, if no position is open, or never; pierced
\* records that this bar went through the position's stop.
filled(b, held) ==
  IF held = None /\ pending # None /\ sizes(pending)
  THEN [side |-> pending.side, stop |-> pending.stop, entry |-> b.open, quantity |-> quantity(pending),
        pierced |-> IF pending.side = 1 THEN b.low <= pending.stop ELSE b.high >= pending.stop]
  ELSE held

\* Account.mark(): the day starts with the equity of the last mark, and the peak only rises.
mark(a, value, newDay) ==
  [peak |-> IF value > a.peak THEN value ELSE a.peak,
   dayStart |-> IF newDay THEN a.marked ELSE a.dayStart, marked |-> value]

realised(b) == IF stopped(b) THEN equity + profit(position, position.stop) ELSE equity

StartRun ==
  /\ runs < MaxRuns /\ runs' = runs + 1
  /\ bar' = 0 /\ equity' = Equity /\ account' = Fresh /\ position' = None /\ pending' = None
  /\ closed' = 0
  /\ UNCHANGED halted

\* One bar: stop, fill, mark, caps, strategy.  The last bar asks for nothing and closes what
\* is still open at its close.
Walk(b, newDay, signal) ==
  LET held == filled(b, IF stopped(b) THEN None ELSE position)
      floating == IF held = None THEN 0 ELSE profit(held, b.close)
      a == mark(account, realised(b) + floating, newDay \/ bar = 0)
      ends == bar + 1 = MaxBars IN
  /\ runs > 0 /\ bar < MaxBars /\ bar' = bar + 1
  /\ account' = a /\ halted' = (halted \/ breached(a))
  /\ equity' = realised(b)
  /\ closed' = closed + (IF stopped(b) THEN profit(position, position.stop) ELSE 0)
                      + (IF ends THEN floating ELSE 0)
  /\ position' = IF ends THEN None ELSE held
  /\ signal # None => ~ends /\ ~halted'
  /\ pending' = signal
  /\ UNCHANGED runs

\* A person clears the halt, between runs.
Resume ==
  /\ halted /\ (bar = MaxBars) /\ halted' = FALSE
  /\ UNCHANGED <<bar, runs, equity, account, position, pending, closed>>

Next ==
  \/ StartRun \/ Resume
  \/ \E b \in Bars, newDay \in BOOLEAN, s \in Signals \cup {None} : Walk(b, newDay, s)

Spec == Init /\ [][Next]_tradingVars
-----------------------------------------------------------------------------
\* The report adds up, through stops, fills at another price than the signal's and a run cut
\* short: what the equity curve ends at is what the run began with and its trades made.
BooksBalance == bar = MaxBars => account.marked = Equity + closed

\* "a return nobody could have had": no position survives a bar that went through its stop.
\* The bar a position is opened in is not looked at.
StopIsHonoured == position # None => ~position.pierced
===============================================================================
