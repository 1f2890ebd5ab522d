---------------------------- MODULE DecisionModel ----------------------------
(***************************************************************************)
(* The decision model (src/model.py, src/domain.py): the accounting a      *)
(* movement is scored with, the Bellman score, the choice of the live path *)
(* and that of the backtest, and the replay of stored bars                 *)
(* (src/backtest.py).  Operators only.                                     *)
(*                                                                         *)
(* Cash and prices are in the smallest unit of money, quantities in the    *)
(* smallest part of a share: the division that sizes a movement rounds     *)
(* down, once.  The successor's previous prices are its prices, so the     *)
(* price changes in its vector are 0; its sentiment and the bias are those *)
(* of every other candidate.  What its value depends on is the position    *)
(* flags and the fraction of cash.                                         *)
(***************************************************************************)
EXTENDS Series, FiniteSetsExt

Movements == <<"BUY", "SELL", "HOLD">>
ActionSpace == {"BUY", "SELL", "HOLD"}
PositionShare == 4      \* POSITION_WEIGHT is one part in this many
Discount == 99          \* discount_factor, in hundredths

LesserOf(x, y) == IF x <= y THEN x ELSE y
GreaterOf(x, y) == IF x >= y THEN x ELSE y

(* A state: its prices, the previous ones, the holdings and the cash.  The  *)
(* symbols are those it has a price for.                                    *)
SymbolsOf(state) == DOMAIN state.price
PortfolioValue(state) ==
    state.cash + TotalOf([s \in SymbolsOf(state) |-> state.held[s] * state.price[s]])

-----------------------------------------------------------------------------
(* portfolio_transition: how much of a symbol changes hands.                *)
Quantity(movement, cash, held, price, value) ==
    CASE movement = "BUY" /\ price > 0  -> (cash \div PositionShare) \div price
      [] movement = "SELL" /\ price > 0 -> LesserOf(held, (value \div PositionShare) \div price)
      [] movement = "SELL" /\ price = 0 -> held
      [] OTHER                          -> 0

(* What a symbol's holding and the cash become.                             *)
Traded(movement, cash, held, price, value) ==
    LET quantity == Quantity(movement, cash, held, price, value)
    IN IF movement = "BUY" THEN [held |-> held + quantity, cash |-> cash - quantity * price]
       ELSE [held |-> held - quantity, cash |-> cash + quantity * price]

Reward(movement, change) ==
    CASE movement = "BUY"  -> change
      [] movement = "SELL" -> 0 - change
      [] movement = "HOLD" -> 0

RewardOf(movement, symbol, state) ==
    Reward(movement, state.price[symbol] - state.previous[symbol])

(* Mutant of Transition: a purchase replaces the holding.                   *)
TransitionForgetting(movement, symbol, state) ==
    LET t == Traded(movement, state.cash, state.held[symbol], state.price[symbol],
                    PortfolioValue(state))
        kept == IF movement = "BUY" THEN t.held - state.held[symbol] ELSE t.held
    IN [price |-> state.price, previous |-> state.price,
        held |-> [state.held EXCEPT ![symbol] = kept], cash |-> t.cash]

(* portfolio_transition: the successor.                                     *)
Transition(movement, symbol, state) ==
    LET t == Traded(movement, state.cash, state.held[symbol], state.price[symbol],
                    PortfolioValue(state))
    IN [price |-> state.price, previous |-> state.price,
        held |-> [state.held EXCEPT ![symbol] = t.held], cash |-> t.cash]

-----------------------------------------------------------------------------
(* r + gamma * V(s') with the weights of the position flags and of the cash *)
(* fraction, times 100 and the portfolio's value, which is the same for all *)
(* candidates.                                                              *)
Score(movement, symbol, state, weights) ==
    LET next == Transition(movement, symbol, state)
        whole == GreaterOf(1, PortfolioValue(next))
        flags == Cardinality({s \in SymbolsOf(next) : next.held[s] > 0})
    IN 100 * whole * RewardOf(movement, symbol, state)
       + Discount * (whole * weights.flag * flags + weights.cash * next.cash)

(* BellmanEngine.compute_action: the first of the best.                     *)
ComputeAction(symbol, state, weights) ==
    LET score == [m \in ActionSpace |-> Score(m, symbol, state, weights)]
        best == {i \in DOMAIN Movements :
                    \A m \in ActionSpace : score[Movements[i]] >= score[m]}
    IN Movements[Min(best)]

(* TradingExecutor.decide: whoever is indifferent holds.                    *)
Decide(symbol, state, weights) ==
    LET best == ComputeAction(symbol, state, weights)
    IN IF Score(best, symbol, state, weights) = Score("HOLD", symbol, state, weights)
       THEN "HOLD" ELSE best

(* The state the live path decides on: one symbol, its bar's open and       *)
(* close, the executor's cash, and no holdings, as no order is submitted.   *)
BuildDecisionState(symbol, open, close, cash) ==
    [price |-> [s \in {symbol} |-> close],
     previous |-> [s \in {symbol} |-> IF open > 0 THEN open ELSE close],
     held |-> [s \in {symbol} |-> 0],
     cash |-> cash]

-----------------------------------------------------------------------------
(* Backtester.replay of bars in the order of their times and, within one,   *)
(* of the list of symbols.  A bar is a symbol and its close.                *)
Covered(bars) == {bars[i].symbol : i \in DOMAIN bars}

FirstClose(bars, s) == bars[Min({i \in DOMAIN bars : bars[i].symbol = s})].close

ReplayStart(bars, cash) ==
    LET first == [s \in Covered(bars) |-> FirstClose(bars, s)]
    IN [price |-> first, previous |-> first,
        held |-> [s \in Covered(bars) |-> 0], cash |-> cash]

Priced(state, bar) == [state EXCEPT !.price[bar.symbol] = bar.close]

(* One bar: its close becomes the price, the engine chooses, the portfolio  *)
(* moves on.  earned is what the prices' moves were worth to the holdings.  *)
ReplayBar(run, bar, weights) ==
    LET now == Priced(run.state, bar)
        action == ComputeAction(bar.symbol, now, weights)
    IN [state |-> Transition(action, bar.symbol, now),
        earned |-> run.earned + PortfolioValue(now) - PortfolioValue(run.state)]

Replay(bars, weights, cash) ==
    FoldLeft(LAMBDA run, bar : ReplayBar(run, bar, weights),
             [state |-> ReplayStart(bars, cash), earned |-> 0], bars)

(* The paper portfolio of a backtest neither finds nor loses money: its     *)
(* value is the initial cash and what the moves of the prices earned on the *)
(* shares it held then, and no holding nor the cash is ever negative.       *)
Balanced(run, cash) ==
    /\ PortfolioValue(run.state) = cash + run.earned
    /\ run.state.cash >= 0
    /\ \A s \in SymbolsOf(run.state) : run.state.held[s] >= 0
=============================================================================
