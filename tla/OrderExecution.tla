---------------------------- MODULE OrderExecution ----------------------------
(***************************************************************************)
(* TradingExecutor.decide_and_execute (src/trading_execution.py): a        *)
(* decision is sized by Kelly, cut down by the risk manager, submitted to  *)
(* the broker, and the answer moves the tracker's positions and the        *)
(* executor's cash, which the next decision is sized against.  The broker  *)
(* (external) may answer before the fill, refuse, cancel, or not be heard. *)
(* One thread calls the executor; the broker fills orders at any time.     *)
(*                                                                         *)
(* Quantities are whole shares and prices whole units.  The rounding of    *)
(* Kelly's dollars to cents is left out: the risk manager cuts afterwards. *)
(***************************************************************************)
EXTENDS Integers

CONSTANTS
    Symbols, Prices,
    InitialCash,
    Parts, MaxParts,    \* max_position_pct and max_fraction: MaxParts of Parts
    Kellys,             \* what Kelly's formula may give, in the same Parts
    MaxOrders           \* bound: orders submitted

ASSUME PricesAssumption == Prices \subseteq Nat \ {0}
ASSUME CashAssumption == InitialCash \in Nat
ASSUME CapAssumption == Parts \in Nat \ {0} /\ MaxParts \in 0 .. Parts /\ Kellys \subseteq Int
ASSUME BoundAssumption == MaxOrders \in Nat

VARIABLES
    cash,       \* TradingExecutor.cash
    position,   \* OrderTracker._positions
    order,      \* the order being submitted
    status,     \* the status of the last order the tracker recorded
    submitted,  \* how many orders were submitted
    owned,      \* the broker's: shares of each symbol
    working,    \* the broker's: shares of open orders by symbol and side
    unheard     \* history: shares bought, less those sold, the tracker was not told
                \* of, less those it was told of that were not filled

executorVars == <<cash, position, order, status, submitted>>
brokerVars == <<owned, working, unheard>>
vars == <<executorVars, brokerVars>>

-----------------------------------------------------------------------------
Sides == {"buy", "sell"}
NoOrder == [side |-> "none"]
Orders == [side : Sides, symbol : Symbols, quantity : Nat \ {0}, price : Prices]
Statuses == {"none", "open", "refused", "canceled", "error"}

(* "open" stands for every status that is not final, and for "filled".      *)
TypeOK ==
    /\ cash \in Nat
    /\ position \in [Symbols -> Int]
    /\ order \in Orders \union {NoOrder}
    /\ status \in Statuses
    /\ submitted \in 0 .. MaxOrders
    /\ owned \in [Symbols -> Int]
    /\ working \in [Symbols -> [Sides -> Nat]]
    /\ unheard \in [Symbols -> Int]

Init ==
    /\ cash = InitialCash
    /\ position = [s \in Symbols |-> 0]
    /\ order = NoOrder /\ status = "none" /\ submitted = 0
    /\ owned = [s \in Symbols |-> 0]
    /\ working = [s \in Symbols |-> [x \in Sides |-> 0]]
    /\ unheard = [s \in Symbols |-> 0]

-----------------------------------------------------------------------------
Least(x, y) == IF x <= y THEN x ELSE y
Most(x, y) == IF x >= y THEN x ELSE y
Signed(side, n) == IF side = "buy" THEN n ELSE 0 - n

(* FullState.portfolio_value: the state of a decision carries the price of  *)
(* its own symbol only, so what else is held counts nothing.                *)
PortfolioValue(s, p) == cash + position[s] * p

(* calculate_kelly and calculate_shares.                                    *)
KellyShares(value, k, p) ==
    IF k <= 0 THEN 0 ELSE (value * Least(k, MaxParts)) \div (Parts * p)

(* Mutant of BuyAllowed: what is held already is not counted.               *)
BuyAllowedPerOrder(s, p) ==
    Least(cash \div p, (MaxParts * PortfolioValue(s, p)) \div (Parts * p))

(* evaluate_order, side "buy": the shares that cash and the cap allow.      *)
BuyAllowed(s, p) ==
    LET capacity == Most(0, MaxParts * PortfolioValue(s, p) - Parts * position[s] * p)
    IN Least(Parts * cash, capacity) \div (Parts * p)

(* A state with a negative holding is refused, and with it the decision.    *)
StateIsValid == \A s \in Symbols : position[s] >= 0

MaySubmit == order = NoOrder /\ submitted < MaxOrders /\ StateIsValid

(* _translate_buy                                                           *)
DecideBuy(s, p, k) ==
    LET q == Least(KellyShares(PortfolioValue(s, p), k, p), BuyAllowed(s, p))
    IN /\ MaySubmit
       /\ q > 0
       /\ order' = [side |-> "buy", symbol |-> s, quantity |-> q, price |-> p]
       /\ submitted' = submitted + 1
       /\ UNCHANGED <<cash, position, status, brokerVars>>

(* _translate_sell: all that is held.                                       *)
DecideSell(s, p) ==
    /\ MaySubmit
    /\ position[s] > 0
    /\ order' = [side |-> "sell", symbol |-> s, quantity |-> position[s], price |-> p]
    /\ submitted' = submitted + 1
    /\ UNCHANGED <<cash, position, status, brokerVars>>

-----------------------------------------------------------------------------
(* Mutant of Settle: the quantity ordered is recorded, not what was filled. *)
SettleQuantity(st, f, fp) ==
    LET s == order.symbol
    IN /\ position' = IF st = "canceled" THEN position
                      ELSE [position EXCEPT ![s] = @ + Signed(order.side, order.quantity)]
       /\ cash' = Most(0, cash - Signed(order.side, f * fp))
       /\ status' = st
       /\ order' = NoOrder
       /\ UNCHANGED submitted

(* Mutant of Settle: a fill dearer than the cash makes it negative.         *)
SettleOverdrawn(st, f, fp) ==
    LET s == order.symbol
    IN /\ position' = IF st = "canceled" THEN position
                      ELSE [position EXCEPT ![s] = @ + Signed(order.side, f)]
       /\ cash' = cash - Signed(order.side, f * fp)
       /\ status' = st
       /\ order' = NoOrder
       /\ UNCHANGED submitted

(* Mutant of Settle: the proceeds of a sale are not booked.                 *)
SettleCashOnBuy(st, f, fp) ==
    LET s == order.symbol
    IN /\ position' = IF st = "canceled" THEN position
                      ELSE [position EXCEPT ![s] = @ + Signed(order.side, f)]
       /\ cash' = IF order.side = "buy" THEN Most(0, cash - f * fp) ELSE cash
       /\ status' = st
       /\ order' = NoOrder
       /\ UNCHANGED submitted

(* record_order and the end of execute_decision: f shares are said to be    *)
(* filled at fp.  The tracker passes over an order whose status is          *)
(* rejected, canceled, expired or failed, the cash goes by what is said.    *)
Settle(st, f, fp) ==
    LET s == order.symbol
    IN /\ position' = IF st = "canceled" THEN position
                      ELSE [position EXCEPT ![s] = @ + Signed(order.side, f)]
       /\ cash' = Most(0, cash - Signed(order.side, f * fp))
       /\ status' = st
       /\ order' = NoOrder
       /\ UNCHANGED submitted

(* What the broker does with the order: f shares now, n stay open.          *)
Place(f, n) ==
    LET s == order.symbol
    IN /\ owned' = [owned EXCEPT ![s] = @ + Signed(order.side, f)]
       /\ working' = [working EXCEPT ![s][order.side] = @ + n]

(* What an answer says was filled when f shares were: an answer without     *)
(* filled_qty is read as one that says all of them.                         *)
Told(f) == {f, order.quantity}

(* submit_order answers 200 with a status that is not excluded: new,        *)
(* accepted, partially filled or filled.                                    *)
AnswerOpen(f, told, fp) ==
    /\ order # NoOrder /\ f <= order.quantity
    /\ Settle("open", told, fp)
    /\ Place(f, order.quantity - f)
    /\ unheard' = [unheard EXCEPT ![order.symbol] = @ + Signed(order.side, f - told)]

(* ... or with an excluded one, after some of it was filled or none.        *)
AnswerCanceled(f, told, fp) ==
    /\ order # NoOrder /\ f < order.quantity
    /\ Settle("canceled", told, fp)
    /\ Place(f, 0)
    /\ unheard' = [unheard EXCEPT ![order.symbol] = @ + Signed(order.side, f)]

(* The request is refused: the status is "rejected: 4xx", nothing filled.   *)
AnswerRefused(fp) ==
    /\ order # NoOrder
    /\ Settle("refused", 0, fp)
    /\ UNCHANGED brokerVars

(* No answer, or one that cannot be read; the broker has the order or not.  *)
NoAnswer(fp) ==
    /\ order # NoOrder
    /\ Settle("error", 0, fp)
    /\ Place(0, order.quantity) \/ Place(0, 0)
    /\ UNCHANGED unheard

(* The broker fills part of an open order later: nobody asks for it.        *)
BrokerFills(s, side, n) ==
    /\ n <= working[s][side]
    /\ owned' = [owned EXCEPT ![s] = @ + Signed(side, n)]
    /\ working' = [working EXCEPT ![s][side] = @ - n]
    /\ unheard' = [unheard EXCEPT ![s] = @ + Signed(side, n)]
    /\ UNCHANGED executorVars

(* What is open lapses at the end of the day.                               *)
BrokerDrops(s, side) ==
    /\ working[s][side] > 0
    /\ working' = [working EXCEPT ![s][side] = 0]
    /\ UNCHANGED <<executorVars, owned, unheard>>

Decide ==
    \E s \in Symbols, p \in Prices :
        DecideSell(s, p) \/ \E k \in Kellys : DecideBuy(s, p, k)

Submit ==
    /\ order # NoOrder
    /\ \E fp \in Prices :
           \/ \E f \in 0 .. order.quantity : \E told \in Told(f) :
                 AnswerOpen(f, told, fp) \/ AnswerCanceled(f, told, fp)
           \/ AnswerRefused(fp)
           \/ NoAnswer(fp)

Broker ==
    \E s \in Symbols, side \in Sides :
        \/ \E n \in 1 .. working[s][side] : BrokerFills(s, side, n)
        \/ BrokerDrops(s, side)

Next == Decide \/ Submit \/ Broker

Spec == Init /\ [][Next]_vars

-----------------------------------------------------------------------------
(* The tracker is the broker's book but for the shares it was not told of   *)
(* or told too much of, whatever was answered and whenever orders are       *)
(* filled.                                                                  *)
BooksFollowBroker == \A s \in Symbols : owned[s] = position[s] + unheard[s]

(* A purchase is within the cash the executor knows of, and the stake it    *)
(* leaves at the broker is over the cap, at the price of the decision, by   *)
(* the shares the tracker was not told of at most: a stake it was told of,  *)
(* or of more than it, is within the cap.                                   *)
StakeWithinCap ==
    order.side = "buy" =>
        LET s == order.symbol
            p == order.price
            stake == owned[s] + order.quantity - Most(0, unheard[s])
        IN /\ order.quantity * p <= cash
           /\ Parts * stake * p <= MaxParts * (cash + owned[s] * p)

(* Cash and position move together and in opposite directions, but for an   *)
(* order that is answered as canceled with a fill: it moves the cash alone. *)
CashMovesWithPosition ==
    [][\/ status' = "canceled" /\ position' = position
       \/ position' = position /\ cash' = cash
       \/ \E s \in Symbols :
             \/ position'[s] > position[s] /\ cash' < cash
             \/ position'[s] < position[s] /\ cash' > cash]_vars
=============================================================================
