------------------------ MODULE OrderExecutionProofs ------------------------
(***************************************************************************)
(* Proofs about OrderExecution: types, the tracker against the broker's    *)
(* book, the cap on what a purchase may make of a stake, and that cash and *)
(* position move together, for any symbols, prices, cash and cap.          *)
(***************************************************************************)
EXTENDS OrderExecution, TLAPS

(* Floor division never promises more than there is.                        *)
LEMMA FloorBound ==
    ASSUME NEW a \in Int, NEW d \in Nat \ {0}, NEW q \in Int, q <= a \div d
    PROVE  a \div d \in Int /\ q * d <= a
<1>1. a \div d \in Int /\ (a \div d) * d <= a
  BY Z3
<1>2. q * d <= (a \div d) * d
  <2> DEFINE e == a \div d
  <2>1. e \in Int /\ q <= e
    BY <1>1
  <2> HIDE DEF e
  <2>2. q * d <= e * d
    BY <2>1, Z3
  <2>3. QED
    BY <2>2 DEF e
<1>3. q * d \in Int /\ (a \div d) * d \in Int
  BY <1>1
<1>4. QED
  BY <1>1, <1>2, <1>3

(* The order being submitted fits the cash and the cap, as the executor     *)
(* sees both; nothing moves either before the order is settled.             *)
FitsBooks ==
    order.side = "buy" =>
        LET s == order.symbol
            p == order.price
        IN /\ order.quantity * p <= cash
           /\ Parts * (position[s] + order.quantity) * p
                <= MaxParts * (cash + position[s] * p)

IndInv == TypeOK /\ BooksFollowBroker /\ FitsBooks

(* What BuyAllowed allows fits.                                             *)
LEMMA AllowedFits ==
    ASSUME NEW c \in Nat, NEW n \in Int, NEW p \in Nat \ {0}, NEW q \in Nat \ {0},
           q <= Least(Parts * c, Most(0, MaxParts * (c + n * p) - Parts * n * p)) \div (Parts * p)
    PROVE  q * p <= c /\ Parts * (n + q) * p <= MaxParts * (c + n * p)
<1> DEFINE room == MaxParts * (c + n * p) - Parts * n * p
           X == Least(Parts * c, Most(0, room))
           d == Parts * p
<1>1. room \in Int /\ Parts * c \in Int /\ X \in Int /\ X <= Parts * c /\ X <= Most(0, room)
  BY CapAssumption DEF Least, Most
<1>2. d \in Nat \ {0}
  BY CapAssumption, Z3
<1>3. q * d <= X
  <2>1. q <= X \div d
    OBVIOUS
  <2>2. X \in Int /\ q \in Int
    BY <1>1
  <2> HIDE DEF X, d, room
  <2>3. QED
    BY <2>2, <1>2, <2>1, FloorBound
<1>4. q * d > 0
  BY <1>2, Z3
<1>5. X > 0
  <2> HIDE DEF X, d
  <2>1. QED
    BY <1>1, <1>2, <1>3, <1>4
<1>6. X <= room
  <2> HIDE DEF room
  <2>1. QED
    BY <1>1, <1>5 DEF Most
<1>7. q * p <= c
  <2>1. Parts * (q * p) <= Parts * c
    <3>1. Parts * (q * p) = q * d
      BY CapAssumption, Z3
    <3> HIDE DEF X, d
    <3>2. QED
      BY <1>1, <1>2, <1>3, <3>1, CapAssumption
  <2>2. QED
    BY <2>1, CapAssumption, Z3
<1>8. Parts * (n + q) * p <= MaxParts * (c + n * p)
  <2>1. Parts * (n + q) * p = Parts * n * p + q * d
    BY CapAssumption, Z3
  <2>2. q * d <= room
    <3> HIDE DEF X, d, room
    <3>1. QED
      BY <1>1, <1>2, <1>3, <1>6
  <2>3. QED
    BY <2>1, <2>2, <1>2, CapAssumption
<1>9. QED
  BY <1>7, <1>8

-----------------------------------------------------------------------------
(* An account without position or order keeps the invariant.                *)
LEMMA InitInv == Init => IndInv
BY CashAssumption, BoundAssumption
DEF Init, IndInv, TypeOK, BooksFollowBroker, FitsBooks, NoOrder, Statuses

(* A purchase that is decided on fits.                                      *)
LEMMA DecideBuyInv ==
    ASSUME IndInv, NEW s \in Symbols, NEW p \in Prices, NEW k \in Kellys, DecideBuy(s, p, k)
    PROVE  IndInv'
<1> DEFINE q == Least(KellyShares(PortfolioValue(s, p), k, p), BuyAllowed(s, p))
<1>1. cash \in Nat /\ position[s] \in Int /\ p \in Nat \ {0}
  BY PricesAssumption DEF IndInv, TypeOK
<1>2. KellyShares(PortfolioValue(s, p), k, p) \in Int /\ BuyAllowed(s, p) \in Int
  <2>1. Parts * p \in Nat \ {0}
    BY <1>1, CapAssumption, Z3
  <2>2. \A a \in Int : a \div (Parts * p) \in Int
    BY <2>1, FloorBound
  <2>3. PortfolioValue(s, p) \in Int
    BY <1>1 DEF PortfolioValue
  <2>4. PortfolioValue(s, p) * Least(k, MaxParts) \in Int
    BY <2>3, CapAssumption DEF Least
  <2>5. Least(Parts * cash, Most(0, MaxParts * PortfolioValue(s, p) - Parts * position[s] * p)) \in Int
    BY <1>1, <2>3, CapAssumption DEF Least, Most
  <2>6. QED
    BY <2>2, <2>4, <2>5 DEF KellyShares, BuyAllowed
<1>3. q \in Nat \ {0} /\ q <= BuyAllowed(s, p)
  BY <1>2 DEF DecideBuy, Least
<1>4. q * p <= cash /\ Parts * (position[s] + q) * p <= MaxParts * (cash + position[s] * p)
  <2> HIDE DEF q
  <2>1. QED
    BY <1>1, <1>3, AllowedFits DEF BuyAllowed, PortfolioValue
<1>5. /\ order' = [side |-> "buy", symbol |-> s, quantity |-> q, price |-> p]
      /\ submitted < MaxOrders /\ submitted' = submitted + 1
      /\ UNCHANGED <<cash, position, status, owned, working, unheard>>
  BY DEF DecideBuy, MaySubmit, brokerVars
<1> HIDE DEF q
<1>6. TypeOK'
  BY <1>3, <1>5, BoundAssumption DEF IndInv, TypeOK, Orders, Sides
<1>7. BooksFollowBroker'
  BY <1>5 DEF IndInv, BooksFollowBroker
<1>8. FitsBooks'
  BY <1>4, <1>5 DEF FitsBooks
<1>9. QED
  BY <1>6, <1>7, <1>8 DEF IndInv

(* A decision to sell keeps it: the order asks for what is held.            *)
LEMMA DecideSellInv ==
    ASSUME IndInv, NEW s \in Symbols, NEW p \in Prices, DecideSell(s, p)
    PROVE  IndInv'
<1>1. /\ order' = [side |-> "sell", symbol |-> s, quantity |-> position[s], price |-> p]
      /\ submitted < MaxOrders /\ submitted' = submitted + 1 /\ position[s] > 0
      /\ UNCHANGED <<cash, position, status, owned, working, unheard>>
  BY DEF DecideSell, MaySubmit, brokerVars
<1>2. TypeOK'
  BY <1>1, BoundAssumption DEF IndInv, TypeOK, Orders, Sides
<1>3. BooksFollowBroker'
  BY <1>1 DEF IndInv, BooksFollowBroker
<1>4. FitsBooks'
  BY <1>1 DEF FitsBooks
<1>5. QED
  BY <1>2, <1>3, <1>4 DEF IndInv

(* Settling an order keeps the executor's types.                            *)
LEMMA SettleTypes ==
    ASSUME TypeOK, order # NoOrder, NEW st \in Statuses,
           NEW f \in Nat, NEW fp \in Prices, Settle(st, f, fp)
    PROVE  /\ cash' \in Nat /\ position' \in [Symbols -> Int]
           /\ order' = NoOrder /\ status' = st /\ submitted' = submitted
           /\ \A s \in Symbols :
                position'[s] = IF s = order.symbol /\ st # "canceled"
                               THEN position[s] + Signed(order.side, f) ELSE position[s]
<1>1. order \in Orders
  BY DEF TypeOK
<1>2. f * fp \in Nat
  BY PricesAssumption
<1>3. cash' \in Nat
  <2>1. Signed(order.side, f * fp) \in Int
    BY <1>2 DEF Signed
  <2>2. QED
    BY <2>1 DEF Settle, Most, TypeOK
<1>4. Signed(order.side, f) \in Int
  BY DEF Signed
<1>5. QED
  BY <1>1, <1>3, <1>4 DEF Settle, TypeOK, Orders

(* Placing it keeps the broker's.                                           *)
LEMMA PlaceTypes ==
    ASSUME TypeOK, order # NoOrder, NEW f \in Nat, NEW n \in Nat, Place(f, n)
    PROVE  /\ owned' \in [Symbols -> Int] /\ working' \in [Symbols -> [Sides -> Nat]]
           /\ \A s \in Symbols :
                owned'[s] = IF s = order.symbol
                            THEN owned[s] + Signed(order.side, f) ELSE owned[s]
<1>1. order \in Orders
  BY DEF TypeOK
<1>2. Signed(order.side, f) \in Int
  BY DEF Signed
<1>3. order.symbol \in Symbols /\ order.side \in Sides
  BY <1>1 DEF Orders
<1>4. owned' \in [Symbols -> Int]
  BY <1>2, <1>3 DEF Place, TypeOK
<1>5. working' \in [Symbols -> [Sides -> Nat]]
  BY <1>3 DEF Place, TypeOK
<1>6. QED
  BY <1>2, <1>3, <1>4, <1>5 DEF Place, TypeOK

-----------------------------------------------------------------------------
(* After an answer there is no order left, so FitsBooks asks for nothing.   *)
LEMMA SettledFits == ASSUME order' = NoOrder PROVE FitsBooks'
BY DEF FitsBooks, NoOrder

(* An answer that the order is open keeps it, whatever was filled so far    *)
(* and whatever the answer says was.                                        *)
LEMMA AnswerOpenInv ==
    ASSUME IndInv, order # NoOrder, NEW f \in 0 .. order.quantity, NEW told \in Told(f),
           NEW fp \in Prices, AnswerOpen(f, told, fp)
    PROVE  IndInv'
<1>1. /\ order \in Orders /\ f \in Nat /\ told \in Nat /\ order.quantity - f \in Nat
      /\ TypeOK
  BY DEF IndInv, TypeOK, Orders, Told
<1>2. /\ Settle("open", told, fp) /\ Place(f, order.quantity - f)
      /\ unheard' = [unheard EXCEPT ![order.symbol] = @ + Signed(order.side, f - told)]
  BY DEF AnswerOpen
<1>3. "open" \in Statuses
  BY DEF Statuses
<1>4. /\ cash' \in Nat /\ position' \in [Symbols -> Int]
      /\ order' = NoOrder /\ status' = "open" /\ submitted' = submitted
      /\ \A s \in Symbols : position'[s] = IF s = order.symbol
                          THEN position[s] + Signed(order.side, told) ELSE position[s]
  BY <1>1, <1>2, <1>3, SettleTypes
<1>5. /\ owned' \in [Symbols -> Int] /\ working' \in [Symbols -> [Sides -> Nat]]
      /\ \A s \in Symbols : owned'[s] = IF s = order.symbol
                          THEN owned[s] + Signed(order.side, f) ELSE owned[s]
  BY <1>1, <1>2, PlaceTypes
<1>6. /\ Signed(order.side, f) \in Int /\ Signed(order.side, told) \in Int
      /\ Signed(order.side, f - told) = Signed(order.side, f) - Signed(order.side, told)
  BY <1>1 DEF Signed
<1>7. /\ unheard' \in [Symbols -> Int]
      /\ \A s \in Symbols : unheard'[s] = IF s = order.symbol
             THEN unheard[s] + (Signed(order.side, f) - Signed(order.side, told))
             ELSE unheard[s]
  <2>1. unheard \in [Symbols -> Int] /\ order.symbol \in Symbols
    BY <1>1 DEF TypeOK, Orders
  <2>2. unheard[order.symbol] + Signed(order.side, f - told) \in Int
    BY <1>6, <2>1
  <2> QED BY <1>2, <1>6, <2>1, <2>2
<1>8. TypeOK'
  BY <1>1, <1>3, <1>4, <1>5, <1>7 DEF TypeOK
<1>9. BooksFollowBroker'
  BY <1>4, <1>5, <1>6, <1>7 DEF IndInv, TypeOK, BooksFollowBroker
<1>10. QED
  BY <1>4, <1>8, <1>9, SettledFits DEF IndInv

(* So does one that it was canceled, whatever part of it was filled.        *)
LEMMA AnswerCanceledInv ==
    ASSUME IndInv, order # NoOrder, NEW f \in 0 .. order.quantity, NEW told \in Told(f),
           NEW fp \in Prices, AnswerCanceled(f, told, fp)
    PROVE  IndInv'
<1>1. order \in Orders /\ f \in Nat /\ told \in Nat /\ TypeOK
  BY DEF IndInv, TypeOK, Orders, Told
<1>2. /\ Settle("canceled", told, fp) /\ Place(f, 0)
      /\ unheard' = [unheard EXCEPT ![order.symbol] = @ + Signed(order.side, f)]
  BY DEF AnswerCanceled
<1>3. "canceled" \in Statuses
  BY DEF Statuses
<1>4. /\ cash' \in Nat /\ position' \in [Symbols -> Int]
      /\ order' = NoOrder /\ status' = "canceled" /\ submitted' = submitted
      /\ \A s \in Symbols : position'[s] = position[s]
  BY <1>1, <1>2, <1>3, SettleTypes
<1>5. /\ owned' \in [Symbols -> Int] /\ working' \in [Symbols -> [Sides -> Nat]]
      /\ \A s \in Symbols : owned'[s] = IF s = order.symbol
                          THEN owned[s] + Signed(order.side, f) ELSE owned[s]
  BY <1>1, <1>2, PlaceTypes
<1>6. Signed(order.side, f) \in Int
  BY <1>1 DEF Signed
<1>7. TypeOK'
  <2>1. unheard' \in [Symbols -> Int]
    <3>1. unheard \in [Symbols -> Int] /\ order.symbol \in Symbols
      BY <1>1 DEF TypeOK, Orders
    <3>2. unheard[order.symbol] + Signed(order.side, f) \in Int
      BY <1>6, <3>1
    <3>3. QED
      BY <1>2, <3>1, <3>2
  <2>2. QED
    BY <1>1, <1>3, <1>4, <1>5, <2>1 DEF TypeOK
<1>8. BooksFollowBroker'
  BY <1>2, <1>4, <1>5, <1>6 DEF IndInv, TypeOK, BooksFollowBroker
<1>9. QED
  BY <1>4, <1>7, <1>8, SettledFits DEF IndInv

(* An answer without a fill: refused, or none at all.                       *)
LEMMA NothingFilledInv ==
    ASSUME IndInv, order # NoOrder, NEW fp \in Prices, AnswerRefused(fp) \/ NoAnswer(fp)
    PROVE  IndInv'
<1>1. order \in Orders /\ TypeOK
  BY DEF IndInv, TypeOK
<1>2. PICK st \in {"refused", "error"} : Settle(st, 0, fp)
  BY DEF AnswerRefused, NoAnswer
<1>3. unheard' = unheard
  BY DEF AnswerRefused, NoAnswer, brokerVars
<1>4. Signed(order.side, 0) = 0
  BY DEF Signed
<1>5. st \in Statuses /\ st # "canceled"
  BY DEF Statuses
<1>6. /\ cash' \in Nat /\ position' \in [Symbols -> Int]
      /\ order' = NoOrder /\ status' = st /\ submitted' = submitted
      /\ \A s \in Symbols : position'[s] = IF s = order.symbol
                          THEN position[s] + 0 ELSE position[s]
  BY <1>1, <1>2, <1>4, <1>5, SettleTypes
<1>7. /\ owned' \in [Symbols -> Int] /\ working' \in [Symbols -> [Sides -> Nat]]
      /\ \A s \in Symbols : owned'[s] = owned[s]
  <2>1. CASE AnswerRefused(fp)
    BY <1>1, <2>1 DEF AnswerRefused, brokerVars, TypeOK
  <2>2. CASE NoAnswer(fp)
    <3>1. PICK n \in Nat : Place(0, n)
      BY <1>1, <2>2 DEF NoAnswer, Orders
    <3>2. /\ owned' \in [Symbols -> Int] /\ working' \in [Symbols -> [Sides -> Nat]]
          /\ \A s \in Symbols : owned'[s] = IF s = order.symbol
                              THEN owned[s] + Signed(order.side, 0) ELSE owned[s]
      BY <1>1, <3>1, PlaceTypes
    <3>3. QED
      BY <1>1, <1>4, <3>2 DEF TypeOK
  <2>3. QED
    BY <2>1, <2>2
<1>8. TypeOK'
  BY <1>1, <1>3, <1>5, <1>6, <1>7 DEF TypeOK
<1>9. BooksFollowBroker'
  BY <1>3, <1>6, <1>7 DEF IndInv, TypeOK, BooksFollowBroker
<1>10. QED
  BY <1>6, <1>8, <1>9, SettledFits DEF IndInv

(* What the broker does by itself leaves the executor's books alone.        *)
LEMMA BrokerInv == ASSUME IndInv, Broker PROVE IndInv'
<1>1. PICK s \in Symbols, side \in Sides :
          \/ \E n \in 1 .. working[s][side] : BrokerFills(s, side, n)
          \/ BrokerDrops(s, side)
  BY DEF Broker
<1>2. UNCHANGED <<cash, position, order, status, submitted>>
  BY <1>1 DEF BrokerFills, BrokerDrops, executorVars
<1>3. CASE \E n \in 1 .. working[s][side] : BrokerFills(s, side, n)
  <2>1. PICK n \in 1 .. working[s][side] : BrokerFills(s, side, n)
    BY <1>3
  <2>2. working[s][side] \in Nat /\ n \in Nat /\ n <= working[s][side]
    BY DEF IndInv, TypeOK
  <2>3. Signed(side, n) \in Int
    BY <2>2 DEF Signed
  <2>4. /\ owned' = [owned EXCEPT ![s] = @ + Signed(side, n)]
        /\ unheard' = [unheard EXCEPT ![s] = @ + Signed(side, n)]
        /\ working' = [working EXCEPT ![s][side] = @ - n]
    BY <2>1 DEF BrokerFills
  <2>5. TypeOK'
    BY <1>2, <2>2, <2>3, <2>4 DEF IndInv, TypeOK
  <2>6. BooksFollowBroker'
    BY <1>2, <2>3, <2>4 DEF IndInv, TypeOK, BooksFollowBroker
  <2>7. QED
    BY <1>2, <2>5, <2>6 DEF IndInv, FitsBooks
<1>4. CASE BrokerDrops(s, side)
  <2>1. TypeOK'
    BY <1>2, <1>4 DEF IndInv, TypeOK, BrokerDrops
  <2>2. QED
    BY <1>2, <1>4, <2>1 DEF IndInv, BooksFollowBroker, FitsBooks, BrokerDrops
<1>5. QED
  BY <1>1, <1>3, <1>4

(* So every step keeps it.                                                  *)
LEMMA StepInv == IndInv /\ [Next]_vars => IndInv'
<1> SUFFICES ASSUME IndInv, [Next]_vars PROVE IndInv'
  OBVIOUS
<1>1. CASE Decide
  BY <1>1, DecideBuyInv, DecideSellInv DEF Decide
<1>2. CASE Submit
  <2>1. PICK fp \in Prices :
            \/ \E f \in 0 .. order.quantity : \E told \in Told(f) :
                  AnswerOpen(f, told, fp) \/ AnswerCanceled(f, told, fp)
            \/ AnswerRefused(fp)
            \/ NoAnswer(fp)
    BY <1>2 DEF Submit
  <2>2. order # NoOrder
    BY <1>2 DEF Submit
  <2>3. QED
    BY <2>1, <2>2, AnswerOpenInv, AnswerCanceledInv, NothingFilledInv
<1>3. CASE Broker
  BY <1>3, BrokerInv
<1>4. CASE UNCHANGED vars
  BY <1>4 DEF vars, executorVars, brokerVars, IndInv, TypeOK, BooksFollowBroker, FitsBooks
<1>5. QED
  BY <1>1, <1>2, <1>3, <1>4 DEF Next

(* It holds in every reachable state.                                       *)
LEMMA Invariance == Spec => []IndInv
BY InitInv, StepInv, PTL DEF Spec

(* Every variable keeps its type; the cash never goes below zero.           *)
THEOREM TypeCorrectness == Spec => []TypeOK
<1>1. IndInv => TypeOK
  BY DEF IndInv
<1>2. QED
  BY <1>1, Invariance, PTL

(* The tracker is the broker's book but for what it was not told of.        *)
THEOREM TrackerFollowsBroker == Spec => []BooksFollowBroker
<1>1. IndInv => BooksFollowBroker
  BY DEF IndInv
<1>2. QED
  BY <1>1, Invariance, PTL

(* What fits the tracker's book fits the broker's but for what is unheard.  *)
LEMMA CapAtBroker ==
    ASSUME NEW c \in Nat, NEW n \in Int, NEW p \in Nat, NEW q \in Nat, NEW u \in Int,
           Parts * (n + q) * p <= MaxParts * (c + n * p)
    PROVE  Parts * (n + u + q - Most(0, u)) * p <= MaxParts * (c + (n + u) * p)
<1>1. Parts \in Nat /\ MaxParts \in Nat /\ MaxParts <= Parts
  BY CapAssumption
<1>2. MaxParts * (c + (n + u) * p) = MaxParts * (c + n * p) + MaxParts * (u * p)
  BY <1>1, Z3
<1>3. CASE u >= 0
  <2>1. Most(0, u) = u
    BY <1>3 DEF Most
  <2>2. u * p >= 0 /\ u * p \in Int
    BY <1>3, Z3
  <2>3. MaxParts * (u * p) >= 0 /\ MaxParts * (u * p) \in Int
    BY <1>1, <2>2, Z3
  <2>4. n + u + q - u = n + q
    OBVIOUS
  <2>5. /\ Parts * (n + q) * p \in Int /\ MaxParts * (c + n * p) \in Int
    BY <1>1, Z3
  <2> QED BY <1>2, <2>1, <2>3, <2>4, <2>5
<1>4. CASE u < 0
  <2>1. Most(0, u) = 0
    BY <1>4 DEF Most
  <2>2. u * p <= 0 /\ u * p \in Int
    BY <1>4, Z3
  <2>3. Parts * (u * p) <= MaxParts * (u * p)
    <3> DEFINE x == u * p
    <3>1. x \in Int /\ x <= 0
      BY <2>2
    <3> HIDE DEF x
    <3>2. Parts * x <= MaxParts * x
      BY <1>1, <3>1, Z3
    <3> QED BY <3>2 DEF x
  <2>4. Parts * (n + u + q - 0) * p = Parts * (n + q) * p + Parts * (u * p)
    BY <1>1, Z3
  <2>5. /\ Parts * (n + q) * p \in Int /\ MaxParts * (c + n * p) \in Int
        /\ Parts * (u * p) \in Int /\ MaxParts * (u * p) \in Int
    BY <1>1, Z3
  <2> QED BY <1>2, <2>1, <2>3, <2>4, <2>5
<1> QED BY <1>3, <1>4

(* A purchase keeps to the cash and, but for unheard fills, to the cap.     *)
THEOREM PurchasesKeepTheCap == Spec => []StakeWithinCap
<1>1. IndInv => StakeWithinCap
  <2> SUFFICES ASSUME IndInv, order.side = "buy" PROVE StakeWithinCap
    BY DEF StakeWithinCap
  <2> DEFINE s == order.symbol
             p == order.price
             q == order.quantity
  <2>1. order \in Orders
    BY DEF IndInv, TypeOK, NoOrder
  <2>2. /\ s \in Symbols /\ p \in Nat /\ q \in Nat /\ cash \in Nat
        /\ position[s] \in Int /\ unheard[s] \in Int
    BY <2>1, PricesAssumption DEF IndInv, TypeOK, Orders
  <2>3. owned[s] = position[s] + unheard[s]
    BY <2>2 DEF IndInv, BooksFollowBroker
  <2>4. q * p <= cash /\ Parts * (position[s] + q) * p <= MaxParts * (cash + position[s] * p)
    BY DEF IndInv, FitsBooks
  <2> HIDE DEF s, p, q
  <2>5. Parts * (position[s] + unheard[s] + q - Most(0, unheard[s])) * p
          <= MaxParts * (cash + (position[s] + unheard[s]) * p)
    BY <2>2, <2>4, CapAtBroker
  <2>6. Parts * (owned[s] + q - Most(0, unheard[s])) * p <= MaxParts * (cash + owned[s] * p)
    BY <2>3, <2>5
  <2> QED BY <2>4, <2>6 DEF StakeWithinCap, s, p, q
<1>2. QED
  BY <1>1, Invariance, PTL

-----------------------------------------------------------------------------
(* What settling does to the books (CashMovesWithPosition, one step).       *)
BooksMove ==
    \/ status' = "canceled" /\ position' = position
    \/ position' = position /\ cash' = cash
    \/ \E s \in Symbols :
          \/ position'[s] > position[s] /\ cash' < cash
          \/ position'[s] < position[s] /\ cash' > cash

(* Nothing filled, nothing moved.                                           *)
LEMMA NothingFilledMovesNothing ==
    ASSUME IndInv, order # NoOrder, NEW st \in Statuses \ {"canceled"}, NEW fp \in Prices,
           Settle(st, 0, fp)
    PROVE  position' = position /\ cash' = cash
<1>1. order \in Orders /\ fp \in Nat /\ cash \in Nat /\ position \in [Symbols -> Int]
  BY PricesAssumption DEF IndInv, TypeOK
<1>2. Signed(order.side, 0 * fp) = 0 /\ Signed(order.side, 0) = 0
  BY <1>1 DEF Signed
<1>3. cash' = cash
  BY <1>1, <1>2 DEF Settle, Most
<1>4. position' = [position EXCEPT ![order.symbol] = @ + 0]
  BY <1>2 DEF Settle
<1>5. order.symbol \in Symbols
  BY <1>1 DEF Orders
<1> QED BY <1>1, <1>3, <1>4, <1>5

(* A purchase is paid for: FitsBooks says that there is cash to pay with.   *)
LEMMA FillMovesBoth ==
    ASSUME IndInv, order # NoOrder, NEW f \in Nat \ {0}, NEW fp \in Prices,
           NEW st \in Statuses \ {"canceled"}, Settle(st, f, fp)
    PROVE  BooksMove
<1> DEFINE s == order.symbol
           value == f * fp
<1>1. /\ order \in Orders /\ fp \in Nat \ {0} /\ cash \in Nat
      /\ position[s] \in Int /\ s \in Symbols /\ order.quantity \in Nat \ {0}
      /\ order.price \in Nat \ {0}
  BY PricesAssumption DEF IndInv, TypeOK, Orders
<1>2. value \in Nat /\ value > 0
  BY <1>1, Z3
<1>3. position'[s] = position[s] + Signed(order.side, f)
  BY <1>1, SettleTypes DEF IndInv
<1>4. cash' = Most(0, cash - Signed(order.side, value))
  BY DEF Settle
<1> HIDE DEF value
<1>5. CASE order.side = "buy"
  <2>1. cash > 0
    <3>1. order.quantity * order.price <= cash
      BY <1>5 DEF IndInv, FitsBooks
    <3>2. order.quantity * order.price > 0 /\ order.quantity * order.price \in Nat
      BY <1>1, Z3
    <3> DEFINE cost == order.quantity * order.price
    <3> HIDE DEF cost
    <3>3. cost > 0 /\ cost \in Nat /\ cost <= cash
      BY <3>1, <3>2 DEF cost
    <3> QED BY <1>1, <3>3
  <2>2. position'[s] > position[s] /\ cash' < cash
    BY <1>1, <1>2, <1>3, <1>4, <1>5, <2>1 DEF Signed, Most
  <2> QED BY <1>1, <2>2 DEF BooksMove
<1>6. CASE order.side # "buy"
  <2>1. position'[s] < position[s] /\ cash' > cash
    BY <1>1, <1>2, <1>3, <1>4, <1>6 DEF Signed, Most
  <2> QED BY <1>1, <2>1 DEF BooksMove
<1> QED BY <1>5, <1>6

(* Cash and position move together, but for an order that is answered as    *)
(* canceled with a fill, which leaves the position (CashMovesWithPosition). *)
THEOREM CashFollowsPosition == Spec => CashMovesWithPosition
<1>1. IndInv /\ [Next]_vars => BooksMove \/ UNCHANGED vars
  <2> SUFFICES ASSUME IndInv, Next PROVE BooksMove
    OBVIOUS
  <2>1. CASE Decide
    BY <2>1 DEF Decide, DecideBuy, DecideSell, BooksMove
  <2>2. CASE Broker
    BY <2>2 DEF Broker, BrokerFills, BrokerDrops, executorVars, BooksMove
  <2>3. CASE Submit
    <3>1. PICK fp \in Prices :
              \/ \E f \in 0 .. order.quantity : \E told \in Told(f) :
                    AnswerOpen(f, told, fp) \/ AnswerCanceled(f, told, fp)
              \/ AnswerRefused(fp)
              \/ NoAnswer(fp)
      BY <2>3 DEF Submit
    <3>2. order # NoOrder
      BY <2>3 DEF Submit
    <3>3. \A st \in {"open", "refused", "error"} : st \in Statuses \ {"canceled"}
      BY DEF Statuses
    <3>4. ASSUME NEW f \in 0 .. order.quantity, NEW told \in Told(f),
                 AnswerOpen(f, told, fp)
          PROVE  BooksMove
      <4>1. Settle("open", told, fp) /\ told \in Nat
        BY <3>2, <3>4 DEF AnswerOpen, Told, IndInv, TypeOK, Orders
      <4>2. CASE told = 0
        BY <3>2, <3>3, <4>1, <4>2, NothingFilledMovesNothing DEF BooksMove
      <4>3. CASE told # 0
        BY <3>2, <3>3, <4>1, <4>3, FillMovesBoth
      <4> QED BY <4>2, <4>3
    <3>5. ASSUME NEW f \in 0 .. order.quantity, NEW told \in Told(f),
                 AnswerCanceled(f, told, fp)
          PROVE  BooksMove
      BY <3>5 DEF AnswerCanceled, Settle, BooksMove
    <3>6. ASSUME AnswerRefused(fp) \/ NoAnswer(fp) PROVE BooksMove
      <4>1. PICK st \in {"refused", "error"} : Settle(st, 0, fp)
        BY <3>6 DEF AnswerRefused, NoAnswer
      <4> QED BY <3>2, <3>3, <4>1, NothingFilledMovesNothing DEF BooksMove
    <3> QED BY <3>1, <3>4, <3>5, <3>6
  <2> QED BY <2>1, <2>2, <2>3 DEF Next
<1> QED BY <1>1, Invariance, PTL DEF Spec, CashMovesWithPosition, BooksMove
=============================================================================
