---------------------------- MODULE PlanningProofs ---------------------------
(* From the account to the orders, for any number of tickers and attempts, *)
(* any holdings, closes, quotes and settings: the freshness of every price *)
(* that goes out, the size of every order, and that rounding up never      *)
(* makes an affordable plan unaffordable.                                  *)
EXTENDS Planning, SumTheorems

(* An order priced for the current phase is no newer than the current      *)
(* attempt, and a wide spread was taken on the last attempt or later.      *)
FreshEnough(t) ==
    (InPhase(t) /\ priced[t] # NoOrder) =>
       (priced[t].at \in 1 .. attempt /\ (priced[t].wide => attempt > 1))

FreshInv ==
    /\ attempt \in 1 .. Attempts
    /\ pc \in {"quote", "refresh"} => \A t \in Tickers : FreshEnough(t)
    /\ OrdersGoOutFresh

(* Initially nothing is priced. *)
LEMMA FreshInit == ASSUME Init PROVE FreshInv
BY PlanningAssumption DEF Init, FreshInv, OrdersGoOutFresh

(* A price remembers its attempt; it is wide only when that was allowed.   *)
LEMMA ApplyQuoteFresh ==
    ASSUME NEW b, NEW trade, NEW q, NEW allow, NEW at,
           ApplyQuote(b, trade, q, allow, at) # NoOrder
    PROVE  /\ ApplyQuote(b, trade, q, allow, at).at = at
           /\ ApplyQuote(b, trade, q, allow, at).wide => allow
<1> DEFINE selected == SelectExecutionPrice(b, trade.side, q, allow)
           limit == FirstLimit(b, trade.side, selected, q)
           qty == RepricedQuantity(trade, selected.price)
           order == [side |-> trade.side, qty |-> qty, ref |-> selected.price, limit |-> limit,
                     wide |-> selected.wide, at |-> at]
<1>1. ApplyQuote(b, trade, q, allow, at) = order
  BY Zenon DEF ApplyQuote
<1>2. ASSUME ~allow PROVE selected.wide = FALSE
  <2> DEFINE wide == b # "last" /\ SpreadExceeds(q, MaxSpreadBps)
             admitted == allow /\ ~SpreadExceeds(q, WideSpreadMaxBps)
  <2>1. ~(wide /\ admitted)
    BY <1>2
  <2>2. \/ selected = [price |-> NoPrice, wide |-> FALSE]
        \/ /\ selected = [price |-> IF wide THEN Midpoint(q) ELSE ReferenceFor(b, trade.side, q),
                           wide |-> wide]
           /\ ~(wide /\ ~admitted)
    BY Zenon DEF SelectExecutionPrice
  <2> HIDE DEF wide, admitted
  <2>3. wide \in BOOLEAN
    BY DEF wide
  <2> QED
    BY <2>1, <2>2, <2>3
<1>3. order.at = at /\ order.wide = selected.wide
  OBVIOUS
<1> HIDE DEF selected, order
<1> QED
  BY <1>1, <1>2, <1>3

(* A phase starts without prices. *)
LEMMA FreshStart == ASSUME FreshInv, StartPhase PROVE FreshInv'
<1>1. attempt' = 1 /\ pc' = "quote" /\ \A t \in Tickers : priced'[t] = NoOrder
  BY DEF StartPhase, NoOrders
<1>2. 1 \in 1 .. Attempts
  BY PlanningAssumption
<1>3. \A t \in Tickers : FreshEnough(t)'
  BY <1>1 DEF FreshEnough
<1> QED
  BY <1>1, <1>2, <1>3 DEF FreshInv, OrdersGoOutFresh

(* An attempt prices what is pending at its own number, and takes a wide   *)
(* spread only on the last one.                                            *)
LEMMA FreshRound == ASSUME FreshInv, QuoteRound PROVE FreshInv'
<1> DEFINE order(t, q) == ApplyQuote(basis, plan[t], q, Allowed(attempt), attempt)
<1>1. PICK quotes \in [pending -> Quotes] :
         priced' = [t \in Tickers |-> IF t \in pending THEN order(t, quotes[t]) ELSE priced[t]]
  BY DEF QuoteRound
<1>2. /\ attempt \in Nat /\ attempt >= 1 /\ attempt <= Attempts /\ Attempts \in Nat /\ Attempts > 1
      /\ pc = "quote" /\ \A t \in Tickers : FreshEnough(t)
  BY PlanningAssumption DEF QuoteRound, FreshInv
<1>3. /\ attempt' \in 1 .. Attempts /\ attempt' >= attempt /\ pc' \in {"quote", "refresh"}
  BY <1>2 DEF QuoteRound
<1>4. plan' = plan /\ phase' = phase
  BY DEF QuoteRound, plannerVars
<1>5. ASSUME NEW t \in Tickers, InPhase(t)', priced'[t] # NoOrder
      PROVE  priced'[t].at \in 1 .. attempt' /\ (priced'[t].wide => attempt' > 1)
  <2>1. CASE t \in pending
    <3>1. priced'[t] = order(t, quotes[t])
      BY <1>1, <2>1
    <3>2. priced'[t].at = attempt /\ (priced'[t].wide => Allowed(attempt))
      BY <1>5, <3>1, ApplyQuoteFresh
    <3>3. Allowed(attempt) => attempt' > 1
      BY <1>2, <1>3 DEF Allowed
    <3> QED
      BY <1>2, <1>3, <3>2, <3>3
  <2>2. CASE t \notin pending
    <3>1. priced'[t] = priced[t]
      BY <1>1, <2>2
    <3>2. InPhase(t) /\ priced[t] # NoOrder
      BY <1>4, <1>5, <3>1 DEF InPhase
    <3>3. priced[t].at \in 1 .. attempt /\ (priced[t].wide => attempt > 1)
      BY <1>2, <3>2 DEF FreshEnough
    <3> QED
      BY <1>2, <1>3, <3>1, <3>3
  <2> QED
    BY <2>1, <2>2
<1> QED
  BY <1>3, <1>5 DEF FreshInv, FreshEnough, OrdersGoOutFresh

(* The refresh prices everything older than the current attempt again. *)
LEMMA FreshRefresh == ASSUME FreshInv, Refresh PROVE FreshInv'
<1> DEFINE order(t, q) == ApplyQuote(basis, RefreshSource(t), q, TRUE, attempt)
<1>1. PICK quotes \in [Originals -> Quotes] :
         priced' = [t \in Tickers |-> IF t \in Originals THEN order(t, quotes[t]) ELSE priced[t]]
  BY DEF Refresh
<1>2. /\ attempt \in Nat /\ attempt >= 1 /\ attempt' = attempt /\ attempt \in 1 .. Attempts
      /\ pc' = "submit" /\ plan' = plan /\ phase' = phase
      /\ \A t \in Tickers : FreshEnough(t)
  BY PlanningAssumption DEF Refresh, FreshInv, plannerVars
<1>3. ASSUME NEW t \in Tickers, InPhase(t)', priced'[t] # NoOrder
      PROVE  priced'[t].at = attempt /\ (priced'[t].wide => attempt > 1)
  <2>1. CASE t \in Originals
    <3>1. priced'[t] = order(t, quotes[t])
      BY <1>1, <2>1
    <3>2. priced'[t].at = attempt
      <4>1. \A a, q : ApplyQuote(basis, RefreshSource(t), q, a, attempt) # NoOrder
              => ApplyQuote(basis, RefreshSource(t), q, a, attempt).at = attempt
        BY ApplyQuoteFresh
      <4>2. order(t, quotes[t]) # NoOrder => order(t, quotes[t]).at = attempt
        BY <4>1
      <4> QED
        BY <1>3, <3>1, <4>2
    <3>3. priced[t].at \in 1 .. attempt /\ priced[t].at < attempt
      BY <1>2, <2>1 DEF Originals, FreshEnough
    <3>4. attempt > 1
      BY <1>2, <3>3
    <3> QED
      BY <3>2, <3>4
  <2>2. CASE t \notin Originals
    <3>1. priced'[t] = priced[t]
      BY <1>1, <2>2
    <3>2. InPhase(t) /\ priced[t] # NoOrder
      BY <1>2, <1>3, <3>1 DEF InPhase
    <3>3. priced[t].at \in 1 .. attempt /\ (priced[t].wide => attempt > 1)
      BY <1>2, <3>2 DEF FreshEnough
    <3>4. ~(priced[t].at < attempt)
      BY <2>2, <3>2 DEF Originals
    <3> QED
      BY <1>2, <3>1, <3>3, <3>4
  <2> QED
    BY <2>1, <2>2
<1> QED
  BY <1>2, <1>3 DEF FreshInv, OrdersGoOutFresh

(* The other steps leave the prices alone and bring nothing to submission. *)
LEMMA FreshOthers ==
    ASSUME FreshInv,
           ReadAccount \/ BuildPlan \/ NothingToQuote \/ QuotesUnavailable \/ SubmitSells
           \/ RefreshCash \/ SubmitBuys \/ BlockBuys \/ (\E t \in Tickers : TrimBuys(t) \/ Escalate(t))
    PROVE  FreshInv'
<1>1. CASE ReadAccount \/ BuildPlan
  BY <1>1 DEF FreshInv, OrdersGoOutFresh, ReadAccount, BuildPlan
<1>2. CASE NothingToQuote
  BY <1>2 DEF FreshInv, FreshEnough, OrdersGoOutFresh, NothingToQuote, InPhase, plannerVars
<1>3. CASE QuotesUnavailable \/ SubmitSells \/ RefreshCash \/ SubmitBuys \/ BlockBuys
  BY <1>3 DEF FreshInv, OrdersGoOutFresh, QuotesUnavailable, SubmitSells, RefreshCash, SubmitBuys,
     BlockBuys, UnchangedByFit
<1>4. CASE \E t \in Tickers : TrimBuys(t) \/ Escalate(t)
  BY <1>4 DEF FreshInv, OrdersGoOutFresh, TrimBuys, Escalate, UnchangedByFit
<1> QED
  BY <1>1, <1>2, <1>3, <1>4

(* Every step keeps prices fresh. *)
LEMMA FreshStep == ASSUME FreshInv, [Next]_vars PROVE FreshInv'
<1>1. CASE UNCHANGED vars
  BY <1>1 DEF vars, plannerVars, FreshInv, FreshEnough, OrdersGoOutFresh, InPhase
<1>2. CASE Next
  BY <1>2, FreshStart, FreshRound, FreshRefresh, FreshOthers DEF Next
<1> QED
  BY <1>1, <1>2

(* Whatever the quotes, the number of attempts and the settings, no order  *)
(* goes out on a quote from before the last wait, and none takes a wide    *)
(* spread at first sight (_reprice_for_execution).                         *)
THEOREM OrdersAreFresh == Spec => []OrdersGoOutFresh
<1>1. Init => FreshInv
  BY FreshInit
<1>2. FreshInv /\ [Next]_vars => FreshInv'
  BY FreshStep
<1>3. FreshInv => OrdersGoOutFresh
  BY DEF FreshInv
<1> QED
  BY <1>1, <1>2, <1>3, PTL DEF Spec
-----------------------------------------------------------------------------
(* Prices and sizes. *)

(* Rounding down. *)
LEMMA DivisionBounds ==
    ASSUME NEW a \in Int, NEW b \in Nat \ {0}
    PROVE  a \div b \in Int /\ b * (a \div b) <= a /\ a < b * (a \div b) + b
OBVIOUS

(* rounded_execution_quantity of a BUY is within half a share, and never   *)
(* less than the rounded-down size.                                        *)
LEMMA NearestSharesBounds ==
    ASSUME NEW n \in Nat, NEW p \in Nat \ {0}
    PROVE  /\ NearestShares(n, p) \in Nat
           /\ 2 * (NearestShares(n, p) * p - n) <= p /\ 2 * (n - NearestShares(n, p) * p) <= p
           /\ n \div p \in Nat /\ n \div p <= NearestShares(n, p)
<1> DEFINE q == (2 * n + p) \div (2 * p)
           f == n \div p
<1>1. 2 * n + p \in Int /\ 2 * p \in Nat \ {0}
  OBVIOUS
<1>2. q \in Int /\ (2 * p) * q <= 2 * n + p /\ 2 * n + p < (2 * p) * q + 2 * p
  BY <1>1, DivisionBounds
<1>3. f \in Int /\ p * f <= n /\ n < p * f + p
  BY DivisionBounds
<1> HIDE DEF q, f
<1>4. (2 * p) * q = 2 * (q * p) /\ q * p \in Int
  BY <1>2
<1>5. q >= 0
  <2> SUFFICES ASSUME q <= -1 PROVE FALSE
    BY <1>2
  <2>1. (2 * p) * q + 2 * p <= 0
    BY <1>2
  <2> QED
    BY <1>2, <2>1
<1>6. f >= 0
  <2> SUFFICES ASSUME f <= -1 PROVE FALSE
    BY <1>3
  <2>1. p * f + p <= 0
    BY <1>3
  <2> QED
    BY <1>3, <2>1
<1>7. f <= q
  <2> SUFFICES ASSUME q + 1 <= f PROVE FALSE
    BY <1>2, <1>3
  <2>1. p * (q + 1) <= p * f
    BY <1>2, <1>3
  <2>2. p * (q + 1) = q * p + p
    BY <1>2
  <2> QED
    BY <1>2, <1>3, <1>4, <2>1, <2>2
<1>8. NearestShares(n, p) = q /\ n \div p = f
  BY DEF NearestShares, q, f
<1> QED
  BY <1>2, <1>4, <1>5, <1>6, <1>7, <1>8

QuoteType == [quality : {"good", "bad", "unresolved"}, bid : Nat, ask : Nat, last : Nat]

(* A selected price is a natural number; a limit is an integer. *)
LEMMA SelectedType ==
    ASSUME NEW b \in Bases, NEW side \in Sides, NEW q \in QuoteType, NEW allow \in BOOLEAN
    PROVE  /\ SelectExecutionPrice(b, side, q, allow).price \in Nat
           /\ SelectExecutionPrice(b, side, q, allow).wide \in BOOLEAN
<1>0. q.bid \in Nat /\ q.ask \in Nat /\ q.last \in Nat
  BY DEF QuoteType
<1>1. Midpoint(q) \in Nat
  <2>1. (q.bid + q.ask) \div 2 \in Nat
    BY <1>0
  <2> QED
    BY <2>1 DEF Midpoint, NoPrice
<1>2. ReferenceFor(b, side, q) \in Nat
  <2>1. CASE b = "last"
    BY <1>0, <2>1 DEF ReferenceFor
  <2>2. CASE b = "midpoint"
    BY <1>1, <2>2 DEF ReferenceFor
  <2>3. CASE b = "side_of_market"
    BY <1>0, <2>3 DEF ReferenceFor
  <2> QED
    BY <2>1, <2>2, <2>3 DEF Bases
<1> DEFINE reference == ReferenceFor(b, side, q)
           wide == b # "last" /\ SpreadExceeds(q, MaxSpreadBps)
           admitted == allow /\ ~SpreadExceeds(q, WideSpreadMaxBps)
           s == SelectExecutionPrice(b, side, q, allow)
<1>3. \/ s = [price |-> NoPrice, wide |-> FALSE]
      \/ s = [price |-> IF wide THEN Midpoint(q) ELSE reference, wide |-> wide]
  BY Zenon DEF SelectExecutionPrice
<1>4. wide \in BOOLEAN /\ reference \in Nat
  BY <1>2
<1> HIDE DEF s, wide, reference
<1>5. s.price \in Nat /\ s.wide \in BOOLEAN
  <2>1. CASE s = [price |-> NoPrice, wide |-> FALSE]
    BY <2>1 DEF NoPrice
  <2>2. CASE s = [price |-> IF wide THEN Midpoint(q) ELSE reference, wide |-> wide]
    BY <1>1, <1>4, <2>2
  <2> QED
    BY <1>3, <2>1, <2>2
<1> QED
  BY <1>5 DEF s

(* A limit price is an integer, that of a buy not negative. *)
LEMMA BuildLimitType ==
    ASSUME NEW side, NEW reference \in Nat, NEW bps \in Nat
    PROVE  /\ BuildLimitPrice(side, reference, bps) \in Int
           /\ side = "BUY" => BuildLimitPrice(side, reference, bps) \in Nat
<1> DEFINE factor == IF side = "BUY" THEN 10000 + bps ELSE 10000 - bps
           x == reference * factor
<1>1. factor \in Int /\ (side = "BUY" => factor \in Nat)
  OBVIOUS
<1> HIDE DEF factor
<1>2. x \in Int /\ (side = "BUY" => x \in Nat)
  BY <1>1
<1> HIDE DEF x
<1>3. /\ ((x + 500000) \div 1000000) * Cent \in Int
      /\ side = "BUY" => ((x + 500000) \div 1000000) * Cent \in Nat
  BY <1>2 DEF Cent
<1> QED
  BY <1>3 DEF BuildLimitPrice, x, factor

(* So is the limit inside the spread. *)
LEMMA FirstLimitType ==
    ASSUME NEW b, NEW side, NEW q \in QuoteType, NEW selected, selected.price \in Nat
    PROVE  FirstLimit(b, side, selected, q) \in Int
<1>0. q.bid \in Nat /\ q.ask \in Nat /\ Aggression \in Int
  BY PricingAssumption DEF QuoteType
<1>1. InsideSpreadLimit(side, q) \in Int
  <2> DEFINE tick == PriceTick(q)
             mid8 == 4 * (q.bid + q.ask)
             way8 == Aggression * (q.ask - q.bid)
             down == ((mid8 + way8) \div (8 * tick)) * tick
             up == -((-(mid8 - way8)) \div (8 * tick)) * tick
  <2>1. tick \in {1, 100}
    BY DEF PriceTick, Cent
  <2>2. mid8 \in Int /\ way8 \in Int
    BY <1>0
  <2> HIDE DEF tick, mid8, way8
  <2>3. down \in Int /\ up \in Int
    <3>1. mid8 + way8 \in Int /\ -(mid8 - way8) \in Int /\ 8 * tick \in Nat \ {0} /\ tick \in Int
      BY <2>1, <2>2
    <3>2. (mid8 + way8) \div (8 * tick) \in Int /\ (-(mid8 - way8)) \div (8 * tick) \in Int
      BY <3>1, DivisionBounds
    <3> QED
      BY <3>1, <3>2
  <2> HIDE DEF down, up
  <2>4. InsideSpreadLimit(side, q)
          = IF side = "BUY" THEN Least(Greatest(down, q.bid), q.ask)
            ELSE Greatest(Least(up, q.ask), q.bid)
    BY DEF InsideSpreadLimit, down, up, tick, mid8, way8
  <2>5. ASSUME NEW u \in Int, NEW v \in Int PROVE Least(u, v) \in Int /\ Greatest(u, v) \in Int
    BY DEF Least, Greatest
  <2>6. q.bid \in Int /\ q.ask \in Int
    BY <1>0
  <2>7. Greatest(down, q.bid) \in Int
    BY <2>3, <2>5, <2>6
  <2>8. Least(up, q.ask) \in Int
    BY <2>3, <2>5, <2>6
  <2>9. Least(Greatest(down, q.bid), q.ask) \in Int /\ Greatest(Least(up, q.ask), q.bid) \in Int
    BY <2>5, <2>6, <2>7, <2>8
  <2> QED
    BY <2>4, <2>9
<1>2. BuildLimitPrice(side, selected.price, LimitOffsetBps) \in Int
  BY BuildLimitType, PricingAssumption
<1> QED
  BY <1>1, <1>2 DEF FirstLimit

(* What apply_execution_quotes does to an approved trade: a sell keeps its *)
(* shares, a buy its notional to half a share, within the order ceiling.   *)
WithinApproval(order, trade) ==
    LET drift == order.qty * order.ref - trade.notional
    IN /\ order.side = trade.side
       /\ order.side = "SELL" => order.qty = trade.qty
       /\ order.side = "BUY" => 2 * Greatest(drift, -drift) <= order.ref
       /\ order.qty * order.limit <= MaxOrderNotional

(* What is left of that when an order goes out, is cut and escalated. *)
Kept(order, trade) ==
    /\ order.side = trade.side
    /\ order.side = "SELL" => order.qty = trade.qty
    /\ order.qty * order.limit <= MaxOrderNotional

(* A repriced order is well formed and within what was approved. *)
LEMMA ApplyQuoteKeeps ==
    ASSUME NEW b \in Bases, NEW trade \in PlannedTrades, NEW q \in QuoteType, NEW allow \in BOOLEAN,
           NEW at \in 1 .. Attempts, ApplyQuote(b, trade, q, allow, at) # NoOrder
    PROVE  /\ ApplyQuote(b, trade, q, allow, at) \in Orders
           /\ WithinApproval(ApplyQuote(b, trade, q, allow, at), trade)
<1> DEFINE selected == SelectExecutionPrice(b, trade.side, q, allow)
           price == selected.price
           limit == FirstLimit(b, trade.side, selected, q)
           qty == RepricedQuantity(trade, price)
           order == [side |-> trade.side, qty |-> qty, ref |-> price, limit |-> limit,
                     wide |-> selected.wide, at |-> at]
<1>0. /\ trade.side \in Sides /\ trade.qty \in Nat \ {0} /\ trade.notional \in Nat \ {0}
  BY DEF PlannedTrades
<1>1. price \in Nat /\ selected.wide \in BOOLEAN
  BY <1>0, SelectedType
<1>2. limit \in Int
  BY <1>1, FirstLimitType
<1>3. /\ ApplyQuote(b, trade, q, allow, at) = order
      /\ ~(price = NoPrice \/ limit <= 0 \/ qty <= 0 \/ qty * Greatest(price, limit) > MaxOrderNotional)
  BY Zenon DEF ApplyQuote
<1> HIDE DEF selected, limit, price
<1>4. price \in Nat \ {0}
  BY <1>1, <1>3 DEF NoPrice
<1>5. /\ qty \in Nat
      /\ trade.side = "SELL" => qty = trade.qty
      /\ trade.side = "BUY" => 2 * (qty * price - trade.notional) <= price
      /\ trade.side = "BUY" => 2 * (trade.notional - qty * price) <= price
  <2>1. CASE trade.side = "SELL"
    BY <1>0, <2>1 DEF RepricedQuantity
  <2>2. CASE trade.side = "BUY"
    BY <1>0, <1>4, <2>2, NearestSharesBounds DEF RepricedQuantity
  <2> QED
    BY <1>0, <2>1, <2>2 DEF Sides
<1> HIDE DEF qty
<1>6. qty \in Nat \ {0} /\ limit \in Nat \ {0}
  BY <1>2, <1>3, <1>5
<1>7. qty * limit <= MaxOrderNotional
  <2>1. Greatest(price, limit) \in Int /\ limit <= Greatest(price, limit)
    BY <1>4, <1>6 DEF Greatest
  <2>2. qty * limit <= qty * Greatest(price, limit)
    BY <1>6, <2>1
  <2>3. qty * Greatest(price, limit) <= MaxOrderNotional /\ qty * Greatest(price, limit) \in Int
    BY <1>3, <1>6, <2>1, PricingAssumption
  <2> QED
    BY <1>6, <2>2, <2>3, PricingAssumption
<1>8. order \in Orders
  BY <1>0, <1>1, <1>4, <1>6 DEF Orders
<1>9. WithinApproval(order, trade)
  <2> DEFINE drift == qty * price - trade.notional
  <2>1. drift \in Int /\ -drift = trade.notional - qty * price
    BY <1>0, <1>4, <1>6
  <2>2. trade.side = "BUY" => 2 * Greatest(drift, -drift) <= price
    <3> HIDE DEF drift
    <3>1. trade.side = "BUY" => 2 * drift <= price /\ 2 * (-drift) <= price
      BY <1>5, <2>1 DEF drift
    <3> QED
      BY <2>1, <3>1 DEF Greatest
  <2>3. order.qty = qty /\ order.ref = price /\ order.limit = limit /\ order.side = trade.side
    OBVIOUS
  <2> HIDE DEF order
  <2> QED
    BY <1>5, <1>7, <2>2, <2>3 DEF WithinApproval
<1> QED
  BY <1>3, <1>8, <1>9

-----------------------------------------------------------------------------
(* The plan. *)

Accounts == [held : [Tickers -> Nat], cash : Nat, usable : BOOLEAN, value : Nat]

(* What a position is worth, and so the portfolio, is a natural number. *)
LEMMA TotalValueType ==
    ASSUME input \in Inputs, NEW held \in [Tickers -> Nat], NEW cash \in Nat
    PROVE  /\ \A t \in Tickers : ValueOf(held, t) \in Nat
           /\ TotalValue(held, cash) \in Nat
<1>1. input.mark \in Nat /\ IsFiniteSet(Tickers)
  BY PlanningAssumption DEF Inputs
<1>2. ASSUME NEW t \in Tickers PROVE ValueOf(held, t) \in Nat
  <2>1. held[t] \in Nat
    OBVIOUS
  <2>2. held[t] * input.mark \in Nat
    BY <1>1, <2>1
  <2>3. \A n \in Nat : n \div 2 \in Nat
    OBVIOUS
  <2> QED
    BY <2>2, <2>3 DEF ValueOf
<1> DEFINE F == [t \in Tickers |-> ValueOf(held, t)]
<1>3. F \in [Tickers -> Int] /\ \A t \in Tickers : F[t] >= 0
  BY <1>2
<1> HIDE DEF F
<1>4. SumFunctionOnSet(F, Tickers) \in Int /\ SumFunctionOnSet(F, Tickers) >= 0
  BY <1>1, <1>3, SumRecursion, SumNatural
<1> QED
  BY <1>2, <1>4 DEF TotalValue, F

(* The snapshot a run is sized on is the account's own, or blocks the plan. *)
LEMMA ReadAccountType ==
    ASSUME input \in Inputs, NEW a \in ReadAccounts
    PROVE  a \in Accounts /\ (a.usable => a.held = input.held)
<1>1. /\ input.held \in [Tickers -> Nat] /\ input.cash \in Nat
      /\ DryRunValue \in Nat /\ ManagedCap \in Nat
  BY PlanningAssumption DEF Inputs
<1>2. ASSUME NEW held \in [Tickers -> Nat], NEW cash \in Nat, NEW usable \in BOOLEAN
      PROVE  Account(held, cash, usable) \in Accounts
  <2>1. TotalValue(held, cash) \in Nat
    BY TotalValueType
  <2>2. Least(TotalValue(held, cash), ManagedCap) \in Nat
    BY <1>1, <2>1 DEF Least
  <2> QED
    BY <2>2 DEF Account, Accounts
<1>3. CASE a = Fallback
  <2>1. [t \in Tickers |-> 0] \in [Tickers -> Nat]
    OBVIOUS
  <2>2. Fallback \in Accounts
    BY <1>1, <1>2, <2>1 DEF Fallback
  <2>3. Fallback.usable = FALSE
    BY DEF Fallback, Account
  <2> QED
    BY <1>3, <2>2, <2>3
<1>4. CASE a = Account(input.held, input.cash, TRUE)
  <2>1. a.held = input.held
    BY <1>4 DEF Account
  <2> QED
    BY <1>1, <1>2, <1>4, <2>1
<1> QED
  BY <1>3, <1>4 DEF ReadAccounts

(* Sizes and prices of the plan are natural numbers. *)
LEMMA SizeType ==
    ASSUME input \in Inputs, account \in Accounts, NEW t \in Tickers
    PROVE  Size(t) \in Nat /\ PlanPrice(t) \in Nat /\ account.held[t] \in Nat
<1>1. account.held \in [Tickers -> Nat] /\ account.value \in Nat
  BY DEF Accounts
<1>2. ValueOf(account.held, t) \in Nat
  <2>1. 0 \in Nat
    OBVIOUS
  <2> QED
    BY <1>1, <2>1, TotalValueType
<1>3. \A pct \in Nat : Capital(pct) \in Nat
  <2>1. ASSUME NEW pct \in Nat PROVE (account.value * pct) \div 100 \in Nat
    <3>1. account.value * pct \in Nat
      BY <1>1
    <3>2. \A n \in Nat : n \div 100 \in Nat
      OBVIOUS
    <3> QED
      BY <3>1, <3>2
  <2> QED
    BY <2>1 DEF Capital
<1>4. Target(t) \in Nat
  <2>1. Capital(CorePct) \in Nat /\ Capital(SafePct) \in Nat
    BY <1>3, PlanningAssumption
  <2> QED
    BY <2>1 DEF Target
<1>5. Size(t) \in Nat
  BY <1>2, <1>4 DEF Size, Delta
<1>6. PlanPrice(t) \in Nat
  <2>1. input.mark \in Nat /\ input.close \in [Funds -> Closes \cup {NoPrice}] /\ Closes \subseteq Nat
    BY PlanningAssumption DEF Inputs
  <2> QED
    BY <2>1 DEF PlanPrice, NoPrice
<1> QED
  BY <1>1, <1>5, <1>6

(* A trade of the plan: a sell fits the position it was sized on, a buy is *)
(* at least its rounded-down size.                                         *)
SoundTrade(trade, t) ==
    /\ trade \in PlannedTrades
    /\ trade.side = "SELL" => 2 * trade.qty <= account.held[t]
    /\ trade.side = "BUY" =>
         /\ trade.ref = PlanPrice(t) /\ PlanPrice(t) \in Nat \ {0}
         /\ FloorOf(t) \in Nat /\ FloorOf(t) <= trade.qty

(* generate_trades with its filters and its rounding. *)
LEMMA TradeIsSound ==
    ASSUME input \in Inputs, account \in Accounts, NEW t \in Tickers, Trade(t) # NoTrade
    PROVE  SoundTrade(Trade(t), t)
<1> DEFINE price == PlanPrice(t)
           size == Size(t)
           buy == SideOf(t) = "BUY"
           qty == IF buy THEN NearestShares(size, price) ELSE SellQuantity(t)
           notional == IF ~buy /\ SellUnchanged(t) THEN size ELSE qty * price
           trade == [side |-> SideOf(t), qty |-> qty, ref |-> price, notional |-> notional]
<1>1. Trade(t) = trade /\ WorthTrading(t) /\ ~(qty < 1)
  BY Zenon DEF Trade
<1>2. size \in Nat \ {0} /\ price \in Nat \ {0} /\ account.held[t] \in Nat
  <2>1. size \in Nat /\ price \in Nat /\ account.held[t] \in Nat
    BY SizeType
  <2>2. size >= MinTradeNotional /\ price # NoPrice /\ MinTradeNotional \in Nat \ {0}
    BY <1>1, PlanningAssumption DEF WorthTrading
  <2> HIDE DEF size, price
  <2> QED
    BY <2>1, <2>2 DEF NoPrice
<1>3. SideOf(t) \in Sides
  BY DEF SideOf, Sides
<1>4. FloorOf(t) = size \div price /\ SellQuantity(t) = Least(size \div price, account.held[t] \div 2)
  BY DEF FloorOf, SellQuantity
<1> HIDE DEF size, price
<1>5. FloorOf(t) \in Nat /\ NearestShares(size, price) \in Nat /\ FloorOf(t) <= NearestShares(size, price)
  BY <1>2, <1>4, NearestSharesBounds
<1>6. SellQuantity(t) \in Nat /\ 2 * SellQuantity(t) <= account.held[t]
  <2>1. account.held[t] \div 2 \in Nat /\ 2 * (account.held[t] \div 2) <= account.held[t]
    BY <1>2
  <2> QED
    BY <1>2, <1>4, <1>5, <2>1 DEF Least
<1>7. qty \in Nat \ {0}
  BY <1>1, <1>5, <1>6
<1>8. /\ ~buy => 2 * qty <= account.held[t]
      /\ buy => FloorOf(t) <= qty
  BY <1>5, <1>6
<1> HIDE DEF qty
<1>9. notional \in Nat \ {0}
  <2>1. qty * price \in Nat \ {0}
    BY <1>2, <1>7
  <2> QED
    BY <1>2, <2>1
<1> HIDE DEF notional
<1>10. trade \in PlannedTrades
  BY <1>2, <1>3, <1>7, <1>9 DEF PlannedTrades
<1>11. trade.side = SideOf(t) /\ trade.qty = qty /\ trade.ref = price
  OBVIOUS
<1> HIDE DEF trade
<1>12. (trade.side = "BUY") = buy /\ (trade.side = "SELL") = ~buy
  BY <1>3, <1>11 DEF Sides, buy
<1>13. SoundTrade(trade, t)
  BY <1>2, <1>5, <1>8, <1>10, <1>11, <1>12 DEF SoundTrade, price
<1> QED
  BY <1>1, <1>13

(* Rounding a buy back down keeps it sound, or leaves nothing of it. *)
LEMMA DemoteIsSound ==
    ASSUME NEW t \in Tickers, NEW trade, SoundTrade(trade, t), trade.side = "BUY",
           Demote(trade, FloorOf(t)) # NoTrade
    PROVE  /\ SoundTrade(Demote(trade, FloorOf(t)), t)
           /\ Demote(trade, FloorOf(t)) = [trade EXCEPT !.qty = FloorOf(t),
                                                        !.notional = FloorOf(t) * trade.ref]
<1> DEFINE shares == FloorOf(t)
           new == [trade EXCEPT !.qty = shares, !.notional = shares * trade.ref]
<1>1. Demote(trade, shares) = new /\ ~(shares < 1)
  BY Zenon DEF Demote
<1>2. trade \in PlannedTrades /\ trade.ref = PlanPrice(t) /\ PlanPrice(t) \in Nat \ {0} /\ shares \in Nat
  BY DEF SoundTrade
<1> HIDE DEF shares
<1>3. shares \in Nat \ {0} /\ shares * trade.ref \in Nat \ {0}
  <2>1. shares \in Nat \ {0}
    BY <1>1, <1>2
  <2> QED
    BY <1>2, <2>1
<1>4. new \in PlannedTrades /\ new.side = "BUY" /\ new.ref = trade.ref /\ new.qty = shares
  BY <1>2, <1>3 DEF PlannedTrades
<1> HIDE DEF new
<1>5. SoundTrade(new, t)
  BY <1>2, <1>3, <1>4 DEF SoundTrade, shares
<1> QED
  BY <1>1, <1>5 DEF new, shares

-----------------------------------------------------------------------------
(* From the plan to the orders. *)

(* The run is sized on one snapshot; one that is not the account's own     *)
(* is marked unusable.                                                     *)
SnapshotInv ==
    /\ input \in Inputs /\ basis \in Bases /\ blocked \in BOOLEAN
    /\ account \in Accounts /\ (account.usable => account.held = input.held)

PlanInv == \A t \in Tickers : plan[t] = NoTrade \/ SoundTrade(plan[t], t)

ControlInv ==
    /\ pc \in {"account", "plan", "phase", "quote", "refresh", "submit", "fit", "done"}
    /\ funds \in Nat /\ phase \in Sides /\ attempt \in 1 .. Attempts
    /\ pending \subseteq Tickers /\ unresolved \subseteq Tickers /\ escalated \subseteq Tickers
    /\ pc = "quote" => pending \subseteq OfSide(plan, phase)

(* Before the plan is built there is nothing to send; afterwards only a    *)
(* plan of the account's own snapshot goes on.                             *)
GateInv ==
    /\ pc \in {"account", "plan"} =>
         \A t \in Tickers : plan[t] = NoTrade /\ priced[t] = NoOrder /\ sent[t] = NoOrder
    /\ pc = "phase" /\ ~blocked => account.usable
    /\ pc \in {"quote", "refresh", "submit", "fit", "done"} => account.usable
    /\ \A t \in Tickers : sent[t] # NoOrder => account.usable

(* Every order is a repricing of the plan's trade of its ticker. *)
Approved(orders) ==
    \A t \in Tickers : orders[t] # NoOrder => orders[t] \in Orders /\ WithinApproval(orders[t], plan[t])

SentAsApproved == \A t \in Tickers : sent[t] # NoOrder => sent[t] \in Orders /\ Kept(sent[t], plan[t])

OrderInv ==
    /\ sent \in [Tickers -> Orders \cup {NoOrder}] /\ priced \in [Tickers -> Orders \cup {NoOrder}]
    /\ Approved(priced) /\ SentAsApproved

PlanningInv == SnapshotInv /\ PlanInv /\ ControlInv /\ GateInv /\ OrderInv

(* Initially there is neither plan nor order. *)
LEMMA PlanningInit == ASSUME Init PROVE PlanningInv
<1>1. account \in Accounts /\ account.usable = FALSE
  <2>1. [t \in Tickers |-> 0] \in [Tickers -> Nat]
    OBVIOUS
  <2> QED
    BY <2>1 DEF Init, Accounts
<1>2. SnapshotInv
  BY <1>1 DEF Init, SnapshotInv
<1>3. /\ \A t \in Tickers : plan[t] = NoTrade /\ priced[t] = NoOrder /\ sent[t] = NoOrder
      /\ sent \in [Tickers -> Orders \cup {NoOrder}] /\ priced \in [Tickers -> Orders \cup {NoOrder}]
  BY DEF Init, NoOrders
<1>4. PlanInv /\ OrderInv
  BY <1>3 DEF PlanInv, OrderInv, Approved, SentAsApproved
<1>5. ControlInv
  BY PlanningAssumption DEF Init, ControlInv, Sides
<1>6. GateInv
  BY <1>3 DEF Init, GateInv
<1> QED
  BY <1>2, <1>4, <1>5, <1>6 DEF PlanningInv

(* _account_snapshot. *)
LEMMA ReadAccountStep == ASSUME PlanningInv, ReadAccount PROVE PlanningInv'
<1>1. /\ input \in Inputs /\ basis \in Bases /\ blocked \in BOOLEAN
      /\ \A t \in Tickers : plan[t] = NoTrade /\ priced[t] = NoOrder /\ sent[t] = NoOrder
  BY DEF PlanningInv, SnapshotInv, GateInv, ReadAccount
<1>2. account' \in Accounts /\ (account'.usable => account'.held = input.held)
  BY <1>1, ReadAccountType DEF ReadAccount
<1>3. SnapshotInv'
  BY <1>1, <1>2 DEF SnapshotInv, ReadAccount
<1>4. PlanInv' /\ OrderInv'
  BY <1>1 DEF PlanningInv, PlanInv, OrderInv, Approved, SentAsApproved, ReadAccount
<1>5. ControlInv'
  BY DEF PlanningInv, ControlInv, ReadAccount
<1>6. GateInv'
  BY <1>1 DEF GateInv, ReadAccount
<1> QED
  BY <1>3, <1>4, <1>5, <1>6 DEF PlanningInv

(* What build_plan hands on. *)
LEMMA BuiltPlan ==
    ASSUME input \in Inputs, account \in Accounts, NEW S \in SUBSET OfSide(Rounded, "BUY"), NEW t \in Tickers
    PROVE  DemoteAll(Rounded, S)[t] = NoTrade \/ SoundTrade(DemoteAll(Rounded, S)[t], t)
<1>1. Rounded[t] = Trade(t)
  BY DEF Rounded
<1>2. /\ t \in S => DemoteAll(Rounded, S)[t] = Demote(Rounded[t], FloorOf(t))
      /\ t \notin S => DemoteAll(Rounded, S)[t] = Rounded[t]
  BY Zenon DEF DemoteAll
<1>3. Rounded[t] = NoTrade \/ SoundTrade(Rounded[t], t)
  BY <1>1, TradeIsSound
<1>4. CASE t \in S
  <2>1. Rounded[t].side = "BUY"
    BY <1>4 DEF OfSide
  <2>2. SoundTrade(Rounded[t], t)
    BY <1>3, <2>1 DEF NoTrade
  <2> QED
    BY <1>2, <1>4, <2>1, <2>2, DemoteIsSound
<1>5. CASE t \notin S
  BY <1>2, <1>3, <1>5
<1> QED
  BY <1>4, <1>5

(* build_plan. *)
LEMMA BuildPlanStep == ASSUME PlanningInv, BuildPlan PROVE PlanningInv'
<1> DEFINE trades == DemoteAll(Rounded, Demoted(Rounded))
<1>1. plan' = trades /\ blocked' = (~account.usable \/ HistoryMissing \/ OverLimits(trades))
  BY DEF BuildPlan
<1>2. Demoted(Rounded) \in SUBSET OfSide(Rounded, "BUY")
  BY DEF Demoted, RoundUps
<1>3. \A t \in Tickers : trades[t] = NoTrade \/ SoundTrade(trades[t], t)
  BY <1>2, BuiltPlan DEF PlanningInv, SnapshotInv
<1> HIDE DEF trades
<1>4. /\ pc' = "phase" /\ account' = account /\ input' = input /\ basis' = basis /\ priced' = priced
      /\ sent' = sent /\ UNCHANGED <<phase, attempt, pending, unresolved, funds, escalated>>
      /\ \A t \in Tickers : priced[t] = NoOrder /\ sent[t] = NoOrder
  BY DEF BuildPlan, PlanningInv, GateInv
<1>5. SnapshotInv'
  BY <1>1, <1>4 DEF PlanningInv, SnapshotInv
<1>6. PlanInv'
  <2>1. ASSUME NEW t \in Tickers PROVE plan'[t] = NoTrade \/ SoundTrade(plan[t], t)'
    BY <1>1, <1>3, <1>4
       DEF SoundTrade, FloorOf, Size, Delta, Target, CoreHolds, Capital, ValueOf, PlanPrice, SideOf
  <2> QED
    BY <2>1 DEF PlanInv
<1>7. ControlInv'
  BY <1>4 DEF PlanningInv, ControlInv
<1>8. GateInv'
  BY <1>1, <1>4 DEF GateInv
<1>9. OrderInv'
  BY <1>4 DEF PlanningInv, OrderInv, Approved, SentAsApproved
<1> QED
  BY <1>5, <1>6, <1>7, <1>8, <1>9 DEF PlanningInv

(* Once built, the plan and what it was sized on stay. *)
LEMMA PlanStays ==
    ASSUME PlanningInv, UNCHANGED plannerVars
    PROVE  SnapshotInv' /\ PlanInv'
<1>1. account' = account /\ input' = input /\ basis' = basis /\ plan' = plan /\ blocked' = blocked
  BY DEF plannerVars
<1>2. SnapshotInv'
  BY <1>1 DEF PlanningInv, SnapshotInv
<1>3. \A t \in Tickers : SoundTrade(plan[t], t)' = SoundTrade(plan[t], t)
  BY <1>1 DEF SoundTrade, FloorOf, Size, Delta, Target, CoreHolds, Capital, ValueOf, PlanPrice, SideOf
<1> QED
  BY <1>1, <1>2, <1>3 DEF PlanningInv, PlanInv

(* A repricing of a planned trade. *)
LEMMA Repriced ==
    ASSUME PlanningInv, NEW t \in Tickers, plan[t].side \in Sides, NEW q \in Quotes, NEW allow \in BOOLEAN
    PROVE  LET order == ApplyQuote(basis, plan[t], q, allow, attempt)
           IN order # NoOrder => order \in Orders /\ WithinApproval(order, plan[t])
<1>1. plan[t] \in PlannedTrades
  BY DEF PlanningInv, PlanInv, SoundTrade, NoTrade, Sides
<1>2. basis \in Bases /\ attempt \in 1 .. Attempts /\ q \in QuoteType
  BY PlanningAssumption DEF PlanningInv, SnapshotInv, ControlInv, QuoteType
<1> QED
  BY <1>1, <1>2, ApplyQuoteKeeps

(* A phase starts only of a plan that is not blocked. *)
LEMMA StartPhaseStep == ASSUME PlanningInv, StartPhase PROVE PlanningInv'
<1>1. UNCHANGED plannerVars /\ plan' = plan /\ account' = account
  BY DEF StartPhase, plannerVars
<1>2. /\ pc = "phase" /\ ~blocked /\ pc' = "quote" /\ phase' = phase /\ sent' = sent /\ escalated' = escalated
      /\ pending' = OfSide(plan, phase) /\ unresolved' = {} /\ attempt' = 1
      /\ \A t \in Tickers : priced'[t] = NoOrder
      /\ priced' \in [Tickers -> Orders \cup {NoOrder}] /\ funds' = funds
  BY DEF StartPhase, NoOrders
<1>3. SnapshotInv' /\ PlanInv'
  BY <1>1, PlanStays
<1>4. ControlInv'
  BY <1>1, <1>2, PlanningAssumption DEF PlanningInv, ControlInv, OfSide
<1>5. GateInv'
  BY <1>1, <1>2 DEF PlanningInv, GateInv
<1>6. OrderInv'
  BY <1>1, <1>2 DEF PlanningInv, OrderInv, Approved, SentAsApproved
<1> QED
  BY <1>3, <1>4, <1>5, <1>6 DEF PlanningInv

(* An attempt of _reprice_for_execution. *)
LEMMA QuoteRoundStep == ASSUME PlanningInv, QuoteRound PROVE PlanningInv'
<1> DEFINE order(t, q) == ApplyQuote(basis, plan[t], q, Allowed(attempt), attempt)
<1>1. PICK quotes \in [pending -> Quotes] :
         priced' = [t \in Tickers |-> IF t \in pending THEN order(t, quotes[t]) ELSE priced[t]]
  BY DEF QuoteRound
<1>2. /\ UNCHANGED plannerVars /\ plan' = plan /\ account' = account /\ phase' = phase
      /\ sent' = sent /\ escalated' = escalated /\ funds' = funds /\ pc = "quote" /\ pc' \in {"quote", "refresh"}
      /\ pending' \subseteq pending /\ unresolved' \subseteq unresolved \cup pending
      /\ \/ attempt' = attempt
         \/ attempt' = attempt + 1 /\ ~(attempt >= Attempts)
  BY DEF QuoteRound, plannerVars
<1>3. SnapshotInv' /\ PlanInv'
  BY <1>2, PlanStays
<1>4. /\ pending \subseteq OfSide(plan, phase) /\ phase \in Sides /\ pending \subseteq Tickers
      /\ attempt \in 1 .. Attempts
  BY <1>2 DEF PlanningInv, ControlInv
<1>5. ControlInv'
  <2>1. attempt' \in 1 .. Attempts
    BY <1>2, <1>4, PlanningAssumption
  <2>2. OfSide(plan, phase)' = OfSide(plan, phase)
    BY <1>2 DEF OfSide
  <2>3. unresolved \subseteq Tickers /\ escalated \subseteq Tickers /\ funds \in Nat
    BY DEF PlanningInv, ControlInv
  <2> QED
    BY <1>2, <1>4, <2>1, <2>2, <2>3 DEF ControlInv
<1>6. GateInv'
  BY <1>2 DEF PlanningInv, GateInv
<1>7. ASSUME NEW t \in Tickers, priced'[t] # NoOrder
      PROVE  priced'[t] \in Orders /\ WithinApproval(priced'[t], plan[t])
  <2>1. CASE t \in pending
    <3>1. priced'[t] = order(t, quotes[t]) /\ quotes[t] \in Quotes /\ plan[t].side \in Sides
      BY <1>1, <1>4, <2>1 DEF OfSide
    <3>2. Allowed(attempt) \in BOOLEAN
      BY DEF Allowed
    <3> QED
      BY <1>7, <3>1, <3>2, Repriced
  <2>2. CASE t \notin pending
    <3>1. priced'[t] = priced[t]
      BY <1>1, <2>2
    <3> QED
      BY <1>7, <3>1 DEF PlanningInv, OrderInv, Approved
  <2> QED
    BY <2>1, <2>2
<1>8. priced' \in [Tickers -> Orders \cup {NoOrder}]
  BY <1>1, <1>7
<1>9. OrderInv'
  BY <1>2, <1>7, <1>8 DEF PlanningInv, OrderInv, Approved, SentAsApproved
<1> QED
  BY <1>3, <1>5, <1>6, <1>9 DEF PlanningInv

(* The pre-submit refresh starts from the approved trade again. *)
LEMMA RefreshStep == ASSUME PlanningInv, Refresh PROVE PlanningInv'
<1> DEFINE order(t, q) == ApplyQuote(basis, RefreshSource(t), q, TRUE, attempt)
<1>1. PICK quotes \in [Originals -> Quotes] :
         priced' = [t \in Tickers |-> IF t \in Originals THEN order(t, quotes[t]) ELSE priced[t]]
  BY DEF Refresh
<1>2. /\ UNCHANGED plannerVars /\ plan' = plan /\ account' = account
      /\ sent' = sent /\ pc = "refresh" /\ pc' = "submit"
      /\ UNCHANGED <<phase, attempt, pending, unresolved, funds, escalated>>
  BY DEF Refresh, plannerVars
<1>3. SnapshotInv' /\ PlanInv'
  BY <1>2, PlanStays
<1>4. ControlInv'
  BY <1>2 DEF PlanningInv, ControlInv
<1>5. GateInv'
  BY <1>2 DEF PlanningInv, GateInv
<1>6. ASSUME NEW t \in Tickers, priced'[t] # NoOrder
      PROVE  priced'[t] \in Orders /\ WithinApproval(priced'[t], plan[t])
  <2>1. CASE t \in Originals
    <3>1. priced'[t] = order(t, quotes[t]) /\ quotes[t] \in Quotes
      BY <1>1, <2>1
    <3>2. plan[t].side \in Sides
      BY <2>1 DEF Originals, InPhase, PlanningInv, ControlInv
    <3>3. TRUE \in BOOLEAN
      OBVIOUS
    <3>4. priced'[t] = ApplyQuote(basis, plan[t], quotes[t], TRUE, attempt)
      BY <3>1 DEF RefreshSource
    <3> QED
      BY <1>6, <3>1, <3>2, <3>3, <3>4, Repriced
  <2>2. CASE t \notin Originals
    <3>1. priced'[t] = priced[t]
      BY <1>1, <2>2
    <3> QED
      BY <1>6, <3>1 DEF PlanningInv, OrderInv, Approved
  <2> QED
    BY <2>1, <2>2
<1>7. priced' \in [Tickers -> Orders \cup {NoOrder}]
  BY <1>1, <1>6
<1>8. OrderInv'
  BY <1>2, <1>6, <1>7 DEF PlanningInv, OrderInv, Approved, SentAsApproved
<1> QED
  BY <1>3, <1>4, <1>5, <1>8 DEF PlanningInv

(* The steps that move the control only. *)
LEMMA ControlStep ==
    ASSUME PlanningInv, NothingToQuote \/ QuotesUnavailable \/ BlockBuys \/ UNCHANGED vars
    PROVE  PlanningInv'
<1>1. /\ UNCHANGED plannerVars /\ plan' = plan /\ account' = account /\ blocked' = blocked
      /\ sent' = sent /\ priced' = priced
      /\ UNCHANGED <<phase, attempt, pending, unresolved, funds, escalated>>
      /\ pc' = pc \/ (pc \in {"quote", "refresh", "submit", "fit"} /\ pc' \in {"refresh", "done"})
  BY DEF NothingToQuote, QuotesUnavailable, BlockBuys, UnchangedByFit, vars, plannerVars
<1>2. SnapshotInv' /\ PlanInv'
  BY <1>1, PlanStays
<1>3. ControlInv'
  BY <1>1 DEF PlanningInv, ControlInv, OfSide
<1>4. GateInv'
  BY <1>1 DEF PlanningInv, GateInv
<1>5. OrderInv'
  BY <1>1 DEF PlanningInv, OrderInv, Approved, SentAsApproved
<1> QED
  BY <1>2, <1>3, <1>4, <1>5 DEF PlanningInv

(* Orders that go out, cut or not, as they were priced. *)
LEMMA SendStep ==
    ASSUME PlanningInv, UNCHANGED <<plannerVars, attempt, pending, unresolved, priced, funds, escalated>>,
           pc \in {"submit", "fit"}, pc' \in {"phase", "done"}, phase' \in {phase, "BUY"},
           sent' \in [Tickers -> Orders \cup {NoOrder}],
           \A t \in Tickers : sent'[t] # NoOrder => Kept(sent'[t], plan[t])
    PROVE  PlanningInv'
<1>1. UNCHANGED plannerVars /\ plan' = plan /\ account' = account /\ priced' = priced
  BY DEF plannerVars
<1>2. SnapshotInv' /\ PlanInv'
  BY <1>1, PlanStays
<1>3. ControlInv'
  BY <1>1 DEF PlanningInv, ControlInv, Sides
<1>4. account.usable
  BY DEF PlanningInv, GateInv
<1>5. GateInv'
  BY <1>1, <1>4 DEF GateInv
<1>6. OrderInv'
  BY <1>1 DEF PlanningInv, OrderInv, Approved, SentAsApproved
<1> QED
  BY <1>2, <1>3, <1>5, <1>6 DEF PlanningInv

(* An order that was priced within its approval is kept, and so is a buy   *)
(* of fewer shares.                                                        *)
LEMMA ApprovedIsKept ==
    ASSUME NEW order \in Orders, NEW trade, WithinApproval(order, trade)
    PROVE  /\ Kept(order, trade)
           /\ \A q \in Nat \ {0} : (order.side = "BUY" /\ q <= order.qty)
                => [order EXCEPT !.qty = q] \in Orders /\ Kept([order EXCEPT !.qty = q], trade)
<1>1. Kept(order, trade)
  BY DEF WithinApproval, Kept
<1>2. ASSUME NEW q \in Nat \ {0}, order.side = "BUY", q <= order.qty
      PROVE  [order EXCEPT !.qty = q] \in Orders /\ Kept([order EXCEPT !.qty = q], trade)
  <2> DEFINE new == [order EXCEPT !.qty = q]
  <2>1. /\ new \in Orders /\ new.side = order.side /\ new.qty = q /\ new.limit = order.limit
        /\ order.qty \in Nat /\ order.limit \in Nat
    BY <1>2 DEF Orders
  <2> HIDE DEF new
  <2>2. q * order.limit <= order.qty * order.limit
    BY <1>2, <2>1
  <2>3. order.qty * order.limit <= MaxOrderNotional /\ order.side = trade.side
    BY <1>1 DEF Kept
  <2>4. new.qty * new.limit <= MaxOrderNotional
    BY <2>1, <2>2, <2>3, PricingAssumption
  <2>5. new.side # "SELL" /\ new.side = trade.side
    BY <1>2, <2>1, <2>3
  <2> QED
    BY <2>1, <2>4, <2>5 DEF Kept, new
<1> QED
  BY <1>1, <1>2

(* The priced sells go out. *)
LEMMA SubmitSellsStep == ASSUME PlanningInv, SubmitSells PROVE PlanningInv'
<1>1. ASSUME NEW t \in Tickers, priced[t] # NoOrder PROVE Kept(priced[t], plan[t])
  BY <1>1, ApprovedIsKept DEF PlanningInv, OrderInv, Approved
<1>2. sent' = priced /\ priced \in [Tickers -> Orders \cup {NoOrder}]
  BY DEF SubmitSells, PlanningInv, OrderInv
<1> QED
  BY <1>1, <1>2, SendStep DEF SubmitSells

(* Cash is never negative. *)
LEMMA RefreshedCashType == ASSUME PlanningInv, NEW c \in RefreshedCash PROVE c \in Nat
<1>1. PICK f \in Fills : c = input.cash + SumFunctionOnSet([t \in Sold |-> f[t] * sent[t].limit], Sold)
  BY DEF RefreshedCash
<1> DEFINE proceeds == [t \in Sold |-> f[t] * sent[t].limit]
<1>2. IsFiniteSet(Sold) /\ Sold \in SUBSET Sold
  BY PlanningAssumption, FS_Subset DEF Sold, OfSide
<1>3. ASSUME NEW t \in Sold PROVE proceeds[t] \in Int /\ proceeds[t] >= 0
  <2>1. t \in Tickers /\ sent[t].side = "SELL"
    BY DEF Sold, OfSide
  <2>2. sent[t] \in Orders
    BY <2>1 DEF PlanningInv, OrderInv, NoOrder
  <2>3. sent[t].limit \in Nat
    BY <2>2 DEF Orders
  <2>4. f[t] \in Nat
    <3>1. f \in [Sold -> UNION {0 .. sent[u].qty : u \in Sold}]
      BY DEF Fills
    <3>2. PICK u \in Sold : f[t] \in 0 .. sent[u].qty
      BY <3>1
    <3> QED
      BY <3>2
  <2> QED
    BY <2>3, <2>4
<1>4. proceeds \in [Sold -> Int]
  BY <1>3
<1>5. SumFunctionOnSet(proceeds, Sold) \in Int /\ SumFunctionOnSet(proceeds, Sold) >= 0
  <2> HIDE DEF proceeds
  <2> QED
    BY <1>2, <1>3, <1>4, SumRecursion, SumNatural
<1>6. input.cash \in Nat
  BY PlanningAssumption DEF PlanningInv, SnapshotInv, Inputs
<1> HIDE DEF proceeds
<1> QED
  BY <1>1, <1>5, <1>6 DEF proceeds

(* account_snapshot after the sells. *)
LEMMA RefreshCashStep == ASSUME PlanningInv, RefreshCash PROVE PlanningInv'
<1>1. /\ UNCHANGED plannerVars /\ plan' = plan /\ account' = account /\ blocked' = blocked
      /\ UNCHANGED <<phase, attempt, pending, unresolved, priced, sent, escalated>>
      /\ pc = "submit" /\ pc' = "fit" /\ funds' \in RefreshedCash
  BY DEF RefreshCash, plannerVars
<1>2. SnapshotInv' /\ PlanInv'
  BY <1>1, PlanStays
<1>3. ControlInv'
  BY <1>1, RefreshedCashType DEF PlanningInv, ControlInv
<1>4. GateInv'
  BY <1>1 DEF PlanningInv, GateInv
<1>5. OrderInv'
  BY <1>1 DEF PlanningInv, OrderInv, Approved, SentAsApproved
<1> QED
  BY <1>2, <1>3, <1>4, <1>5 DEF PlanningInv

(* The cash of the priced buys is a whole number. *)
LEMMA RequiredType ==
    ASSUME PlanningInv
    PROVE  /\ Required \in [Tickers -> Int] /\ BuyCashRequired \in Int /\ Shortfall \in Int
           /\ IsFiniteSet(Tickers) /\ OfSide(priced, "BUY") \in SUBSET Tickers
           /\ Shortfall = BuyCashRequired - funds /\ funds \in Int
<1>1. \A t \in Tickers : Required[t] \in Int
  BY DEF PlanningInv, OrderInv, Orders, NoOrder, Required
<1>2. Required \in [Tickers -> Int]
  <2>1. Required = [t \in Tickers |-> Required[t]]
    BY DEF Required
  <2> QED
    BY <1>1, <2>1
<1>3. IsFiniteSet(Tickers) /\ OfSide(priced, "BUY") \in SUBSET Tickers
  BY PlanningAssumption DEF OfSide
<1>4. BuyCashRequired \in Int
  BY <1>2, <1>3, SumRecursion DEF BuyCashRequired
<1>5. funds \in Int
  BY DEF PlanningInv, ControlInv
<1> QED
  BY <1>2, <1>3, <1>4, <1>5 DEF Shortfall

(* The cut of _trim_buys_to_cash covers the shortfall, and by less than a  *)
(* share more; at least one share of the buy is left.                      *)
LEMMA TrimLeavesShares ==
    ASSUME PlanningInv, NEW t \in Tickers, Trimmable(t)
    PROVE  /\ priced[t].qty - Cut(t) \in Nat \ {0} /\ priced[t].qty - Cut(t) <= priced[t].qty
           /\ Cut(t) \in Nat \ {0} /\ Cut(t) * priced[t].limit \in Int
           /\ Cut(t) * priced[t].limit >= Shortfall
           /\ Cut(t) * priced[t].limit < Shortfall + priced[t].limit
<1> DEFINE l == priced[t].limit
           s == Shortfall
           c == Cut(t)
<1>1. priced[t] \in Orders
  BY DEF PlanningInv, OrderInv, Trimmable, LargestBuy, NoOrder
<1>2. l \in Nat \ {0} /\ priced[t].qty \in Nat \ {0}
  BY <1>1 DEF Orders
<1>3. s \in Int /\ s > 0
  BY RequiredType DEF Trimmable
<1>4. c = (s + l - 1) \div l /\ c < priced[t].qty
  BY DEF Cut, Trimmable
<1> HIDE DEF l, s, c
<1>5. s + l - 1 \in Int
  BY <1>2, <1>3
<1>6. c \in Int /\ l * c <= s + l - 1 /\ s + l - 1 < l * c + l
  BY <1>2, <1>4, <1>5, DivisionBounds
<1>7. c * l = l * c /\ l * c \in Int
  BY <1>2, <1>6
<1>8. l * c >= s /\ l * c < s + l
  BY <1>2, <1>3, <1>6, <1>7
<1>9. c >= 1
  <2> SUFFICES ASSUME c <= 0 PROVE FALSE
    BY <1>6
  <2>1. l * c <= 0
    BY <1>2, <1>6
  <2> QED
    BY <1>3, <1>7, <1>8, <2>1
<1> QED
  BY <1>2, <1>4, <1>6, <1>7, <1>8, <1>9 DEF l, s, c

(* The priced buys go out, all of them or with one cut. *)
LEMMA SubmitBuysStep ==
    ASSUME PlanningInv, SubmitBuys \/ \E t \in Tickers : TrimBuys(t) PROVE PlanningInv'
<1>0. /\ UNCHANGED <<plannerVars, attempt, pending, unresolved, priced, funds, escalated>>
      /\ phase' = phase /\ pc = "fit" /\ pc' = "done"
  BY DEF SubmitBuys, TrimBuys, UnchangedByFit
<1>1. /\ sent \in [Tickers -> Orders \cup {NoOrder}] /\ priced \in [Tickers -> Orders \cup {NoOrder}]
      /\ \A t \in Tickers : priced[t] # NoOrder => Kept(priced[t], plan[t])
      /\ \A t \in Tickers : sent[t] # NoOrder => Kept(sent[t], plan[t])
  BY ApprovedIsKept DEF PlanningInv, OrderInv, Approved, SentAsApproved
<1>2. CASE SubmitBuys
  <2>1. \A t \in Tickers : sent'[t] = priced[t] \/ sent'[t] = sent[t]
    BY <1>2 DEF SubmitBuys, WithBuys
  <2>2. sent' \in [Tickers -> Orders \cup {NoOrder}]
    BY <1>1, <1>2 DEF SubmitBuys, WithBuys
  <2> QED
    BY <1>0, <1>1, <2>1, <2>2, SendStep
<1>3. ASSUME NEW u \in Tickers, TrimBuys(u) PROVE PlanningInv'
  <2> DEFINE q == priced[u].qty - Cut(u)
             new == [priced[u] EXCEPT !.qty = q]
  <2>1. priced[u] \in Orders /\ priced[u].side = "BUY"
    BY <1>1, <1>3 DEF TrimBuys, Trimmable, LargestBuy, NoOrder
  <2>2. q \in Nat \ {0} /\ q <= priced[u].qty
    BY <1>3, TrimLeavesShares DEF TrimBuys
  <2>3. new \in Orders /\ Kept(new, plan[u])
    <3>1. WithinApproval(priced[u], plan[u])
      BY <2>1 DEF PlanningInv, OrderInv, Approved, NoOrder
    <3> HIDE DEF q
    <3> QED
      BY <2>1, <2>2, <3>1, ApprovedIsKept
  <2>4. sent' = WithBuys([priced EXCEPT ![u] = new])
    BY <1>3 DEF TrimBuys
  <2> HIDE DEF new
  <2>5. \A t \in Tickers : [priced EXCEPT ![u] = new][t] = IF t = u THEN new ELSE priced[t]
    BY <1>1
  <2>6. \A t \in Tickers : sent'[t] = (IF t = u THEN new ELSE priced[t]) \/ sent'[t] = sent[t]
    BY <2>4, <2>5 DEF WithBuys
  <2>7. sent' \in [Tickers -> Orders \cup {NoOrder}]
    <3>1. \A t \in Tickers : sent'[t] \in Orders \cup {NoOrder}
      BY <1>1, <2>3, <2>6
    <3> QED
      BY <2>4, <3>1 DEF WithBuys
  <2>8. \A t \in Tickers : sent'[t] # NoOrder => Kept(sent'[t], plan[t])
    BY <1>1, <2>3, <2>6
  <2> QED
    BY <1>0, <2>7, <2>8, SendStep
<1> QED
  BY <1>2, <1>3

(* _fresh_replace_limit_price checks the ceiling at the price it crosses to. *)
LEMMA EscalatedLimitKeeps ==
    ASSUME NEW b, NEW order \in Orders, NEW q \in QuoteType, EscalatedLimit(b, order, q) # NoPrice
    PROVE  /\ EscalatedLimit(b, order, q) \in Nat \ {0}
           /\ order.qty * EscalatedLimit(b, order, q) <= MaxOrderNotional
<1> DEFINE crossing == IF order.side = "BUY" THEN q.ask ELSE q.bid
           improves == IF order.side = "BUY" THEN order.limit < crossing ELSE order.limit > crossing
           adverse == IF order.side = "BUY" THEN crossing - order.ref ELSE order.ref - crossing
           good == /\ SelectExecutionPrice(b, order.side, q, TRUE).price # NoPrice
                   /\ TwoSided(q) /\ ~SpreadExceeds(q, MaxSpreadBps)
                   /\ improves
                   /\ adverse * 10000 <= MaxAdverseBps * order.ref
                   /\ order.qty * crossing <= MaxOrderNotional
<1>1. EscalatedLimit(b, order, q) = IF good THEN crossing ELSE NoPrice
  BY DEF EscalatedLimit
<1>2. good => order.qty * crossing <= MaxOrderNotional
  OBVIOUS
<1>3. crossing \in Nat
  BY DEF QuoteType
<1> HIDE DEF crossing, good
<1>4. EscalatedLimit(b, order, q) = crossing /\ order.qty * crossing <= MaxOrderNotional
  BY <1>1, <1>2
<1>5. crossing \in Nat \ {0}
  BY <1>3, <1>4 DEF NoPrice
<1> QED
  BY <1>4, <1>5, Zenon

(* A replacement changes the limit of an order only. *)
LEMMA EscalateStep == ASSUME PlanningInv, NEW u \in Tickers, Escalate(u) PROVE PlanningInv'
<1>1. PICK q \in Quotes : /\ EscalatedLimit(basis, sent[u], q) # NoPrice
                          /\ sent' = [sent EXCEPT ![u].limit = EscalatedLimit(basis, sent[u], q)]
  BY DEF Escalate
<1> DEFINE limit == EscalatedLimit(basis, sent[u], q)
           new == [sent[u] EXCEPT !.limit = limit]
<1>2. /\ UNCHANGED plannerVars /\ plan' = plan /\ account' = account /\ priced' = priced
      /\ UNCHANGED <<pc, phase, attempt, pending, unresolved, funds>>
      /\ escalated' = escalated \cup {u} /\ pc = "done" /\ sent[u] # NoOrder
  BY DEF Escalate, plannerVars
<1>3. /\ sent \in [Tickers -> Orders \cup {NoOrder}]
      /\ sent[u] \in Orders /\ Kept(sent[u], plan[u]) /\ q \in QuoteType
  BY <1>2, PlanningAssumption DEF PlanningInv, OrderInv, SentAsApproved, QuoteType
<1>4. limit \in Nat \ {0} /\ sent[u].qty * limit <= MaxOrderNotional
  BY <1>1, <1>3, EscalatedLimitKeeps
<1>5. sent' = [sent EXCEPT ![u] = new]
  BY <1>1
<1> HIDE DEF limit
<1>6. /\ new \in Orders /\ new.side = sent[u].side /\ new.qty = sent[u].qty /\ new.ref = sent[u].ref
      /\ new.limit = limit
  BY <1>3, <1>4 DEF Orders
<1> HIDE DEF new
<1>7. Kept(new, plan[u])
  BY <1>3, <1>4, <1>6 DEF Kept
<1>8. SnapshotInv' /\ PlanInv'
  BY <1>2, PlanStays
<1>9. ControlInv'
  BY <1>2 DEF PlanningInv, ControlInv
<1>10. account.usable
  BY <1>2 DEF PlanningInv, GateInv
<1>11. GateInv'
  BY <1>2, <1>10 DEF GateInv
<1>12. OrderInv'
  <2>1. sent' \in [Tickers -> Orders \cup {NoOrder}]
    BY <1>3, <1>5, <1>6
  <2>2. ASSUME NEW t \in Tickers, sent'[t] # NoOrder
        PROVE  sent'[t] \in Orders /\ Kept(sent'[t], plan[t])
    <3>1. CASE t = u
      <4>1. sent'[t] = new
        BY <1>3, <1>5, <3>1
      <4> QED
        BY <1>6, <1>7, <3>1, <4>1
    <3>2. CASE t # u
      <4>1. sent'[t] = sent[t]
        BY <1>3, <1>5, <3>2
      <4> QED
        BY <2>2, <4>1 DEF PlanningInv, OrderInv, SentAsApproved
    <3> QED
      BY <3>1, <3>2
  <2> QED
    BY <1>2, <2>1, <2>2 DEF PlanningInv, OrderInv, Approved, SentAsApproved
<1> QED
  BY <1>8, <1>9, <1>11, <1>12 DEF PlanningInv

(* Every step keeps the invariant. *)
LEMMA PlanningStep == ASSUME PlanningInv, [Next]_vars PROVE PlanningInv'
<1>1. CASE ReadAccount
  BY <1>1, ReadAccountStep
<1>2. CASE BuildPlan
  BY <1>2, BuildPlanStep
<1>3. CASE StartPhase
  BY <1>3, StartPhaseStep
<1>4. CASE QuoteRound
  BY <1>4, QuoteRoundStep
<1>5. CASE Refresh
  BY <1>5, RefreshStep
<1>6. CASE NothingToQuote \/ QuotesUnavailable \/ BlockBuys \/ UNCHANGED vars
  BY <1>6, ControlStep
<1>7. CASE SubmitSells \/ RefreshCash \/ SubmitBuys \/ \E t \in Tickers : TrimBuys(t)
  BY <1>7, SubmitSellsStep, RefreshCashStep, SubmitBuysStep
<1>8. CASE \E t \in Tickers : Escalate(t)
  BY <1>8, EscalateStep
<1> QED
  BY <1>1, <1>2, <1>3, <1>4, <1>5, <1>6, <1>7, <1>8 DEF Next

(* The inductive invariant of a planned run: snapshot, plan, control, gate *)
(* and orders.                                                             *)
THEOREM PlanningInvariant == Spec => []PlanningInv
<1>1. Init => PlanningInv
  BY PlanningInit
<1>2. PlanningInv /\ [Next]_vars => PlanningInv'
  BY PlanningStep
<1> QED
  BY <1>1, <1>2, PTL DEF Spec

(* Whatever the account, the closes and the quotes, a planned trade and an *)
(* order have a positive whole size and a positive price (build_plan,      *)
(* apply_execution_quotes).                                                *)
THEOREM PlanningTypes == Spec => []TypeOK
<1>1. PlanningInv => TypeOK
  <2> SUFFICES ASSUME PlanningInv PROVE TypeOK
    OBVIOUS
  <2>1. \A t \in Tickers : plan[t] \in PlannedTrades \cup {NoTrade}
    BY DEF PlanningInv, PlanInv, SoundTrade
  <2>2. \A t \in Tickers : {priced[t], sent[t]} \subseteq Orders \cup {NoOrder}
    BY DEF PlanningInv, OrderInv
  <2> QED
    BY <2>1, <2>2 DEF PlanningInv, SnapshotInv, ControlInv, TypeOK
<1> QED
  BY <1>1, PlanningInvariant, PTL

(* No sell order is larger than the position the account holds, for every  *)
(* holding, mark, close and quote, through every repricing and escalation  *)
(* (generate_trades, rounded_execution_quantity, apply_execution_quotes).  *)
THEOREM SellsFitHoldings == Spec => []SellsStayWithinHoldings
<1>1. PlanningInv => SellsStayWithinHoldings
  <2> SUFFICES ASSUME PlanningInv, NEW t \in Tickers, sent[t].side = "SELL"
               PROVE  2 * sent[t].qty <= input.held[t]
    BY DEF SellsStayWithinHoldings
  <2>1. sent[t] # NoOrder
    BY DEF NoOrder
  <2>2. account.usable /\ account.held = input.held /\ Kept(sent[t], plan[t])
    BY <2>1 DEF PlanningInv, SnapshotInv, GateInv, OrderInv, SentAsApproved
  <2>3. plan[t].side = "SELL" /\ sent[t].qty = plan[t].qty
    BY <2>2 DEF Kept
  <2>4. 2 * plan[t].qty <= account.held[t]
    BY <2>3 DEF PlanningInv, PlanInv, SoundTrade, NoTrade
  <2> QED
    BY <2>2, <2>3, <2>4
<1> QED
  BY <1>1, PlanningInvariant, PTL

-----------------------------------------------------------------------------
(* The buys and the cash. *)

(* Only orders of the phase are priced, and buys go out last, as they were *)
(* priced or smaller.                                                      *)
PhaseInv ==
    /\ pc \in {"quote", "refresh", "submit", "fit"} =>
         \A t \in Tickers : priced[t] # NoOrder => plan[t].side = phase
    /\ pc = "fit" => phase = "BUY"
    /\ \A t \in Tickers : sent[t].side = "BUY" =>
         pc = "done" /\ priced[t].side = "BUY" /\ sent[t].qty <= priced[t].qty

FitInv == PhaseInv /\ TrimmedToCash

(* Initially nothing is priced or sent. *)
LEMMA FitInit == ASSUME Init PROVE FitInv
<1>1. \A t \in Tickers : priced[t] = NoOrder /\ sent[t] = NoOrder
  BY DEF Init, NoOrders
<1>2. OfSide(sent, "BUY") = {}
  BY <1>1 DEF OfSide, NoOrder
<1>3. pc = "account"
  BY DEF Init
<1> QED
  BY <1>1, <1>2, <1>3 DEF FitInv, PhaseInv, TrimmedToCash, NoOrder

(* The steps up to the cash. *)
LEMMA PhaseStep ==
    ASSUME PlanningInv, FitInv,
           ReadAccount \/ BuildPlan \/ StartPhase \/ QuoteRound \/ NothingToQuote \/ Refresh
           \/ QuotesUnavailable \/ SubmitSells \/ RefreshCash \/ BlockBuys
    PROVE  FitInv'
<1>1. pc # "done" /\ \A t \in Tickers : sent[t].side # "BUY"
  BY DEF FitInv, PhaseInv, ReadAccount, BuildPlan, StartPhase, QuoteRound, NothingToQuote, Refresh,
     QuotesUnavailable, SubmitSells, RefreshCash, BlockBuys
<1>2. ASSUME NEW t \in Tickers PROVE sent'[t].side # "BUY"
  <2>1. CASE SubmitSells
    <3>1. priced[t] = NoOrder \/ (priced[t].side = plan[t].side /\ plan[t].side = "SELL")
      BY <2>1 DEF FitInv, PhaseInv, SubmitSells, PlanningInv, OrderInv, Approved, WithinApproval
    <3> QED
      BY <2>1, <3>1 DEF SubmitSells, NoOrder
  <2>2. CASE ~SubmitSells
    <3>1. sent' = sent
      BY <2>2 DEF ReadAccount, BuildPlan, StartPhase, QuoteRound, NothingToQuote, Refresh,
         QuotesUnavailable, RefreshCash, BlockBuys
    <3> QED
      BY <1>1, <3>1
  <2> QED
    BY <2>1, <2>2
<1>3. TrimmedToCash'
  BY <1>2 DEF TrimmedToCash, OfSide
<1>4. PhaseInv'
  <2>1. CASE ReadAccount \/ BuildPlan \/ SubmitSells
    <3>1. pc' \in {"plan", "phase"}
      BY <2>1 DEF ReadAccount, BuildPlan, SubmitSells
    <3> QED
      BY <1>2, <3>1 DEF PhaseInv
  <2>2. CASE StartPhase
    <3>1. pc' = "quote" /\ \A t \in Tickers : priced'[t] = NoOrder
      BY <2>2 DEF StartPhase, NoOrders
    <3> QED
      BY <1>2, <3>1 DEF PhaseInv
  <2>3. CASE QuoteRound
    <3>1. /\ pc = "quote" /\ pc' \in {"quote", "refresh"} /\ plan' = plan /\ phase' = phase
          /\ \A t \in Tickers : t \notin pending => priced'[t] = priced[t]
      BY <2>3 DEF QuoteRound, plannerVars
    <3>2. \A t \in pending : plan[t].side = phase
      BY <3>1 DEF PlanningInv, ControlInv, OfSide
    <3>3. \A t \in Tickers : priced'[t] # NoOrder => plan[t].side = phase
      BY <3>1, <3>2 DEF FitInv, PhaseInv
    <3> QED
      BY <1>2, <3>1, <3>3 DEF PhaseInv
  <2>4. CASE Refresh
    <3>1. /\ pc = "refresh" /\ pc' = "submit" /\ plan' = plan /\ phase' = phase
          /\ \A t \in Tickers : t \notin Originals => priced'[t] = priced[t]
      BY <2>4 DEF Refresh, plannerVars
    <3>2. \A t \in Originals : plan[t].side = phase
      BY DEF Originals, InPhase
    <3>3. \A t \in Tickers : priced'[t] # NoOrder => plan[t].side = phase
      BY <3>1, <3>2 DEF FitInv, PhaseInv
    <3> QED
      BY <1>2, <3>1, <3>3 DEF PhaseInv
  <2>5. CASE NothingToQuote \/ QuotesUnavailable \/ RefreshCash \/ BlockBuys
    <3>1. /\ plan' = plan /\ phase' = phase /\ priced' = priced
          /\ \/ pc' = "done"
             \/ pc = "quote" /\ pc' = "refresh"
             \/ pc = "submit" /\ pc' = "fit" /\ phase = "BUY"
      BY <2>5 DEF NothingToQuote, QuotesUnavailable, RefreshCash, BlockBuys, UnchangedByFit, plannerVars
    <3> QED
      BY <1>2, <3>1 DEF FitInv, PhaseInv
  <2> QED
    BY <2>1, <2>2, <2>3, <2>4, <2>5
<1> QED
  BY <1>3, <1>4 DEF FitInv

(* The buys that go out are the priced ones, beside the sells. *)
LEMMA BuysGoOut ==
    ASSUME PlanningInv, FitInv, pc = "fit", NEW buys, sent' = WithBuys(buys),
           \A t \in Tickers : buys[t] # NoOrder <=> priced[t] # NoOrder,
           \A t \in Tickers : buys[t].side = priced[t].side
    PROVE  /\ \A t \in Tickers : sent'[t].side = "BUY" <=> priced[t].side = "BUY"
           /\ \A t \in Tickers : priced[t].side = "BUY" => sent'[t] = buys[t]
           /\ OfSide(sent', "BUY") = OfSide(priced, "BUY")
<1>1. ASSUME NEW t \in Tickers
      PROVE  /\ sent'[t].side = "BUY" <=> priced[t].side = "BUY"
             /\ priced[t].side = "BUY" => sent'[t] = buys[t]
  <2>1. sent'[t] = IF priced[t] # NoOrder THEN buys[t] ELSE sent[t]
    BY DEF WithBuys
  <2>2. sent[t].side # "BUY"
    BY DEF FitInv, PhaseInv
  <2>3. priced[t] # NoOrder => priced[t].side = "BUY"
    BY DEF FitInv, PhaseInv, PlanningInv, OrderInv, Approved, WithinApproval
  <2>4. NoOrder.side # "BUY"
    BY DEF NoOrder
  <2>5. buys[t].side = priced[t].side
    OBVIOUS
  <2> QED
    BY <2>1, <2>2, <2>3, <2>4, <2>5
<1>2. OfSide(sent', "BUY") = OfSide(priced, "BUY")
  BY <1>1 DEF OfSide
<1> QED
  BY <1>1, <1>2

(* All buys go out when the cash covers them. *)
LEMMA SubmitBuysFit == ASSUME PlanningInv, FitInv, SubmitBuys PROVE FitInv'
<1> DEFINE B == OfSide(priced, "BUY")
<1>0. /\ pc = "fit" /\ pc' = "done" /\ Shortfall <= 0 /\ sent' = WithBuys(priced)
      /\ priced' = priced /\ funds' = funds
  BY DEF SubmitBuys, UnchangedByFit
<1>1. /\ \A t \in Tickers : sent'[t].side = "BUY" <=> priced[t].side = "BUY"
      /\ \A t \in Tickers : priced[t].side = "BUY" => sent'[t] = priced[t]
      /\ OfSide(sent', "BUY") = B
  BY <1>0, BuysGoOut
<1>2. \A t \in Tickers : priced[t].side = "BUY" => priced[t].qty \in Nat
  BY DEF PlanningInv, OrderInv, Orders, NoOrder
<1>3. PhaseInv'
  BY <1>0, <1>1, <1>2 DEF PhaseInv
<1>4. SentBuyCash' = BuyCashRequired
  <2> DEFINE F == [t \in Tickers |-> sent'[t].qty * priced[t].limit]
  <2>1. F \in [Tickers -> Int]
    <3>1. PlanningInv'
      BY SubmitBuysStep
    <3>2. \A t \in Tickers : sent'[t].qty \in Int /\ priced[t].limit \in Int
      BY <3>1 DEF PlanningInv, OrderInv, Orders, NoOrder
    <3> QED
      BY <3>2
  <2>2. \A t \in B : F[t] = Required[t]
    BY <1>1 DEF OfSide, Required
  <2>3. SentBuyCash' = SumFunctionOnSet(F, B)
    BY <1>0, <1>1 DEF SentBuyCash
  <2> HIDE DEF F, B
  <2>4. SumFunctionOnSet(F, B) = SumFunctionOnSet(Required, B)
    BY <2>1, <2>2, RequiredType, SumSame DEF B
  <2> QED
    BY <2>3, <2>4 DEF BuyCashRequired, B
<1>5. SentBuyCash' <= funds'
  BY <1>0, <1>4, RequiredType
<1>6. \A t \in B : ~(sent'[t].qty < priced'[t].qty)
  BY <1>0, <1>1, <1>2 DEF OfSide
<1>7. TrimmedToCash'
  BY <1>1, <1>5, <1>6 DEF TrimmedToCash
<1> QED
  BY <1>3, <1>7 DEF FitInv

(* What goes out after a trim costs the cut less. *)
LEMMA TrimmedCost ==
    ASSUME PlanningInv, FitInv, NEW u \in Tickers, TrimBuys(u)
    PROVE  /\ OfSide(sent', "BUY") = OfSide(priced, "BUY")
           /\ sent'[u].qty = priced[u].qty - Cut(u)
           /\ \A t \in OfSide(priced, "BUY") \ {u} : sent'[t] = priced[t]
           /\ SentBuyCash' = BuyCashRequired - Cut(u) * priced[u].limit
<1> DEFINE B == OfSide(priced, "BUY")
           new == [priced[u] EXCEPT !.qty = priced[u].qty - Cut(u)]
           buys == [priced EXCEPT ![u] = new]
           F == [t \in Tickers |-> sent'[t].qty * priced[t].limit]
<1>0. /\ pc = "fit" /\ priced' = priced /\ sent' = WithBuys(buys) /\ Trimmable(u)
  BY DEF TrimBuys, UnchangedByFit
<1>1. /\ priced \in [Tickers -> Orders \cup {NoOrder}] /\ priced[u] \in Orders
      /\ priced[u].side = "BUY"
  BY <1>0 DEF PlanningInv, OrderInv, Trimmable, LargestBuy, NoOrder
<1>2. new.side = "BUY" /\ new.qty = priced[u].qty - Cut(u)
  BY <1>1 DEF Orders
<1> HIDE DEF new
<1>3. \A t \in Tickers : buys[t] = IF t = u THEN new ELSE priced[t]
  BY <1>1
<1> HIDE DEF buys
<1>4. /\ \A t \in Tickers : buys[t] # NoOrder <=> priced[t] # NoOrder
      /\ \A t \in Tickers : buys[t].side = priced[t].side
  <2>1. new # NoOrder /\ priced[u] # NoOrder
    BY <1>1, <1>2 DEF NoOrder
  <2> QED
    BY <1>1, <1>2, <1>3, <2>1
<1>5. /\ OfSide(sent', "BUY") = B
      /\ \A t \in Tickers : priced[t].side = "BUY" => sent'[t] = buys[t]
  BY <1>0, <1>4, BuysGoOut
<1>6. u \in B /\ sent'[u] = new /\ \A t \in B \ {u} : sent'[t] = priced[t]
  BY <1>1, <1>3, <1>5 DEF OfSide
<1>7. F \in [Tickers -> Int]
  <2>1. PlanningInv'
    BY SubmitBuysStep
  <2>2. \A t \in Tickers : sent'[t].qty \in Int /\ priced[t].limit \in Int
    BY <1>0, <2>1 DEF PlanningInv, OrderInv, Orders, NoOrder
  <2> QED
    BY <2>2
<1>8. SentBuyCash' = SumFunctionOnSet(F, B)
  BY <1>0, <1>5 DEF SentBuyCash
<1>9. F[u] = (priced[u].qty - Cut(u)) * priced[u].limit /\ Required[u] = priced[u].qty * priced[u].limit
  BY <1>2, <1>6 DEF Required
<1>10. B \ {u} \subseteq Tickers /\ \A t \in B \ {u} : F[t] = Required[t]
  BY <1>6 DEF Required, OfSide
<1> HIDE DEF F, B
<1>11. /\ SumFunctionOnSet(F, B) = F[u] + SumFunctionOnSet(F, B \ {u})
       /\ BuyCashRequired = Required[u] + SumFunctionOnSet(Required, B \ {u})
  BY <1>6, <1>7, RequiredType, SumRemove DEF B, BuyCashRequired
<1>12. SumFunctionOnSet(F, B \ {u}) = SumFunctionOnSet(Required, B \ {u})
  BY <1>7, <1>10, RequiredType, SumSame
<1>13. SumFunctionOnSet(Required, B \ {u}) \in Int
  BY <1>10, RequiredType, SumRecursion
<1>14. /\ Cut(u) \in Int /\ priced[u].qty \in Int /\ priced[u].limit \in Int
  BY <1>0, <1>1, TrimLeavesShares DEF Orders
<1>15. (priced[u].qty - Cut(u)) * priced[u].limit
          = priced[u].qty * priced[u].limit - Cut(u) * priced[u].limit
  BY <1>14
<1>16. priced[u].qty * priced[u].limit \in Int /\ Cut(u) * priced[u].limit \in Int
  BY <1>14
<1>17. SentBuyCash' = BuyCashRequired - Cut(u) * priced[u].limit
  BY <1>8, <1>9, <1>11, <1>12, <1>13, <1>15, <1>16
<1> QED
  BY <1>2, <1>5, <1>6, <1>17 DEF B

(* A trimmed batch fits the cash, and would not with one share more. *)
LEMMA TrimBuysFit == ASSUME PlanningInv, FitInv, NEW u \in Tickers, TrimBuys(u) PROVE FitInv'
<1> DEFINE cut == Cut(u) * priced[u].limit
           need == BuyCashRequired
<1>0. /\ pc' = "done" /\ priced' = priced /\ funds' = funds /\ Trimmable(u)
      /\ Shortfall * TrimDivisor <= need
  BY DEF TrimBuys, UnchangedByFit, Trimmable
<1>1. /\ OfSide(sent', "BUY") = OfSide(priced, "BUY") /\ sent'[u].qty = priced[u].qty - Cut(u)
      /\ \A t \in OfSide(priced, "BUY") \ {u} : sent'[t] = priced[t]
      /\ SentBuyCash' = need - cut
  BY TrimmedCost
<1>2. /\ cut \in Int /\ cut >= Shortfall /\ cut < Shortfall + priced[u].limit
      /\ sent'[u].qty <= priced[u].qty
  BY <1>0, <1>1, TrimLeavesShares
<1>3. need \in Int /\ Shortfall = need - funds /\ funds \in Int
  BY RequiredType
<1>4. /\ priced[u].limit \in Int /\ priced[u].side = "BUY"
      /\ \A t \in Tickers : priced[t].side = "BUY" => priced[t].qty \in Nat
  BY <1>0 DEF PlanningInv, OrderInv, Orders, NoOrder, Trimmable, LargestBuy
<1> HIDE DEF cut, need
<1>5. SentBuyCash' <= funds' /\ SentBuyCash' + priced'[u].limit > funds'
  BY <1>0, <1>1, <1>2, <1>3, <1>4
<1>6. funds' * TrimDivisor >= need * (TrimDivisor - 1)
  BY <1>0, <1>3 DEF TrimDivisor
<1>7. BuyCashRequired' = need
  BY <1>0 DEF BuyCashRequired, Required, need
<1>8. \A t \in OfSide(priced, "BUY") : sent'[t].qty < priced[t].qty => t = u
  BY <1>1, <1>4 DEF OfSide
<1>9. \A t \in OfSide(priced, "BUY") : sent'[t].qty <= priced[t].qty
  BY <1>1, <1>2, <1>4 DEF OfSide
<1>10. PhaseInv'
  <2>1. \A t \in Tickers : sent'[t].side = "BUY" => t \in OfSide(priced, "BUY")
    BY <1>1 DEF OfSide
  <2>2. \A t \in OfSide(priced, "BUY") : priced[t].side = "BUY"
    BY DEF OfSide
  <2> QED
    BY <1>0, <1>9, <2>1, <2>2 DEF PhaseInv
<1>11. TrimmedToCash'
  BY <1>0, <1>1, <1>5, <1>6, <1>7, <1>8 DEF TrimmedToCash
<1> QED
  BY <1>10, <1>11 DEF FitInv

(* An escalation changes neither shares nor sides. *)
LEMMA EscalateFit == ASSUME PlanningInv, FitInv, NEW u \in Tickers, Escalate(u) PROVE FitInv'
<1>1. PICK q \in Quotes : sent' = [sent EXCEPT ![u].limit = EscalatedLimit(basis, sent[u], q)]
  BY DEF Escalate
<1>2. /\ pc = "done" /\ pc' = "done" /\ priced' = priced /\ funds' = funds /\ phase' = phase
  BY DEF Escalate
<1>3. sent \in [Tickers -> Orders \cup {NoOrder}] /\ sent[u] \in Orders
  BY DEF PlanningInv, OrderInv, Escalate
<1>4. \A t \in Tickers : sent'[t].side = sent[t].side /\ sent'[t].qty = sent[t].qty
  <2> DEFINE new == [sent[u] EXCEPT !.limit = EscalatedLimit(basis, sent[u], q)]
  <2>1. new.side = sent[u].side /\ new.qty = sent[u].qty
    BY <1>3 DEF Orders
  <2>2. sent' = [sent EXCEPT ![u] = new]
    BY <1>1
  <2> HIDE DEF new
  <2> QED
    BY <1>3, <2>1, <2>2
<1>5. OfSide(sent', "BUY") = OfSide(sent, "BUY")
  BY <1>4 DEF OfSide
<1>6. SentBuyCash' = SentBuyCash
  <2>1. [t \in Tickers |-> sent'[t].qty * priced'[t].limit] = [t \in Tickers |-> sent[t].qty * priced[t].limit]
    BY <1>2, <1>4
  <2> QED
    BY <1>5, <2>1 DEF SentBuyCash
<1>7. BuyCashRequired' = BuyCashRequired
  BY <1>2 DEF BuyCashRequired, Required
<1>8. PhaseInv'
  BY <1>2, <1>4 DEF FitInv, PhaseInv
<1>9. TrimmedToCash'
  <2>1. OfSide(sent, "BUY") \subseteq Tickers /\ OfSide(priced, "BUY") \subseteq Tickers
    BY DEF OfSide
  <2> QED
    BY <1>2, <1>4, <1>5, <1>6, <1>7, <2>1 DEF FitInv, TrimmedToCash
<1> QED
  BY <1>8, <1>9 DEF FitInv

(* Every step keeps the buys within the cash. *)
LEMMA FitStep == ASSUME PlanningInv, FitInv, [Next]_vars PROVE FitInv'
<1>1. CASE UNCHANGED vars
  BY <1>1 DEF vars, plannerVars, FitInv, PhaseInv, TrimmedToCash, SentBuyCash, BuyCashRequired, Required, OfSide
<1>2. CASE Next
  BY <1>2, PhaseStep, SubmitBuysFit, TrimBuysFit, EscalateFit DEF Next
<1> QED
  BY <1>1, <1>2

(* For any tickers, quotes, fills of the sells and cash: an order that     *)
(* goes out keeps the approved shares of a sell, or was priced within half *)
(* a share of the approved notional of a buy, within the order ceiling     *)
(* (apply_execution_quotes, _fresh_replace_limit_price); and the buys      *)
(* together fit the cash the broker reports after the sells, at most one   *)
(* of them cut, by no affordable share, and only for a shortfall of a      *)
(* twentieth (_fit_buys_to_refreshed_cash, _trim_buys_to_cash).            *)
THEOREM ApprovedSizes == Spec => []ApprovedSizeIsKept
<1>1. Init => FitInv
  BY FitInit
<1>2. PlanningInv /\ FitInv /\ [Next]_vars => FitInv'
  BY FitStep
<1>3. PlanningInv /\ FitInv => ApprovedSizeIsKept
  <2> SUFFICES ASSUME PlanningInv, FitInv, NEW t \in Tickers, sent[t] # NoOrder
               PROVE  LET drift == priced[t].qty * priced[t].ref - plan[t].notional
                      IN /\ sent[t].side = "SELL" => sent[t].qty = plan[t].qty
                         /\ sent[t].side = "BUY" => /\ 2 * Greatest(drift, -drift) <= priced[t].ref
                                                    /\ sent[t].qty <= priced[t].qty
                         /\ sent[t].qty * sent[t].limit <= MaxOrderNotional
    BY DEF ApprovedSizeIsKept, PricedAsApproved, FitInv
  <2>1. Kept(sent[t], plan[t])
    BY DEF PlanningInv, OrderInv, SentAsApproved
  <2>2. sent[t].side = "BUY" =>
          /\ priced[t].side = "BUY" /\ sent[t].qty <= priced[t].qty /\ WithinApproval(priced[t], plan[t])
    BY DEF FitInv, PhaseInv, PlanningInv, OrderInv, Approved, NoOrder
  <2> QED
    BY <2>1, <2>2 DEF Kept, WithinApproval
<1> QED
  BY <1>1, <1>2, <1>3, PlanningInvariant, PTL DEF Spec

-----------------------------------------------------------------------------
(* Rounding and the cash. *)

(* The cash of a trade, as NetBuyCash adds it up. *)
CashOf(trades) == [t \in Tickers |-> trades[t].qty * LimitOf(trades[t])]

(* What rounding each buy down would save. *)
Savings == [t \in Tickers |-> IF Rounded[t].side = "BUY" THEN Saving(Rounded[t], t) ELSE 0]

(* The cash of a trade is an integer. *)
LEMMA CashType ==
    ASSUME NEW trades, \A t \in Tickers : trades[t] = NoTrade \/ SoundTrade(trades[t], t)
    PROVE  CashOf(trades) \in [Tickers -> Int]
<1>1. ASSUME NEW t \in Tickers PROVE trades[t].qty * LimitOf(trades[t]) \in Int
  <2>1. trades[t].qty \in Nat /\ trades[t].ref \in Nat
    BY DEF NoTrade, SoundTrade, PlannedTrades
  <2>2. LimitOf(trades[t]) \in Int
    BY <2>1, BuildLimitType, PricingAssumption DEF LimitOf
  <2> QED
    BY <2>1, <2>2
<1> QED
  BY <1>1 DEF CashOf

(* A saving is never negative, and nothing where no share was rounded up. *)
LEMMA SavingsType ==
    ASSUME input \in Inputs, account \in Accounts
    PROVE  /\ Savings \in [Tickers -> Int]
           /\ \A t \in Tickers : Savings[t] >= 0
           /\ \A t \in OfSide(Rounded, "BUY") \ RoundUps(Rounded) : Savings[t] = 0
<1>1. ASSUME NEW t \in Tickers, Rounded[t].side = "BUY"
      PROVE  /\ Saving(Rounded[t], t) \in Int /\ Saving(Rounded[t], t) >= 0
             /\ t \notin RoundUps(Rounded) => Saving(Rounded[t], t) = 0
  <2> DEFINE trade == Rounded[t]
             limit == LimitOf(trade)
             shares == FloorOf(t)
  <2>1. SoundTrade(trade, t)
    <3>1. trade = Trade(t) /\ trade # NoTrade
      BY <1>1 DEF Rounded, NoTrade
    <3> QED
      BY <3>1, TradeIsSound
  <2>2. trade.qty \in Nat /\ trade.ref \in Nat /\ shares \in Nat /\ shares <= trade.qty
    BY <1>1, <2>1 DEF SoundTrade, PlannedTrades
  <2>3. limit \in Nat
    BY <1>1, <2>2, BuildLimitType, PricingAssumption DEF LimitOf
  <2>4. t \notin RoundUps(Rounded) => ~(shares < trade.qty)
    BY <1>1 DEF RoundUps, OfSide
  <2> HIDE DEF trade, limit, shares
  <2>5. trade.qty - shares \in Nat
    BY <2>2
  <2>6. (trade.qty - shares) * limit \in Nat
    BY <2>3, <2>5
  <2>7. t \notin RoundUps(Rounded) => (trade.qty - shares) * limit = 0
    <3> SUFFICES ASSUME t \notin RoundUps(Rounded) PROVE (trade.qty - shares) * limit = 0
      OBVIOUS
    <3>1. trade.qty - shares = 0
      BY <2>2, <2>4
    <3>2. 0 * limit = 0
      BY <2>3
    <3> QED
      BY <3>1, <3>2
  <2>8. Saving(Rounded[t], t) = (trade.qty - shares) * limit
    BY DEF Saving, trade, limit, shares
  <2> QED
    BY <2>6, <2>7, <2>8
<1>2. \A t \in Tickers : /\ Rounded[t].side = "BUY" => Savings[t] = Saving(Rounded[t], t)
                         /\ Rounded[t].side # "BUY" => Savings[t] = 0
  BY DEF Savings
<1>3. \A t \in Tickers : Savings[t] \in Int /\ Savings[t] >= 0
  BY <1>1, <1>2
<1>4. Savings \in [Tickers -> Int]
  BY <1>3 DEF Savings
<1>5. \A t \in OfSide(Rounded, "BUY") \ RoundUps(Rounded) : Savings[t] = 0
  BY <1>1, <1>2 DEF OfSide
<1> QED
  BY <1>3, <1>4, <1>5

(* What a demotion does to the cash of one trade. *)
LEMMA DemotedCash ==
    ASSUME input \in Inputs, account \in Accounts, NEW S \in SUBSET OfSide(Rounded, "BUY"), NEW t \in S
    PROVE  LET new == DemoteAll(Rounded, S)[t]
           IN /\ new = NoTrade \/ new.side = "BUY"
              /\ new.qty * LimitOf(new) = Rounded[t].qty * LimitOf(Rounded[t]) - Savings[t]
<1> DEFINE old == Rounded[t]
           new == DemoteAll(Rounded, S)[t]
           shares == FloorOf(t)
           limit == LimitOf(old)
<1>0. t \in Tickers /\ old.side = "BUY"
  BY DEF OfSide
<1>1. SoundTrade(old, t)
  <2>1. old = Trade(t) /\ old # NoTrade
    BY <1>0 DEF Rounded, NoTrade
  <2> QED
    BY <1>0, <2>1, TradeIsSound
<1>2. new = Demote(old, shares)
  BY <1>0 DEF DemoteAll
<1>3. old.qty \in Nat /\ old.ref \in Nat /\ shares \in Nat /\ limit \in Int
  <2>1. old.qty \in Nat /\ old.ref \in Nat /\ shares \in Nat
    BY <1>0, <1>1 DEF SoundTrade, PlannedTrades
  <2> QED
    BY <2>1, BuildLimitType, PricingAssumption DEF LimitOf
<1>4. Savings[t] = (old.qty - shares) * limit
  BY <1>0 DEF Savings, Saving
<1>5. (old.qty - shares) * limit = old.qty * limit - shares * limit
  <2> HIDE DEF old, shares, limit
  <2> QED
    BY <1>3
<1>6. CASE new = NoTrade
  <2>1. ~(shares > 0)
    <3> SUFFICES ASSUME shares > 0 PROVE FALSE
      OBVIOUS
    <3>1. new = [old EXCEPT !.qty = shares, !.notional = shares * old.ref]
      BY <1>2, <1>3 DEF Demote
    <3>2. new.side = "BUY"
      BY <1>0, <1>1, <3>1 DEF SoundTrade, PlannedTrades
    <3> QED
      BY <1>6, <3>2 DEF NoTrade
  <2>2. shares = 0
    BY <1>3, <2>1
  <2>3. new.qty * LimitOf(new) = 0
    <3>1. new.qty = 0 /\ new.ref = 0
      BY <1>6 DEF NoTrade
    <3>2. LimitOf(new) \in Int
      BY <3>1, BuildLimitType, PricingAssumption DEF LimitOf
    <3> QED
      BY <3>1, <3>2
  <2> HIDE DEF old, new, shares, limit
  <2>4. old.qty * limit - shares * limit = old.qty * limit /\ old.qty * limit \in Int
    BY <1>3, <2>2
  <2>5. old.qty * limit - Savings[t] = 0
    BY <1>4, <1>5, <2>4
  <2> QED
    BY <1>6, <2>3, <2>5 DEF old, new, limit
<1>7. CASE new # NoTrade
  <2>1. new = [old EXCEPT !.qty = shares, !.notional = shares * old.ref]
    BY <1>0, <1>1, <1>2, <1>7, DemoteIsSound
  <2>2. new.side = old.side /\ new.ref = old.ref /\ new.qty = shares
    BY <1>1, <2>1 DEF SoundTrade, PlannedTrades
  <2>3. LimitOf(new) = limit
    BY <2>2 DEF LimitOf
  <2> HIDE DEF old, new, shares, limit
  <2>4. old.qty * limit \in Int /\ shares * limit \in Int
    BY <1>3
  <2>5. shares * limit = old.qty * limit - Savings[t]
    BY <1>4, <1>5, <2>4
  <2> QED
    BY <1>0, <2>2, <2>3, <2>5 DEF old, new, limit
<1> QED
  BY <1>6, <1>7

(* A plan with some buys rounded down needs less cash by their savings. *)
LEMMA NetOfDemoted ==
    ASSUME input \in Inputs, account \in Accounts, NEW S \in SUBSET OfSide(Rounded, "BUY")
    PROVE  NetBuyCash(DemoteAll(Rounded, S)) = NetBuyCash(Rounded) - SumFunctionOnSet(Savings, S)
<1> DEFINE new == DemoteAll(Rounded, S)
           c0 == CashOf(Rounded)
           c1 == CashOf(new)
           B == OfSide(Rounded, "BUY")
           B1 == OfSide(new, "BUY")
           L == OfSide(Rounded, "SELL")
           saved == [t \in Tickers |-> IF t \in S THEN Savings[t] ELSE 0]
<1>0. IsFiniteSet(Tickers) /\ B \in SUBSET Tickers /\ L \in SUBSET Tickers /\ S \in SUBSET Tickers
  BY PlanningAssumption DEF OfSide
<1>1. c0 \in [Tickers -> Int] /\ c1 \in [Tickers -> Int]
  <2>1. \A t \in Tickers : Rounded[t] = NoTrade \/ SoundTrade(Rounded[t], t)
    BY TradeIsSound DEF Rounded
  <2>2. \A t \in Tickers : new[t] = NoTrade \/ SoundTrade(new[t], t)
    BY BuiltPlan
  <2> QED
    BY <2>1, <2>2, CashType
<1>2. Savings \in [Tickers -> Int] /\ saved \in [Tickers -> Int]
  <2>1. Savings \in [Tickers -> Int]
    BY SavingsType
  <2> QED
    BY <2>1
<1>3. \A t \in Tickers \ S : new[t] = Rounded[t] /\ c1[t] = c0[t]
  <2>1. \A t \in Tickers \ S : new[t] = Rounded[t]
    BY DEF DemoteAll
  <2> HIDE DEF new
  <2> QED
    BY <2>1 DEF CashOf
<1>4. \A t \in S : (new[t] = NoTrade \/ new[t].side = "BUY") /\ c1[t] = c0[t] - Savings[t]
  <2> SUFFICES ASSUME NEW t \in S
               PROVE  (new[t] = NoTrade \/ new[t].side = "BUY") /\ c1[t] = c0[t] - Savings[t]
    OBVIOUS
  <2>1. /\ new[t] = NoTrade \/ new[t].side = "BUY"
        /\ new[t].qty * LimitOf(new[t]) = Rounded[t].qty * LimitOf(Rounded[t]) - Savings[t]
    BY DemotedCash
  <2>2. t \in Tickers
    BY <1>0
  <2> HIDE DEF new
  <2>3. c1[t] = new[t].qty * LimitOf(new[t]) /\ c0[t] = Rounded[t].qty * LimitOf(Rounded[t])
    BY <2>2 DEF CashOf
  <2> QED
    BY <2>1, <2>3
<1>5. NetBuyCash(Rounded) = SumFunctionOnSet(c0, B) - SumFunctionOnSet(c0, L)
  BY DEF NetBuyCash, CashOf
<1>6. NetBuyCash(new) = SumFunctionOnSet(c1, B1) - SumFunctionOnSet(c1, OfSide(new, "SELL"))
  BY DEF NetBuyCash, CashOf
<1>7. S \subseteq B /\ L \cap S = {}
  BY DEF OfSide
<1>8. \A t \in Tickers : t \in B <=> Rounded[t].side = "BUY"
  BY DEF OfSide
<1>9. \A t \in Tickers : t \in B1 <=> new[t].side = "BUY"
  BY DEF OfSide
<1>10. \A t \in Tickers : /\ t \in L <=> Rounded[t].side = "SELL"
                          /\ t \in OfSide(new, "SELL") <=> new[t].side = "SELL"
  BY DEF OfSide
<1>11. B1 \subseteq Tickers /\ OfSide(new, "SELL") \subseteq Tickers
  BY DEF OfSide
<1>12. OfSide(new, "SELL") = L
  <2>1. \A t \in S : new[t].side # "SELL" /\ Rounded[t].side # "SELL"
    BY <1>4, <1>7, <1>8, <1>0 DEF NoTrade
  <2> HIDE DEF new, L, B
  <2> QED
    BY <1>0, <1>3, <1>10, <1>11, <2>1
<1>13. B1 \subseteq B /\ \A t \in B \ B1 : new[t] = NoTrade /\ t \in S
  <2> HIDE DEF new, B, B1
  <2> QED
    BY <1>0, <1>3, <1>4, <1>7, <1>8, <1>9, <1>11
<1>14. \A t \in B \ B1 : c1[t] = 0
  <2> SUFFICES ASSUME NEW t \in B \ B1 PROVE c1[t] = 0
    OBVIOUS
  <2>1. new[t] = NoTrade /\ t \in Tickers
    BY <1>0, <1>13
  <2>2. c1[t] = NoTrade.qty * LimitOf(NoTrade)
    <3> HIDE DEF new
    <3> QED
      BY <2>1 DEF CashOf
  <2>3. NoTrade.qty = 0 /\ NoTrade.ref = 0
    BY DEF NoTrade
  <2>4. LimitOf(NoTrade) \in Int
    BY <2>3, BuildLimitType, PricingAssumption DEF LimitOf
  <2> QED
    BY <2>2, <2>3, <2>4
<1> HIDE DEF c0, c1, B, B1, L, new
<1>15. SumFunctionOnSet(c1, B) = SumFunctionOnSet(c1, B1)
  <2>1. SumFunctionOnSet(c1, B) = SumFunctionOnSet(c1, B1) + SumFunctionOnSet(c1, B \ B1)
    BY <1>0, <1>1, <1>13, SumSplit
  <2>2. SumFunctionOnSet(c1, B \ B1) = 0
    BY <1>0, <1>1, <1>14, SumZero
  <2>3. SumFunctionOnSet(c1, B1) \in Int
    BY <1>0, <1>1, <1>11, SumRecursion
  <2> QED
    BY <2>1, <2>2, <2>3
<1>16. SumFunctionOnSet(c0, B) = SumFunctionOnSet(c1, B) + SumFunctionOnSet(saved, B)
  <2>1. \A t \in B : c0[t] = c1[t] + saved[t]
    <3> SUFFICES ASSUME NEW t \in B PROVE c0[t] = c1[t] + saved[t]
      OBVIOUS
    <3>0. t \in Tickers /\ c0[t] \in Int /\ c1[t] \in Int /\ Savings[t] \in Int
      BY <1>0, <1>1, <1>2
    <3>1. CASE t \in S
      <4>1. saved[t] = Savings[t] /\ c1[t] = c0[t] - Savings[t]
        BY <1>4, <3>0, <3>1
      <4> QED
        BY <3>0, <4>1
    <3>2. CASE t \notin S
      <4>1. saved[t] = 0 /\ c1[t] = c0[t]
        BY <1>3, <3>0, <3>2
      <4> QED
        BY <3>0, <4>1
    <3> QED
      BY <3>1, <3>2
  <2> HIDE DEF saved
  <2> QED
    BY <1>0, <1>1, <1>2, <2>1, SumAdd
<1>17. SumFunctionOnSet(saved, B) = SumFunctionOnSet(Savings, S)
  <2>1. (\A t \in B \ S : saved[t] = 0) /\ (\A t \in S : saved[t] = Savings[t])
    BY <1>0
  <2> HIDE DEF saved
  <2>2. SumFunctionOnSet(saved, B) = SumFunctionOnSet(saved, S) + SumFunctionOnSet(saved, B \ S)
    BY <1>0, <1>2, <1>7, SumSplit
  <2>3. SumFunctionOnSet(saved, B \ S) = 0
    BY <1>0, <1>2, <2>1, SumZero
  <2>4. SumFunctionOnSet(saved, S) = SumFunctionOnSet(Savings, S)
    BY <1>0, <1>2, <2>1, SumSame
  <2>5. SumFunctionOnSet(saved, S) \in Int
    BY <1>0, <1>2, SumRecursion
  <2> QED
    BY <2>2, <2>3, <2>4, <2>5
<1>18. SumFunctionOnSet(c1, L) = SumFunctionOnSet(c0, L)
  <2>1. \A t \in L : c1[t] = c0[t]
    BY <1>0, <1>3, <1>7
  <2> QED
    BY <1>0, <1>1, <2>1, SumSame
<1>19. /\ SumFunctionOnSet(c0, B) \in Int /\ SumFunctionOnSet(c1, B) \in Int
       /\ SumFunctionOnSet(c0, L) \in Int /\ SumFunctionOnSet(Savings, S) \in Int
  BY <1>0, <1>1, <1>2, SumRecursion
<1>20. NetBuyCash(new) = NetBuyCash(Rounded) - SumFunctionOnSet(Savings, S)
  BY <1>5, <1>6, <1>12, <1>15, <1>16, <1>17, <1>18, <1>19
<1> QED
  BY <1>20 DEF new

(* _demote_buy_roundups_to_fit_cash orders the round-ups totally, so that  *)
(* what comes before a trade that comes before t also comes before t.      *)
LEMMA DemotedBeforeGrows ==
    ASSUME input \in Inputs, account \in Accounts,
           NEW t \in RoundUps(Rounded), NEW u \in DemotedBefore(Rounded, t)
    PROVE  /\ u \in RoundUps(Rounded)
           /\ DemotedBefore(Rounded, u) \subseteq DemotedBefore(Rounded, t)
           /\ u \notin DemotedBefore(Rounded, u)
<1> DEFINE U == RoundUps(Rounded)
           value(x) == Saving(Rounded[x], x)
<1>1. \A x \in U : x \in Nat /\ value(x) \in Int
  <2> SUFFICES ASSUME NEW x \in U PROVE x \in Nat /\ value(x) \in Int
    OBVIOUS
  <2>1. x \in Tickers /\ Rounded[x].side = "BUY"
    BY DEF RoundUps, OfSide
  <2>2. Savings[x] = value(x) /\ Savings[x] \in Int
    BY <2>1, SavingsType DEF Savings
  <2> QED
    BY <2>1, <2>2, PlanningAssumption
<1>2. \A x \in U : \A y : y \in DemotedBefore(Rounded, x)
          <=> y \in U /\ (value(y) > value(x) \/ (value(y) = value(x) /\ y > x))
  BY DEF DemotedBefore
<1> HIDE DEF U, value
<1>3. t \in U /\ u \in U
  BY <1>2 DEF U
<1>4. ASSUME NEW y, y \in DemotedBefore(Rounded, u) PROVE y \in DemotedBefore(Rounded, t)
  <2>1. y \in U
    BY <1>2, <1>3, <1>4
  <2> QED
    BY <1>1, <1>2, <1>3, <1>4, <2>1
<1>5. u \notin DemotedBefore(Rounded, u)
  BY <1>1, <1>2, <1>3
<1> QED
  BY <1>3, <1>4, <1>5 DEF U

(* A round-up that stays: everything before it was demoted, which was      *)
(* enough.                                                                 *)
LEMMA FirstKept ==
    ASSUME input \in Inputs, account \in Accounts, ~(RoundUps(Rounded) \subseteq Demoted(Rounded))
    PROVE  \E t \in RoundUps(Rounded) \ Demoted(Rounded) :
              DemotedBefore(Rounded, t) \subseteq Demoted(Rounded)
<1> DEFINE K == RoundUps(Rounded) \ Demoted(Rounded)
           rank(t) == Cardinality(DemotedBefore(Rounded, t))
           N == {n \in Nat : \E t \in K : n = rank(t)}
<1>1. IsFiniteSet(Tickers) /\ RoundUps(Rounded) \subseteq Tickers
  BY PlanningAssumption DEF RoundUps, OfSide
<1>2. \A t \in RoundUps(Rounded) : IsFiniteSet(DemotedBefore(Rounded, t)) /\ rank(t) \in Nat
  <2>1. \A t : DemotedBefore(Rounded, t) \subseteq Tickers
    BY <1>1 DEF DemotedBefore
  <2> QED
    BY <1>1, <2>1, FS_Subset, FS_CardinalityType
<1>3. N # {} /\ N \in SUBSET Nat
  BY <1>2
<1>4. PICK n \in N : \A k \in N : ~(k < n)
  BY <1>3, LeastNumber
<1>5. PICK t \in K : n = rank(t)
  BY <1>4
<1>6. ASSUME NEW u \in DemotedBefore(Rounded, t) PROVE u \in Demoted(Rounded)
  <2>1. /\ u \in RoundUps(Rounded) /\ DemotedBefore(Rounded, u) \subseteq DemotedBefore(Rounded, t)
        /\ u \notin DemotedBefore(Rounded, u)
    BY DemotedBeforeGrows
  <2>2. IsFiniteSet(DemotedBefore(Rounded, t)) /\ rank(t) \in Nat /\ rank(u) \in Nat
    BY <1>2, <2>1
  <2>3. rank(u) <= rank(t) /\ (rank(u) = rank(t) => DemotedBefore(Rounded, u) = DemotedBefore(Rounded, t))
    BY <2>1, <2>2, FS_Subset
  <2>4. rank(u) # rank(t)
    BY <2>1, <2>3
  <2> HIDE DEF rank
  <2>5. rank(u) < n
    BY <1>5, <2>2, <2>3, <2>4
  <2>6. u \notin K
    BY <1>4, <2>2, <2>5
  <2> QED
    BY <2>1, <2>6
<1> QED
  BY <1>5, <1>6

(* _demote_buy_roundups_to_fit_cash: if the rounded-down plan is           *)
(* affordable, so is the plan it leaves.                                   *)
LEMMA DemotionFits ==
    ASSUME input \in Inputs, account \in Accounts,
           NetBuyCash(DemoteAll(Rounded, OfSide(Rounded, "BUY"))) <= account.cash
    PROVE  NetBuyCash(DemoteAll(Rounded, Demoted(Rounded))) <= account.cash
<1> DEFINE B == OfSide(Rounded, "BUY")
           U == RoundUps(Rounded)
           D == Demoted(Rounded)
           Sum(T) == SumFunctionOnSet(Savings, T)
           net == NetBuyCash(Rounded)
           cash == account.cash
<1>1. /\ IsFiniteSet(Tickers) /\ B \in SUBSET Tickers /\ U \in SUBSET B /\ D \in SUBSET U
  BY PlanningAssumption DEF OfSide, RoundUps, Demoted
<1>2. /\ Savings \in [Tickers -> Int] /\ \A t \in Tickers : Savings[t] >= 0
      /\ \A t \in B \ U : Savings[t] = 0
  BY SavingsType
<1>3. \A T \in SUBSET Tickers : Sum(T) \in Int
  BY <1>1, <1>2, SumRecursion
<1>4. net \in Int /\ cash \in Int
  <2> DEFINE c == CashOf(Rounded)
  <2>1. c \in [Tickers -> Int]
    <3>1. \A t \in Tickers : Rounded[t] = NoTrade \/ SoundTrade(Rounded[t], t)
      BY TradeIsSound DEF Rounded
    <3> QED
      BY <3>1, CashType
  <2>2. net = SumFunctionOnSet(c, B) - SumFunctionOnSet(c, OfSide(Rounded, "SELL"))
    BY DEF NetBuyCash, CashOf
  <2>3. OfSide(Rounded, "SELL") \in SUBSET Tickers
    BY DEF OfSide
  <2> HIDE DEF c, B
  <2>4. SumFunctionOnSet(c, B) \in Int /\ SumFunctionOnSet(c, OfSide(Rounded, "SELL")) \in Int
    BY <1>1, <2>1, <2>3, SumRecursion
  <2> QED
    BY <2>2, <2>4 DEF Accounts
<1>5. NetBuyCash(DemoteAll(Rounded, B)) = net - Sum(B)
  BY NetOfDemoted
<1>6. NetBuyCash(DemoteAll(Rounded, D)) = net - Sum(D)
  BY <1>1, NetOfDemoted
<1>7. CASE U \subseteq D
  <2>1. Sum(B) = Sum(U) + Sum(B \ U)
    BY <1>1, <1>2, SumSplit
  <2>2. Sum(B \ U) = 0
    BY <1>1, <1>2, SumZero
  <2>3. U = D
    BY <1>1, <1>7
  <2>4. Sum(B) = Sum(D)
    <3> HIDE DEF B, U, D
    <3>1. Sum(U) \in Int
      BY <1>1, <1>3
    <3> QED
      BY <2>1, <2>2, <2>3, <3>1
  <2> QED
    BY <1>5, <1>6, <2>4
<1>8. CASE ~(U \subseteq D)
  <2>1. PICK t \in U \ D : DemotedBefore(Rounded, t) \subseteq D
    BY <1>8, FirstKept
  <2> DEFINE A == DemotedBefore(Rounded, t)
             saving == [x \in U |-> Saving(Rounded[x], x)]
  <2>2. ~(net - cash > SumFunctionOnSet(saving, A))
    BY <2>1 DEF Demoted
  <2>3. A \in SUBSET U
    BY DEF DemotedBefore
  <2>4. SumFunctionOnSet(saving, A) = Sum(A)
    <3>1. \A x \in U : saving[x] = Savings[x]
      BY <1>1 DEF Savings, OfSide
    <3>2. saving \in [U -> Int]
      <4>1. \A x \in U : saving[x] \in Int
        BY <1>1, <1>2, <3>1
      <4> QED
        BY <4>1
    <3>3. IsFiniteSet(U)
      BY <1>1, FS_Subset
    <3> HIDE DEF saving, A, U, B
    <3> QED
      BY <1>1, <1>2, <2>3, <3>1, <3>2, <3>3, SumSame
  <2> HIDE DEF A, saving, B, U, D
  <2>5. Sum(D) = Sum(A) + Sum(D \ A)
    BY <1>1, <1>2, <2>1, SumSplit DEF A
  <2>6. Sum(D \ A) >= 0
    BY <1>1, <1>2, SumNatural
  <2>7. Sum(D) \in Int /\ Sum(A) \in Int /\ Sum(D \ A) \in Int
    BY <1>1, <1>3, <2>3
  <2> HIDE DEF net, cash, Sum
  <2>8. net - Sum(D) <= cash
    BY <1>4, <2>2, <2>4, <2>5, <2>6, <2>7
  <2> QED
    BY <1>6, <2>8 DEF cash, D
<1> QED
  BY <1>7, <1>8

(* The plan that is new is the one build_plan made from this snapshot. *)
BuiltInv == PlanIsNew => plan = DemoteAll(Rounded, Demoted(Rounded))

(* The rounding depends on the snapshot and the inputs alone. *)
LEMMA SameRounding ==
    ASSUME UNCHANGED <<account, input>>
    PROVE  /\ Rounded' = Rounded
           /\ DemoteAll(Rounded, Demoted(Rounded))' = DemoteAll(Rounded, Demoted(Rounded))
<1>0. account' = account /\ input' = input
  OBVIOUS
<1>1. \A t : Size(t)' = Size(t) /\ SideOf(t)' = SideOf(t)
  BY <1>0 DEF SideOf, Size, Delta, Target, CoreHolds, Capital, ValueOf
<1>2. \A t : PlanPrice(t)' = PlanPrice(t)
  BY <1>0, <1>1 DEF PlanPrice
<1>3. \A t : FloorOf(t)' = FloorOf(t)
  BY <1>1, <1>2 DEF FloorOf
<1>4. \A t : Trade(t)' = Trade(t)
  <2>1. \A t : WorthTrading(t)' = WorthTrading(t)
    BY <1>0, <1>1, <1>2 DEF WorthTrading
  <2>2. \A t : SellQuantity(t)' = SellQuantity(t) /\ SellUnchanged(t)' = SellUnchanged(t)
    BY <1>0, <1>1, <1>2 DEF SellQuantity, SellUnchanged
  <2> QED
    BY <1>1, <1>2, <2>1, <2>2 DEF Trade
<1>5. Rounded' = Rounded
  BY <1>4 DEF Rounded
<1>6. Demoted(Rounded)' = Demoted(Rounded)
  <2>1. NetBuyCash(Rounded)' = NetBuyCash(Rounded)
    BY <1>5 DEF NetBuyCash
  <2>2. RoundUps(Rounded)' = RoundUps(Rounded)
    BY <1>3, <1>5 DEF RoundUps
  <2>3. \A t : Saving(Rounded[t], t)' = Saving(Rounded[t], t)
    BY <1>3, <1>5 DEF Saving
  <2>4. \A t : DemotedBefore(Rounded, t)' = DemotedBefore(Rounded, t)
    BY <2>2, <2>3 DEF DemotedBefore
  <2> QED
    BY <1>0, <2>1, <2>2, <2>3, <2>4 DEF Demoted
<1>7. DemoteAll(Rounded, Demoted(Rounded))' = DemoteAll(Rounded, Demoted(Rounded))
  BY <1>3, <1>5, <1>6 DEF DemoteAll
<1> QED
  BY <1>5, <1>7

(* Every step keeps the plan the one that was built. *)
LEMMA BuiltStep == ASSUME BuiltInv, [Next]_vars PROVE BuiltInv'
<1>1. CASE BuildPlan
  <2>1. UNCHANGED <<account, input>> /\ plan' = DemoteAll(Rounded, Demoted(Rounded))
    BY <1>1 DEF BuildPlan
  <2> QED
    BY <2>1, SameRounding DEF BuiltInv
<1>2. CASE UNCHANGED vars
  <2>1. UNCHANGED <<account, input>> /\ plan' = plan /\ PlanIsNew' = PlanIsNew
    BY <1>2 DEF vars, plannerVars, PlanIsNew
  <2> QED
    BY <2>1, SameRounding DEF BuiltInv
<1>3. CASE Next /\ ~BuildPlan
  <2>1. ~PlanIsNew'
    BY <1>3, Zenon DEF PlanIsNew, Next, ReadAccount, StartPhase, QuoteRound, NothingToQuote, Refresh,
       QuotesUnavailable, SubmitSells, RefreshCash, SubmitBuys, TrimBuys, BlockBuys, Escalate
  <2> QED
    BY <2>1 DEF BuiltInv
<1> QED
  BY <1>1, <1>2, <1>3

(* "Rounding up can never turn an affordable plan into a buying-power      *)
(* block": for any number of trades, any prices and any cash               *)
(* (apply_execution_policy, _demote_buy_roundups_to_fit_cash).             *)
THEOREM RoundingKeepsCash == Spec => []RoundingFitsCash
<1>1. Init => BuiltInv
  BY DEF Init, BuiltInv, PlanIsNew
<1>2. BuiltInv /\ [Next]_vars => BuiltInv'
  BY BuiltStep
<1>3. PlanningInv /\ BuiltInv => RoundingFitsCash
  BY DemotionFits DEF PlanningInv, SnapshotInv, BuiltInv, RoundingFitsCash
<1> QED
  BY <1>1, <1>2, <1>3, PlanningInvariant, PTL DEF Spec
=============================================================================
