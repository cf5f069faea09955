------------------------------- MODULE Pricing -------------------------------
(* What a broker quote is worth to one order (execution_pricing.py): which *)
(* quotes are usable, the reference price, the limit inside the spread,    *)
(* the size at the fresh price, and the one later escalation of a resting  *)
(* order.  Prices are in units of $0.0001 and sizes in whole shares, the   *)
(* default execution rule.                                                 *)
EXTENDS Integers

CONSTANTS
    Aggression,         \* EXECUTION_LIMIT_AGGRESSION, in quarters
    LimitOffsetBps,     \* LIMIT_OFFSET_BPS
    MaxSpreadBps,       \* EXECUTION_MAX_SPREAD_BPS
    WideSpreadMaxBps,   \* EXECUTION_WIDE_SPREAD_MAX_BPS
    MaxAdverseBps,      \* MAX_REPRICE_ADVERSE_BPS
    MaxOrderNotional    \* MAX_ORDER_NOTIONAL_USD

ASSUME PricingAssumption ==
    /\ Aggression \in 0 .. 4 /\ LimitOffsetBps \in Nat /\ MaxAdverseBps \in Nat
    /\ MaxSpreadBps \in Nat \ {0} /\ WideSpreadMaxBps \in Nat
    /\ MaxSpreadBps <= WideSpreadMaxBps
    /\ MaxOrderNotional \in Nat \ {0}

Sides == {"BUY", "SELL"}
Bases == {"side_of_market", "midpoint", "last"}

(* None, and every price _valid_price turns into None. *)
NoPrice == 0

Cent == 100
Dollar == 10000

Least(a, b) == IF a <= b THEN a ELSE b
Greatest(a, b) == IF a >= b THEN a ELSE b

(* round(reference * (1 +- bps), 2).  A tie, which the binary fraction     *)
(* would decide, does not occur at the prices of the run.                  *)
BuildLimitPrice(side, reference, bps) ==
    LET x == reference * (IF side = "BUY" THEN 10000 + bps ELSE 10000 - bps)
    IN ((x + 500000) \div 1000000) * Cent

(* price_tick, of the midpoint. *)
PriceTick(q) == IF q.bid + q.ask >= 2 * Dollar THEN Cent ELSE 1

(* Aggression of the way from the midpoint to the far side, rounded to the *)
(* tick in the passive direction and kept within the quote.                *)
InsideSpreadLimit(side, q) ==
    LET tick == PriceTick(q)
        mid8 == 4 * (q.bid + q.ask)
        way8 == Aggression * (q.ask - q.bid)
        down == ((mid8 + way8) \div (8 * tick)) * tick
        up == -((-(mid8 - way8)) \div (8 * tick)) * tick
    IN IF side = "BUY" THEN Least(Greatest(down, q.bid), q.ask)
       ELSE Greatest(Least(up, q.ask), q.bid)

TwoSided(q) == q.bid # NoPrice /\ q.ask # NoPrice

(* compute_spread_bps(q) > bps; a one-sided quote has no spread. *)
SpreadExceeds(q, bps) ==
    TwoSided(q) /\ (q.ask - q.bid) * 20000 > bps * (q.ask + q.bid)

(* Not missing, unresolved, non-finite, of negative or unknown age, stale, *)
(* delayed or crossed.                                                     *)
Usable(q) == q.quality = "good" /\ ~(TwoSided(q) /\ q.bid > q.ask)

Midpoint(q) == IF TwoSided(q) THEN (q.bid + q.ask) \div 2 ELSE NoPrice

ReferenceFor(basis, side, q) ==
    CASE basis = "last" -> q.last
      [] basis = "midpoint" -> Midpoint(q)
      [] basis = "side_of_market" -> IF side = "BUY" THEN q.ask ELSE q.bid

(* _select_execution_price: the last price is taken whatever the spread.  *)
SelectExecutionPrice(basis, side, q, allowWide) ==
    LET reference == ReferenceFor(basis, side, q)
        wide == basis # "last" /\ SpreadExceeds(q, MaxSpreadBps)
        admitted == allowWide /\ ~SpreadExceeds(q, WideSpreadMaxBps)
    IN IF ~Usable(q) \/ reference = NoPrice \/ (wide /\ ~admitted)
       THEN [price |-> NoPrice, wide |-> FALSE]
       ELSE [price |-> IF wide THEN Midpoint(q) ELSE reference, wide |-> wide]

(* price_from_quote with an aggression. *)
FirstLimit(basis, side, selected, q) ==
    IF TwoSided(q) /\ (basis = "side_of_market" \/ selected.wide)
    THEN InsideSpreadLimit(side, q)
    ELSE BuildLimitPrice(side, selected.price, LimitOffsetBps)

NoOrder == [side |-> "NONE", qty |-> 0, ref |-> 0, limit |-> 0, wide |-> FALSE, at |-> 0]

(* Half a share up: rounded_execution_quantity of a BUY. *)
NearestShares(notional, price) == (2 * notional + price) \div (2 * price)

(* A SELL keeps its approved shares, a BUY its approved notional. *)
RepricedQuantity(trade, price) ==
    IF trade.side = "SELL" THEN trade.qty ELSE NearestShares(trade.notional, price)

(* Mutant: a size that rounds to nothing is not dropped. *)
ApplyQuoteUnchecked(basis, trade, q, allowWide, at) ==
    LET selected == SelectExecutionPrice(basis, trade.side, q, allowWide)
        limit == FirstLimit(basis, trade.side, selected, q)
        qty == RepricedQuantity(trade, selected.price)
    IN IF \/ selected.price = NoPrice \/ limit <= 0
          \/ qty * Greatest(selected.price, limit) > MaxOrderNotional
       THEN NoOrder
       ELSE [side |-> trade.side, qty |-> qty, ref |-> selected.price, limit |-> limit,
             wide |-> selected.wide, at |-> at]

(* One trade of apply_execution_quotes, on the quote read at attempt `at`. *)
ApplyQuote(basis, trade, q, allowWide, at) ==
    LET selected == SelectExecutionPrice(basis, trade.side, q, allowWide)
        limit == FirstLimit(basis, trade.side, selected, q)
        qty == RepricedQuantity(trade, selected.price)
    IN IF \/ selected.price = NoPrice \/ limit <= 0
          \/ qty <= 0 \/ qty * Greatest(selected.price, limit) > MaxOrderNotional
       THEN NoOrder
       ELSE [side |-> trade.side, qty |-> qty, ref |-> selected.price, limit |-> limit,
             wide |-> selected.wide, at |-> at]

(* _fresh_replace_limit_price: cross a tight two-sided quote, if that is   *)
(* an improvement, not too far from the arrival price, and within the      *)
(* ceiling.                                                                *)
EscalatedLimit(basis, order, q) ==
    LET crossing == IF order.side = "BUY" THEN q.ask ELSE q.bid
        improves == IF order.side = "BUY" THEN order.limit < crossing ELSE order.limit > crossing
        adverse == IF order.side = "BUY" THEN crossing - order.ref ELSE order.ref - crossing
    IN IF /\ SelectExecutionPrice(basis, order.side, q, TRUE).price # NoPrice
          /\ TwoSided(q) /\ ~SpreadExceeds(q, MaxSpreadBps)
          /\ improves
          /\ adverse * 10000 <= MaxAdverseBps * order.ref
          /\ order.qty * crossing <= MaxOrderNotional
       THEN crossing ELSE NoPrice
=============================================================================
