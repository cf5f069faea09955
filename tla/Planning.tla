------------------------------ MODULE Planning -------------------------------
(* From the account to the orders that go out: build_plan of the engine    *)
(* sizes trades towards the strategies' targets (portfolio.py, risk.py,    *)
(* execution_policy.py), and ExecutionManager reprices each phase on fresh *)
(* broker quotes, with retries, and fits the buys to the cash the broker   *)
(* reports after the sells, before it is sent.                             *)
EXTENDS Pricing, FiniteSets, Functions

CONSTANTS
    Tickers,            \* numbered in sorted order
    Core, Safe,         \* CORE_ETF_TICKER, and its safe asset
    CorePct, SafePct,   \* allocations of the core_etf and the direct ETF sleeve
    HeldHalves,         \* possible holdings of a ticker, in half shares
    Marks,              \* possible broker marks
    Closes,             \* possible latest closes of the two funds
    Cash,               \* possible cash balances
    DryRunValue,        \* DRY_RUN_PORTFOLIO_VALUE_USD
    ManagedCap,         \* MANAGED_CAP_USD
    MinTradeNotional, MinWeightPermille, CostBps, CostFixed,
    MaxTurnoverPct, MaxDailyTrades,
    Attempts,           \* EXECUTION_QUOTE_ATTEMPTS
    Quotes              \* what a quote request may return for a ticker

ASSUME PlanningAssumption ==
    /\ Tickers \subseteq Nat /\ IsFiniteSet(Tickers)
    /\ Core \in Tickers /\ CorePct \in Nat /\ SafePct \in Nat /\ CorePct + SafePct <= 100
    /\ HeldHalves \subseteq Nat /\ Marks \subseteq Nat \ {0} /\ Closes \subseteq Nat
    /\ Cash \subseteq Nat /\ DryRunValue \in Nat \ {0} /\ ManagedCap \in Nat \ {0}
    /\ MinTradeNotional \in Nat \ {0} /\ MinWeightPermille \in Nat
    /\ CostBps \in Nat /\ CostFixed \in Nat
    /\ MaxTurnoverPct \in Nat /\ MaxDailyTrades \in Nat \ {0}
    /\ Attempts \in Nat \ {0, 1}
    /\ Quotes \subseteq [quality : {"good", "bad", "unresolved"}, bid : Nat, ask : Nat, last : Nat]

VARIABLES
    account,    \* the AccountSnapshot of the run
    input,      \* what the broker and the data provider answer in this run
    basis,      \* EXECUTION_PRICE_BASIS
    plan,       \* the plan's trade of each ticker
    blocked,    \* a warning of the plan carries BLOCK_MARKER
    pc,         \* where the run is
    phase,      \* the side being priced: sells come first
    attempt,    \* the quote attempt
    pending,    \* tickers without a usable quote yet
    unresolved, \* tickers IBKR has no contract for
    priced,     \* repriced_by_ticker
    funds,      \* refreshed.cash_usd, read before the buys go out
    sent,       \* orders handed to the broker
    escalated   \* sent orders the reconcile pass replaced

plannerVars == <<account, input, basis, plan, blocked>>
vars == <<plannerVars, pc, phase, attempt, pending, unresolved, priced, funds, sent, escalated>>

NoTrade == [side |-> "NONE", qty |-> 0, notional |-> 0, ref |-> 0]
Planned(trades) == {t \in Tickers : trades[t].side # "NONE"}
OfSide(trades, side) == {t \in Tickers : trades[t].side = side}

(* The funds the allocated sleeves need a price history of. *)
Funds == {Core, Safe} \cap Tickers

Inputs ==
    [held : [Tickers -> HeldHalves], mark : Marks, cash : Cash,
     close : [Funds -> Closes \cup {NoPrice}], trendUp : BOOLEAN]

-----------------------------------------------------------------------------
(* The account and the targets. *)

ValueOf(held, t) == (held[t] * input.mark) \div 2
TotalValue(held, cash) ==
    cash + SumFunctionOnSet([t \in Tickers |-> ValueOf(held, t)], Tickers)

(* The snapshot a plan is sized on, with the portfolio value it manages.   *)
Account(held, cash, usable) ==
    [held |-> held, cash |-> cash, usable |-> usable,
     value |-> Least(TotalValue(held, cash), ManagedCap)]

(* A read that fails or shows nothing falls back to the dry-run value,     *)
(* with a warning that blocks the plan.                                    *)
Fallback == Account([t \in Tickers |-> 0], DryRunValue, FALSE)
ReadAccounts ==
    {Fallback} \cup (IF TotalValue(input.held, input.cash) > 0
                     THEN {Account(input.held, input.cash, TRUE)} ELSE {})

(* build_strategy_capital_plan; the rest of the portfolio is cash. *)
Capital(pct) == (account.value * pct) \div 100

(* The core_etf sleeve holds the core fund, or below its trend the safe    *)
(* asset, or cash when there is none; the direct ETF sleeve always holds   *)
(* its fund.  Two sleeves may want the same ticker.                        *)
CoreHolds == IF input.trendUp THEN Core ELSE Safe
Target(t) ==
    (IF t = CoreHolds THEN Capital(CorePct) ELSE 0) + (IF t = Safe THEN Capital(SafePct) ELSE 0)

(* _price_history: every fund of an allocated sleeve must have a close. *)
HistoryMissing == \E t \in Funds : input.close[t] = NoPrice

-----------------------------------------------------------------------------
(* Trades. *)

Delta(t) == Target(t) - ValueOf(account.held, t)
Size(t) == IF Delta(t) < 0 THEN -Delta(t) ELSE Delta(t)
SideOf(t) == IF Delta(t) > 0 THEN "BUY" ELSE "SELL"

(* The latest close; only a sell may fall back to the broker's mark. *)
PlanPrice(t) ==
    IF t \in Funds /\ input.close[t] # NoPrice THEN input.close[t]
    ELSE IF SideOf(t) = "SELL" /\ account.held[t] > 0 THEN input.mark
    ELSE NoPrice

WorthTrading(t) ==
    /\ Size(t) >= MinTradeNotional
    /\ Size(t) * 1000 >= MinWeightPermille * account.value
    /\ PlanPrice(t) # NoPrice
    /\ Size(t) - (CostFixed + (Size(t) * CostBps) \div 10000) >= MinTradeNotional

(* Mutant: a sell is not limited to the position. *)
SellQuantityByNotional(t) == Size(t) \div PlanPrice(t)

(* min(quantity, abs(current.quantity)), rounded down. *)
SellQuantity(t) == Least(Size(t) \div PlanPrice(t), account.held[t] \div 2)

(* The capped quantity is a whole number of shares already. *)
SellUnchanged(t) ==
    /\ account.held[t] * PlanPrice(t) <= 2 * Size(t)
    /\ account.held[t] % 2 = 0

(* generate_trades, the cost filter and the rounding of                    *)
(* apply_execution_policy: a notional is recomputed only when rounding     *)
(* changed the quantity.                                                   *)
Trade(t) ==
    LET price == PlanPrice(t)
        buy == SideOf(t) = "BUY"
        qty == IF buy THEN NearestShares(Size(t), price) ELSE SellQuantity(t)
    IN IF ~WorthTrading(t) THEN NoTrade
       ELSE IF qty < 1 THEN NoTrade
       ELSE [side |-> SideOf(t), qty |-> qty, ref |-> price,
             notional |-> IF ~buy /\ SellUnchanged(t) THEN Size(t) ELSE qty * price]

Rounded == [t \in Tickers |-> Trade(t)]

(* A buy back at its rounded-down quantity; none is left of less than one  *)
(* share.                                                                  *)
FloorOf(t) == Size(t) \div PlanPrice(t)
Demote(trade, shares) ==
    IF shares < 1 THEN NoTrade
    ELSE [trade EXCEPT !.qty = shares, !.notional = shares * trade.ref]

LimitOf(trade) == BuildLimitPrice(trade.side, trade.ref, LimitOffsetBps)

(* buy_cash_required_usd less sell_cash_credit_usd. *)
NetBuyCash(trades) ==
    LET cash == [t \in Tickers |-> trades[t].qty * LimitOf(trades[t])]
    IN SumFunctionOnSet(cash, OfSide(trades, "BUY")) - SumFunctionOnSet(cash, OfSide(trades, "SELL"))

RoundUps(rounded) == {t \in OfSide(rounded, "BUY") : FloorOf(t) < rounded[t].qty}
Saving(trade, t) == (trade.qty - FloorOf(t)) * LimitOf(trade)

(* Largest saving first, then the later ticker. *)
DemotedBefore(rounded, t) ==
    LET saving == Saving(rounded[t], t)
    IN {u \in RoundUps(rounded) :
          \/ Saving(rounded[u], u) > saving
          \/ Saving(rounded[u], u) = saving /\ u > t}

(* Mutant: the loop stops after the first demotion. *)
DemotedOnce(rounded) ==
    {t \in RoundUps(rounded) : NetBuyCash(rounded) > account.cash /\ DemotedBefore(rounded, t) = {}}

(* _demote_buy_roundups_to_fit_cash: as long as the plan overshoots. *)
Demoted(rounded) ==
    LET overshoot == NetBuyCash(rounded) - account.cash
        saving == [t \in RoundUps(rounded) |-> Saving(rounded[t], t)]
    IN {t \in RoundUps(rounded) : overshoot > SumFunctionOnSet(saving, DemotedBefore(rounded, t))}

DemoteAll(rounded, S) ==
    [t \in Tickers |-> IF t \in S THEN Demote(rounded[t], FloorOf(t)) ELSE rounded[t]]

Notional(trades, side) ==
    SumFunctionOnSet([t \in Tickers |-> trades[t].notional], OfSide(trades, side))

(* The funds are exempt from MAX_POSITION_PCT, and the sleeves never add   *)
(* up to more than the portfolio.                                          *)
OverLimits(trades) ==
    \/ Greatest(Notional(trades, "BUY"), Notional(trades, "SELL")) * 100
         > MaxTurnoverPct * account.value
    \/ Cardinality(Planned(trades)) > MaxDailyTrades
    \/ \E t \in Planned(trades) : trades[t].notional > MaxOrderNotional

-----------------------------------------------------------------------------
NoOrders == [t \in Tickers |-> NoOrder]

Init ==
    /\ input \in Inputs /\ basis \in Bases
    /\ account = [held |-> [t \in Tickers |-> 0], cash |-> 0, usable |-> FALSE, value |-> 0]
    /\ plan = [t \in Tickers |-> NoTrade] /\ blocked = FALSE
    /\ pc = "account" /\ phase = "SELL" /\ attempt = 1
    /\ pending = {} /\ unresolved = {} /\ priced = NoOrders /\ sent = NoOrders
    /\ funds = 0 /\ escalated = {}

(* _account_snapshot, read once for the whole run. *)
ReadAccount ==
    /\ pc = "account"
    /\ account' \in ReadAccounts
    /\ pc' = "plan"
    /\ UNCHANGED <<input, basis, plan, blocked, phase, attempt, pending, unresolved, priced, funds, sent, escalated>>

(* The rest of build_plan.  Nothing of a blocked plan is submitted. *)
BuildPlan ==
    /\ pc = "plan"
    /\ LET rounded == Rounded
           trades == DemoteAll(rounded, Demoted(rounded))
       IN /\ plan' = trades
          /\ blocked' = (~account.usable \/ HistoryMissing \/ OverLimits(trades))
    /\ pc' = "phase"
    /\ UNCHANGED <<account, input, basis, phase, attempt, pending, unresolved, priced, funds, sent, escalated>>

PlanIsNew == pc = "phase" /\ phase = "SELL"

(* submit_plan: sells, then buys. *)
StartPhase ==
    /\ pc = "phase" /\ ~blocked
    /\ pending' = OfSide(plan, phase) /\ attempt' = 1
    /\ unresolved' = {} /\ priced' = NoOrders
    /\ pc' = "quote"
    /\ UNCHANGED <<plannerVars, phase, funds, sent, escalated>>

Allowed(a) == a >= Attempts

(* One attempt: ask for the tickers still pending, keep what can be        *)
(* priced, give up on symbols without a contract, and sleep before the     *)
(* next attempt.                                                           *)
QuoteRound ==
    /\ pc = "quote" /\ pending # {}
    /\ \E quotes \in [pending -> Quotes] :
         LET order(t) == ApplyQuote(basis, plan[t], quotes[t], Allowed(attempt), attempt)
             gone == {t \in pending : quotes[t].quality = "unresolved"}
             left == {t \in pending : order(t) = NoOrder} \ gone
         IN /\ priced' = [t \in Tickers |-> IF t \in pending THEN order(t) ELSE priced[t]]
            /\ unresolved' = unresolved \cup gone
            /\ pending' = left
            /\ IF left = {} \/ attempt >= Attempts
               THEN pc' = "refresh" /\ attempt' = attempt
               ELSE pc' = "quote" /\ attempt' = attempt + 1
    /\ UNCHANGED <<plannerVars, phase, funds, sent, escalated>>

(* A phase without trades asks for nothing. *)
NothingToQuote ==
    /\ pc = "quote" /\ pending = {}
    /\ pc' = "refresh"
    /\ UNCHANGED <<plannerVars, phase, attempt, pending, unresolved, priced, funds, sent, escalated>>

InPhase(t) == plan[t].side = phase

(* Mutant: quotes of earlier attempts are not asked for again. *)
NoOriginals == {}

(* Trades whose quote is as old as the retries of the others. *)
Originals == {t \in Tickers : InPhase(t) /\ priced[t] # NoOrder /\ priced[t].at < attempt}

(* Mutant: the refresh starts from the size of the first repricing. *)
RefreshSourceRepriced(t) ==
    [side |-> priced[t].side, qty |-> priced[t].qty, ref |-> priced[t].ref,
     notional |-> priced[t].qty * priced[t].ref]

(* The refresh starts from the approved trade again. *)
RefreshSource(t) == plan[t]

(* The pre-submit refresh; a trade that fails it is not sent. *)
Refresh ==
    /\ pc = "refresh"
    /\ \E quotes \in [Originals -> Quotes] :
         priced' = [t \in Tickers |-> IF t \in Originals
                                      THEN ApplyQuote(basis, RefreshSource(t), quotes[t], TRUE, attempt)
                                      ELSE priced[t]]
    /\ pc' = "submit"
    /\ UNCHANGED <<plannerVars, phase, attempt, pending, unresolved, funds, sent, escalated>>

(* execution_quotes cannot reach the broker: the run ends here. *)
QuotesUnavailable ==
    /\ pc \in {"quote", "refresh"}
    /\ IF pc = "quote" THEN pending # {} ELSE Originals # {}
    /\ pc' = "done"
    /\ UNCHANGED <<plannerVars, phase, attempt, pending, unresolved, priced, funds, sent, escalated>>

(* _submit_phase: the priced sells go out, the others are recorded blocked. *)
SubmitSells ==
    /\ pc = "submit" /\ phase = "SELL"
    /\ sent' = priced
    /\ phase' = "BUY" /\ pc' = "phase"
    /\ UNCHANGED <<plannerVars, attempt, pending, unresolved, priced, funds, escalated>>

-----------------------------------------------------------------------------
(* The buys, fitted to the cash that is there. *)

Sold == OfSide(sent, "SELL")
Fills == {f \in [Sold -> UNION {0 .. sent[t].qty : t \in Sold}] : \A t \in Sold : f[t] <= sent[t].qty}

(* What the broker may report: the sells that went out have filled, each   *)
(* in part or not at all, at their limits.                                 *)
RefreshedCash ==
    {input.cash + SumFunctionOnSet([t \in Sold |-> f[t] * sent[t].limit], Sold) : f \in Fills}

(* account_snapshot, after the repricing. *)
RefreshCash ==
    /\ pc = "submit" /\ phase = "BUY"
    /\ funds' \in RefreshedCash
    /\ pc' = "fit"
    /\ UNCHANGED <<plannerVars, phase, attempt, pending, unresolved, priced, sent, escalated>>

(* buy_cash_required_usd, of one buy and of all. *)
Required == [t \in Tickers |-> priced[t].qty * priced[t].limit]
BuyCashRequired == SumFunctionOnSet(Required, OfSide(priced, "BUY"))
Shortfall == BuyCashRequired - funds

(* 1 / MAX_BUY_TRIM_FRACTION *)
TrimDivisor == 20

(* Trimming starts at the largest buy, the first of several.  Its cut      *)
(* covers the whole shortfall or takes it below one share, so that no      *)
(* second buy is ever trimmed.                                             *)
LargestBuy(t) ==
    /\ priced[t].side = "BUY"
    /\ \A u \in OfSide(priced, "BUY") \ {t} :
         Required[u] < Required[t] \/ (Required[u] = Required[t] /\ t < u)

(* Mutant: the cut is rounded down. *)
CutDown(t) == Shortfall \div priced[t].limit

(* The shortfall in whole shares, rounded up. *)
Cut(t) == (Shortfall + priced[t].limit - 1) \div priced[t].limit

Trimmable(t) ==
    /\ LargestBuy(t)
    /\ Shortfall > 0 /\ Shortfall * TrimDivisor <= BuyCashRequired
    /\ Cut(t) < priced[t].qty

(* The buys of the phase next to the sells of the phase before. *)
WithBuys(buys) == [t \in Tickers |-> IF buys[t] # NoOrder THEN buys[t] ELSE sent[t]]

UnchangedByFit == UNCHANGED <<plannerVars, phase, attempt, pending, unresolved, priced, funds, escalated>>

(* Cash covers them all, or there are none. *)
SubmitBuys ==
    /\ pc = "fit" /\ Shortfall <= 0
    /\ sent' = WithBuys(priced)
    /\ pc' = "done"
    /\ UnchangedByFit

(* A small shortfall costs the largest buy some shares. *)
TrimBuys(t) ==
    /\ pc = "fit" /\ Trimmable(t)
    /\ sent' = WithBuys([priced EXCEPT ![t].qty = @ - Cut(t)])
    /\ pc' = "done"
    /\ UnchangedByFit

(* A larger one, or cash that cannot be read, blocks every buy. *)
BlockBuys ==
    /\ \/ pc = "fit" /\ Shortfall > 0 /\ \A t \in Tickers : ~Trimmable(t)
       \/ pc = "submit" /\ phase = "BUY" /\ OfSide(priced, "BUY") # {}
    /\ pc' = "done"
    /\ UNCHANGED sent /\ UnchangedByFit

(* A later reconcile pass replaces a resting order once, at a fresh quote. *)
Escalate(t) ==
    /\ pc = "done" /\ sent[t] # NoOrder /\ t \notin escalated
    /\ \E q \in Quotes :
         LET limit == EscalatedLimit(basis, sent[t], q)
         IN limit # NoPrice /\ sent' = [sent EXCEPT ![t].limit = limit]
    /\ escalated' = escalated \cup {t}
    /\ UNCHANGED <<plannerVars, pc, phase, attempt, pending, unresolved, priced, funds>>

Next ==
    \/ ReadAccount \/ BuildPlan \/ StartPhase \/ QuoteRound \/ NothingToQuote \/ Refresh
    \/ QuotesUnavailable \/ SubmitSells \/ RefreshCash \/ SubmitBuys \/ BlockBuys
    \/ \E t \in Tickers : TrimBuys(t) \/ Escalate(t)

Spec == Init /\ [][Next]_vars

-----------------------------------------------------------------------------
Orders ==
    [side : Sides, qty : Nat \ {0}, ref : Nat \ {0}, limit : Nat \ {0}, wide : BOOLEAN, at : 1 .. Attempts]

PlannedTrades == [side : Sides, qty : Nat \ {0}, notional : Nat \ {0}, ref : Nat \ {0}]

(* Types: a planned trade and an order have a positive size and price.     *)
TypeOK ==
    /\ input \in Inputs /\ basis \in Bases /\ blocked \in BOOLEAN
    /\ \A t \in Tickers : plan[t] \in PlannedTrades \cup {NoTrade}
    /\ \A t \in Tickers : {priced[t], sent[t]} \subseteq Orders \cup {NoOrder}
    /\ pc \in {"account", "plan", "phase", "quote", "refresh", "submit", "fit", "done"}
    /\ funds \in Nat /\ phase \in Sides /\ attempt \in 1 .. Attempts
    /\ pending \subseteq Tickers /\ unresolved \subseteq Tickers /\ escalated \subseteq Tickers

(* No sell is larger than the position the account really holds, although  *)
(* it is sized from target value, broker mark and a close that may all     *)
(* disagree, and priced again on later quotes (generate_trades,            *)
(* rounded_execution_quantity, apply_execution_quotes).                    *)
SellsStayWithinHoldings ==
    \A t \in Tickers : sent[t].side = "SELL" => 2 * sent[t].qty <= input.held[t]

(* "Rounding up can never turn an affordable plan into a buying-power      *)
(* block" (apply_execution_policy): when the plan with every buy rounded   *)
(* down passes enforce_buying_power, the plan that was built does.         *)
RoundingFitsCash ==
    PlanIsNew =>
      LET floored == DemoteAll(Rounded, OfSide(Rounded, "BUY"))
      IN NetBuyCash(floored) <= account.cash => NetBuyCash(plan) <= account.cash

(* "No order goes out on a quote that sat waiting for the others", and a   *)
(* wide spread is never taken at first sight (_reprice_for_execution).     *)
OrdersGoOutFresh ==
    pc = "submit" =>
      \A t \in Tickers : (InPhase(t) /\ priced[t] # NoOrder) =>
        (priced[t].at = attempt /\ (priced[t].wide => attempt > 1))

(* What goes out is what was approved, however often it was priced again   *)
(* (apply_execution_quotes): a sell keeps its shares, a buy is priced      *)
(* within half a share of its notional, and no order, escalated or not,    *)
(* exceeds the order ceiling (_fresh_replace_limit_price).                 *)
PricedAsApproved ==
    \A t \in Tickers : sent[t] # NoOrder =>
      LET drift == priced[t].qty * priced[t].ref - plan[t].notional
      IN /\ sent[t].side = "SELL" => sent[t].qty = plan[t].qty
         /\ sent[t].side = "BUY" => /\ 2 * Greatest(drift, -drift) <= priced[t].ref
                                    /\ sent[t].qty <= priced[t].qty
         /\ sent[t].qty * sent[t].limit <= MaxOrderNotional

(* The cash the buys need at the limits they went out with. *)
SentBuyCash ==
    SumFunctionOnSet([t \in Tickers |-> sent[t].qty * priced[t].limit], OfSide(sent, "BUY"))

(* ... and the buys that go out fit the refreshed cash.  One that was cut  *)
(* lost no share that was affordable, the cash covered all but a twentieth *)
(* of what the buys needed, and no other buy was cut or dropped            *)
(* (_fit_buys_to_refreshed_cash, _trim_buys_to_cash).                      *)
TrimmedToCash ==
    OfSide(sent, "BUY") # {} =>
      /\ SentBuyCash <= funds
      /\ \A t \in OfSide(sent, "BUY") : sent[t].qty < priced[t].qty =>
           /\ SentBuyCash + priced[t].limit > funds
           /\ funds * TrimDivisor >= BuyCashRequired * (TrimDivisor - 1)
           /\ \A u \in OfSide(priced, "BUY") \ {t} : sent[u].qty = priced[u].qty

(* Both: an order that goes out is the trade that was approved, priced     *)
(* again on a fresh quote (_reprice_for_execution) and, if it is a buy,    *)
(* cut only as far as the cash read after the sells requires               *)
(* (_fit_buys_to_refreshed_cash).                                          *)
ApprovedSizeIsKept == PricedAsApproved /\ TrimmedToCash
=============================================================================
