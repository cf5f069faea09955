----------------------------- MODULE Submission -----------------------------
(***************************************************************************)
(* ExecutionManager.submit_plan with IbkrBroker.submit_trades: sells are   *)
(* planned, repriced and sent before buys; buys are fitted to the cash the *)
(* broker reports after the sell phase.  Every row is marked               *)
(* SubmissionUnconfirmed before the first order of its phase crosses the   *)
(* network.                                                                *)
(*                                                                         *)
(* Quotes are inputs: repricing either yields a price or blocks the trade. *)
(* Lists are sets that are visited in any order.  A replayed trade leaves  *)
(* no trace here.                                                          *)
(***************************************************************************)
EXTENDS ExecutionState, FiniteSetsExt

(* MAX_BUY_TRIM_FRACTION is 0.05: a shortfall of at most 1/20 is trimmed. *)
TrimDivisor == 20

OfSide(S, side) == {t \in S : SideOf[t] = side}

(* Mutant: a row without an order id is taken for one never sent. *)
MustReplayById(row) == row.st \notin {"absent", "planned"} /\ row.oid # NoId

(* _idempotent_replay: the row may stand for an order the broker has seen. *)
MustReplay(row) ==
    /\ row.st \notin {"absent", "planned"}
    /\ ~(row.raw \in RetryableRaw /\ row.oid = NoId /\ row.filled = 0)

-----------------------------------------------------------------------------
(* _plan_phase, sells first.  The residual plan is any set of the run's    *)
(* trades: what filled before need not come back, and a plan that is       *)
(* blocked by build_plan sends nothing.                                    *)

BuildPlan ==
    /\ At("plan")
    /\ \E P \in SUBSET {t \in Trades : RunOf[t] = session.run} :
          proc' = [proc EXCEPT !.pc = "plan_trade", !.todo = P, !.fresh = {}]
    /\ UNCHANGED <<orders, cash, ledger, session, crashes>>

PlanTrade(t) ==
    /\ At("plan_trade") /\ t \in proc.todo
    /\ SideOf[t] = "BUY" => OfSide(proc.todo, "SELL") = {}
    /\ IF MustReplay(ledger[t])
       THEN /\ proc' = [proc EXCEPT !.todo = @ \ {t}]
            /\ UNCHANGED ledger
       ELSE /\ proc' = [proc EXCEPT !.todo = @ \ {t}, !.fresh = @ \cup {t}]
            /\ Upsert(t, PlannedRow(Qty[t]))
    /\ UNCHANGED <<orders, cash, session, crashes>>

StartPhase(side) ==
    proc' = [proc EXCEPT !.pc = "reprice", !.phase = side, !.batch = {},
                         !.todo = OfSide(proc.fresh, side),
                         !.res = [t \in Trades |-> NoResult]]

PlanDone ==
    /\ At("plan_trade") /\ proc.todo = {}
    /\ StartPhase("SELL")
    /\ UNCHANGED <<orders, cash, ledger, session, crashes>>

(* After the sells come the buys; after the buys submit_plan returns. *)
NextPhase == IF proc.phase = "SELL" THEN StartPhase("BUY") ELSE EndProcess

-----------------------------------------------------------------------------
(* _reprice_for_execution: a fresh quote, or a local block. *)

RepriceTrade(t) ==
    /\ At("reprice") /\ t \in proc.todo
    /\ Upsert(t, PlannedRow(Qty[t]))
    /\ proc' = [proc EXCEPT !.todo = @ \ {t}, !.batch = @ \cup {t}]
    /\ UNCHANGED <<orders, cash, session, crashes>>

BlockOnQuote(t) ==
    /\ At("reprice") /\ t \in proc.todo
    /\ \E raw \in {"QuoteBlocked", "ContractUnresolved"} :
          RecordResult(t, Result(raw, NoId, 0))
    /\ proc' = [proc EXCEPT !.todo = @ \ {t}]
    /\ UNCHANGED <<orders, cash, session, crashes>>

(* Mutant: sells are sent without being marked first. *)
RepriceDoneUnmarked ==
    /\ At("reprice") /\ proc.todo = {}
    /\ IF proc.batch = {} THEN NextPhase
       ELSE IF proc.phase = "BUY" THEN proc' = [proc EXCEPT !.pc = "fit"]
       ELSE proc' = [proc EXCEPT !.pc = "send", !.todo = proc.batch, !.fails = 0]
    /\ UNCHANGED <<orders, cash, ledger, session, crashes>>

RepriceDone ==
    /\ At("reprice") /\ proc.todo = {}
    /\ IF proc.batch = {} THEN NextPhase
       ELSE IF proc.phase = "BUY" THEN proc' = [proc EXCEPT !.pc = "fit"]
       ELSE proc' = [proc EXCEPT !.pc = "mark", !.todo = proc.batch]
    /\ UNCHANGED <<orders, cash, ledger, session, crashes>>

-----------------------------------------------------------------------------
(* _fit_buys_to_refreshed_cash. *)

CashRequired == Price * SumFunctionOnSet(Qty, proc.batch)

(* Mutant: the proceeds of sells that still work count as cash. *)
ShortfallAfterSells ==
    CashRequired - cash
      - Price * SumFunctionOnSet([i \in Ids |-> IF SideOf[orders[i].t] = "SELL"
                                                THEN Remaining(orders[i]) ELSE 0], LiveIds)

Shortfall == CashRequired - cash

(* _trim_buys_to_cash: whole increments are cut from the largest buy, as   *)
(* many as the shortfall needs.                                            *)
Cut == (Shortfall + Price - 1) \div Price

Trimmable(t) ==
    /\ t \in proc.batch
    /\ \A u \in proc.batch : Qty[u] <= Qty[t]
    /\ Shortfall > 0 /\ Shortfall * TrimDivisor <= CashRequired

BuysFit ==
    /\ At("fit") /\ Shortfall <= 0
    /\ proc' = [proc EXCEPT !.pc = "mark", !.todo = proc.batch]
    /\ UNCHANGED <<orders, cash, ledger, session, crashes>>

(* A buy that would vanish is not trimmed: the batch is blocked instead. *)
TrimBuy(t) ==
    /\ At("fit") /\ Trimmable(t)
    /\ \E q \in 1..Qty[t] :
          /\ q = Qty[t] - Cut
          /\ proc' = [proc EXCEPT !.pc = "mark", !.todo = proc.batch,
                                  !.sendq = [@ EXCEPT ![t] = q]]
    /\ UNCHANGED <<orders, cash, ledger, session, crashes>>

(* Cash does not cover the buys, or cannot be read. *)
BlockBuys ==
    /\ At("fit")
    /\ proc' = [proc EXCEPT !.pc = "block", !.todo = proc.batch]
    /\ UNCHANGED <<orders, cash, ledger, session, crashes>>

BlockBuy(t) ==
    /\ At("block") /\ t \in proc.todo
    /\ RecordResult(t, Result("BuyingPowerBlocked", NoId, 0))
    /\ proc' = [proc EXCEPT !.todo = @ \ {t}]
    /\ UNCHANGED <<orders, cash, session, crashes>>

BlockDone ==
    /\ At("block") /\ proc.todo = {}
    /\ NextPhase
    /\ UNCHANGED <<orders, cash, ledger, session, crashes>>

-----------------------------------------------------------------------------
(* _submit_phase: uncertainty is durable before anything is sent. *)

MarkUnconfirmed(t) ==
    /\ At("mark") /\ t \in proc.todo
    /\ RecordResult(t, Result("SubmissionUnconfirmed", NoId, 0))
    /\ proc' = [proc EXCEPT !.todo = @ \ {t}]
    /\ UNCHANGED <<orders, cash, session, crashes>>

MarkDone ==
    /\ At("mark") /\ proc.todo = {}
    /\ proc' = [proc EXCEPT !.pc = "send", !.todo = proc.batch, !.fails = 0]
    /\ UNCHANGED <<orders, cash, ledger, session, crashes>>

(* submit_trades ends; the trades not sent are reported BrokerUnavailable. *)
(* _unsubmitted_results hands each of these results to the callback, which *)
(* writes the very row that RecordPhaseResult writes.                      *)
StopSending(resOf) ==
    proc' = [proc EXCEPT !.pc = "record", !.cur = NoTrade, !.todo = proc.batch,
                         !.res = resOf, !.fails = 0]

(* Mutant: the whole batch is reported, the orders that were sent too. *)
UnsentBatch(S) == [t \in Trades |-> IF t \in proc.batch THEN Result("BrokerUnavailable", NoId, 0)
                                    ELSE proc.res[t]]

Unsent(S) == [t \in Trades |-> IF t \in S THEN Result("BrokerUnavailable", NoId, 0)
                               ELSE proc.res[t]]

(* No connection before the next order is sent. *)
SendUnavailable ==
    /\ At("send") /\ proc.todo # {}
    /\ StopSending(Unsent(proc.todo))
    /\ UNCHANGED <<orders, cash, ledger, session, crashes>>

(* The order cannot be built (contract, limit price): nothing is sent. *)
SendFails(t) ==
    /\ At("send") /\ t \in proc.todo
    /\ RecordResult(t, Result("Failed", NoId, 0))
    /\ proc' = [proc EXCEPT !.todo = @ \ {t}, !.res[t] = Result("Failed", NoId, 0)]
    /\ UNCHANGED <<orders, cash, session, crashes>>

PlaceOrder(t) ==
    /\ At("send") /\ t \in proc.todo
    /\ Place(t, "base", proc.sendq[t])
    /\ proc' = [proc EXCEPT !.pc = "placed", !.cur = t, !.todo = @ \ {t}]
    /\ UNCHANGED <<cash, ledger, session, crashes>>

SendDone ==
    /\ At("send") /\ proc.todo = {}
    /\ StopSending(proc.res)
    /\ UNCHANGED <<orders, cash, ledger, session, crashes>>

-----------------------------------------------------------------------------
(* The order just placed is the newest one. *)

Placed == Len(orders)

Reported == Result(orders[Placed].st, Placed, orders[Placed].filled)

EmitPlaced(t) ==
    /\ At("placed") /\ proc.cur = t
    /\ RecordResult(t, Reported)
    /\ proc' = [proc EXCEPT !.pc = "wait"]
    /\ UNCHANGED <<orders, cash, session, crashes>>

(* Mutant: an exception after placeOrder is reported like one before it. *)
OutcomeUnavailable(t) ==
    /\ proc.pc \in {"placed", "wait", "wait_cancel"} /\ proc.cur = t
    /\ LET r == Result("BrokerUnavailable", NoId, 0)
       IN  RecordResult(t, r) /\ StopSending([Unsent(proc.todo) EXCEPT ![t] = r])
    /\ UNCHANGED <<orders, cash, session, crashes>>

(* An exception once placeOrder was entered proves nothing about the       *)
(* order; the rest of the batch is not sent.                               *)
OutcomeUncertain(t) ==
    /\ proc.pc \in {"placed", "wait", "wait_cancel"} /\ proc.cur = t
    /\ \E oid \in IF At("placed") THEN {NoId, Placed} ELSE {Placed} :
          LET r == Result("SubmissionUnconfirmed", oid, IF oid = NoId THEN 0 ELSE orders[Placed].filled)
          IN  /\ RecordResult(t, r)
              /\ StopSending([Unsent(proc.todo) EXCEPT ![t] = r])
    /\ UNCHANGED <<orders, cash, session, crashes>>

(* The result of one order; too many refusals in a row stop the batch. *)
ReturnResult(t, r) ==
    LET n == IF r.raw \in AcceptedRaw \/ r.filled > 0 THEN 0 ELSE proc.fails + 1
    IN  IF n >= MaxAcceptFailures
        THEN StopSending([Unsent(proc.todo) EXCEPT ![t] = r])
        ELSE proc' = [proc EXCEPT !.pc = "send", !.cur = NoTrade, !.fails = n, !.res[t] = r]

(* The status callback runs only when the status changed. *)
EmitChange(t) ==
    IF Reported.raw # ledger[t].raw THEN RecordResult(t, Reported) ELSE UNCHANGED ledger

(* Poll until the order is accepted or done. *)
OrderAnswered(t) ==
    /\ At("wait") /\ proc.cur = t
    /\ Reported.raw \in AcceptedRaw \cup DoneRaw
    /\ EmitChange(t)
    /\ ReturnResult(t, Reported)
    /\ UNCHANGED <<orders, cash, session, crashes>>

(* ORDER_STATUS_TIMEOUT_SECONDS without acceptance. *)
AcceptanceTimeout(t) ==
    /\ At("wait") /\ proc.cur = t
    /\ Reported.raw \notin AcceptedRaw \cup DoneRaw
    /\ IF CancelStaleOrders
       THEN /\ RequestCancel(Placed)
            /\ RecordResult(t, Result("PendingCancel", Placed, Reported.filled))
            /\ proc' = [proc EXCEPT !.pc = "wait_cancel"]
       ELSE /\ ReturnResult(t, Reported)
            /\ UNCHANGED <<orders, ledger>>
    /\ UNCHANGED <<cash, session, crashes>>

(* The cancel is confirmed, overtaken by a fill, or not answered in time. *)
CancelWaitEnds(t) ==
    /\ At("wait_cancel") /\ proc.cur = t
    /\ EmitChange(t)
    /\ ReturnResult(t, Reported)
    /\ UNCHANGED <<orders, cash, session, crashes>>

(* The results of the phase are recorded once more, in batch. *)
RecordPhaseResult(t) ==
    /\ At("record") /\ t \in proc.todo
    /\ RecordResult(t, proc.res[t])
    /\ proc' = [proc EXCEPT !.todo = @ \ {t}]
    /\ UNCHANGED <<orders, cash, session, crashes>>

RecordDone ==
    /\ At("record") /\ proc.todo = {}
    /\ NextPhase
    /\ UNCHANGED <<orders, cash, ledger, session, crashes>>

SubmissionStep ==
    \/ BuildPlan \/ PlanDone \/ RepriceDone
    \/ BuysFit \/ BlockBuys \/ BlockDone \/ MarkDone
    \/ SendUnavailable \/ SendDone \/ RecordDone
    \/ \E t \in Trades :
          \/ PlanTrade(t) \/ RepriceTrade(t) \/ BlockOnQuote(t)
          \/ TrimBuy(t) \/ BlockBuy(t)
          \/ MarkUnconfirmed(t) \/ SendFails(t) \/ PlaceOrder(t)
          \/ EmitPlaced(t) \/ OutcomeUncertain(t)
          \/ OrderAnswered(t) \/ AcceptanceTimeout(t) \/ CancelWaitEnds(t)
          \/ RecordPhaseResult(t)

=============================================================================
