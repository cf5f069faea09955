-------------------------- MODULE ExecutionManager --------------------------
(***************************************************************************)
(* poma/execution_manager.py as a whole: rebalance attempts, scheduled     *)
(* reconciliation, crashes, the passing of time, and IBKR, interleaved.    *)
(***************************************************************************)
EXTENDS Submission, Reconcile

Init == BrokerInit /\ ExecInit

BrokerActs == BrokerStep /\ UNCHANGED execVars

Next ==
    \/ BrokerActs
    \/ Crash
    \/ \E t \in Trades : Tick(t)
    \/ ReconcileStep
    \/ SubmissionStep

Spec == Init /\ [][Next]_vars

(* Fairness.  cron starts reconcile-orders every five minutes, the process *)
(* runs on, time passes, IBKR ends every order at the latest at the close  *)
(* (DAY orders), and a reconcile pass that is repeated for ever does not   *)
(* find IBKR unreachable every time.                                       *)
Fairness ==
    /\ WF_vars(SubmissionStep \/ ReconcileStep)
    /\ WF_vars(StartReconcile)
    /\ SF_vars(FetchOpenOrders)
    /\ SF_vars(FetchHistory)
    /\ WF_vars(BrokerActs /\ LiveIds' # LiveIds)
    /\ \A t \in Trades : SF_vars(Tick(t))

FairSpec == Spec /\ Fairness

-----------------------------------------------------------------------------
(* TYPE.  The shape of every variable. *)
TypeOK == BrokerTypeOK /\ ExecTypeOK

OrdersOf(t) == {i \in Ids : orders[i].t = t}

BaseOrders(t) == {i \in OrdersOf(t) : orders[i].ref = "base"}

(* submit_plan / _idempotent_replay: an orderRef reaches the broker at     *)
(* most once, however often the run is retried and wherever the process    *)
(* dies.                                                                   *)
BaseOrderPlacedOnce == \A t \in Trades : \A i, j \in BaseOrders(t) : i = j

(* _idempotent_replay: a row that a retry would submit again stands for an *)
(* orderRef the broker has never seen.                                     *)
ResubmittableMeansUnsent ==
    \A t \in Trades : ~MustReplay(ledger[t]) => BaseOrders(t) = {}

(* _record_result and reconcile: every order that can still execute has an *)
(* open ledger row that tracks or has reserved its orderRef, so no         *)
(* reconcile pass can overlook it.                                         *)
LiveOrderIsTracked ==
    \A i \in LiveIds :
        LET row == ledger[orders[i].t] IN
        /\ IsOpen(row)
        /\ row.ref = orders[i].ref \/ (row.repl /\ orders[i].ref = "repl")

(* replace_order: the original and its replacement never work at the same  *)
(* time, so a trade cannot execute twice over.                             *)
OneLiveOrder == \A i, j \in LiveIds : orders[i].t = orders[j].t => i = j

(* replace_order and _resume_replacement: a replacement is only ever sent  *)
(* for an original that is cancelled without a single fill.                *)
ReplacesOnlyUnfilledCancelled ==
    \A i, j \in Ids :
        orders[i].t = orders[j].t /\ orders[i].ref = "base" /\ orders[j].ref = "repl"
            => orders[i].st = "Cancelled" /\ orders[i].filled = 0

(* check_stale_orders: a rebalance sends an order only while no other run  *)
(* has an unresolved row.                                                  *)
NoOrderOverUnresolvedRun ==
    [][Len(orders') > Len(orders) /\ proc.job = "rebalance" /\ At("send")
         => ForeignEntries = {}]_vars

Executed(t) == MapThenSumSet(LAMBDA i : orders[i].filled, OrdersOf(t))

(* with_snapshot and with_order_result: a terminal row tells the truth.    *)
(* Nothing of the trade is live any more, and the recorded fill is what    *)
(* the broker executed.                                                    *)
TerminalRowIsTrue ==
    \A t \in Trades : IsTerminal(ledger[t]) =>
        /\ OrdersOf(t) \cap LiveIds = {}
        /\ ledger[t].filled = Executed(t)

(* OrderStore.get and _idempotent_replay: outside the batch that is being  *)
(* submitted, a terminal row that stands for a broker order is final.      *)
TerminalRowIsFinal ==
    [][\A t \in Trades \ proc.batch :
         IsTerminal(ledger[t]) /\ MustReplay(ledger[t]) => ledger'[t] = ledger[t]]_vars

(* The docstring of _resume_replacement ("Safe against duplicates"): what  *)
(* was executed and what still can be stays within the planned quantity.   *)
NeverOverTraded ==
    \A t \in Trades :
        MapThenSumSet(LAMBDA i : IF IsLive(i) THEN orders[i].qty ELSE orders[i].filled,
                      OrdersOf(t)) <= Qty[t]

(* What each order may still take from the cash, in increments. *)
Claims == [i \in Ids |-> IF SideOf[orders[i].t] = "BUY" THEN Remaining(orders[i]) ELSE 0]

OpenBuyCost == Price * SumFunctionOnSet(Claims, LiveIds)

(* _fit_buys_to_refreshed_cash: the buys at work can be paid for with the  *)
(* cash the broker reports; unfilled sells never count.  An account may    *)
(* start with a debit: then no buy is at work until sells have covered it. *)
BuysAreFunded == OpenBuyCost > 0 => OpenBuyCost <= cash

(* Where no working buy has a claim on the cash that a later phase of buys *)
(* is fitted to: nothing is replaced, and a run either has a single        *)
(* attempt or a single buy.                                                *)
OneBuyPerRun ==
    \A t, u \in OfSide(Trades, "BUY") : RunOf[t] = RunOf[u] => t = u

NoRivalClaims == ~AutoReplace /\ (MaxAttempts <= 1 \/ OneBuyPerRun)

(* reconcile's docstring: an entry whose replace was interrupted still     *)
(* finds whichever order really exists.  A reserved replacement that works *)
(* is therefore no reason to stop the pass.  The code stops it: see        *)
(* section 6 of the README.                                               *)
InterruptedReplaceIsFound ==
    \A i \in LiveIds :
        At("rec_open") /\ orders[i].ref = "repl" /\ ledger[orders[i].t].repl
            => ~RestoreConflict(i)

(* reconcile-orders: every order that was sent ends in a terminal row.     *)
SentOrderIsResolved ==
    \A t \in Trades : OrdersOf(t) # {} ~> IsTerminal(ledger[t])

-----------------------------------------------------------------------------
(* The inductive invariant behind BaseOrderPlacedOnce. *)

PhasePcs == {"reprice", "fit", "block", "mark", "send", "placed", "wait", "wait_cancel", "record"}

SendPcs == {"send", "placed", "wait", "wait_cancel"}

(* The buys are still ahead of a process that is in its sell phase. *)
LaterBuys == IF proc.phase = "SELL" THEN OfSide(proc.fresh, "BUY") ELSE {}

(* The trades a process may still send, or record as never sent. *)
ToSend ==
    CASE At("plan_trade") -> proc.fresh
      [] proc.pc \in {"reprice", "fit", "block", "mark"} -> proc.todo \cup proc.batch \cup LaterBuys
      [] proc.pc \in SendPcs -> proc.todo \cup LaterBuys
      [] At("record") -> LaterBuys
      [] OTHER -> {}

UnsentInv == \A t \in ToSend : BaseOrders(t) = {}

PhaseInv ==
    proc.pc \in PhasePcs => proc.todo \cup proc.batch \subseteq OfSide(proc.fresh, proc.phase)

(* Nothing is sent before its row says that it may have been. *)
MarkedInv ==
    /\ At("mark") => \A t \in proc.batch \ proc.todo : MustReplay(ledger[t])
    /\ proc.pc \in SendPcs => \A t \in proc.todo : MustReplay(ledger[t])

(* No order that was sent is reported as never sent. *)
ResultInv ==
    /\ proc.pc \in PhasePcs \ {"record"} => \A t \in Trades : proc.res[t].raw \notin RetryableRaw
    /\ At("record") => \A t \in Trades : BaseOrders(t) # {} => proc.res[t].raw \notin RetryableRaw

(* Order ids held by the process name orders the broker knows. *)
CursorInv ==
    /\ proc.pc \in {"placed", "wait", "wait_cancel", "rep_placed", "resume_placed"} => Len(orders) > 0
    /\ proc.pc \in {"rep_cancel", "rep_wait"} => proc.cur \in Trades /\ ledger[proc.cur].oid \in Ids
    /\ \A s \in proc.opens : s.id \in Ids
    /\ proc.hist \subseteq Ids

ExecInv ==
    /\ TypeOK /\ CursorInv
    /\ BaseOrderPlacedOnce /\ ResubmittableMeansUnsent
    /\ UnsentInv /\ PhaseInv /\ MarkedInv /\ ResultInv

-----------------------------------------------------------------------------
(* The ledger as its callers see it: module OrderRows.  A row counts as    *)
(* planned, also once it is marked, until its order is sent and            *)
(* submit_trades has ended its wait for it, whatever was heard meanwhile.  *)

Awaited == IF proc.pc \in {"placed", "wait", "wait_cancel"} THEN {proc.cur} ELSE {}

HandPcs == PhasePcs \cup {"plan_trade"}

Unsubmitted ==
    {t \in proc.fresh : proc.pc \in HandPcs /\ IsOpen(ledger[t]) /\ OrdersOf(t) = {}}

Sending == Awaited \cup Unsubmitted

AbstractRow(t) ==
    LET row == ledger[t] IN
    IF t \in Sending THEN "planned"
    ELSE IF IsTerminal(row) THEN IF MustReplay(row) THEN "final" ELSE "retry"
    ELSE IF row.st \in {"absent", "planned"} THEN row.st
    ELSE IF OrdersOf(t) = {} THEN "lost"
    ELSE IF row.st = "unknown" THEN "unknown"
    ELSE "working"

AbstractRows == [t \in Trades |-> AbstractRow(t)]

R == INSTANCE OrderRows WITH Keys <- Trades, rows <- AbstractRows, batch <- Sending

(* execution_manager.py as a whole: submission, replay, reconciliation and *)
(* replacement move a row only as OrderRows lets them, wherever the        *)
(* process dies.  A row that may stand for a broker order is never planned *)
(* again nor called unsent, what is final stays final, and a row without   *)
(* an order is never closed on evidence.                                   *)
RowsAreFollowed == R!RowsSpec

=============================================================================
