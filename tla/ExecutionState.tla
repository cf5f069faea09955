--------------------------- MODULE ExecutionState ---------------------------
(***************************************************************************)
(* State shared by the two halves of poma/execution_manager.py, staged     *)
(* submission (module Submission) and reconciliation (module Reconcile).   *)
(*                                                                         *)
(* Durable: the order ledger, one row per ledger key.  The ledger is the   *)
(* abstract map of module Ledger; module OrderStore shows that the two     *)
(* files implement it across crashes.                                      *)
(*                                                                         *)
(* Volatile: proc, the memory of the single POMA process.  runtime_lock    *)
(* admits one process at a time; a crash resets proc and nothing else.     *)
(***************************************************************************)
EXTENDS Broker, FiniteSets

CONSTANTS
    RunOf,                  \* Trades -> 1..MaxRun, the run that plans the trade
    Qty,                    \* Trades -> planned quantity
    MaxRun,                 \* bound: number of runs
    MaxAttempts,            \* bound: rebalance attempts per run
    MaxCrashes,             \* bound: process crashes
    MaxReplacements,        \* bound: replacement orders sent for one trade
    AutoReplace,            \* AUTO_REPLACE_UNFILLED_ORDERS
    CancelStaleOrders,      \* CANCEL_STALE_ORDERS
    StalePolicy,            \* STALE_ORDER_POLICY: "block" or "cancel"
    MaxAcceptFailures,      \* MAX_CONSECUTIVE_ORDER_ACCEPTANCE_FAILURES
    LossyHistory,           \* completed-order history may miss an order
    LossyFills              \* reqExecutions may fail, or have aged out

ASSUME ExecutionAssumption ==
    /\ IsFiniteSet(Trades)
    /\ MaxRun \in Nat /\ MaxAttempts \in Nat /\ MaxCrashes \in Nat
    /\ MaxReplacements \in Nat
    /\ MaxAcceptFailures \in Nat \ {0}
    /\ RunOf \in [Trades -> 1..MaxRun]
    /\ Qty \in [Trades -> 1..MaxQty]
    /\ AutoReplace \in BOOLEAN /\ CancelStaleOrders \in BOOLEAN
    /\ LossyHistory \in BOOLEAN /\ LossyFills \in BOOLEAN
    /\ StalePolicy \in {"block", "cancel"}

VARIABLES
    ledger,         \* Trades -> Row
    proc,           \* memory of the running process
    session,        \* LocalState: the last run and how often it was attempted
    crashes         \* crashes so far

execVars == <<ledger, proc, session, crashes>>

vars == <<orders, cash, ledger, proc, session, crashes>>

-----------------------------------------------------------------------------
(* Program points.  The names follow the method a step belongs to. *)

ReconcilePcs == {"rec_open", "rec_hist", "rec_entry", "rec_cancelled",
                 "rep_cancel", "rep_wait", "rep_placed", "resume", "resume_placed"}

StalePcs == {"stale", "stale_cancel", "stale_cancelled"}

SubmitPcs == {"plan", "plan_trade", "reprice", "fit", "block", "mark",
              "send", "placed", "wait", "wait_cancel", "record"}

NoTrade == "no trade"

NoResult == Result("", NoId, 0)

IdleProc ==
    [pc |-> "idle", job |-> "none", todo |-> {}, cur |-> NoTrade, err |-> FALSE,
     opens |-> {}, hist |-> {}, histErr |-> FALSE, execs |-> FALSE,
     phase |-> "SELL", fresh |-> {}, batch |-> {},
     sendq |-> Qty, res |-> [t \in Trades |-> NoResult], fails |-> 0]

(* OpenOrderSnapshot: an open order as fetch_open_order_snapshots saw it. *)
Snap == [id : Nat, raw : LiveRaw, filled : 0..MaxQty]

ProcType ==
    [pc : {"idle"} \cup ReconcilePcs \cup StalePcs \cup SubmitPcs,
     job : {"none", "reconcile", "rebalance"},
     todo : SUBSET Trades, cur : Trades \cup {NoTrade}, err : BOOLEAN,
     opens : SUBSET Snap, hist : SUBSET Nat, histErr : BOOLEAN, execs : BOOLEAN,
     phase : {"SELL", "BUY"}, fresh : SUBSET Trades, batch : SUBSET Trades,
     sendq : [Trades -> 1..MaxQty],
     res : [Trades -> [raw : RawStatuses, oid : Nat, filled : 0..MaxQty]],
     fails : 0..MaxAcceptFailures]

ExecTypeOK ==
    /\ ledger \in [Trades -> Row]
    /\ session \in [run : 0..MaxRun, attempts : 0..MaxAttempts]
    /\ crashes \in 0..MaxCrashes
    /\ proc \in ProcType

ExecInit ==
    /\ ledger = [t \in Trades |-> AbsentRow]
    /\ proc = IdleProc
    /\ session = [run |-> 0, attempts |-> 0]
    /\ crashes = 0

-----------------------------------------------------------------------------
(* OrderStore.upsert of one row. *)
Upsert(t, row) == ledger' = [ledger EXCEPT ![t] = row]

(* _record_result: update the open entry, or a new one when none is open. *)
RecordResult(t, res) ==
    Upsert(t, WithOrderResult(IF IsOpen(ledger[t]) THEN ledger[t]
                              ELSE PlannedRow(proc.sendq[t]), res))

(* Mutant: terminal rows count as open. *)
RecordedEntries == {t \in Trades : ledger[t].st # "absent"}

(* Mutant: rows of uncertain outcome are passed over. *)
CertainEntries ==
    {t \in Trades : IsOpen(ledger[t]) /\ ledger[t].st \notin {"unknown", "cancel_pending"}}

OpenEntries == {t \in Trades : IsOpen(ledger[t])}

(* The process ends, normally or not; the next one starts from nothing. *)
EndProcess == proc' = IdleProc

At(pc) == proc.pc = pc

(* A process killed by a crash, OOM or VM restart between two steps. *)
Crash ==
    /\ ~At("idle")
    /\ crashes < MaxCrashes
    /\ crashes' = crashes + 1
    /\ EndProcess
    /\ UNCHANGED <<orders, cash, ledger, session>>

(* Time passes for an order that has been submitted.  Ages are read only   *)
(* by a reconcile pass, against one reading of the clock taken before its  *)
(* first entry, so that it is enough to let time pass between processes.   *)
Tick(t) ==
    /\ At("idle")
    /\ IsOpen(ledger[t]) /\ ledger[t].st # "planned"
    /\ ledger[t].age < 2
    /\ Upsert(t, [ledger[t] EXCEPT !.age = @ + 1])
    /\ UNCHANGED <<orders, cash, proc, session, crashes>>

=============================================================================
