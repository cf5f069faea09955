--------------------------- MODULE OrderLifecycle ---------------------------
(***************************************************************************)
(* The vocabulary of poma/order_lifecycle.py: the internal lifecycle of an *)
(* order, its derivation from a raw broker status, and the ledger row      *)
(* (OrderLedgerEntry) with its two update operations.                      *)
(*                                                                         *)
(* A ledger row keeps the fields that control reads.  Prices, timestamps,  *)
(* messages and the quote metadata are left out; the elapsed time since    *)
(* submitted_at is kept as an age class (see Ages).                        *)
(***************************************************************************)
EXTENDS Naturals

CONSTANTS
    MaxQty          \* largest order quantity, in tradable increments

ASSUME MaxQtyAssumption == MaxQty \in Nat \ {0}

-----------------------------------------------------------------------------
(* OrderLifecycleState, plus "absent" for a key the ledger has never seen. *)

TerminalStates == {"filled", "cancelled", "rejected", "expired"}

WorkingStates == {"broker_accepted", "partially_filled"}

LifecycleStates ==
    TerminalStates \cup WorkingStates \cup
    {"planned", "submitted", "replace_pending", "cancel_pending", "unknown"}

(* Raw statuses.  The first group is what IBKR reports for an order, the   *)
(* second what POMA records itself.                                        *)
CancelledRaw == {"Cancelled", "ApiCancelled"}

DoneRaw == CancelledRaw \cup {"Filled", "Inactive"}

AcceptedRaw == {"PreSubmitted", "Submitted", "Filled"}

SubmissionFailureRaw ==
    {"Failed", "BrokerUnavailable", "OrderNotAccepted",
     "QuoteBlocked", "BuyingPowerBlocked", "ContractUnresolved"}

RetryableRaw ==
    {"QuoteBlocked", "BuyingPowerBlocked", "BrokerUnavailable", "OrderNotAccepted"}

RawStatuses ==
    DoneRaw \cup AcceptedRaw \cup SubmissionFailureRaw \cup
    {"", "PendingSubmit", "PendingCancel", "SubmissionUnconfirmed",
     "ReplacementUnconfirmed", "NotOpenUnverified"}

(* classify_lifecycle: the tests are tried in this order. *)
ClassifyLifecycle(raw, filled, remaining) ==
    IF raw = "Filled" \/ (filled > 0 /\ remaining = 0) THEN "filled"
    ELSE IF raw \in CancelledRaw THEN "cancelled"
    ELSE IF raw = "PendingCancel" THEN "cancel_pending"
    ELSE IF raw = "Inactive" \/ raw \in SubmissionFailureRaw THEN "rejected"
    ELSE IF raw \in {"PreSubmitted", "Submitted"}
         THEN IF filled > 0 THEN "partially_filled" ELSE "broker_accepted"
    ELSE IF raw = "PendingSubmit" THEN "submitted"
    ELSE "unknown"

-----------------------------------------------------------------------------
(* An orderRef is the ledger key ("base") or the key suffixed ":r1"        *)
(* ("repl"); replace_count < 1 allows no further suffix.                   *)
Refs == {"base", "repl"}

(* Elapsed time since submitted_at: 0 before REPLACE_AFTER_SECONDS, 1 from *)
(* there on, 2 from CANCEL_AFTER_SECONDS on.  config.py requires the       *)
(* second threshold to be the larger one.                                  *)
Ages == 0..2

NoId == 0           \* order_id is None

(* OrderLedgerEntry.  "repl" says that replacement_order_ref is reserved.  *)
Row == [st     : LifecycleStates \cup {"absent"},
        raw    : RawStatuses,
        oid    : Nat,
        qty    : 0..MaxQty,
        filled : 0..MaxQty,
        ref    : Refs,
        repl   : BOOLEAN,
        rc     : 0..1,
        age    : Ages]

PlannedRow(q) ==
    [st |-> "planned", raw |-> "", oid |-> NoId, qty |-> q, filled |-> 0,
     ref |-> "base", repl |-> FALSE, rc |-> 0, age |-> 0]

AbsentRow == [PlannedRow(0) EXCEPT !.st = "absent"]

IsTerminal(row) == row.st \in TerminalStates

(* An open ledger entry: recorded and not terminal. *)
IsOpen(row) == row.st \notin TerminalStates \cup {"absent"}

(* An OrderResult of the broker adapter: raw status, order id (or NoId),   *)
(* filled quantity.                                                        *)
Result(raw, oid, filled) == [raw |-> raw, oid |-> oid, filled |-> filled]

Monus(a, b) == IF a > b THEN a - b ELSE 0

(* Mutant: fills are added to what the row already has. *)
AccumulatingOrderResult(row, res) ==
    [row EXCEPT
        !.st = ClassifyLifecycle(res.raw, res.filled, Monus(row.qty, res.filled)),
        !.raw = res.raw,
        !.oid = IF res.oid # NoId THEN res.oid ELSE @,
        !.filled = @ + res.filled]

(* with_order_result: what remains is computed from the row's own quantity. *)
WithOrderResult(row, res) ==
    [row EXCEPT
        !.st = ClassifyLifecycle(res.raw, res.filled, Monus(row.qty, res.filled)),
        !.raw = res.raw,
        !.oid = IF res.oid # NoId THEN res.oid ELSE @,
        !.filled = res.filled]

(* with_snapshot: raw status, filled and remaining come from the broker. *)
WithSnapshot(row, raw, oid, filled, remaining) ==
    [row EXCEPT
        !.st = ClassifyLifecycle(raw, filled, remaining),
        !.raw = raw,
        !.oid = IF oid # NoId THEN oid ELSE @,
        !.filled = filled]

=============================================================================
