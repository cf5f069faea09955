------------------------------- MODULE Broker -------------------------------
(***************************************************************************)
(* The brokerage account as POMA sees it through ib_async: the orders IBKR *)
(* has received, and the cash balance.  IBKR is external code; its         *)
(* behaviour is the one poma/broker.py and poma/execution_manager.py are   *)
(* written against: an order is pending, then working, may fill share by   *)
(* share at any moment (also while a cancel is in flight), and ends        *)
(* Filled, Cancelled or Inactive, after which it never changes again.      *)
(*                                                                         *)
(* PreSubmitted and ApiCancelled are treated by every caller exactly like  *)
(* Submitted and Cancelled, so IBKR only reports the latter two here.      *)
(***************************************************************************)
EXTENDS OrderLifecycle, Integers, Sequences

CONSTANTS
    Trades,         \* the (run, ticker, side) triples a ledger key can name
    SideOf,         \* Trades -> {"BUY", "SELL"}
    Price,          \* limit cash per tradable increment
    StartCash       \* the account's possible opening cash balances

ASSUME BrokerAssumption ==
    /\ SideOf \in [Trades -> {"BUY", "SELL"}]
    /\ Price \in Nat \ {0}
    /\ StartCash \subseteq Int

VARIABLES
    orders,         \* every order IBKR has received; its index is its orderId
    cash            \* account cash (account_snapshot().cash_usd)

brokerVars == <<orders, cash>>

LiveRaw == {"PendingSubmit", "Submitted", "PendingCancel"}

Order == [t : Trades, ref : Refs, qty : 0..MaxQty,
          st : LiveRaw \cup {"Filled", "Cancelled", "Inactive"},
          filled : 0..MaxQty]

BrokerTypeOK ==
    /\ orders \in Seq(Order)
    /\ cash \in Int

BrokerInit ==
    /\ orders = << >>
    /\ cash \in StartCash

Ids == DOMAIN orders

IsLive(i) == orders[i].st \in LiveRaw

LiveIds == {i \in Ids : IsLive(i)}

DoneIds == Ids \ LiveIds

Remaining(o) == Monus(o.qty, o.filled)

(* placeOrder: ib_async reports PendingSubmit until IBKR answers. *)
NewOrder(t, ref, q) ==
    [t |-> t, ref |-> ref, qty |-> q, st |-> "PendingSubmit", filled |-> 0]

Place(t, ref, q) == orders' = Append(orders, NewOrder(t, ref, q))

(* cancelOrder on an order that is still live. *)
RequestCancel(i) == orders' = [orders EXCEPT ![i].st = "PendingCancel"]

-----------------------------------------------------------------------------
(* What IBKR does on its own. *)

Accept(i) ==
    /\ orders[i].st = "PendingSubmit"
    /\ orders' = [orders EXCEPT ![i].st = "Submitted"]
    /\ UNCHANGED cash

Reject(i) ==
    /\ orders[i].st = "PendingSubmit"
    /\ orders' = [orders EXCEPT ![i].st = "Inactive"]
    /\ UNCHANGED cash

(* One increment executes at the limit price. *)
Fill(i) ==
    LET o == orders[i] IN
    /\ IsLive(i)
    /\ o.filled < o.qty
    /\ orders' = [orders EXCEPT
                    ![i].filled = o.filled + 1,
                    ![i].st = IF o.filled + 1 = o.qty THEN "Filled"
                              ELSE IF o.st = "PendingSubmit" THEN "Submitted"
                              ELSE o.st]
    /\ cash' = IF SideOf[o.t] = "BUY" THEN cash - Price ELSE cash + Price

ConfirmCancel(i) ==
    /\ orders[i].st = "PendingCancel"
    /\ orders' = [orders EXCEPT ![i].st = "Cancelled"]
    /\ UNCHANGED cash

(* The exchange refuses the cancel and the order keeps working. *)
RejectCancel(i) ==
    /\ orders[i].st = "PendingCancel"
    /\ orders' = [orders EXCEPT ![i].st = "Submitted"]
    /\ UNCHANGED cash

(* The operator cancels in TWS, or the DAY order expires at the close. *)
CloseOut(i) ==
    /\ orders[i].st = "Submitted"
    /\ orders' = [orders EXCEPT ![i].st = "Cancelled"]
    /\ UNCHANGED cash

BrokerStep ==
    \E i \in Ids :
        \/ Accept(i)
        \/ Reject(i)
        \/ Fill(i)
        \/ ConfirmCancel(i)
        \/ RejectCancel(i)
        \/ CloseOut(i)

=============================================================================
