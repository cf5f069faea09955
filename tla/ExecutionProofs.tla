--------------------------- MODULE ExecutionProofs ---------------------------
(***************************************************************************)
(* Proofs about ExecutionManager, for every set of trades, every number of *)
(* runs, attempts, crashes and replacements, and every setting: the type   *)
(* invariant, that no orderRef reaches the broker twice, which order a     *)
(* ledger row stands for (IdentityInv), what submit_plan knows of the      *)
(* batch it sends (SubmitInv), and that a rebalance sends nothing over     *)
(* another run's open rows.                                                *)
(***************************************************************************)
EXTENDS ExecutionManager, TLAPS

USE MaxQtyAssumption, BrokerAssumption, ExecutionAssumption

ResultType == [raw : RawStatuses, oid : Nat, filled : 0..MaxQty]

-----------------------------------------------------------------------------
(* classify_lifecycle and the two row updates. *)

(* classify_lifecycle never answers PLANNED. *)
LEMMA ClassifyRange ==
    ASSUME NEW raw, NEW f, NEW r
    PROVE  /\ ClassifyLifecycle(raw, f, r) \in LifecycleStates
           /\ ClassifyLifecycle(raw, f, r) \notin {"absent", "planned"}
BY Zenon DEF ClassifyLifecycle, LifecycleStates, TerminalStates, WorkingStates

(* with_order_result keeps a row well formed and adopts the raw status. *)
LEMMA RowTypes ==
    ASSUME NEW row \in Row, NEW res \in ResultType
    PROVE  /\ WithOrderResult(row, res) \in Row
           /\ WithOrderResult(row, res).raw = res.raw
           /\ WithOrderResult(row, res).st \notin {"absent", "planned"}
<1> DEFINE c == ClassifyLifecycle(res.raw, res.filled, Monus(row.qty, res.filled))
<1>1. c \in LifecycleStates /\ c \notin {"absent", "planned"}
  BY ClassifyRange
<1> HIDE DEF c
<1>2. WithOrderResult(row, res) =
        [row EXCEPT !.st = c, !.raw = res.raw,
                    !.oid = IF res.oid # NoId THEN res.oid ELSE row.oid, !.filled = res.filled]
  BY DEF WithOrderResult, c
<1> QED
  BY <1>1, <1>2 DEF Row, ResultType

(* with_snapshot keeps a row well formed and adopts the raw status and id. *)
LEMMA SnapshotTypes ==
    ASSUME NEW row \in Row, NEW raw \in RawStatuses, NEW oid \in Nat,
           NEW filled \in 0..MaxQty, NEW rem
    PROVE  /\ WithSnapshot(row, raw, oid, filled, rem) \in Row
           /\ WithSnapshot(row, raw, oid, filled, rem).raw = raw
           /\ WithSnapshot(row, raw, oid, filled, rem).st \notin {"absent", "planned"}
           /\ oid # NoId => WithSnapshot(row, raw, oid, filled, rem).oid = oid
<1> DEFINE c == ClassifyLifecycle(raw, filled, rem)
<1>1. c \in LifecycleStates /\ c \notin {"absent", "planned"}
  BY ClassifyRange
<1> HIDE DEF c
<1>2. WithSnapshot(row, raw, oid, filled, rem) =
        [row EXCEPT !.st = c, !.raw = raw,
                    !.oid = IF oid # NoId THEN oid ELSE row.oid, !.filled = filled]
  BY DEF WithSnapshot, c
<1> QED
  BY <1>1, <1>2, ZenonT(30) DEF Row

(* Direct edits of a row. *)
LEMMA EditTypes ==
    ASSUME NEW row \in Row
    PROVE  /\ [row EXCEPT !.repl = FALSE] \in Row
           /\ [row EXCEPT !.ref = "repl", !.repl = FALSE] \in Row
BY DEF Row, Refs

(* A row set to cancel_pending or unknown stands for an order sent. *)
LEMMA StatusEdit ==
    ASSUME NEW row \in Row, NEW st \in {"cancel_pending", "unknown"},
           NEW raw \in {"PendingCancel", "NotOpenUnverified"}
    PROVE  /\ [row EXCEPT !.st = st, !.raw = raw] \in Row
           /\ MustReplay([row EXCEPT !.st = st, !.raw = raw])
<1>1. st \in LifecycleStates /\ st \notin {"absent", "planned"}
      /\ raw \in RawStatuses /\ raw \notin RetryableRaw
  BY DEF LifecycleStates, RawStatuses, RetryableRaw
<1> QED
  BY <1>1 DEF Row, MustReplay

(* A row with a reserved replacement stands for an order sent. *)
LEMMA ReserveEdit ==
    ASSUME NEW row \in Row, NEW r,
           r = [row EXCEPT !.st = "replace_pending", !.raw = "ReplacementUnconfirmed",
                           !.rc = 1, !.repl = TRUE]
    PROVE  r \in Row /\ MustReplay(r) /\ r.oid = row.oid
<1>1. "replace_pending" \in LifecycleStates /\ "ReplacementUnconfirmed" \in RawStatuses
      /\ "ReplacementUnconfirmed" \notin RetryableRaw
  BY DEF LifecycleStates, RawStatuses, RetryableRaw
<1> DEFINE m == [row EXCEPT !.st = "replace_pending", !.raw = "ReplacementUnconfirmed"]
           k == [m EXCEPT !.rc = 1]
<1>2. r \in Row
  <2>1. m \in Row
    BY <1>1 DEF Row
  <2> HIDE DEF m
  <2>2. k \in Row
    <3>1. 1 \in 0..1
      OBVIOUS
    <3> QED
      BY <2>1, <3>1 DEF Row
  <2> HIDE DEF k
  <2>3. [k EXCEPT !.repl = TRUE] \in Row
    BY <2>2 DEF Row
  <2>4. r = [k EXCEPT !.repl = TRUE]
    BY DEF k, m
  <2> QED
    BY <2>3, <2>4
<1>3. r.st = "replace_pending" /\ r.raw = "ReplacementUnconfirmed" /\ r.oid = row.oid
  BY DEF Row
<1>4. MustReplay(r)
  BY <1>1, <1>3 DEF MustReplay
<1> QED
  BY <1>2, <1>3, <1>4

(* A planned row is well formed. *)
LEMMA PlannedType ==
    ASSUME NEW q \in 0..MaxQty
    PROVE  PlannedRow(q) \in Row
BY DEF PlannedRow, Row, LifecycleStates, RawStatuses, Refs, Ages, NoId

(* So is the row of a key never recorded. *)
LEMMA AbsentType == AbsentRow \in Row
<1>1. PlannedRow(0) \in Row
  BY PlannedType
<1> QED
  BY <1>1 DEF AbsentRow, Row

(* The memory of a fresh process is well formed. *)
LEMMA IdleType == IdleProc \in ProcType
<1>1. NoResult \in ResultType
  BY DEF NoResult, Result, ResultType, RawStatuses, NoId
<1> QED
  BY <1>1 DEF IdleProc, ProcType, ResultType, NoTrade

(* A broker status is not one of the statuses a retry may act on. *)
LEMMA OrderStatusRaw ==
    ASSUME BrokerTypeOK, NEW i \in Ids
    PROVE  /\ orders[i] \in Order
           /\ orders[i].st \in RawStatuses /\ orders[i].st \notin RetryableRaw
           /\ orders[i].filled \in 0..MaxQty /\ orders[i].qty \in 0..MaxQty
           /\ orders[i].t \in Trades /\ orders[i].ref \in Refs
<1>1. orders[i] \in Order
  BY DEF BrokerTypeOK, Ids
<1> QED
  BY <1>1 DEF Order, LiveRaw, RawStatuses, DoneRaw, CancelledRaw, AcceptedRaw, RetryableRaw

-----------------------------------------------------------------------------
(* Orders: updates keep the identity of every order. *)

(* An order that changes keeps its trade and its orderRef. *)
LEMMA UpdateKeepsOrders ==
    ASSUME BrokerTypeOK, NEW i \in Ids, NEW o \in Order,
           o.t = orders[i].t, o.ref = orders[i].ref,
           orders' = [orders EXCEPT ![i] = o]
    PROVE  /\ orders' \in Seq(Order) /\ Len(orders') = Len(orders) /\ Ids' = Ids
           /\ \A t \in Trades : BaseOrders(t)' = BaseOrders(t)
<1>1. orders' \in Seq(Order) /\ Len(orders') = Len(orders) /\ DOMAIN orders' = DOMAIN orders
  BY DEF BrokerTypeOK, Ids
<1>2. \A j \in DOMAIN orders : orders'[j].t = orders[j].t /\ orders'[j].ref = orders[j].ref
  BY DEF BrokerTypeOK, Ids
<1> QED
  BY <1>1, <1>2 DEF Ids, BaseOrders, OrdersOf

(* placeOrder adds one order and leaves the others alone. *)
LEMMA PlaceAddsOrder ==
    ASSUME BrokerTypeOK, NEW t \in Trades, NEW ref \in Refs, NEW q \in 0..MaxQty,
           Place(t, ref, q)
    PROVE  /\ orders' \in Seq(Order) /\ Len(orders') = Len(orders) + 1
           /\ Ids \subseteq Ids'
           /\ \A u \in Trades : ~(u = t /\ ref = "base") => BaseOrders(u)' = BaseOrders(u)
           /\ BaseOrders(t) = {} => \A j, k \in BaseOrders(t)' : j = k
<1> DEFINE o == NewOrder(t, ref, q)
           n == Len(orders)
<1>1. o \in Order /\ o.t = t /\ o.ref = ref
  BY DEF NewOrder, Order, LiveRaw
<1> HIDE DEF o
<1>2. /\ orders' = Append(orders, o) /\ orders \in Seq(Order) /\ n \in Nat
      /\ DOMAIN orders = 1..n
  BY DEF Place, BrokerTypeOK, o
<1>3. /\ orders' \in Seq(Order) /\ Len(orders') = n + 1 /\ DOMAIN orders' = 1..(n + 1)
      /\ \A j \in 1..n : orders'[j] = orders[j]
      /\ orders'[n + 1] = o
  BY <1>1, <1>2
<1>4. Ids \subseteq Ids'
  BY <1>2, <1>3 DEF Ids
<1>5. ASSUME NEW u \in Trades, ~(u = t /\ ref = "base")
      PROVE  BaseOrders(u)' = BaseOrders(u)
  <2>1. ~(orders'[n + 1].t = u /\ orders'[n + 1].ref = "base")
    BY <1>1, <1>3, <1>5
  <2>2. 1..(n + 1) = (1..n) \cup {n + 1}
    BY <1>2
  <2> HIDE DEF n
  <2> QED
    BY <1>2, <1>3, <2>1, <2>2 DEF BaseOrders, OrdersOf, Ids
<1>6. ASSUME BaseOrders(t) = {}, NEW j \in BaseOrders(t)', NEW k \in BaseOrders(t)'
      PROVE  j = k
  <2>1. \A m \in 1..n : ~(orders'[m].t = t /\ orders'[m].ref = "base")
    BY <1>2, <1>3, <1>6 DEF BaseOrders, OrdersOf, Ids
  <2>2. j \in 1..(n + 1) /\ k \in 1..(n + 1)
    BY <1>3, <1>6 DEF BaseOrders, OrdersOf, Ids
  <2>3. j \notin 1..n /\ k \notin 1..n
    BY <1>6, <2>1 DEF BaseOrders, OrdersOf
  <2> QED
    BY <2>2, <2>3, <1>2
<1> QED
  BY <1>3, <1>4, <1>5, <1>6

-----------------------------------------------------------------------------
(* What a step has to show.  Outside the phases of submit_plan only the    *)
(* ledger rows of orders already sent matter.                              *)

(* No order with a ledger key as its orderRef was added. *)
SameBase == \A t \in Trades : BaseOrders(t)' = BaseOrders(t)

KeepsReplays == \A t \in Trades : MustReplay(ledger[t]) => MustReplay(ledger[t])'

(* A step that ends outside the phases of submit_plan. *)
LEMMA QuietStep ==
    ASSUME ExecInv, TypeOK', CursorInv', SameBase, KeepsReplays,
           proc'.pc \notin PhasePcs \cup {"plan_trade"}
    PROVE  ExecInv'
<1>1. BaseOrderPlacedOnce' /\ ResubmittableMeansUnsent'
  BY DEF ExecInv, BaseOrderPlacedOnce, ResubmittableMeansUnsent, SameBase, KeepsReplays
<1>2. ToSend' = {}
  BY DEF ToSend, At, PhasePcs, SendPcs
<1>3. UnsentInv' /\ PhaseInv' /\ MarkedInv' /\ ResultInv'
  BY <1>2 DEF UnsentInv, PhaseInv, MarkedInv, ResultInv, At, PhasePcs, SendPcs
<1> QED
  BY <1>1, <1>3 DEF ExecInv

(* A step of the environment: the process and the rows it looks at stay. *)
LEMMA OutsideStep ==
    ASSUME ExecInv, TypeOK', CursorInv', SameBase, KeepsReplays, proc' = proc
    PROVE  ExecInv'
<1>1. BaseOrderPlacedOnce' /\ ResubmittableMeansUnsent'
  BY DEF ExecInv, BaseOrderPlacedOnce, ResubmittableMeansUnsent, SameBase, KeepsReplays
<1>2. ToSend' = ToSend /\ ToSend \subseteq Trades
  BY DEF ToSend, At, LaterBuys, OfSide, ExecInv, TypeOK, ExecTypeOK, ProcType
<1>3. UnsentInv' /\ PhaseInv'
  BY <1>2 DEF UnsentInv, PhaseInv, ExecInv, SameBase, OfSide
<1>4. MarkedInv' /\ ResultInv'
  BY DEF MarkedInv, ResultInv, ExecInv, SameBase, KeepsReplays, At,
         TypeOK, ExecTypeOK, ProcType
<1> QED
  BY <1>1, <1>3, <1>4 DEF ExecInv

(* Order ids held by the process stay known when orders are added. *)
LEMMA CursorKept ==
    ASSUME CursorInv, Ids \subseteq Ids', Len(orders') >= Len(orders), Len(orders) \in Nat,
           Len(orders') \in Nat, ledger' = ledger, proc' = proc
    PROVE  CursorInv'
BY DEF CursorInv

(* With the process idle there is no cursor to follow. *)
LEMMA IdleCursor ==
    ASSUME proc' = IdleProc
    PROVE  CursorInv'
BY DEF CursorInv, IdleProc

-----------------------------------------------------------------------------
(* The invariant holds before the first process starts. *)
LEMMA ExecInitInv ==
    ASSUME Init
    PROVE  ExecInv
<1>1. TypeOK
  <2>1. BrokerTypeOK
    BY DEF Init, BrokerInit, BrokerTypeOK
  <2>2. ledger \in [Trades -> Row] /\ proc \in ProcType
    BY IdleType, AbsentType DEF Init, ExecInit
  <2>3. session \in [run : 0..MaxRun, attempts : 0..MaxAttempts] /\ crashes \in 0..MaxCrashes
    BY DEF Init, ExecInit
  <2> QED
    BY <2>1, <2>2, <2>3 DEF TypeOK, ExecTypeOK
<1>2. CursorInv
  BY DEF Init, ExecInit, IdleProc, CursorInv
<1>3. \A t \in Trades : BaseOrders(t) = {}
  BY DEF Init, BrokerInit, BaseOrders, OrdersOf, Ids
<1>4. BaseOrderPlacedOnce /\ ResubmittableMeansUnsent
  BY <1>3 DEF BaseOrderPlacedOnce, ResubmittableMeansUnsent
<1>5. ToSend = {}
  BY DEF Init, ExecInit, IdleProc, ToSend, At, SendPcs
<1>6. UnsentInv /\ PhaseInv /\ MarkedInv /\ ResultInv
  BY <1>5 DEF Init, ExecInit, IdleProc, UnsentInv, PhaseInv, MarkedInv, ResultInv,
              At, PhasePcs, SendPcs
<1> QED
  BY <1>1, <1>2, <1>4, <1>6 DEF ExecInv

(* IBKR changes the status or the fill of one order. *)
LEMMA BrokerInv ==
    ASSUME ExecInv, BrokerActs
    PROVE  ExecInv'
<1> USE DEF ExecInv, TypeOK
<1>1. PICK i \in Ids : \/ Accept(i) \/ Reject(i) \/ Fill(i)
                       \/ ConfirmCancel(i) \/ RejectCancel(i) \/ CloseOut(i)
  BY DEF BrokerActs, BrokerStep
<1>2. orders[i] \in Order
  BY OrderStatusRaw
<1>3. PICK o \in Order : o.t = orders[i].t /\ o.ref = orders[i].ref
                         /\ orders' = [orders EXCEPT ![i] = o]
  <2>1. CASE Accept(i) \/ RejectCancel(i)
    <3>1. orders' = [orders EXCEPT ![i] = [orders[i] EXCEPT !.st = "Submitted"]]
      BY <2>1 DEF Accept, RejectCancel, BrokerTypeOK, Ids
    <3> QED
      BY <1>2, <3>1 DEF Order, LiveRaw
  <2>2. CASE ConfirmCancel(i) \/ CloseOut(i)
    <3>1. orders' = [orders EXCEPT ![i] = [orders[i] EXCEPT !.st = "Cancelled"]]
      BY <2>2 DEF ConfirmCancel, CloseOut, BrokerTypeOK, Ids
    <3> QED
      BY <1>2, <3>1 DEF Order, LiveRaw
  <2>3. CASE Reject(i)
    <3>1. orders' = [orders EXCEPT ![i] = [orders[i] EXCEPT !.st = "Inactive"]]
      BY <2>3 DEF Reject, BrokerTypeOK, Ids
    <3> QED
      BY <1>2, <3>1 DEF Order, LiveRaw
  <2>4. CASE Fill(i)
    <3> DEFINE st == IF orders[i].filled + 1 = orders[i].qty THEN "Filled"
                     ELSE IF orders[i].st = "PendingSubmit" THEN "Submitted"
                     ELSE orders[i].st
    <3>1. orders' = [orders EXCEPT ![i] = [orders[i] EXCEPT !.filled = orders[i].filled + 1,
                                                            !.st = st]]
      BY <2>4 DEF Fill, BrokerTypeOK, Ids
    <3>2. orders[i].filled + 1 \in 0..MaxQty
      BY <1>2, <2>4 DEF Fill, Order
    <3>3. st \in LiveRaw \cup {"Filled", "Cancelled", "Inactive"}
      BY <1>2 DEF Order, LiveRaw
    <3> HIDE DEF st
    <3> QED
      BY <1>2, <3>1, <3>2, <3>3 DEF Order
  <2> QED
    BY <1>1, <2>1, <2>2, <2>3, <2>4
<1>4. orders' \in Seq(Order) /\ Len(orders') = Len(orders) /\ Ids' = Ids /\ SameBase
  BY <1>2, <1>3, UpdateKeepsOrders DEF SameBase
<1>5. cash' \in Int
  BY <1>1 DEF Accept, Reject, Fill, ConfirmCancel, RejectCancel, CloseOut, BrokerTypeOK
<1>6. ledger' = ledger /\ proc' = proc /\ session' = session /\ crashes' = crashes
  BY DEF BrokerActs, execVars
<1>7. TypeOK'
  BY <1>4, <1>5, <1>6 DEF BrokerTypeOK, ExecTypeOK
<1>8. CursorInv'
  BY <1>4, <1>6, CursorKept DEF BrokerTypeOK
<1>9. KeepsReplays
  BY <1>6 DEF KeepsReplays
<1> QED
  BY <1>4, <1>6, <1>7, <1>8, <1>9, OutsideStep

(* A crash keeps the invariant: everything it needs is durable. *)
LEMMA CrashInv ==
    ASSUME ExecInv, Crash
    PROVE  ExecInv'
<1> USE DEF ExecInv, TypeOK
<1>1. TypeOK'
  BY IdleType DEF Crash, EndProcess, BrokerTypeOK, ExecTypeOK
<1>2. SameBase /\ KeepsReplays /\ CursorInv' /\ proc'.pc = "idle"
  BY IdleCursor DEF Crash, EndProcess, IdleProc, SameBase, KeepsReplays, BaseOrders, OrdersOf, Ids
<1> QED
  BY <1>1, <1>2, QuietStep DEF PhasePcs

(* So does the passing of time. *)
LEMMA TickInv ==
    ASSUME ExecInv, NEW t \in Trades, Tick(t)
    PROVE  ExecInv'
<1> USE DEF ExecInv, TypeOK
<1>1. ledger[t].age + 1 \in Ages /\ ledger[t] \in Row
  BY DEF Tick, ExecTypeOK, Row, Ages
<1>2. ledger' = [ledger EXCEPT ![t] = [ledger[t] EXCEPT !.age = ledger[t].age + 1]]
  BY DEF Tick, Upsert
<1>3. ledger' \in [Trades -> Row] /\ \A u \in Trades : ledger'[u].st = ledger[u].st /\
         ledger'[u].raw = ledger[u].raw /\ ledger'[u].oid = ledger[u].oid /\
         ledger'[u].filled = ledger[u].filled
  BY <1>1, <1>2 DEF ExecTypeOK, Row
<1>4. TypeOK'
  BY <1>3 DEF Tick, BrokerTypeOK, ExecTypeOK
<1>5. SameBase /\ KeepsReplays /\ proc' = proc
  BY <1>3 DEF Tick, SameBase, KeepsReplays, MustReplay, BaseOrders, OrdersOf, Ids
<1>6. CursorInv'
  BY <1>5 DEF Tick, CursorInv, At, Ids
<1> QED
  BY <1>4, <1>5, <1>6, OutsideStep

-----------------------------------------------------------------------------
(* reconcile and check_stale_orders. *)

QuietPcs == {"idle", "rec_open", "rec_hist", "rec_entry", "rec_cancelled", "resume",
             "stale", "stale_cancel", "stale_cancelled", "plan"}

(* Only the memory of the process changes. *)
LEMMA QuietProcess ==
    ASSUME ExecInv, proc' \in ProcType, proc'.pc \in QuietPcs,
           \A s \in proc'.opens : s.id \in Ids, proc'.hist \subseteq Ids,
           UNCHANGED <<orders, cash, ledger, crashes>>,
           session' \in [run : 0..MaxRun, attempts : 0..MaxAttempts]
    PROVE  ExecInv'
<1>1. TypeOK'
  BY DEF ExecInv, TypeOK, BrokerTypeOK, ExecTypeOK
<1>2. SameBase /\ KeepsReplays
  BY DEF SameBase, KeepsReplays, BaseOrders, OrdersOf, Ids
<1>3. CursorInv'
  BY DEF CursorInv, QuietPcs, Ids
<1>4. proc'.pc \notin PhasePcs \cup {"plan_trade"}
  BY DEF QuietPcs, PhasePcs
<1> QED
  BY <1>1, <1>2, <1>3, <1>4, QuietStep

(* One row changes; an order that may have been sent stays marked so. *)
LEMMA QuietUpsert ==
    ASSUME ExecInv, NEW t \in Trades, NEW row \in Row, Upsert(t, row),
           MustReplay(ledger[t]) => MustReplay(row),
           proc' \in ProcType, proc'.opens = proc.opens, proc'.hist = proc.hist,
           proc'.pc \in QuietPcs,
           UNCHANGED <<orders, cash, session, crashes>>
    PROVE  ExecInv'
<1>1. ledger' = [ledger EXCEPT ![t] = row] /\ ledger \in [Trades -> Row]
  BY DEF Upsert, ExecInv, TypeOK, ExecTypeOK
<1>2. TypeOK'
  BY <1>1 DEF ExecInv, TypeOK, BrokerTypeOK, ExecTypeOK
<1>3. SameBase /\ KeepsReplays
  BY <1>1 DEF SameBase, KeepsReplays, BaseOrders, OrdersOf, Ids
<1>4. CursorInv'
  BY DEF CursorInv, QuietPcs, Ids, ExecInv
<1>5. proc'.pc \notin PhasePcs \cup {"plan_trade"}
  BY DEF QuietPcs, PhasePcs
<1> QED
  BY <1>2, <1>3, <1>4, <1>5, QuietStep

(* A cancel request changes the status of one order. *)
LEMMA CancelKeepsOrders ==
    ASSUME BrokerTypeOK, NEW i, RequestCancel(i)
    PROVE  orders' \in Seq(Order) /\ Len(orders') = Len(orders) /\ Ids' = Ids /\ SameBase
<1>1. CASE i \in Ids
  <2>1. orders[i] \in Order
    BY <1>1, OrderStatusRaw
  <2>2. orders' = [orders EXCEPT ![i] = [orders[i] EXCEPT !.st = "PendingCancel"]]
    BY DEF RequestCancel
  <2> DEFINE o == [orders[i] EXCEPT !.st = "PendingCancel"]
  <2>3. o \in Order /\ o.t = orders[i].t /\ o.ref = orders[i].ref
    BY <2>1 DEF Order, LiveRaw
  <2> HIDE DEF o
  <2>4. orders' = [orders EXCEPT ![i] = o]
    BY <2>2 DEF o
  <2> QED
    BY <1>1, <2>3, <2>4, UpdateKeepsOrders DEF SameBase
<1>2. CASE i \notin Ids
  <2>1. orders' = orders
    BY <1>2 DEF RequestCancel, BrokerTypeOK, Ids
  <2> QED
    BY <2>1 DEF BrokerTypeOK, SameBase, BaseOrders, OrdersOf, Ids
<1> QED
  BY <1>1, <1>2

(* A cancel request from a reconcile pass or a stale check. *)
LEMMA QuietCancel ==
    ASSUME ExecInv, NEW i, RequestCancel(i),
           proc' \in ProcType, proc'.opens = proc.opens, proc'.hist = proc.hist,
           proc'.pc \in QuietPcs \/ (proc'.pc = "rep_wait" /\ proc.pc = "rep_cancel"
                                     /\ proc'.cur = proc.cur),
           UNCHANGED <<cash, ledger, session, crashes>>
    PROVE  ExecInv'
<1>1. orders' \in Seq(Order) /\ Len(orders') = Len(orders) /\ Ids' = Ids /\ SameBase
  BY CancelKeepsOrders DEF ExecInv, TypeOK
<1>2. TypeOK'
  BY <1>1 DEF ExecInv, TypeOK, BrokerTypeOK, ExecTypeOK
<1>3. KeepsReplays
  BY DEF KeepsReplays
<1>4. CursorInv'
  BY <1>1 DEF CursorInv, QuietPcs, ExecInv
<1>5. proc'.pc \notin PhasePcs \cup {"plan_trade"}
  BY DEF QuietPcs, PhasePcs
<1> QED
  BY <1>1, <1>2, <1>3, <1>4, <1>5, QuietStep

(* The end of an entry, by success or failure, returns to the loop. *)
LEMMA EntryEnds ==
    ASSUME proc \in ProcType, NEW t, EntryDone(t) \/ EntryFails(t)
    PROVE  /\ proc' \in ProcType /\ proc'.pc = "rec_entry" /\ proc'.pc \in QuietPcs
           /\ proc'.opens = proc.opens /\ proc'.hist = proc.hist
<1> USE DEF ReconcilePcs, QuietPcs
<1>1. CASE EntryDone(t)
  BY <1>1 DEF EntryDone, ProcType
<1>2. CASE EntryFails(t)
  BY <1>2 DEF EntryFails, ProcType
<1> QED
  BY <1>1, <1>2

(* The failure of one entry leaves the ledger alone. *)
LEMMA EntryFailsInv ==
    ASSUME ExecInv, NEW t, EntryFails(t), UNCHANGED <<orders, cash, ledger, session, crashes>>
    PROVE  ExecInv'
<1>1. proc \in ProcType /\ session \in [run : 0..MaxRun, attempts : 0..MaxAttempts]
  BY DEF ExecInv, TypeOK, ExecTypeOK
<1>2. proc' \in ProcType /\ proc'.pc \in QuietPcs /\ proc'.opens = proc.opens /\ proc'.hist = proc.hist
  BY <1>1, EntryEnds
<1>3. (\A s \in proc'.opens : s.id \in Ids) /\ proc'.hist \subseteq Ids
  BY <1>2 DEF ExecInv, CursorInv
<1> QED
  BY <1>1, <1>2, <1>3, QuietProcess

(* An entry ends with a row that cannot be taken for one never sent. *)
LEMMA EntryUpsertInv ==
    ASSUME ExecInv, NEW t \in Trades, NEW row \in Row, Upsert(t, row), EntryDone(t),
           MustReplay(ledger[t]) => MustReplay(row),
           UNCHANGED <<orders, cash, session, crashes>>
    PROVE  ExecInv'
<1>1. proc \in ProcType
  BY DEF ExecInv, TypeOK, ExecTypeOK
<1>2. proc' \in ProcType /\ proc'.pc \in QuietPcs /\ proc'.opens = proc.opens /\ proc'.hist = proc.hist
  BY <1>1, EntryEnds
<1> QED
  BY <1>2, QuietUpsert

(* A process that ends keeps the invariant. *)
LEMMA EndProcessInv ==
    ASSUME ExecInv, EndProcess, UNCHANGED <<orders, cash, ledger, session, crashes>>
    PROVE  ExecInv'
<1>1. proc' \in ProcType
  BY IdleType DEF EndProcess
<1>2. proc'.pc \in QuietPcs /\ proc'.opens = {} /\ proc'.hist = {}
  BY DEF EndProcess, IdleProc, QuietPcs
<1>3. session' \in [run : 0..MaxRun, attempts : 0..MaxAttempts]
  BY DEF ExecInv, TypeOK, ExecTypeOK
<1> QED
  BY <1>1, <1>2, <1>3, QuietProcess

(* with_snapshot of an order, as it is now or as it was fetched. *)
LEMMA CurrentUpdateRow ==
    ASSUME ExecInv, NEW row \in Row, NEW i \in Ids
    PROVE  CurrentUpdate(row, i) \in Row /\ MustReplay(CurrentUpdate(row, i))
<1>1. orders[i].st \in RawStatuses /\ orders[i].st \notin RetryableRaw
      /\ orders[i].filled \in 0..MaxQty /\ i \in Nat
  BY OrderStatusRaw DEF ExecInv, TypeOK, BrokerTypeOK, Ids
<1>2. /\ CurrentUpdate(row, i) \in Row
      /\ CurrentUpdate(row, i).raw = orders[i].st
      /\ CurrentUpdate(row, i).st \notin {"absent", "planned"}
  BY <1>1, SnapshotTypes DEF CurrentUpdate
<1> QED
  BY <1>1, <1>2 DEF MustReplay

(* with_snapshot of a completed order, with or without its executions. *)
LEMMA HistUpdateRow ==
    ASSUME ExecInv, NEW row \in Row, NEW i \in Ids
    PROVE  HistUpdate(row, i) \in Row /\ MustReplay(HistUpdate(row, i))
<1>1. orders[i].st \in RawStatuses /\ orders[i].st \notin RetryableRaw
      /\ orders[i].filled \in 0..MaxQty /\ i \in Nat
  BY OrderStatusRaw DEF ExecInv, TypeOK, BrokerTypeOK, Ids
<1>2. HistFilled(i) \in 0..MaxQty
  BY <1>1 DEF HistFilled
<1>3. /\ HistUpdate(row, i) \in Row
      /\ HistUpdate(row, i).raw = orders[i].st
      /\ HistUpdate(row, i).st \notin {"absent", "planned"}
  BY <1>1, <1>2, SnapshotTypes DEF HistUpdate
<1> QED
  BY <1>1, <1>3 DEF MustReplay

(* The row of an entry that follows an open order stands for that order. *)
LEMMA FollowedRow ==
    ASSUME ExecInv, NEW t \in Trades, NEW s \in proc.opens
    PROVE  /\ Followed(t, s) \in Row /\ MustReplay(Followed(t, s))
           /\ Followed(t, s).oid = s.id /\ s.id \in Ids
<1>1. s \in Snap /\ s.id \in Ids /\ s.id # NoId /\ ledger[t] \in Row
  <2>1. proc.opens \subseteq Snap /\ ledger[t] \in Row
    BY DEF ExecInv, TypeOK, ExecTypeOK, ProcType
  <2>2. s.id \in Ids
    BY DEF ExecInv, CursorInv
  <2>3. 0 \notin Ids
    BY DEF ExecInv, TypeOK, BrokerTypeOK, Ids
  <2> QED
    BY <2>1, <2>2, <2>3 DEF NoId
<1>2. s.raw \in RawStatuses /\ s.raw \notin RetryableRaw /\ s.id \in Nat /\ s.filled \in 0..MaxQty
  BY <1>1 DEF Snap, LiveRaw, RawStatuses, AcceptedRaw, RetryableRaw
<1>3. /\ OpenUpdate(t, s) \in Row /\ OpenUpdate(t, s).raw = s.raw
      /\ OpenUpdate(t, s).st \notin {"absent", "planned"} /\ OpenUpdate(t, s).oid = s.id
  BY <1>1, <1>2, SnapshotTypes DEF OpenUpdate
<1>4. /\ Followed(t, s) \in Row /\ Followed(t, s).raw = s.raw
      /\ Followed(t, s).st \notin {"absent", "planned"} /\ Followed(t, s).oid = s.id
  BY <1>3 DEF Followed, Row
<1> QED
  BY <1>1, <1>2, <1>4 DEF MustReplay

(* A further order that is not a base order. *)
LEMMA PlaceReplInv ==
    ASSUME ExecInv, NEW t \in Trades, NEW q \in 0..MaxQty, Place(t, "repl", q),
           proc' \in ProcType, proc'.opens = proc.opens, proc'.hist = proc.hist,
           proc'.pc \in {"rep_placed", "resume_placed"},
           UNCHANGED <<cash, ledger, session, crashes>>
    PROVE  ExecInv'
<1>1. /\ orders' \in Seq(Order) /\ Len(orders') = Len(orders) + 1 /\ Ids \subseteq Ids'
      /\ SameBase
  BY PlaceAddsOrder DEF ExecInv, TypeOK, SameBase, Refs
<1>2. TypeOK'
  BY <1>1 DEF ExecInv, TypeOK, BrokerTypeOK, ExecTypeOK
<1>3. KeepsReplays
  BY DEF KeepsReplays
<1>4. Len(orders) \in Nat
  BY DEF ExecInv, TypeOK, BrokerTypeOK
<1>5. CursorInv'
  BY <1>1, <1>4 DEF CursorInv, ExecInv
<1>6. proc'.pc \notin PhasePcs \cup {"plan_trade"}
  BY DEF PhasePcs
<1> QED
  BY <1>1, <1>2, <1>3, <1>5, <1>6, QuietStep

(* Every step of reconcile and check_stale_orders keeps the invariant. *)
LEMMA ReconcileInv ==
    ASSUME ExecInv, ReconcileStep
    PROVE  ExecInv'
<1> DEFINE Frame == UNCHANGED <<orders, cash, ledger, session, crashes>>
           SessionType == [run : 0..MaxRun, attempts : 0..MaxAttempts]
<1>t. /\ BrokerTypeOK /\ ledger \in [Trades -> Row] /\ proc \in ProcType
      /\ session \in SessionType
      /\ \A s \in proc.opens : s.id \in Ids
      /\ proc.hist \subseteq Ids
  BY DEF ExecInv, TypeOK, ExecTypeOK, CursorInv
<1>1. CASE StartReconcile
  <2>1. /\ proc' \in ProcType /\ proc'.pc \in QuietPcs /\ proc'.opens = {} /\ proc'.hist = {}
    <3>1. proc' = [IdleProc EXCEPT !.pc = "rec_open", !.job = "reconcile"]
      BY <1>1 DEF StartReconcile
    <3>2. IdleProc.opens = {} /\ IdleProc.hist = {}
      BY DEF IdleProc
    <3> QED
      BY <3>1, <3>2, IdleType DEF ProcType, ReconcilePcs, QuietPcs
  <2> QED
    BY <1>1, <1>t, <2>1, QuietProcess DEF StartReconcile
<1>2. CASE StartRebalance
  <2>1. /\ proc' \in ProcType /\ proc'.pc \in QuietPcs /\ proc'.opens = {} /\ proc'.hist = {}
    <3>1. proc' = [IdleProc EXCEPT !.pc = "rec_open", !.job = "rebalance"]
      BY <1>2 DEF StartRebalance
    <3>2. IdleProc.opens = {} /\ IdleProc.hist = {}
      BY DEF IdleProc
    <3> QED
      BY <3>1, <3>2, IdleType DEF ProcType, ReconcilePcs, QuietPcs
  <2>2. session' \in SessionType
    BY <1>2, <1>t DEF StartRebalance
  <2> QED
    BY <1>2, <2>1, <2>2, QuietProcess DEF StartRebalance
<1>3. CASE ReconcileRaises \/ StaleCancelEnds
  BY <1>3, EndProcessInv DEF ReconcileRaises, StaleCancelEnds
<1>4. CASE FetchOpenOrders
  <2> DEFINE S == {[id |-> i, raw |-> orders[i].st, filled |-> orders[i].filled] : i \in LiveIds}
  <2>1. S \subseteq Snap /\ \A x \in S : x.id \in Ids
    <3>1. ASSUME NEW i \in LiveIds
          PROVE  /\ [id |-> i, raw |-> orders[i].st, filled |-> orders[i].filled] \in Snap
                 /\ i \in Ids
      <4>1. i \in Ids /\ i \in Nat /\ orders[i].st \in LiveRaw
        BY <1>t, <3>1 DEF LiveIds, IsLive, Ids, BrokerTypeOK
      <4>2. orders[i].filled \in 0..MaxQty
        BY <1>t, <4>1, OrderStatusRaw
      <4> QED
        BY <4>1, <4>2 DEF Snap
    <3> QED
      BY <3>1
  <2>2. PICK pc \in {"rec_entry", "rec_hist"} :
          proc' = [proc EXCEPT !.pc = pc, !.opens = S, !.todo = OpenEntries]
    BY <1>4 DEF FetchOpenOrders
  <2>3. OpenEntries \subseteq Trades
    BY DEF OpenEntries
  <2> HIDE DEF S
  <2>4. proc' \in ProcType /\ proc'.pc \in QuietPcs /\ proc'.opens = S /\ proc'.hist = proc.hist
    BY <1>t, <2>1, <2>2, <2>3 DEF ProcType, ReconcilePcs, QuietPcs
  <2> QED
    BY <1>4, <1>t, <2>1, <2>4, QuietProcess DEF FetchOpenOrders
<1>5. CASE FetchHistory
  <2>1. PICK H \in SUBSET DoneIds, execs \in BOOLEAN :
          proc' = [proc EXCEPT !.pc = "rec_entry", !.hist = H, !.execs = execs]
    BY <1>5 DEF FetchHistory
  <2>2. H \subseteq Ids /\ H \subseteq Nat
    BY <1>t DEF DoneIds, Ids, BrokerTypeOK
  <2>3. proc' \in ProcType /\ proc'.pc \in QuietPcs /\ proc'.opens = proc.opens /\ proc'.hist = H
    BY <1>t, <2>1, <2>2 DEF ProcType, ReconcilePcs, QuietPcs
  <2> QED
    BY <1>5, <1>t, <2>2, <2>3, QuietProcess DEF FetchHistory
<1>6. CASE FetchHistoryFails
  <2>1. proc' \in ProcType /\ proc'.pc \in QuietPcs /\ proc'.opens = proc.opens
        /\ proc'.hist = proc.hist
    BY <1>6, <1>t DEF FetchHistoryFails, ProcType, ReconcilePcs, QuietPcs
  <2> QED
    BY <1>6, <1>t, <2>1, QuietProcess DEF FetchHistoryFails
<1>7. CASE FinishReconcile
  <2>1. CASE EndProcess
    BY <1>7, <2>1, EndProcessInv DEF FinishReconcile
  <2>2. CASE proc' = [IdleProc EXCEPT !.pc = "stale", !.job = "rebalance"]
    <3>1. IdleProc.opens = {} /\ IdleProc.hist = {}
      BY DEF IdleProc
    <3>2. proc' \in ProcType /\ proc'.pc \in QuietPcs /\ proc'.opens = {} /\ proc'.hist = {}
      BY <2>2, <3>1, IdleType DEF ProcType, StalePcs, QuietPcs
    <3> QED
      BY <1>7, <1>t, <3>2, QuietProcess DEF FinishReconcile
  <2> QED
    BY <1>7, <2>1, <2>2 DEF FinishReconcile
<1>8. CASE StaleCheck
  <2>1. CASE EndProcess
    BY <1>8, <2>1, EndProcessInv DEF StaleCheck
  <2>2. CASE ~EndProcess
    <3>1. ForeignEntries \subseteq Trades
      BY DEF ForeignEntries, OpenEntries
    <3>2. \/ proc' = [proc EXCEPT !.pc = "plan"]
          \/ proc' = [proc EXCEPT !.pc = "stale_cancel", !.todo = ForeignEntries]
      BY <1>8, <2>2 DEF StaleCheck
    <3>3. proc' \in ProcType /\ proc'.pc \in QuietPcs /\ proc'.opens = proc.opens
          /\ proc'.hist = proc.hist
      <4>1. CASE proc' = [proc EXCEPT !.pc = "plan"]
        BY <1>t, <4>1 DEF ProcType, SubmitPcs, QuietPcs
      <4>2. CASE proc' = [proc EXCEPT !.pc = "stale_cancel", !.todo = ForeignEntries]
        BY <1>t, <3>1, <4>2 DEF ProcType, StalePcs, QuietPcs
      <4> QED
        BY <3>2, <4>1, <4>2
    <3> QED
      BY <1>8, <1>t, <3>3, QuietProcess DEF StaleCheck
  <2> QED
    BY <2>1, <2>2
<1>9. ASSUME NEW t \in Trades,
             HistoryUnavailable(t) \/ ReplaceRefused(t) \/ EntryCallFails(t)
      PROVE  ExecInv'
  BY <1>9, EntryFailsInv DEF HistoryUnavailable, ReplaceRefused, EntryCallFails
<1>10. ASSUME NEW t \in Trades, AdoptReplacement(t)
       PROVE  ExecInv'
  <2> DEFINE base == [ledger[t] EXCEPT !.ref = "repl", !.repl = FALSE]
  <2>1. PICK i \in HistMatches(t) : Upsert(t, HistUpdate(base, i))
    BY <1>10 DEF AdoptReplacement
  <2>2. i \in Ids
    BY <1>t DEF HistMatches, Matches, ExactMatch, ReservedMatch, FamilyMatch
  <2>3. base \in Row
    BY <1>t, EditTypes
  <2> HIDE DEF base
  <2>4. HistUpdate(base, i) \in Row /\ MustReplay(HistUpdate(base, i))
    BY <2>2, <2>3, HistUpdateRow
  <2> QED
    BY <1>10, <2>1, <2>4, EntryUpsertInv DEF AdoptReplacement
<1>11. ASSUME NEW t \in Trades, FollowOpenOrder(t)
       PROVE  ExecInv'
  <2>1. PICK s \in proc.opens : Upsert(t, Followed(t, s))
    BY <1>11 DEF FollowOpenOrder
  <2>2. Followed(t, s) \in Row /\ MustReplay(Followed(t, s))
    BY FollowedRow
  <2> QED
    BY <1>11, <2>1, <2>2, EntryUpsertInv DEF FollowOpenOrder
<1>12. ASSUME NEW t \in Trades, SendTimeoutCancel(t)
       PROVE  ExecInv'
  <2>1. PICK i : RequestCancel(i)
    BY <1>12 DEF SendTimeoutCancel
  <2>2. proc' \in ProcType /\ proc'.pc \in QuietPcs /\ proc'.opens = proc.opens
        /\ proc'.hist = proc.hist
    <3>1. proc' = [proc EXCEPT !.pc = "rec_cancelled", !.cur = t]
      BY <1>12 DEF SendTimeoutCancel
    <3> QED
      BY <1>t, <3>1 DEF ProcType, ReconcilePcs, QuietPcs
  <2> QED
    BY <1>12, <2>1, <2>2, QuietCancel DEF SendTimeoutCancel
<1>13. ASSUME NEW t \in Trades, RecordTimeoutCancel(t)
       PROVE  ExecInv'
  <2>1. PICK s \in proc.opens : Upsert(t, [Followed(t, s) EXCEPT !.st = "cancel_pending"])
    BY <1>13 DEF RecordTimeoutCancel
  <2> DEFINE row == [Followed(t, s) EXCEPT !.st = "cancel_pending"]
  <2>2. row \in Row /\ MustReplay(row)
    BY FollowedRow DEF Row, MustReplay, LifecycleStates
  <2> HIDE DEF row
  <2>3. Upsert(t, row)
    BY <2>1 DEF row
  <2> QED
    BY <1>13, <2>2, <2>3, EntryUpsertInv DEF RecordTimeoutCancel
<1>14. ASSUME NEW t \in Trades, ReserveReplacement(t)
       PROVE  ExecInv'
  <2>1. PICK s \in proc.opens : Upsert(t, [Followed(t, s) EXCEPT
                          !.st = "replace_pending", !.raw = "ReplacementUnconfirmed",
                          !.rc = 1, !.repl = TRUE])
    BY <1>14 DEF ReserveReplacement
  <2> DEFINE row == [Followed(t, s) EXCEPT !.st = "replace_pending",
                       !.raw = "ReplacementUnconfirmed", !.rc = 1, !.repl = TRUE]
  <2>2. row \in Row /\ MustReplay(row) /\ row.oid \in Ids
    <3>1. Followed(t, s) \in Row /\ Followed(t, s).oid \in Ids
      BY FollowedRow
    <3>2. row \in Row /\ MustReplay(row) /\ row.oid = Followed(t, s).oid
      BY <3>1, ReserveEdit, Zenon
    <3> QED
      BY <3>1, <3>2
  <2> HIDE DEF row
  <2>3. ledger' = [ledger EXCEPT ![t] = row]
    BY <2>1 DEF row, Upsert
  <2>4. proc' \in ProcType /\ proc'.pc = "rep_cancel" /\ proc'.cur = t /\ proc'.opens = proc.opens
        /\ proc'.hist = proc.hist
    <3>1. proc' = [proc EXCEPT !.pc = "rep_cancel", !.cur = t]
      BY <1>14 DEF ReserveReplacement
    <3> QED
      BY <1>t, <3>1 DEF ProcType, ReconcilePcs
  <2>5. UNCHANGED <<orders, cash, session, crashes>>
    BY <1>14 DEF ReserveReplacement
  <2>6. TypeOK'
    BY <1>t, <2>2, <2>3, <2>4, <2>5 DEF ExecInv, TypeOK, BrokerTypeOK, ExecTypeOK
  <2>7. SameBase /\ KeepsReplays
    BY <1>t, <2>2, <2>3, <2>5 DEF SameBase, KeepsReplays, BaseOrders, OrdersOf, Ids
  <2>8. CursorInv'
    BY <1>t, <2>2, <2>3, <2>4, <2>5 DEF CursorInv, Ids
  <2>9. proc'.pc \notin PhasePcs \cup {"plan_trade"}
    BY <2>4 DEF PhasePcs
  <2> QED
    BY <2>6, <2>7, <2>8, <2>9, QuietStep
<1>15. ASSUME NEW t \in Trades, ReplaceCancelsOriginal(t)
       PROVE  ExecInv'
  <2>0. proc' = [proc EXCEPT !.pc = "rep_wait"] /\ proc.pc = "rep_cancel"
    BY <1>15 DEF ReplaceCancelsOriginal, At
  <2>1. proc' \in ProcType /\ proc'.pc = "rep_wait" /\ proc.pc = "rep_cancel"
        /\ proc'.cur = proc.cur /\ proc'.opens = proc.opens /\ proc'.hist = proc.hist
    BY <1>t, <2>0 DEF ProcType, ReconcilePcs
  <2> QED
    BY <1>15, <2>1, QuietCancel DEF ReplaceCancelsOriginal
<1>16. ASSUME NEW t \in Trades, OriginalFilledMeanwhile(t)
       PROVE  ExecInv'
  <2> DEFINE base == [ledger[t] EXCEPT !.repl = FALSE]
  <2>1. ledger[t].oid \in Ids
    BY <1>16 DEF OriginalFilledMeanwhile, At, ExecInv, CursorInv
  <2>2. base \in Row
    BY <1>t, EditTypes
  <2>3. Upsert(t, CurrentUpdate(base, ledger[t].oid))
    BY <1>16 DEF OriginalFilledMeanwhile
  <2> HIDE DEF base
  <2>4. CurrentUpdate(base, ledger[t].oid) \in Row /\ MustReplay(CurrentUpdate(base, ledger[t].oid))
    BY <2>1, <2>2, CurrentUpdateRow
  <2>5. EntryDone(t) /\ UNCHANGED <<orders, cash, session, crashes>>
    BY <1>16 DEF OriginalFilledMeanwhile
  <2> QED
    BY <2>3, <2>4, <2>5, EntryUpsertInv
<1>17. ASSUME NEW t \in Trades, ReplaceDeferred(t)
       PROVE  ExecInv'
  <2> DEFINE row == [ledger[t] EXCEPT !.st = "cancel_pending", !.raw = "PendingCancel"]
  <2>1. row \in Row /\ MustReplay(row)
    BY <1>t, StatusEdit
  <2>2. Upsert(t, row)
    BY <1>17 DEF ReplaceDeferred
  <2> HIDE DEF row
  <2>3. EntryDone(t) /\ UNCHANGED <<orders, cash, session, crashes>>
    BY <1>17 DEF ReplaceDeferred
  <2> QED
    BY <2>1, <2>2, <2>3, EntryUpsertInv
<1>18. ASSUME NEW t \in Trades, PlaceReplacement(t)
       PROVE  ExecInv'
  <2>1. ledger[t].oid \in Ids
    BY <1>18 DEF PlaceReplacement, At, ExecInv, CursorInv
  <2>2. orders[ledger[t].oid].qty \in 0..MaxQty
    BY <1>t, <2>1, OrderStatusRaw
  <2>3. proc' \in ProcType /\ proc'.pc = "rep_placed" /\ proc'.opens = proc.opens
        /\ proc'.hist = proc.hist
    <3>1. proc' = [proc EXCEPT !.pc = "rep_placed"]
      BY <1>18 DEF PlaceReplacement
    <3> QED
      BY <1>t, <3>1 DEF ProcType, ReconcilePcs
  <2> QED
    BY <1>18, <2>2, <2>3, PlaceReplInv DEF PlaceReplacement
<1>19. ASSUME NEW t \in Trades, RecordReplacement(t)
       PROVE  ExecInv'
  <2> DEFINE base == [ledger[t] EXCEPT !.ref = "repl", !.repl = FALSE]
             cu == CurrentUpdate(base, Len(orders))
             row == [cu EXCEPT !.age = 0]
  <2>1. Len(orders) \in Ids
    BY <1>19, <1>t DEF RecordReplacement, ExecInv, CursorInv, BrokerTypeOK, Ids
  <2>2. base \in Row
    BY <1>t, EditTypes
  <2> HIDE DEF base
  <2>3. cu \in Row /\ MustReplay(cu)
    BY <2>1, <2>2, CurrentUpdateRow
  <2> HIDE DEF cu
  <2>4. row \in Row /\ MustReplay(row)
    BY <2>3 DEF Row, MustReplay, Ages
  <2>5. Upsert(t, row)
    BY <1>19 DEF RecordReplacement, row, cu, base
  <2> HIDE DEF row
  <2> QED
    BY <1>19, <2>4, <2>5, EntryUpsertInv DEF RecordReplacement
<1>20. ASSUME NEW t \in Trades, CloseFromHistory(t)
       PROVE  ExecInv'
  <2>1. PICK i \in Ids : Upsert(t, [Completed(t, i) EXCEPT !.repl = FALSE])
    BY <1>20 DEF CloseFromHistory
  <2> DEFINE row == [Completed(t, i) EXCEPT !.repl = FALSE]
  <2>2. Completed(t, i) \in Row /\ MustReplay(Completed(t, i))
    BY <1>t, HistUpdateRow DEF Completed
  <2>3. row \in Row /\ MustReplay(row)
    BY <2>2 DEF Row, MustReplay
  <2> HIDE DEF row
  <2>4. Upsert(t, row)
    BY <2>1 DEF row
  <2> QED
    BY <1>20, <2>3, <2>4, EntryUpsertInv DEF CloseFromHistory
<1>21. ASSUME NEW t \in Trades, ResumeReplacement(t)
       PROVE  ExecInv'
  <2>1. proc' \in ProcType /\ proc'.pc \in QuietPcs /\ proc'.opens = proc.opens
        /\ proc'.hist = proc.hist
    BY <1>21, <1>t DEF ResumeReplacement, ProcType, ReconcilePcs, QuietPcs
  <2> QED
    BY <1>21, <1>t, <2>1, QuietProcess DEF ResumeReplacement
<1>22. ASSUME NEW t \in Trades, SubmitReplacementPlaces(t)
       PROVE  ExecInv'
  <2>1. PICK i \in HistMatches(t) : Place(t, "repl", orders[i].qty)
    BY <1>22 DEF SubmitReplacementPlaces
  <2>2. i \in Ids
    BY <1>t DEF HistMatches, Matches, ExactMatch, ReservedMatch, FamilyMatch
  <2>3. orders[i].qty \in 0..MaxQty
    BY <1>t, <2>2, OrderStatusRaw
  <2>4. proc' \in ProcType /\ proc'.pc = "resume_placed" /\ proc'.opens = proc.opens
        /\ proc'.hist = proc.hist
    <3>1. proc' = [proc EXCEPT !.pc = "resume_placed"]
      BY <1>22 DEF SubmitReplacementPlaces
    <3> QED
      BY <1>t, <3>1 DEF ProcType, ReconcilePcs
  <2> QED
    BY <1>22, <2>1, <2>3, <2>4, PlaceReplInv DEF SubmitReplacementPlaces
<1>23. ASSUME NEW t \in Trades, LeaveUnverified(t)
       PROVE  ExecInv'
  <2> DEFINE row == [ledger[t] EXCEPT !.st = "unknown", !.raw = "NotOpenUnverified"]
  <2>1. row \in Row /\ MustReplay(row)
    BY <1>t, StatusEdit
  <2>2. Upsert(t, row)
    BY <1>23 DEF LeaveUnverified
  <2> HIDE DEF row
  <2> QED
    BY <1>23, <2>1, <2>2, EntryUpsertInv DEF LeaveUnverified
<1>24. ASSUME NEW t \in Trades, SendStaleCancel(t)
       PROVE  ExecInv'
  <2>1. proc' \in ProcType /\ proc'.pc \in QuietPcs /\ proc'.opens = proc.opens
        /\ proc'.hist = proc.hist
    BY <1>24, <1>t DEF SendStaleCancel, ProcType, StalePcs, QuietPcs
  <2> QED
    BY <1>24, <2>1, QuietCancel DEF SendStaleCancel
<1>25. ASSUME NEW t \in Trades, RecordStaleCancel(t)
       PROVE  ExecInv'
  <2> DEFINE row == [ledger[t] EXCEPT !.st = "cancel_pending"]
  <2>1. row \in Row /\ (MustReplay(ledger[t]) => MustReplay(row))
    BY <1>t DEF Row, MustReplay, LifecycleStates
  <2>2. Upsert(t, row)
    BY <1>25 DEF RecordStaleCancel
  <2> HIDE DEF row
  <2>3. proc' \in ProcType /\ proc'.pc \in QuietPcs /\ proc'.opens = proc.opens
        /\ proc'.hist = proc.hist
    BY <1>25, <1>t DEF RecordStaleCancel, ProcType, StalePcs, QuietPcs
  <2> QED
    BY <1>25, <2>1, <2>2, <2>3, QuietUpsert DEF RecordStaleCancel
<1>26. ASSUME NEW t \in Trades, SkipStaleCancel(t)
       PROVE  ExecInv'
  <2>1. proc' \in ProcType /\ proc'.pc \in QuietPcs /\ proc'.opens = proc.opens
        /\ proc'.hist = proc.hist
    BY <1>26, <1>t DEF SkipStaleCancel, ProcType, StalePcs, QuietPcs, At
  <2> QED
    BY <1>26, <1>t, <2>1, QuietProcess DEF SkipStaleCancel
<1> QED
  BY <1>1, <1>2, <1>3, <1>4, <1>5, <1>6, <1>7, <1>8, <1>9, <1>10, <1>11, <1>12, <1>13,
     <1>14, <1>15, <1>16, <1>17, <1>18, <1>19, <1>20, <1>21, <1>22, <1>23, <1>24, <1>25, <1>26
     DEF ReconcileStep

-----------------------------------------------------------------------------
(* submit_plan. *)

(* The trades ahead of the process, program point by program point, before *)
(* and after a step.                                                       *)
LEMMA ToSendValue ==
    /\ proc.pc = "plan_trade" => ToSend = proc.fresh
    /\ proc.pc \in {"reprice", "fit", "block", "mark"} =>
          ToSend = proc.todo \cup proc.batch \cup LaterBuys
    /\ proc.pc \in SendPcs => ToSend = proc.todo \cup LaterBuys
    /\ proc.pc = "record" => ToSend = LaterBuys
    /\ proc'.pc = "plan_trade" => ToSend' = proc'.fresh
    /\ proc'.pc \in {"reprice", "fit", "block", "mark"} =>
          ToSend' = proc'.todo \cup proc'.batch \cup LaterBuys'
    /\ proc'.pc \in SendPcs => ToSend' = proc'.todo \cup LaterBuys'
    /\ proc'.pc = "record" => ToSend' = LaterBuys'
BY DEF ToSend, At, SendPcs

(* A step of submit_plan that sends nothing.  A row may change only if it  *)
(* ends marked as sent, or if nothing was sent for it.                     *)
LEMMA PhaseStep ==
    ASSUME ExecInv,
           proc' \in ProcType, proc'.opens = proc.opens, proc'.hist = proc.hist,
           proc'.pc \in PhasePcs \cup {"plan_trade"},
           proc'.pc \in {"placed", "wait", "wait_cancel"} => Len(orders) > 0,
           orders' \in Seq(Order), Len(orders') = Len(orders), Ids' = Ids, SameBase,
           ledger' \in [Trades -> Row],
           \A u \in Trades : BaseOrders(u) # {} /\ ledger'[u] # ledger[u] => MustReplay(ledger'[u]),
           \A u \in ToSend' : u \in ToSend \/ (u \in Trades /\ BaseOrders(u) = {}),
           PhaseInv', MarkedInv', ResultInv',
           UNCHANGED <<cash, session, crashes>>
    PROVE  ExecInv'
<1>1. TypeOK'
  BY DEF ExecInv, TypeOK, BrokerTypeOK, ExecTypeOK
<1>2. CursorInv'
  BY DEF ExecInv, CursorInv, PhasePcs
<1>3. BaseOrderPlacedOnce'
  BY DEF ExecInv, BaseOrderPlacedOnce, SameBase
<1>4. ResubmittableMeansUnsent'
  BY DEF ExecInv, ResubmittableMeansUnsent, SameBase
<1>5. ToSend \subseteq Trades
  BY DEF ToSend, At, LaterBuys, OfSide, ExecInv, TypeOK, ExecTypeOK, ProcType
<1>6. UnsentInv'
  BY <1>5 DEF ExecInv, UnsentInv, SameBase
<1> QED
  BY <1>1, <1>2, <1>3, <1>4, <1>6 DEF ExecInv

(* _record_result: one row changes and carries the status of the result. *)
LEMMA RecordRow ==
    ASSUME ExecInv, NEW t \in Trades, NEW res \in ResultType, RecordResult(t, res)
    PROVE  /\ ledger' \in [Trades -> Row]
           /\ \A u \in Trades \ {t} : ledger'[u] = ledger[u]
           /\ res.raw \notin RetryableRaw => MustReplay(ledger'[t])
<1> DEFINE base == IF IsOpen(ledger[t]) THEN ledger[t] ELSE PlannedRow(proc.sendq[t])
<1>1. ledger \in [Trades -> Row] /\ proc.sendq[t] \in 0..MaxQty
  BY DEF ExecInv, TypeOK, ExecTypeOK, ProcType
<1>2. base \in Row
  BY <1>1, PlannedType
<1>3. ledger' = [ledger EXCEPT ![t] = WithOrderResult(base, res)]
  BY DEF RecordResult, Upsert
<1> HIDE DEF base
<1>4. /\ WithOrderResult(base, res) \in Row
      /\ WithOrderResult(base, res).raw = res.raw
      /\ WithOrderResult(base, res).st \notin {"absent", "planned"}
  BY <1>2, RowTypes
<1>5. res.raw \notin RetryableRaw => MustReplay(WithOrderResult(base, res))
  BY <1>4 DEF MustReplay
<1> QED
  BY <1>1, <1>3, <1>4, <1>5

(* A local result, without an order id. *)
LEMMA LocalResult ==
    ASSUME NEW raw \in RawStatuses
    PROVE  Result(raw, NoId, 0) \in ResultType /\ Result(raw, NoId, 0).raw = raw
BY DEF Result, ResultType, NoId

(* Steps that leave the account alone. *)
LEMMA SameOrders ==
    ASSUME ExecInv, orders' = orders
    PROVE  /\ orders' \in Seq(Order) /\ Len(orders') = Len(orders) /\ Ids' = Ids /\ SameBase
BY DEF ExecInv, TypeOK, BrokerTypeOK, SameBase, BaseOrders, OrdersOf, Ids

(* The next phase starts, or submit_plan returns. *)
LEMMA NextPhaseInv ==
    ASSUME ExecInv, NextPhase, proc.pc \in {"reprice", "block", "record"},
           UNCHANGED <<orders, cash, ledger, session, crashes>>
    PROVE  ExecInv'
<1>1. CASE proc.phase = "SELL"
  <2>0. proc \in ProcType /\ ledger \in [Trades -> Row]
    BY DEF ExecInv, TypeOK, ExecTypeOK
  <2> DEFINE none == [t \in Trades |-> NoResult]
  <2>1. NoResult \in ResultType /\ NoResult.raw = "" /\ "" \notin RetryableRaw
    BY DEF NoResult, Result, ResultType, RawStatuses, NoId, RetryableRaw
  <2>2. none \in [Trades -> ResultType] /\ \A t \in Trades : none[t].raw \notin RetryableRaw
    BY <2>1
  <2> HIDE DEF none
  <2>3. proc' = [proc EXCEPT !.pc = "reprice", !.phase = "BUY", !.batch = {},
                             !.todo = OfSide(proc.fresh, "BUY"), !.res = none]
    BY <1>1 DEF NextPhase, StartPhase, none
  <2>4. OfSide(proc.fresh, "BUY") \subseteq Trades
    BY <2>0 DEF OfSide, ProcType
  <2>5. /\ proc' \in ProcType /\ proc'.opens = proc.opens /\ proc'.hist = proc.hist
        /\ proc'.pc = "reprice" /\ proc'.phase = "BUY" /\ proc'.batch = {}
        /\ proc'.fresh = proc.fresh /\ proc'.todo = OfSide(proc.fresh, "BUY") /\ proc'.res = none
    BY <2>0, <2>2, <2>3, <2>4 DEF ProcType, SubmitPcs, ResultType
  <2>6. ToSend' \subseteq OfSide(proc.fresh, "BUY")
    BY <2>5, ToSendValue DEF LaterBuys
  <2>7. OfSide(proc.fresh, "BUY") \subseteq ToSend
    BY <1>1, ToSendValue DEF LaterBuys
  <2>8. PhaseInv' /\ MarkedInv' /\ ResultInv'
    BY <2>2, <2>5 DEF PhaseInv, MarkedInv, ResultInv, At, PhasePcs, SendPcs
  <2> QED
    BY <2>0, <2>5, <2>6, <2>7, <2>8, SameOrders, PhaseStep DEF PhasePcs
<1>2. CASE proc.phase # "SELL"
  BY <1>2, EndProcessInv DEF NextPhase
<1> QED
  BY <1>1, <1>2

(* What the invariant says of a process inside submit_plan. *)
LEMMA PhaseFacts ==
    ASSUME ExecInv
    PROVE  /\ proc \in ProcType /\ ledger \in [Trades -> Row] /\ BrokerTypeOK
           /\ ToSend \subseteq Trades /\ \A u \in ToSend : BaseOrders(u) = {}
           /\ proc.pc \in PhasePcs =>
                 /\ proc.todo \subseteq OfSide(proc.fresh, proc.phase)
                 /\ proc.batch \subseteq OfSide(proc.fresh, proc.phase)
           /\ proc.pc \in PhasePcs \ {"record"} =>
                 \A u \in Trades : proc.res[u].raw \notin RetryableRaw
<1>1. proc \in ProcType /\ ledger \in [Trades -> Row] /\ BrokerTypeOK
  BY DEF ExecInv, TypeOK, ExecTypeOK
<1>2. ToSend \subseteq Trades
  BY <1>1 DEF ToSend, At, LaterBuys, OfSide, ProcType
<1> QED
  BY <1>1, <1>2 DEF ExecInv, UnsentInv, PhaseInv, ResultInv

(* submit_trades ends: what was sent is never reported as unsent. *)
LEMMA StopSendingInv ==
    ASSUME ExecInv, proc.pc \in SendPcs, NEW resOf \in [Trades -> ResultType],
           StopSending(resOf),
           \A u \in Trades : BaseOrders(u) # {} => resOf[u].raw \notin RetryableRaw,
           ledger' \in [Trades -> Row],
           \A u \in Trades : BaseOrders(u) # {} /\ ledger'[u] # ledger[u] => MustReplay(ledger'[u]),
           UNCHANGED <<orders, cash, session, crashes>>
    PROVE  ExecInv'
<1>0. proc \in ProcType /\ proc.batch \subseteq OfSide(proc.fresh, proc.phase)
  BY PhaseFacts DEF SendPcs, PhasePcs
<1>1. /\ proc' \in ProcType /\ proc'.opens = proc.opens /\ proc'.hist = proc.hist
      /\ proc'.pc = "record" /\ proc'.phase = proc.phase /\ proc'.batch = proc.batch
      /\ proc'.todo = proc.batch /\ proc'.fresh = proc.fresh /\ proc'.res = resOf
  <2>1. PICK n \in 0..MaxAcceptFailures : n = 0
    OBVIOUS
  <2>2. proc' = [proc EXCEPT !.pc = "record", !.cur = NoTrade, !.todo = proc.batch,
                             !.res = resOf, !.fails = n]
    BY <2>1 DEF StopSending
  <2> QED
    BY <1>0, <2>2 DEF ProcType, SubmitPcs, ResultType
<1>2. LaterBuys' = LaterBuys
  BY <1>1 DEF LaterBuys
<1>3. ToSend' \subseteq ToSend
  BY <1>1, <1>2, ToSendValue
<1>4. PhaseInv' /\ MarkedInv'
  BY <1>0, <1>1 DEF PhaseInv, MarkedInv, At, PhasePcs, SendPcs
<1>5. ResultInv'
  BY <1>1, SameOrders DEF ResultInv, At, PhasePcs, SameBase
<1> QED
  BY <1>1, <1>3, <1>4, <1>5, SameOrders, PhaseStep DEF PhasePcs

(* The unsent rest of a batch. *)
LEMMA UnsentResults ==
    ASSUME ExecInv, proc.pc \in SendPcs
    PROVE  /\ Unsent(proc.todo) \in [Trades -> ResultType]
           /\ \A u \in Trades : BaseOrders(u) # {} => Unsent(proc.todo)[u].raw \notin RetryableRaw
<1>1. "BrokerUnavailable" \in RawStatuses
  BY DEF RawStatuses, SubmissionFailureRaw
<1>2. Result("BrokerUnavailable", NoId, 0) \in ResultType
  BY <1>1, LocalResult
<1>3. proc.res \in [Trades -> ResultType] /\ proc.todo \subseteq ToSend
      /\ \A u \in Trades : proc.res[u].raw \notin RetryableRaw
  BY PhaseFacts, ToSendValue DEF ProcType, ResultType, SendPcs, PhasePcs
<1>4. \A u \in proc.todo : BaseOrders(u) = {}
  BY <1>3, PhaseFacts
<1> QED
  BY <1>2, <1>3, <1>4 DEF Unsent

(* The answer for one order is kept; the batch goes on or stops. *)
LEMMA ReturnResultInv ==
    ASSUME ExecInv, NEW t \in Trades, NEW r \in ResultType, r.raw \notin RetryableRaw,
           proc.pc \in SendPcs, ReturnResult(t, r),
           ledger' \in [Trades -> Row],
           \A u \in Trades \ {t} : ledger'[u] = ledger[u],
           ledger'[t] # ledger[t] => MustReplay(ledger'[t]),
           UNCHANGED <<orders, cash, session, crashes>>
    PROVE  ExecInv'
<1> DEFINE n == IF r.raw \in AcceptedRaw \/ r.filled > 0 THEN 0 ELSE proc.fails + 1
<1>0. /\ proc \in ProcType /\ proc.batch \subseteq OfSide(proc.fresh, proc.phase)
      /\ proc.todo \subseteq OfSide(proc.fresh, proc.phase)
      /\ \A u \in Trades : proc.res[u].raw \notin RetryableRaw
      /\ \A u \in proc.todo : u \in Trades /\ MustReplay(ledger[u])
  BY PhaseFacts DEF SendPcs, PhasePcs, ExecInv, MarkedInv, ProcType
<1>1. n \in Nat
  BY <1>0 DEF ProcType
<1>2. CASE n >= MaxAcceptFailures
  <2> DEFINE resOf == [Unsent(proc.todo) EXCEPT ![t] = r]
  <2>1. StopSending(resOf)
    BY <1>2 DEF ReturnResult
  <2>2. resOf \in [Trades -> ResultType]
        /\ \A u \in Trades : BaseOrders(u) # {} => resOf[u].raw \notin RetryableRaw
    BY UnsentResults
  <2> HIDE DEF resOf
  <2> QED
    BY <2>1, <2>2, StopSendingInv
<1>3. CASE ~(n >= MaxAcceptFailures)
  <2>1. n \in 0..MaxAcceptFailures
    BY <1>1, <1>3
  <2>2. proc' = [proc EXCEPT !.pc = "send", !.cur = NoTrade, !.fails = n, !.res[t] = r]
    BY <1>3 DEF ReturnResult
  <2> HIDE DEF n
  <2>3. /\ proc' \in ProcType /\ proc'.opens = proc.opens /\ proc'.hist = proc.hist
        /\ proc'.pc = "send" /\ proc'.phase = proc.phase /\ proc'.batch = proc.batch
        /\ proc'.todo = proc.todo /\ proc'.fresh = proc.fresh
        /\ proc'.res = [proc.res EXCEPT ![t] = r]
    BY <1>0, <2>1, <2>2, ZenonT(30) DEF ProcType, SubmitPcs, ResultType, NoTrade
  <2>4. \A u \in Trades : proc'.res[u].raw \notin RetryableRaw
    BY <1>0, <2>3 DEF ProcType
  <2>5. \A u \in proc.todo : MustReplay(ledger'[u])
    BY <1>0
  <2>6. ToSend' \subseteq ToSend
    <3>1. LaterBuys' = LaterBuys
      BY <2>3 DEF LaterBuys
    <3> QED
      BY <2>3, <3>1, ToSendValue DEF SendPcs
  <2>7. PhaseInv' /\ MarkedInv' /\ ResultInv'
    BY <1>0, <2>3, <2>4, <2>5 DEF PhaseInv, MarkedInv, ResultInv, At, PhasePcs, SendPcs
  <2>8. \A u \in Trades : BaseOrders(u) # {} /\ ledger'[u] # ledger[u] => MustReplay(ledger'[u])
    OBVIOUS
  <2> QED
    BY <2>3, <2>6, <2>7, <2>8, SameOrders, PhaseStep DEF PhasePcs
<1> QED
  BY <1>2, <1>3

(* The newest order, as the broker reports it. *)
LEMMA ReportedType ==
    ASSUME ExecInv, proc.pc \in {"placed", "wait", "wait_cancel"}
    PROVE  /\ Placed \in Ids /\ Placed \in Nat /\ orders[Placed].filled \in 0..MaxQty
           /\ Reported \in ResultType /\ Reported.raw \notin RetryableRaw
           /\ Reported.filled = orders[Placed].filled
<1>1. Placed \in Ids /\ Placed \in Nat
  BY DEF ExecInv, CursorInv, TypeOK, BrokerTypeOK, Placed, Ids
<1>2. orders[Placed].st \in RawStatuses /\ orders[Placed].st \notin RetryableRaw
      /\ orders[Placed].filled \in 0..MaxQty
  BY <1>1, OrderStatusRaw DEF ExecInv, TypeOK
<1> QED
  BY <1>1, <1>2 DEF Reported, Result, ResultType

(* The status callback. *)
LEMMA EmitChangeRow ==
    ASSUME ExecInv, NEW t \in Trades, proc.pc \in {"placed", "wait", "wait_cancel"},
           EmitChange(t)
    PROVE  /\ ledger' \in [Trades -> Row]
           /\ \A u \in Trades \ {t} : ledger'[u] = ledger[u]
           /\ ledger'[t] # ledger[t] => MustReplay(ledger'[t])
<1>1. CASE RecordResult(t, Reported)
  BY <1>1, ReportedType, RecordRow
<1>2. CASE UNCHANGED ledger
  BY <1>2, PhaseFacts
<1> QED
  BY <1>1, <1>2 DEF EmitChange

(* placeOrder for a ledger key: the only step that adds a base order. *)
LEMMA PlaceOrderInv ==
    ASSUME ExecInv, NEW t \in Trades, PlaceOrder(t)
    PROVE  ExecInv'
<1>0. /\ proc.pc = "send" /\ t \in proc.todo /\ Place(t, "base", proc.sendq[t])
      /\ proc' = [proc EXCEPT !.pc = "placed", !.cur = t, !.todo = proc.todo \ {t}]
      /\ UNCHANGED <<cash, ledger, session, crashes>>
  BY DEF PlaceOrder, At
<1>1. /\ proc \in ProcType /\ ledger \in [Trades -> Row] /\ BrokerTypeOK
      /\ ToSend = proc.todo \cup LaterBuys /\ ToSend \subseteq Trades
      /\ \A u \in ToSend : BaseOrders(u) = {}
      /\ proc.todo \subseteq OfSide(proc.fresh, proc.phase)
      /\ proc.batch \subseteq OfSide(proc.fresh, proc.phase)
      /\ \A u \in Trades : proc.res[u].raw \notin RetryableRaw
  BY <1>0, PhaseFacts, ToSendValue DEF SendPcs, PhasePcs
<1>2. \A u \in proc.todo : MustReplay(ledger[u])
  BY <1>0 DEF ExecInv, MarkedInv, SendPcs
<1>3. proc.sendq[t] \in 0..MaxQty /\ BaseOrders(t) = {}
  BY <1>0, <1>1 DEF ProcType
<1>4. /\ orders' \in Seq(Order) /\ Len(orders') = Len(orders) + 1 /\ Ids \subseteq Ids'
      /\ \A u \in Trades \ {t} : BaseOrders(u)' = BaseOrders(u)
      /\ \A j, k \in BaseOrders(t)' : j = k
  BY <1>0, <1>1, <1>3, PlaceAddsOrder DEF Refs
<1>5. /\ proc' \in ProcType /\ proc'.opens = proc.opens /\ proc'.hist = proc.hist
      /\ proc'.pc = "placed" /\ proc'.phase = proc.phase /\ proc'.batch = proc.batch
      /\ proc'.todo = proc.todo \ {t} /\ proc'.fresh = proc.fresh /\ proc'.res = proc.res
  BY <1>0, <1>1 DEF ProcType, SubmitPcs
<1>6. TypeOK'
  BY <1>0, <1>4, <1>5 DEF ExecInv, TypeOK, BrokerTypeOK, ExecTypeOK
<1>7. CursorInv'
  <2>1. Len(orders) \in Nat
    BY <1>1 DEF BrokerTypeOK
  <2> QED
    BY <1>4, <1>5, <2>1 DEF ExecInv, CursorInv
<1>8. BaseOrderPlacedOnce'
  <2>1. \A u \in Trades : \A i, j \in BaseOrders(u) : i = j
    BY DEF ExecInv, BaseOrderPlacedOnce
  <2>2. ASSUME NEW u \in Trades
        PROVE  \A i, j \in BaseOrders(u)' : i = j
    <3>1. CASE u = t
      BY <1>4, <3>1
    <3>2. CASE u # t
      BY <1>4, <2>1, <3>2
    <3> QED
      BY <3>1, <3>2
  <2> QED
    BY <2>2 DEF BaseOrderPlacedOnce
<1>9. ResubmittableMeansUnsent'
  BY <1>0, <1>2, <1>4 DEF ExecInv, ResubmittableMeansUnsent
<1>10. UnsentInv'
  <2>1. t \notin LaterBuys
    BY <1>0, <1>1 DEF LaterBuys, OfSide
  <2>2. LaterBuys' = LaterBuys
    BY <1>5 DEF LaterBuys
  <2>3. ToSend' = (proc.todo \ {t}) \cup LaterBuys
    BY <1>5, <2>2, ToSendValue DEF SendPcs
  <2> QED
    BY <1>1, <1>4, <2>1, <2>3 DEF UnsentInv
<1>11. PhaseInv' /\ MarkedInv' /\ ResultInv'
  BY <1>0, <1>1, <1>2, <1>5 DEF PhaseInv, MarkedInv, ResultInv, At, PhasePcs, SendPcs
<1> QED
  BY <1>6, <1>7, <1>8, <1>9, <1>10, <1>11 DEF ExecInv

(* Every step of submit_plan keeps the invariant. *)
LEMMA SubmissionInv ==
    ASSUME ExecInv, SubmissionStep
    PROVE  ExecInv'
<1>f. /\ proc \in ProcType /\ ledger \in [Trades -> Row] /\ BrokerTypeOK
      /\ ToSend \subseteq Trades /\ \A u \in ToSend : BaseOrders(u) = {}
  BY PhaseFacts
<1>1. CASE BuildPlan
  <2>1. PICK P \in SUBSET Trades :
          proc' = [proc EXCEPT !.pc = "plan_trade", !.todo = P, !.fresh = {}]
    BY <1>1 DEF BuildPlan
  <2>2. proc' \in ProcType /\ proc'.opens = proc.opens /\ proc'.hist = proc.hist
        /\ proc'.pc = "plan_trade" /\ proc'.fresh = {}
    BY <1>f, <2>1 DEF ProcType, SubmitPcs
  <2>3. PhaseInv' /\ MarkedInv' /\ ResultInv' /\ ToSend' = {}
    BY <2>2, ToSendValue DEF PhaseInv, MarkedInv, ResultInv, At, PhasePcs, SendPcs
  <2> QED
    BY <1>1, <1>f, <2>2, <2>3, SameOrders, PhaseStep DEF BuildPlan, PhasePcs
<1>2. ASSUME NEW t \in Trades, PlanTrade(t)
      PROVE  ExecInv'
  <2>0. proc.pc = "plan_trade" /\ t \in proc.todo /\ UNCHANGED <<orders, cash, session, crashes>>
    BY <1>2 DEF PlanTrade, At
  <2>1. CASE MustReplay(ledger[t])
    <3>1. proc' = [proc EXCEPT !.todo = proc.todo \ {t}] /\ ledger' = ledger
      BY <1>2, <2>1 DEF PlanTrade
    <3>2. proc' \in ProcType /\ proc'.opens = proc.opens /\ proc'.hist = proc.hist
          /\ proc'.pc = "plan_trade" /\ proc'.fresh = proc.fresh
      BY <1>f, <2>0, <3>1 DEF ProcType
    <3>3. PhaseInv' /\ MarkedInv' /\ ResultInv' /\ ToSend' = ToSend
      BY <2>0, <3>2, ToSendValue DEF PhaseInv, MarkedInv, ResultInv, At, PhasePcs, SendPcs
    <3> QED
      BY <1>f, <2>0, <3>1, <3>2, <3>3, SameOrders, PhaseStep DEF PhasePcs
  <2>2. CASE ~MustReplay(ledger[t])
    <3>1. /\ proc' = [proc EXCEPT !.todo = proc.todo \ {t}, !.fresh = proc.fresh \cup {t}]
          /\ ledger' = [ledger EXCEPT ![t] = PlannedRow(Qty[t])]
      BY <1>2, <2>2 DEF PlanTrade, Upsert
    <3>2. BaseOrders(t) = {}
      BY <2>2 DEF ExecInv, ResubmittableMeansUnsent
    <3>3. PlannedRow(Qty[t]) \in Row
      BY PlannedType
    <3>4. ledger' \in [Trades -> Row] /\ \A u \in Trades \ {t} : ledger'[u] = ledger[u]
      BY <1>f, <3>1, <3>3
    <3>5. proc' \in ProcType /\ proc'.opens = proc.opens /\ proc'.hist = proc.hist
          /\ proc'.pc = "plan_trade" /\ proc'.fresh = proc.fresh \cup {t}
      BY <1>f, <2>0, <3>1 DEF ProcType
    <3>6. PhaseInv' /\ MarkedInv' /\ ResultInv'
      BY <3>5 DEF PhaseInv, MarkedInv, ResultInv, At, PhasePcs, SendPcs
    <3>7. ToSend' = ToSend \cup {t}
      BY <2>0, <3>5, ToSendValue
    <3> QED
      BY <2>0, <3>2, <3>4, <3>5, <3>6, <3>7, SameOrders, PhaseStep DEF PhasePcs
  <2> QED
    BY <2>1, <2>2
<1>3. CASE PlanDone
  <2> DEFINE none == [t \in Trades |-> NoResult]
  <2>1. NoResult \in ResultType /\ NoResult.raw = "" /\ "" \notin RetryableRaw
    BY DEF NoResult, Result, ResultType, RawStatuses, NoId, RetryableRaw
  <2>2. none \in [Trades -> ResultType] /\ \A t \in Trades : none[t].raw \notin RetryableRaw
    BY <2>1
  <2> HIDE DEF none
  <2>3. proc.pc = "plan_trade" /\ proc' = [proc EXCEPT !.pc = "reprice", !.phase = "SELL",
              !.batch = {}, !.todo = OfSide(proc.fresh, "SELL"), !.res = none]
    BY <1>3 DEF PlanDone, StartPhase, At, none
  <2>4. OfSide(proc.fresh, "SELL") \subseteq Trades
    BY <1>f DEF OfSide, ProcType
  <2>5. /\ proc' \in ProcType /\ proc'.opens = proc.opens /\ proc'.hist = proc.hist
        /\ proc'.pc = "reprice" /\ proc'.phase = "SELL" /\ proc'.batch = {}
        /\ proc'.fresh = proc.fresh /\ proc'.todo = OfSide(proc.fresh, "SELL") /\ proc'.res = none
    BY <1>f, <2>2, <2>3, <2>4 DEF ProcType, SubmitPcs, ResultType
  <2>6. ToSend' \subseteq ToSend
    BY <2>3, <2>5, ToSendValue DEF LaterBuys, OfSide
  <2>7. PhaseInv' /\ MarkedInv' /\ ResultInv'
    BY <2>2, <2>5 DEF PhaseInv, MarkedInv, ResultInv, At, PhasePcs, SendPcs
  <2> QED
    BY <1>3, <1>f, <2>5, <2>6, <2>7, SameOrders, PhaseStep DEF PlanDone, PhasePcs
<1>4. ASSUME NEW t \in Trades, RepriceTrade(t)
      PROVE  ExecInv'
  <2>0. /\ proc.pc = "reprice" /\ t \in proc.todo /\ UNCHANGED <<orders, cash, session, crashes>>
        /\ ledger' = [ledger EXCEPT ![t] = PlannedRow(Qty[t])]
        /\ proc' = [proc EXCEPT !.todo = proc.todo \ {t}, !.batch = proc.batch \cup {t}]
    BY <1>4 DEF RepriceTrade, At, Upsert
  <2>1. PlannedRow(Qty[t]) \in Row
    BY PlannedType
  <2>2. ledger' \in [Trades -> Row] /\ \A u \in Trades \ {t} : ledger'[u] = ledger[u]
    BY <1>f, <2>0, <2>1
  <2>3. BaseOrders(t) = {}
    BY <1>f, <2>0, ToSendValue
  <2>4. /\ proc' \in ProcType /\ proc'.opens = proc.opens /\ proc'.hist = proc.hist
        /\ proc'.pc = "reprice" /\ proc'.phase = proc.phase /\ proc'.fresh = proc.fresh
        /\ proc'.todo = proc.todo \ {t} /\ proc'.batch = proc.batch \cup {t}
        /\ proc'.res = proc.res
    BY <1>f, <2>0 DEF ProcType
  <2>5. ToSend' \subseteq ToSend
    <3>1. LaterBuys' = LaterBuys
      BY <2>4 DEF LaterBuys
    <3> QED
      BY <2>0, <2>4, <3>1, ToSendValue
  <2>6. PhaseInv' /\ MarkedInv' /\ ResultInv'
    BY <2>0, <2>4, PhaseFacts DEF PhaseInv, MarkedInv, ResultInv, At, PhasePcs, SendPcs
  <2> QED
    BY <2>0, <2>2, <2>3, <2>4, <2>5, <2>6, SameOrders, PhaseStep DEF PhasePcs
<1>5. ASSUME NEW t \in Trades, BlockOnQuote(t) \/ BlockBuy(t)
      PROVE  ExecInv'
  <2>0. PICK raw \in {"QuoteBlocked", "ContractUnresolved", "BuyingPowerBlocked"} :
          RecordResult(t, Result(raw, NoId, 0))
    BY <1>5 DEF BlockOnQuote, BlockBuy
  <2>1. /\ proc.pc \in {"reprice", "block"} /\ t \in proc.todo
        /\ UNCHANGED <<orders, cash, session, crashes>>
        /\ proc' = [proc EXCEPT !.todo = proc.todo \ {t}]
    BY <1>5 DEF BlockOnQuote, BlockBuy, At
  <2>2. raw \in RawStatuses
    BY DEF RawStatuses, SubmissionFailureRaw
  <2>3. ledger' \in [Trades -> Row] /\ \A u \in Trades \ {t} : ledger'[u] = ledger[u]
    BY <2>0, <2>2, LocalResult, RecordRow
  <2>4. BaseOrders(t) = {}
    BY <1>f, <2>1, ToSendValue
  <2>5. /\ proc' \in ProcType /\ proc'.opens = proc.opens /\ proc'.hist = proc.hist
        /\ proc'.pc = proc.pc /\ proc'.phase = proc.phase /\ proc'.fresh = proc.fresh
        /\ proc'.todo = proc.todo \ {t} /\ proc'.batch = proc.batch /\ proc'.res = proc.res
    BY <1>f, <2>1 DEF ProcType
  <2>6. ToSend' \subseteq ToSend
    <3>1. LaterBuys' = LaterBuys
      BY <2>5 DEF LaterBuys
    <3> QED
      BY <2>1, <2>5, <3>1, ToSendValue
  <2>7. PhaseInv' /\ MarkedInv' /\ ResultInv'
    BY <2>1, <2>5, PhaseFacts DEF PhaseInv, MarkedInv, ResultInv, At, PhasePcs, SendPcs
  <2> QED
    BY <2>1, <2>3, <2>4, <2>5, <2>6, <2>7, SameOrders, PhaseStep DEF PhasePcs
<1>6. ASSUME proc.pc \in {"reprice", "fit"}, NEW q \in [Trades -> 1..MaxQty],
             NEW pc \in {"fit", "mark", "block"},
             UNCHANGED <<orders, cash, ledger, session, crashes>>,
             \/ proc' = [proc EXCEPT !.pc = pc, !.todo = proc.batch, !.sendq = q]
             \/ pc = "fit" /\ proc' = [proc EXCEPT !.pc = pc]
      PROVE  ExecInv'
  <2>1. /\ proc' \in ProcType /\ proc'.opens = proc.opens /\ proc'.hist = proc.hist
        /\ proc'.pc = pc /\ proc'.phase = proc.phase /\ proc'.fresh = proc.fresh
        /\ proc'.batch = proc.batch /\ proc'.res = proc.res
        /\ proc'.todo = proc.batch \/ (pc = "fit" /\ proc'.todo = proc.todo)
    <3>1. CASE proc' = [proc EXCEPT !.pc = pc, !.todo = proc.batch, !.sendq = q]
      BY <1>6, <1>f, <3>1 DEF ProcType, SubmitPcs
    <3>2. CASE pc = "fit" /\ proc' = [proc EXCEPT !.pc = pc]
      BY <1>6, <1>f, <3>2 DEF ProcType, SubmitPcs
    <3> QED
      BY <1>6, <3>1, <3>2
  <2>2. ToSend' \subseteq ToSend
    <3>1. LaterBuys' = LaterBuys
      BY <2>1 DEF LaterBuys
    <3> QED
      BY <1>6, <2>1, <3>1, ToSendValue
  <2>3. PhaseInv' /\ ResultInv'
    BY <1>6, <2>1, PhaseFacts DEF PhaseInv, ResultInv, At, PhasePcs
  <2>4. MarkedInv'
    BY <1>6, <2>1 DEF MarkedInv, At, SendPcs
  <2> QED
    BY <1>6, <1>f, <2>1, <2>2, <2>3, <2>4, SameOrders, PhaseStep DEF PhasePcs
<1>7. CASE RepriceDone
  <2>0. proc.pc = "reprice" /\ UNCHANGED <<orders, cash, ledger, session, crashes>>
    BY <1>7 DEF RepriceDone, At
  <2>1. CASE NextPhase
    BY <2>0, <2>1, NextPhaseInv
  <2>2. CASE proc' = [proc EXCEPT !.pc = "fit"]
    BY <2>0, <2>2, <1>6
  <2>3. CASE proc' = [proc EXCEPT !.pc = "mark", !.todo = proc.batch]
    <3>1. proc' = [proc EXCEPT !.pc = "mark", !.todo = proc.batch, !.sendq = proc.sendq]
      BY <1>f, <2>3 DEF ProcType
    <3>2. proc.sendq \in [Trades -> 1..MaxQty]
      BY <1>f DEF ProcType
    <3> QED
      BY <2>0, <3>1, <3>2, <1>6
  <2> QED
    BY <1>7, <2>1, <2>2, <2>3 DEF RepriceDone
<1>8. CASE BuysFit \/ BlockBuys
  <2>1. PICK pc \in {"mark", "block"} : proc' = [proc EXCEPT !.pc = pc, !.todo = proc.batch]
    BY <1>8 DEF BuysFit, BlockBuys
  <2>2. proc.pc = "fit" /\ UNCHANGED <<orders, cash, ledger, session, crashes>>
    BY <1>8 DEF BuysFit, BlockBuys, At
  <2>3. proc' = [proc EXCEPT !.pc = pc, !.todo = proc.batch, !.sendq = proc.sendq]
        /\ proc.sendq \in [Trades -> 1..MaxQty]
    BY <1>f, <2>1 DEF ProcType
  <2> QED
    BY <2>2, <2>3, <1>6
<1>9. ASSUME NEW t \in Trades, TrimBuy(t)
      PROVE  ExecInv'
  <2>1. PICK q \in 1..Qty[t] :
          proc' = [proc EXCEPT !.pc = "mark", !.todo = proc.batch,
                               !.sendq = [proc.sendq EXCEPT ![t] = q]]
    BY <1>9 DEF TrimBuy
  <2>2. q \in 1..MaxQty
    <3>1. Qty[t] \in 1..MaxQty
      OBVIOUS
    <3> QED
      BY <3>1
  <2>3. [proc.sendq EXCEPT ![t] = q] \in [Trades -> 1..MaxQty]
    BY <1>f, <2>2 DEF ProcType
  <2>4. proc.pc = "fit" /\ UNCHANGED <<orders, cash, ledger, session, crashes>>
    BY <1>9 DEF TrimBuy, At
  <2> QED
    BY <2>1, <2>3, <2>4, <1>6
<1>10. CASE BlockDone \/ RecordDone
  <2>1. NextPhase /\ proc.pc \in {"block", "record"}
        /\ UNCHANGED <<orders, cash, ledger, session, crashes>>
    BY <1>10 DEF BlockDone, RecordDone, At
  <2> QED
    BY <2>1, NextPhaseInv
<1>11. ASSUME NEW t \in Trades, MarkUnconfirmed(t)
       PROVE  ExecInv'
  <2>0. /\ proc.pc = "mark" /\ t \in proc.todo /\ UNCHANGED <<orders, cash, session, crashes>>
        /\ RecordResult(t, Result("SubmissionUnconfirmed", NoId, 0))
        /\ proc' = [proc EXCEPT !.todo = proc.todo \ {t}]
    BY <1>11 DEF MarkUnconfirmed, At
  <2>1. "SubmissionUnconfirmed" \in RawStatuses /\ "SubmissionUnconfirmed" \notin RetryableRaw
    BY DEF RawStatuses, RetryableRaw
  <2>2. /\ ledger' \in [Trades -> Row] /\ \A u \in Trades \ {t} : ledger'[u] = ledger[u]
        /\ MustReplay(ledger'[t])
    BY <2>0, <2>1, LocalResult, RecordRow
  <2>3. /\ proc' \in ProcType /\ proc'.opens = proc.opens /\ proc'.hist = proc.hist
        /\ proc'.pc = "mark" /\ proc'.phase = proc.phase /\ proc'.fresh = proc.fresh
        /\ proc'.todo = proc.todo \ {t} /\ proc'.batch = proc.batch /\ proc'.res = proc.res
        /\ proc.batch \subseteq Trades
    BY <1>f, <2>0 DEF ProcType
  <2>4. ToSend' \subseteq ToSend
    <3>1. LaterBuys' = LaterBuys
      BY <2>3 DEF LaterBuys
    <3> QED
      BY <2>0, <2>3, <3>1, ToSendValue
  <2>5. PhaseInv' /\ ResultInv'
    BY <2>0, <2>3, PhaseFacts DEF PhaseInv, ResultInv, At, PhasePcs
  <2>6. MarkedInv'
    <3>1. \A u \in proc.batch \ proc.todo : MustReplay(ledger[u])
      BY <2>0 DEF ExecInv, MarkedInv, At
    <3>2. \A u \in proc'.batch \ proc'.todo : MustReplay(ledger'[u])
      BY <2>2, <2>3, <3>1
    <3> QED
      BY <2>3, <3>2 DEF MarkedInv, At, SendPcs
  <2> QED
    BY <2>0, <2>2, <2>3, <2>4, <2>5, <2>6, SameOrders, PhaseStep DEF PhasePcs
<1>12. CASE MarkDone
  <2>0. /\ proc.pc = "mark" /\ proc.todo = {}
        /\ UNCHANGED <<orders, cash, ledger, session, crashes>>
        /\ proc' = [proc EXCEPT !.pc = "send", !.todo = proc.batch, !.fails = 0]
    BY <1>12 DEF MarkDone, At
  <2>1. /\ proc' \in ProcType /\ proc'.opens = proc.opens /\ proc'.hist = proc.hist
        /\ proc'.pc = "send" /\ proc'.phase = proc.phase /\ proc'.fresh = proc.fresh
        /\ proc'.todo = proc.batch /\ proc'.batch = proc.batch /\ proc'.res = proc.res
    <3>1. PICK n \in 0..MaxAcceptFailures : n = 0
      OBVIOUS
    <3>2. proc' = [proc EXCEPT !.pc = "send", !.todo = proc.batch, !.fails = n]
      BY <2>0, <3>1
    <3> QED
      BY <1>f, <3>2 DEF ProcType, SubmitPcs
  <2>2. ToSend' \subseteq ToSend
    <3>1. LaterBuys' = LaterBuys
      BY <2>1 DEF LaterBuys
    <3> QED
      BY <2>0, <2>1, <3>1, ToSendValue DEF SendPcs
  <2>3. PhaseInv' /\ ResultInv'
    BY <2>0, <2>1, PhaseFacts DEF PhaseInv, ResultInv, At, PhasePcs
  <2>4. MarkedInv'
    BY <2>0, <2>1 DEF ExecInv, MarkedInv, At, SendPcs
  <2> QED
    BY <1>f, <2>0, <2>1, <2>2, <2>3, <2>4, SameOrders, PhaseStep DEF PhasePcs
<1>13. CASE SendUnavailable \/ SendDone
  <2>0. proc.pc = "send" /\ UNCHANGED <<orders, cash, ledger, session, crashes>>
    BY <1>13 DEF SendUnavailable, SendDone, At
  <2>1. PICK resOf : /\ StopSending(resOf) /\ resOf \in [Trades -> ResultType]
                     /\ \A u \in Trades : BaseOrders(u) # {} => resOf[u].raw \notin RetryableRaw
    <3>1. CASE SendUnavailable
      BY <2>0, <3>1, UnsentResults DEF SendUnavailable, SendPcs
    <3>2. CASE SendDone
      <4>1. proc.res \in [Trades -> ResultType]
            /\ \A u \in Trades : proc.res[u].raw \notin RetryableRaw
        BY <2>0, <1>f, PhaseFacts DEF ProcType, ResultType, PhasePcs
      <4> QED
        BY <3>2, <4>1 DEF SendDone
    <3> QED
      BY <1>13, <3>1, <3>2
  <2>2. ledger' \in [Trades -> Row] /\ \A u \in Trades : ledger'[u] = ledger[u]
    BY <1>f, <2>0
  <2> QED
    BY <2>0, <2>1, <2>2, StopSendingInv DEF SendPcs
<1>14. ASSUME NEW t \in Trades, SendFails(t)
       PROVE  ExecInv'
  <2> DEFINE r == Result("Failed", NoId, 0)
  <2>0. /\ proc.pc = "send" /\ t \in proc.todo /\ UNCHANGED <<orders, cash, session, crashes>>
        /\ RecordResult(t, r)
        /\ proc' = [proc EXCEPT !.todo = proc.todo \ {t}, !.res[t] = r]
    BY <1>14 DEF SendFails, At
  <2>1. "Failed" \in RawStatuses /\ "Failed" \notin RetryableRaw
    BY DEF RawStatuses, SubmissionFailureRaw, RetryableRaw
  <2>2. r \in ResultType /\ r.raw = "Failed"
    BY <2>1, LocalResult
  <2> HIDE DEF r
  <2>3. /\ ledger' \in [Trades -> Row] /\ \A u \in Trades \ {t} : ledger'[u] = ledger[u]
        /\ MustReplay(ledger'[t])
    BY <2>0, <2>1, <2>2, RecordRow
  <2>4. /\ proc' \in ProcType /\ proc'.opens = proc.opens /\ proc'.hist = proc.hist
        /\ proc'.pc = "send" /\ proc'.phase = proc.phase /\ proc'.fresh = proc.fresh
        /\ proc'.todo = proc.todo \ {t} /\ proc'.batch = proc.batch
        /\ proc'.res = [proc.res EXCEPT ![t] = r] /\ proc.todo \subseteq Trades
    BY <1>f, <2>0, <2>2 DEF ProcType, ResultType
  <2>5. ToSend' \subseteq ToSend
    <3>1. LaterBuys' = LaterBuys
      BY <2>4 DEF LaterBuys
    <3> QED
      BY <2>0, <2>4, <3>1, ToSendValue DEF SendPcs
  <2>6. PhaseInv'
    BY <2>0, <2>4, PhaseFacts DEF PhaseInv, PhasePcs
  <2>7. ResultInv'
    <3>1. \A u \in Trades : proc.res[u].raw \notin RetryableRaw
      BY <2>0, PhaseFacts DEF PhasePcs
    <3>2. \A u \in Trades : proc'.res[u].raw \notin RetryableRaw
      BY <1>f, <2>1, <2>2, <2>4, <3>1 DEF ProcType
    <3> QED
      BY <2>4, <3>2 DEF ResultInv, At, PhasePcs
  <2>8. MarkedInv'
    <3>1. \A u \in proc.todo : MustReplay(ledger[u])
      BY <2>0 DEF ExecInv, MarkedInv, SendPcs
    <3>2. \A u \in proc'.todo : MustReplay(ledger'[u])
      BY <2>3, <2>4, <3>1
    <3> QED
      BY <2>4, <3>2 DEF MarkedInv, At, SendPcs
  <2> QED
    BY <2>0, <2>3, <2>4, <2>5, <2>6, <2>7, <2>8, SameOrders, PhaseStep DEF PhasePcs
<1>15. ASSUME NEW t \in Trades, PlaceOrder(t)
       PROVE  ExecInv'
  BY <1>15, PlaceOrderInv
<1>16. ASSUME NEW t \in Trades, NEW pc \in {"wait", "wait_cancel"}, NEW r \in ResultType,
              proc.pc \in {"placed", "wait"}, RecordResult(t, r), r.raw \notin RetryableRaw,
              proc' = [proc EXCEPT !.pc = pc],
              orders' \in Seq(Order), Len(orders') = Len(orders), Ids' = Ids, SameBase,
              UNCHANGED <<cash, session, crashes>>
       PROVE  ExecInv'
  <2>1. /\ ledger' \in [Trades -> Row] /\ \A u \in Trades \ {t} : ledger'[u] = ledger[u]
        /\ MustReplay(ledger'[t])
    BY <1>16, RecordRow
  <2>2. /\ proc' \in ProcType /\ proc'.opens = proc.opens /\ proc'.hist = proc.hist
        /\ proc'.pc = pc /\ proc'.phase = proc.phase /\ proc'.fresh = proc.fresh
        /\ proc'.todo = proc.todo /\ proc'.batch = proc.batch /\ proc'.res = proc.res
        /\ proc.todo \subseteq Trades
    BY <1>f, <1>16 DEF ProcType, SubmitPcs
  <2>3. ToSend' \subseteq ToSend
    <3>1. LaterBuys' = LaterBuys
      BY <2>2 DEF LaterBuys
    <3> QED
      BY <1>16, <2>2, <3>1, ToSendValue DEF SendPcs
  <2>4. PhaseInv' /\ ResultInv'
    BY <1>16, <2>2, PhaseFacts DEF PhaseInv, ResultInv, At, PhasePcs
  <2>5. MarkedInv'
    <3>1. \A u \in proc.todo : MustReplay(ledger[u])
      BY <1>16 DEF ExecInv, MarkedInv, SendPcs
    <3>2. \A u \in proc'.todo : MustReplay(ledger'[u])
      BY <2>1, <2>2, <3>1
    <3> QED
      BY <2>2, <3>2 DEF MarkedInv, At, SendPcs
  <2>6. Len(orders) > 0
    BY <1>16 DEF ExecInv, CursorInv
  <2> QED
    BY <1>16, <2>1, <2>2, <2>3, <2>4, <2>5, <2>6, PhaseStep DEF PhasePcs
<1>17. ASSUME NEW t \in Trades, EmitPlaced(t)
       PROVE  ExecInv'
  <2>0. /\ proc.pc = "placed" /\ UNCHANGED <<orders, cash, session, crashes>>
        /\ RecordResult(t, Reported) /\ proc' = [proc EXCEPT !.pc = "wait"]
    BY <1>17 DEF EmitPlaced, At
  <2>1. Reported \in ResultType /\ Reported.raw \notin RetryableRaw
    BY <2>0, ReportedType
  <2> QED
    BY <2>0, <2>1, <1>16, SameOrders
<1>18. ASSUME NEW t \in Trades, OutcomeUncertain(t)
       PROVE  ExecInv'
  <2>0. /\ proc.pc \in {"placed", "wait", "wait_cancel"}
        /\ UNCHANGED <<orders, cash, session, crashes>>
    BY <1>18 DEF OutcomeUncertain
  <2>1. PICK oid \in {NoId, Placed} :
          LET r == Result("SubmissionUnconfirmed", oid, IF oid = NoId THEN 0 ELSE orders[Placed].filled)
          IN  RecordResult(t, r) /\ StopSending([Unsent(proc.todo) EXCEPT ![t] = r])
    BY <1>18 DEF OutcomeUncertain
  <2> DEFINE fl == IF oid = NoId THEN 0 ELSE orders[Placed].filled
             r == Result("SubmissionUnconfirmed", oid, fl)
  <2>2. oid \in Nat /\ fl \in 0..MaxQty
    BY <2>0, ReportedType DEF NoId
  <2>3. RecordResult(t, r) /\ StopSending([Unsent(proc.todo) EXCEPT ![t] = r])
    BY <2>1
  <2> HIDE DEF fl
  <2>4. "SubmissionUnconfirmed" \in RawStatuses /\ "SubmissionUnconfirmed" \notin RetryableRaw
    BY DEF RawStatuses, RetryableRaw
  <2>5. r \in ResultType /\ r.raw = "SubmissionUnconfirmed"
    BY <2>2, <2>4 DEF Result, ResultType
  <2> HIDE DEF r
  <2>6. /\ ledger' \in [Trades -> Row] /\ \A u \in Trades \ {t} : ledger'[u] = ledger[u]
        /\ MustReplay(ledger'[t])
    BY <2>3, <2>4, <2>5, RecordRow
  <2> DEFINE resOf == [Unsent(proc.todo) EXCEPT ![t] = r]
  <2>7. resOf \in [Trades -> ResultType]
        /\ \A u \in Trades : BaseOrders(u) # {} => resOf[u].raw \notin RetryableRaw
    BY <2>0, <2>4, <2>5, UnsentResults DEF SendPcs
  <2>8. StopSending(resOf)
    BY <2>3
  <2> HIDE DEF resOf
  <2>9. \A u \in Trades : BaseOrders(u) # {} /\ ledger'[u] # ledger[u] => MustReplay(ledger'[u])
    BY <2>6
  <2> QED
    BY <2>0, <2>6, <2>7, <2>8, <2>9, StopSendingInv DEF SendPcs
<1>19. ASSUME NEW t \in Trades, OrderAnswered(t) \/ CancelWaitEnds(t)
       PROVE  ExecInv'
  <2>0. /\ proc.pc \in {"wait", "wait_cancel"} /\ UNCHANGED <<orders, cash, session, crashes>>
        /\ EmitChange(t) /\ ReturnResult(t, Reported)
    BY <1>19 DEF OrderAnswered, CancelWaitEnds, At
  <2>1. Reported \in ResultType /\ Reported.raw \notin RetryableRaw
    BY <2>0, ReportedType
  <2>2. /\ ledger' \in [Trades -> Row] /\ \A u \in Trades \ {t} : ledger'[u] = ledger[u]
        /\ ledger'[t] # ledger[t] => MustReplay(ledger'[t])
    BY <2>0, EmitChangeRow
  <2> QED
    BY <2>0, <2>1, <2>2, ReturnResultInv DEF SendPcs
<1>20. ASSUME NEW t \in Trades, AcceptanceTimeout(t)
       PROVE  ExecInv'
  <2>0. proc.pc = "wait" /\ UNCHANGED <<cash, session, crashes>>
    BY <1>20 DEF AcceptanceTimeout, At
  <2>1. CASE CancelStaleOrders
    <3> DEFINE r == Result("PendingCancel", Placed, Reported.filled)
    <3>1. /\ RequestCancel(Placed) /\ RecordResult(t, r)
          /\ proc' = [proc EXCEPT !.pc = "wait_cancel"]
      BY <1>20, <2>1 DEF AcceptanceTimeout
    <3>2. "PendingCancel" \in RawStatuses /\ "PendingCancel" \notin RetryableRaw
      BY DEF RawStatuses, RetryableRaw
    <3>3. r \in ResultType /\ r.raw = "PendingCancel"
      BY <2>0, <3>2, ReportedType DEF Result, ResultType
    <3> HIDE DEF r
    <3>4. orders' \in Seq(Order) /\ Len(orders') = Len(orders) /\ Ids' = Ids /\ SameBase
      BY <1>f, <3>1, CancelKeepsOrders
    <3> QED
      BY <2>0, <3>1, <3>2, <3>3, <3>4, <1>16
  <2>2. CASE ~CancelStaleOrders
    <3>1. ReturnResult(t, Reported) /\ UNCHANGED <<orders, ledger>>
      BY <1>20, <2>2 DEF AcceptanceTimeout
    <3>2. Reported \in ResultType /\ Reported.raw \notin RetryableRaw
      BY <2>0, ReportedType
    <3> QED
      BY <1>f, <2>0, <3>1, <3>2, ReturnResultInv DEF SendPcs
  <2> QED
    BY <2>1, <2>2
<1>21. ASSUME NEW t \in Trades, RecordPhaseResult(t)
       PROVE  ExecInv'
  <2>0. /\ proc.pc = "record" /\ t \in proc.todo /\ UNCHANGED <<orders, cash, session, crashes>>
        /\ RecordResult(t, proc.res[t]) /\ proc' = [proc EXCEPT !.todo = proc.todo \ {t}]
    BY <1>21 DEF RecordPhaseResult, At
  <2>1. proc.res[t] \in ResultType
    BY <1>f DEF ProcType, ResultType
  <2>2. /\ ledger' \in [Trades -> Row] /\ \A u \in Trades \ {t} : ledger'[u] = ledger[u]
        /\ proc.res[t].raw \notin RetryableRaw => MustReplay(ledger'[t])
    BY <2>0, <2>1, RecordRow
  <2>3. \A u \in Trades : BaseOrders(u) # {} => proc.res[u].raw \notin RetryableRaw
    BY <2>0 DEF ExecInv, ResultInv, At
  <2>4. \A u \in Trades : BaseOrders(u) # {} /\ ledger'[u] # ledger[u] => MustReplay(ledger'[u])
    BY <2>2, <2>3
  <2>5. /\ proc' \in ProcType /\ proc'.opens = proc.opens /\ proc'.hist = proc.hist
        /\ proc'.pc = "record" /\ proc'.phase = proc.phase /\ proc'.fresh = proc.fresh
        /\ proc'.todo = proc.todo \ {t} /\ proc'.batch = proc.batch /\ proc'.res = proc.res
    BY <1>f, <2>0 DEF ProcType
  <2>6. ToSend' \subseteq ToSend
    <3>1. LaterBuys' = LaterBuys
      BY <2>5 DEF LaterBuys
    <3> QED
      BY <2>0, <2>5, <3>1, ToSendValue
  <2>7. PhaseInv' /\ MarkedInv'
    BY <2>0, <2>5, PhaseFacts DEF PhaseInv, MarkedInv, At, PhasePcs, SendPcs
  <2>8. ResultInv'
    BY <2>0, <2>3, <2>5, SameOrders DEF ResultInv, At, PhasePcs, SameBase
  <2> QED
    BY <2>0, <2>2, <2>4, <2>5, <2>6, <2>7, <2>8, SameOrders, PhaseStep DEF PhasePcs
<1> QED
  BY <1>1, <1>2, <1>3, <1>4, <1>5, <1>7, <1>8, <1>9, <1>10, <1>11, <1>12, <1>13,
     <1>14, <1>15, <1>17, <1>18, <1>19, <1>20, <1>21
     DEF SubmissionStep

-----------------------------------------------------------------------------
(* The inductive invariant of execution_manager.py: ExecInv holds in every *)
(* state of every behaviour of rebalance attempts, reconcile passes,       *)
(* crashes and broker events.                                              *)
THEOREM ExecInvariant == Spec => []ExecInv
<1>1. Init => ExecInv
  BY ExecInitInv
<1>2. ExecInv /\ [Next]_vars => ExecInv'
  <2> SUFFICES ASSUME ExecInv, [Next]_vars PROVE ExecInv'
    OBVIOUS
  <2>1. CASE BrokerActs
    BY <2>1, BrokerInv
  <2>2. CASE Crash
    BY <2>2, CrashInv
  <2>3. CASE \E t \in Trades : Tick(t)
    BY <2>3, TickInv
  <2>4. CASE ReconcileStep
    BY <2>4, ReconcileInv
  <2>5. CASE SubmissionStep
    BY <2>5, SubmissionInv
  <2>6. CASE UNCHANGED vars
    <3>1. TypeOK' /\ CursorInv' /\ SameBase /\ KeepsReplays /\ proc' = proc
      BY <2>6 DEF vars, ExecInv, TypeOK, BrokerTypeOK, ExecTypeOK, CursorInv, SameBase,
                  KeepsReplays, BaseOrders, OrdersOf, Ids, At
    <3> QED
      BY <3>1, OutsideStep
  <2> QED
    BY <2>1, <2>2, <2>3, <2>4, <2>5, <2>6 DEF Next
<1> QED
  BY <1>1, <1>2, PTL DEF Spec

(* Every ledger row, every order and the memory of the process keep their  *)
(* shape.                                                                  *)
THEOREM TypeCorrect == Spec => []TypeOK
<1>1. ExecInv => TypeOK
  BY DEF ExecInv
<1> QED
  BY <1>1, ExecInvariant, PTL

(* submit_plan never sends an orderRef twice, whatever the retries, the    *)
(* crashes and the answers of the broker.                                  *)
THEOREM OrderPlacedOnce == Spec => []BaseOrderPlacedOnce
<1>1. ExecInv => BaseOrderPlacedOnce
  BY DEF ExecInv
<1> QED
  BY <1>1, ExecInvariant, PTL

(* _idempotent_replay lets a retry submit again only what IBKR never saw. *)
THEOREM ResubmittableIsUnsent == Spec => []ResubmittableMeansUnsent
<1>1. ExecInv => ResubmittableMeansUnsent
  BY DEF ExecInv
<1> QED
  BY <1>1, ExecInvariant, PTL

-----------------------------------------------------------------------------
(* What a step does to the broker's orders. *)

(* The fields of an order that never change, and the ones that only grow. *)
Kept(i) ==
    /\ orders'[i].t = orders[i].t /\ orders'[i].ref = orders[i].ref
    /\ orders'[i].qty = orders[i].qty
    /\ orders'[i].filled >= orders[i].filled
    /\ orders[i].st \notin LiveRaw => orders'[i] = orders[i]

NoNewOrder == Ids' = Ids /\ Len(orders') = Len(orders) /\ \A i \in Ids : Kept(i)

NewOrderIs(t, ref, q) ==
    /\ Len(orders') = Len(orders) + 1
    /\ Ids' = Ids \cup {Len(orders')} /\ Len(orders') \notin Ids
    /\ \A i \in Ids : orders'[i] = orders[i]
    /\ orders'[Len(orders')] = NewOrder(t, ref, q)

(* An order has a quantity, and a live one is not filled up. *)
QtyInv ==
    \A i \in Ids :
        /\ orders[i].qty >= 1 /\ orders[i].filled <= orders[i].qty
        /\ IsLive(i) => orders[i].filled < orders[i].qty

(* A step that leaves the orders alone. *)
LEMMA OrdersStay ==
    ASSUME BrokerTypeOK, QtyInv, orders' = orders
    PROVE  NoNewOrder /\ QtyInv'
<1>1. ASSUME NEW i \in Ids PROVE Kept(i)
  <2>1. orders[i].filled \in Nat /\ orders'[i] = orders[i]
    BY OrderStatusRaw
  <2> QED
    BY <2>1 DEF Kept
<1>2. Ids' = Ids /\ Len(orders') = Len(orders)
  BY DEF Ids
<1>3. QtyInv'
  BY <1>2 DEF QtyInv, IsLive
<1> QED
  BY <1>1, <1>2, <1>3 DEF NoNewOrder

(* IBKR changes a live order, within its quantity. *)
LEMMA LiveOrderMoves ==
    ASSUME BrokerTypeOK, NEW i \in Ids, IsLive(i), NEW o \in Order,
           o.t = orders[i].t, o.ref = orders[i].ref, o.qty = orders[i].qty,
           o.filled >= orders[i].filled,
           orders' = [orders EXCEPT ![i] = o]
    PROVE  NoNewOrder
<1>1. orders \in Seq(Order) /\ i \in DOMAIN orders
  BY DEF BrokerTypeOK, Ids
<1>2. /\ DOMAIN orders' = DOMAIN orders /\ Len(orders') = Len(orders)
      /\ orders'[i] = o /\ \A j \in DOMAIN orders : j # i => orders'[j] = orders[j]
  BY <1>1
<1>3. \A j \in Ids : orders[j].filled \in Nat
  BY OrderStatusRaw
<1>4. ASSUME NEW j \in Ids PROVE Kept(j)
  <2>1. CASE j = i
    BY <1>2, <2>1 DEF Kept, IsLive
  <2>2. CASE j # i
    BY <1>2, <1>3, <2>2 DEF Kept, Ids
  <2> QED
    BY <2>1, <2>2
<1> QED
  BY <1>2, <1>4 DEF NoNewOrder, Ids

(* cancelOrder on a live order changes its status and nothing else. *)
LEMMA CancelMoves ==
    ASSUME BrokerTypeOK, QtyInv, NEW i \in Ids, IsLive(i), RequestCancel(i)
    PROVE  NoNewOrder /\ QtyInv' /\ orders'[i].st = "PendingCancel"
<1> DEFINE o == [orders[i] EXCEPT !.st = "PendingCancel"]
<1>1. orders[i] \in Order /\ orders[i].filled \in Nat
  BY OrderStatusRaw
<1>2. o \in Order /\ o.t = orders[i].t /\ o.ref = orders[i].ref /\ o.qty = orders[i].qty
      /\ o.filled >= orders[i].filled /\ o.filled = orders[i].filled /\ o.st = "PendingCancel"
  BY <1>1 DEF Order, LiveRaw
<1>3. orders' = [orders EXCEPT ![i] = o]
  BY DEF RequestCancel
<1> HIDE DEF o
<1>4. NoNewOrder
  BY <1>2, <1>3, LiveOrderMoves
<1>5. orders'[i] = o /\ \A j \in Ids : j # i => orders'[j] = orders[j]
  BY <1>3 DEF BrokerTypeOK, Ids
<1>6. QtyInv'
  BY <1>2, <1>4, <1>5 DEF QtyInv, IsLive, NoNewOrder
<1> QED
  BY <1>2, <1>4, <1>5, <1>6

(* placeOrder adds one order and leaves the others alone. *)
LEMMA PlaceMoves ==
    ASSUME BrokerTypeOK, NEW t, NEW ref, NEW q, Place(t, ref, q)
    PROVE  NewOrderIs(t, ref, q)
<1> DEFINE o == NewOrder(t, ref, q)
           n == Len(orders)
<1>1. orders' = Append(orders, o) /\ orders \in Seq(Order) /\ n \in Nat /\ Ids = 1..n
  BY DEF Place, BrokerTypeOK, Ids
<1> HIDE DEF o
<1>2. /\ Len(orders') = n + 1 /\ DOMAIN orders' = 1..(n + 1)
      /\ \A j \in 1..n : orders'[j] = orders[j]
      /\ orders'[n + 1] = o
  BY <1>1
<1>3. 1..(n + 1) = (1..n) \cup {n + 1} /\ n + 1 \notin 1..n
  BY <1>1
<1> HIDE DEF n
<1> QED
  BY <1>1, <1>2, <1>3 DEF NewOrderIs, Ids, o, n

(* The broker's own steps. *)
LEMMA BrokerMoves ==
    ASSUME BrokerTypeOK, QtyInv, BrokerStep
    PROVE  NoNewOrder /\ QtyInv'
<1>1. PICK i \in Ids : \/ Accept(i) \/ Reject(i) \/ Fill(i)
                       \/ ConfirmCancel(i) \/ RejectCancel(i) \/ CloseOut(i)
  BY DEF BrokerStep
<1>2. orders[i] \in Order /\ IsLive(i)
  BY <1>1, OrderStatusRaw DEF Accept, Reject, Fill, ConfirmCancel, RejectCancel, CloseOut,
                              IsLive, LiveRaw
<1> DEFINE Good(o) ==
             /\ o.t = orders[i].t /\ o.ref = orders[i].ref /\ o.qty = orders[i].qty
             /\ o.filled >= orders[i].filled /\ o.filled <= o.qty
             /\ o.st \in LiveRaw => o.filled < o.qty
             /\ orders' = [orders EXCEPT ![i] = o]
<1>3. PICK o \in Order : Good(o)
  <2>0. /\ orders[i].filled < orders[i].qty /\ orders[i].filled \in Nat
        /\ orders[i].qty \in Nat /\ orders[i].qty <= MaxQty
    BY <1>2 DEF QtyInv, Order
  <2>1. ASSUME NEW st \in LiveRaw \cup {"Filled", "Cancelled", "Inactive"},
               orders' = [orders EXCEPT ![i].st = st]
        PROVE  \E o \in Order : Good(o)
    <3> DEFINE o == [orders[i] EXCEPT !.st = st]
    <3>1. o \in Order /\ o.t = orders[i].t /\ o.ref = orders[i].ref /\ o.qty = orders[i].qty
          /\ o.filled = orders[i].filled
      BY <1>2 DEF Order
    <3>2. orders' = [orders EXCEPT ![i] = o]
      BY <2>1
    <3> HIDE DEF o
    <3>3. Good(o)
      BY <2>0, <3>1, <3>2
    <3> QED
      BY <3>1, <3>3
  <2>2. CASE Fill(i)
    <3> DEFINE f == orders[i].filled + 1
               st == IF f = orders[i].qty THEN "Filled"
                     ELSE IF orders[i].st = "PendingSubmit" THEN "Submitted"
                     ELSE orders[i].st
               o == [orders[i] EXCEPT !.filled = f, !.st = st]
    <3>1. orders' = [orders EXCEPT ![i] = o]
      BY <2>2 DEF Fill
    <3>2. f \in 0..MaxQty /\ f <= orders[i].qty /\ (f = orders[i].qty \/ f < orders[i].qty)
      BY <2>0
    <3>3. st \in LiveRaw \cup {"Filled", "Cancelled", "Inactive"}
          /\ (f = orders[i].qty => st = "Filled")
      BY <1>2 DEF Order, LiveRaw
    <3> HIDE DEF st, f
    <3>4. o \in Order /\ o.t = orders[i].t /\ o.ref = orders[i].ref /\ o.qty = orders[i].qty
          /\ o.filled = f /\ o.st = st
      BY <1>2, <3>2, <3>3 DEF Order
    <3>5. f >= orders[i].filled
      BY <2>0 DEF f
    <3>6. o.st \in LiveRaw => f < orders[i].qty
      BY <3>2, <3>3, <3>4 DEF LiveRaw
    <3> HIDE DEF o
    <3> QED
      BY <3>1, <3>2, <3>4, <3>5, <3>6
  <2> HIDE DEF Good
  <2>3. CASE ~Fill(i)
    <3>1. PICK st \in {"Submitted", "Cancelled", "Inactive"} : orders' = [orders EXCEPT ![i].st = st]
      BY <1>1, <2>3 DEF Accept, RejectCancel, Reject, ConfirmCancel, CloseOut
    <3>2. st \in LiveRaw \cup {"Filled", "Cancelled", "Inactive"}
      BY DEF LiveRaw
    <3> QED
      BY <2>1, <3>1, <3>2
  <2> QED
    BY <2>2, <2>3
<1>4. NoNewOrder
  BY <1>2, <1>3, LiveOrderMoves
<1>5. orders'[i] = o /\ \A j \in Ids : j # i => orders'[j] = orders[j]
  BY <1>3 DEF BrokerTypeOK, Ids
<1>6. orders[i].qty >= 1
  BY DEF QtyInv
<1> QED
  BY <1>3, <1>4, <1>5, <1>6 DEF QtyInv, IsLive, NoNewOrder

(* Which steps of a process reach the account. *)
LEMMA SubmissionOrders ==
    ASSUME SubmissionStep
    PROVE  \/ orders' = orders
           \/ \E t \in Trades : PlaceOrder(t)
           \/ \E t \in Trades : AcceptanceTimeout(t) /\ RequestCancel(Placed)
<1>1. ASSUME \/ BuildPlan \/ PlanDone \/ RepriceDone
             \/ BuysFit \/ BlockBuys \/ BlockDone \/ MarkDone
             \/ SendUnavailable \/ SendDone \/ RecordDone
      PROVE  orders' = orders
  BY <1>1, Zenon DEF BuildPlan, PlanDone, RepriceDone, BuysFit, BlockBuys, BlockDone, MarkDone,
                     SendUnavailable, SendDone, RecordDone
<1>2. ASSUME NEW t \in Trades,
             \/ PlanTrade(t) \/ RepriceTrade(t) \/ BlockOnQuote(t) \/ TrimBuy(t)
             \/ BlockBuy(t) \/ MarkUnconfirmed(t) \/ SendFails(t) \/ EmitPlaced(t)
             \/ OutcomeUncertain(t) \/ OrderAnswered(t) \/ CancelWaitEnds(t)
             \/ RecordPhaseResult(t)
      PROVE  orders' = orders
  BY <1>2, Zenon DEF PlanTrade, RepriceTrade, BlockOnQuote, TrimBuy, BlockBuy, MarkUnconfirmed,
                     SendFails, EmitPlaced, OutcomeUncertain, OrderAnswered, CancelWaitEnds,
                     RecordPhaseResult
<1>3. ASSUME NEW t \in Trades, AcceptanceTimeout(t)
      PROVE  orders' = orders \/ RequestCancel(Placed)
  BY <1>3, Zenon DEF AcceptanceTimeout
<1> QED
  BY <1>1, <1>2, <1>3, Zenon DEF SubmissionStep

(* A reconcile step leaves the orders alone, places one replacement, or    *)
(* requests one cancel.                                                    *)
LEMMA ReconcileOrders ==
    ASSUME ReconcileStep
    PROVE  \/ orders' = orders
           \/ \E t \in Trades : PlaceReplacement(t) \/ SubmitReplacementPlaces(t)
           \/ \E t \in Trades :
                 SendTimeoutCancel(t) \/ ReplaceCancelsOriginal(t) \/ SendStaleCancel(t)
<1>1. ASSUME \/ StartReconcile \/ StartRebalance
             \/ ReconcileRaises \/ FetchOpenOrders \/ FetchHistory \/ FetchHistoryFails
             \/ FinishReconcile \/ StaleCheck \/ StaleCancelEnds
      PROVE  orders' = orders
  BY <1>1, Zenon DEF StartReconcile, StartRebalance, ReconcileRaises, FetchOpenOrders,
                     FetchHistory, FetchHistoryFails, FinishReconcile, StaleCheck, StaleCancelEnds
<1>2. ASSUME NEW t \in Trades,
             \/ HistoryUnavailable(t) \/ AdoptReplacement(t) \/ FollowOpenOrder(t)
             \/ RecordTimeoutCancel(t) \/ EntryCallFails(t) \/ ReserveReplacement(t)
             \/ ReplaceRefused(t) \/ OriginalFilledMeanwhile(t) \/ ReplaceDeferred(t)
             \/ RecordReplacement(t) \/ CloseFromHistory(t) \/ ResumeReplacement(t)
             \/ LeaveUnverified(t) \/ RecordStaleCancel(t) \/ SkipStaleCancel(t)
      PROVE  orders' = orders
  BY <1>2, Zenon DEF HistoryUnavailable, AdoptReplacement, FollowOpenOrder, RecordTimeoutCancel,
                     EntryCallFails, ReserveReplacement, ReplaceRefused, OriginalFilledMeanwhile,
                     ReplaceDeferred, RecordReplacement, CloseFromHistory, ResumeReplacement,
                     LeaveUnverified, RecordStaleCancel, SkipStaleCancel
<1> QED
  BY <1>1, <1>2, Zenon DEF ReconcileStep

(* ORDER_STATUS_TIMEOUT_SECONDS: the order that is cancelled is live. *)
LEMMA TimeoutCancels ==
    ASSUME ExecInv, QtyInv, NEW t \in Trades, AcceptanceTimeout(t), RequestCancel(Placed)
    PROVE  NoNewOrder /\ QtyInv'
<1>t. BrokerTypeOK
  BY DEF ExecInv, TypeOK
<1>1. Placed \in Ids
  BY ReportedType DEF AcceptanceTimeout, At
<1>2. IsLive(Placed)
  BY <1>t, <1>1, OrderStatusRaw
     DEF AcceptanceTimeout, Reported, Result, AcceptedRaw, DoneRaw, CancelledRaw, IsLive, Order
<1> QED
  BY <1>t, <1>1, <1>2, CancelMoves

(* The cancels that reconcile and check_stale_orders request. *)
LEMMA PassCancels ==
    ASSUME ExecInv, QtyInv, NEW t \in Trades,
           SendTimeoutCancel(t) \/ ReplaceCancelsOriginal(t) \/ SendStaleCancel(t)
    PROVE  NoNewOrder /\ QtyInv'
<1>t. BrokerTypeOK
  BY DEF ExecInv, TypeOK
<1>1. PICK i \in Ids : IsLive(i) /\ RequestCancel(i)
  <2>1. CASE SendTimeoutCancel(t)
    <3>1. PICK s \in proc.opens : IsLive(Followed(t, s).oid) /\ RequestCancel(Followed(t, s).oid)
      BY <2>1, Zenon DEF SendTimeoutCancel
    <3> QED
      BY <3>1, FollowedRow
  <2>2. CASE ReplaceCancelsOriginal(t)
    BY <2>2 DEF ReplaceCancelsOriginal, ExecInv, CursorInv, At
  <2>3. CASE SendStaleCancel(t)
    BY <2>3 DEF SendStaleCancel, LiveIds
  <2> QED
    BY <2>1, <2>2, <2>3
<1> QED
  BY <1>t, <1>1, CancelMoves

(* Every step either leaves the set of orders as it is, or is one of the   *)
(* three that place an order.  A cancel is only ever requested of an order *)
(* that is live.                                                           *)
LEMMA OrderMoves ==
    ASSUME ExecInv, QtyInv, [Next]_vars
    PROVE  \/ NoNewOrder /\ QtyInv'
           \/ \E t \in Trades : PlaceOrder(t) \/ PlaceReplacement(t) \/ SubmitReplacementPlaces(t)
<1>t. BrokerTypeOK
  BY DEF ExecInv, TypeOK
<1>0. ASSUME orders' = orders PROVE NoNewOrder /\ QtyInv'
  BY <1>0, <1>t, OrdersStay
<1>1. CASE BrokerActs
  BY <1>1, <1>t, BrokerMoves DEF BrokerActs
<1>2. ASSUME Crash \/ (\E t \in Trades : Tick(t)) \/ UNCHANGED vars PROVE orders' = orders
  BY <1>2, Zenon DEF Crash, Tick, vars
<1>3. ASSUME NEW t \in Trades, AcceptanceTimeout(t), RequestCancel(Placed)
      PROVE  NoNewOrder /\ QtyInv'
  BY <1>3, TimeoutCancels
<1>4. ASSUME NEW t \in Trades, SendTimeoutCancel(t) \/ ReplaceCancelsOriginal(t) \/ SendStaleCancel(t)
      PROVE  NoNewOrder /\ QtyInv'
  BY <1>4, PassCancels, Zenon
<1>5. CASE SubmissionStep
  BY <1>0, <1>3, <1>5, SubmissionOrders, Zenon
<1>6. CASE ReconcileStep
  BY <1>0, <1>4, <1>6, ReconcileOrders, Zenon
<1> QED
  BY <1>0, <1>1, <1>2, <1>5, <1>6, Zenon DEF Next

-----------------------------------------------------------------------------
(* What a step does to the identity fields of a row: order_ref, the        *)
(* reserved replacement and replace_count.                                 *)

(* with_snapshot and with_order_result write status, orderId and fill.     *)
LEMMA SnapshotFields ==
    ASSUME NEW row \in Row, NEW raw, NEW oid, NEW filled, NEW rem
    PROVE  LET r == WithSnapshot(row, raw, oid, filled, rem)
           IN  /\ r.st = ClassifyLifecycle(raw, filled, rem) /\ r.filled = filled
               /\ r.ref = row.ref /\ r.rc = row.rc /\ r.repl = row.repl
               /\ r.age = row.age /\ r.qty = row.qty
BY DEF WithSnapshot, Row

(* What _record_result writes into a row, and what it leaves alone. *)
LEMMA ResultFields ==
    ASSUME NEW row \in Row, NEW res
    PROVE  LET r == WithOrderResult(row, res)
           IN  /\ r.st = ClassifyLifecycle(res.raw, res.filled, Monus(row.qty, res.filled))
               /\ r.filled = res.filled /\ r.raw = res.raw
               /\ r.ref = row.ref /\ r.rc = row.rc /\ r.repl = row.repl /\ r.qty = row.qty
BY DEF WithOrderResult, Row

SameIdentity(r, l) == r.ref = l.ref /\ r.rc = l.rc /\ (r.repl = l.repl \/ r.repl = FALSE)

FreshIdentity(r) == r.ref = "base" /\ r.rc = 0 /\ r.repl = FALSE

AdoptsIdentity(r, l) == l.repl /\ r.ref = "repl" /\ r.rc = l.rc /\ r.repl = FALSE

(* Snapshots of the broker leave the identity of a row alone. *)
LEMMA UpdateIdentity ==
    ASSUME NEW row \in Row, NEW t, ledger[t] \in Row, NEW i, NEW s
    PROVE  /\ SameIdentity(HistUpdate(row, i), row)
           /\ SameIdentity(CurrentUpdate(row, i), row)
           /\ SameIdentity(Followed(t, s), ledger[t])
<1>1. SameIdentity(HistUpdate(row, i), row) /\ SameIdentity(CurrentUpdate(row, i), row)
  BY SnapshotFields DEF HistUpdate, CurrentUpdate, SameIdentity
<1>2. OpenUpdate(t, s).ref = ledger[t].ref /\ OpenUpdate(t, s).rc = ledger[t].rc
      /\ OpenUpdate(t, s).repl = ledger[t].repl
  BY SnapshotFields DEF OpenUpdate
<1>3. [OpenUpdate(t, s) EXCEPT !.repl = FALSE].ref = OpenUpdate(t, s).ref
      /\ [OpenUpdate(t, s) EXCEPT !.repl = FALSE].rc = OpenUpdate(t, s).rc
      /\ [OpenUpdate(t, s) EXCEPT !.repl = FALSE].repl = FALSE
  BY DEF OpenUpdate, WithSnapshot, Row
<1> QED
  BY <1>1, <1>2, <1>3 DEF Followed, SameIdentity

(* A submission writes a fresh plan row or a result. *)
LEMMA SubmissionWrites ==
    ASSUME SubmissionStep
    PROVE  \/ ledger' = ledger
           \/ \E t \in Trades : Upsert(t, PlannedRow(Qty[t]))
           \/ \E t \in Trades : \E res : RecordResult(t, res)
<1>1. ASSUME \/ BuildPlan \/ PlanDone \/ RepriceDone
             \/ BuysFit \/ BlockBuys \/ BlockDone \/ MarkDone
             \/ SendUnavailable \/ SendDone \/ RecordDone
      PROVE  ledger' = ledger
  BY <1>1, Zenon DEF BuildPlan, PlanDone, RepriceDone, BuysFit, BlockBuys, BlockDone, MarkDone,
                     SendUnavailable, SendDone, RecordDone
<1>2. ASSUME NEW t \in Trades,
             PlanTrade(t) \/ RepriceTrade(t) \/ TrimBuy(t) \/ PlaceOrder(t)
      PROVE  ledger' = ledger \/ Upsert(t, PlannedRow(Qty[t]))
  BY <1>2, Zenon DEF PlanTrade, RepriceTrade, TrimBuy, PlaceOrder
<1>3. ASSUME NEW t \in Trades,
             \/ BlockOnQuote(t) \/ BlockBuy(t) \/ MarkUnconfirmed(t) \/ SendFails(t)
             \/ EmitPlaced(t) \/ OutcomeUncertain(t) \/ RecordPhaseResult(t)
      PROVE  \E res : RecordResult(t, res)
  BY <1>3, Zenon DEF BlockOnQuote, BlockBuy, MarkUnconfirmed, SendFails, EmitPlaced,
                     OutcomeUncertain, RecordPhaseResult
<1>4. ASSUME NEW t \in Trades, OrderAnswered(t) \/ CancelWaitEnds(t) \/ AcceptanceTimeout(t)
      PROVE  ledger' = ledger \/ \E res : RecordResult(t, res)
  BY <1>4, Zenon DEF OrderAnswered, CancelWaitEnds, AcceptanceTimeout, EmitChange
<1> QED
  BY <1>1, <1>2, <1>3, <1>4, Zenon DEF SubmissionStep

(* The row a recorded result updates. *)
RecordBase(t) == IF IsOpen(ledger[t]) THEN ledger[t] ELSE PlannedRow(proc.sendq[t])

(* _record_result writes the row of one trade. *)
LEMMA RecordWrites ==
    ASSUME ExecInv, NEW t \in Trades, NEW res, RecordResult(t, res)
    PROVE  /\ RecordBase(t) \in Row
           /\ ledger'[t] = WithOrderResult(RecordBase(t), res)
           /\ \A u \in Trades \ {t} : ledger'[u] = ledger[u]
<1>1. ledger \in [Trades -> Row] /\ proc.sendq[t] \in 0..MaxQty
  BY DEF ExecInv, TypeOK, ExecTypeOK, ProcType
<1>2. RecordBase(t) \in Row
  BY <1>1, PlannedType DEF RecordBase
<1>3. ledger' = [ledger EXCEPT ![t] = WithOrderResult(RecordBase(t), res)]
  BY DEF RecordResult, Upsert, RecordBase
<1> QED
  BY <1>1, <1>2, <1>3

(* submit_plan never changes what a row stands for, except by starting it  *)
(* afresh.                                                                 *)
LEMMA SubmissionIdentity ==
    ASSUME ExecInv, SubmissionStep, NEW u \in Trades
    PROVE  SameIdentity(ledger'[u], ledger[u]) \/ FreshIdentity(ledger'[u])
<1>t. ledger \in [Trades -> Row]
  BY DEF ExecInv, TypeOK, ExecTypeOK
<1>0. ledger'[u] = ledger[u] => SameIdentity(ledger'[u], ledger[u])
  BY DEF SameIdentity
<1>p. \A q : FreshIdentity(PlannedRow(q))
  BY DEF FreshIdentity, PlannedRow
<1>1. ASSUME NEW t \in Trades, Upsert(t, PlannedRow(Qty[t]))
      PROVE  SameIdentity(ledger'[u], ledger[u]) \/ FreshIdentity(ledger'[u])
  <2>1. ledger'[u] = ledger[u] \/ ledger'[u] = PlannedRow(Qty[t])
    BY <1>1, <1>t DEF Upsert
  <2> QED
    BY <1>0, <1>p, <2>1, Zenon
<1>2. ASSUME NEW t \in Trades, NEW res, RecordResult(t, res)
      PROVE  SameIdentity(ledger'[u], ledger[u]) \/ FreshIdentity(ledger'[u])
  <2>1. CASE u # t
    BY <1>0, <1>2, <2>1, RecordWrites
  <2>2. CASE u = t
    <3>1. RecordBase(t) \in Row /\ ledger'[t] = WithOrderResult(RecordBase(t), res)
      BY <1>2, RecordWrites
    <3>2. SameIdentity(ledger'[t], RecordBase(t))
      BY <3>1, ResultFields DEF SameIdentity
    <3> QED
      BY <1>p, <2>2, <3>2 DEF RecordBase, SameIdentity, FreshIdentity
  <2> QED
    BY <2>1, <2>2
<1> QED
  BY <1>0, <1>1, <1>2, SubmissionWrites, Zenon

ReplacePcs == {"rep_cancel", "rep_wait", "rep_placed", "resume", "resume_placed"}

(* A replacement is under way only for a row that has reserved it. *)
ReserveInv == proc.pc \in ReplacePcs => ledger[proc.cur].repl

ReservesIdentity(r, l) == l.rc = 0 /\ r.rc = 1 /\ r.repl = TRUE /\ r.ref = l.ref

(* replace_order starts from an open order of the entry. *)
LEMMA ReserveIdentity ==
    ASSUME ExecInv, NEW t \in Trades, ReserveReplacement(t)
    PROVE  /\ ReservesIdentity(ledger'[t], ledger[t]) /\ OrdersOf(t) # {} /\ AutoReplace
           /\ \A u \in Trades \ {t} : ledger'[u] = ledger[u]
<1>t. ledger \in [Trades -> Row] /\ ledger[t] \in Row
  BY DEF ExecInv, TypeOK, ExecTypeOK
<1>1. PICK s \in proc.opens :
        /\ FollowsOpen(t, s) /\ ReplaceDue(Followed(t, s))
        /\ Upsert(t, [Followed(t, s) EXCEPT
                          !.st = "replace_pending", !.raw = "ReplacementUnconfirmed",
                          !.rc = 1, !.repl = TRUE])
  BY Zenon DEF ReserveReplacement
<1>2. Followed(t, s) \in Row /\ SameIdentity(Followed(t, s), ledger[t])
  BY <1>t, FollowedRow, UpdateIdentity
<1>3. /\ ledger'[t] = [Followed(t, s) EXCEPT
                          !.st = "replace_pending", !.raw = "ReplacementUnconfirmed",
                          !.rc = 1, !.repl = TRUE]
      /\ \A u \in Trades \ {t} : ledger'[u] = ledger[u]
  BY <1>1, <1>t DEF Upsert
<1>4. ledger'[t].rc = 1 /\ ledger'[t].repl = TRUE /\ ledger'[t].ref = ledger[t].ref
  BY <1>2, <1>3 DEF Row, SameIdentity
<1>5. ledger[t].rc = 0 /\ AutoReplace
  BY <1>1, <1>2 DEF ReplaceDue, SameIdentity, Row
<1>6. s.id \in Ids /\ orders[s.id].t = t
  BY <1>1, FollowedRow
     DEF FollowsOpen, OpenMatches, Matches, ExactMatch, ReservedMatch, FamilyMatch
<1> QED
  BY <1>3, <1>4, <1>5, <1>6 DEF ReservesIdentity, OrdersOf

(* Which row a step of the pass writes. *)
LEMMA ReconcileWrites ==
    ASSUME ReconcileStep
    PROVE  \/ ledger' = ledger
           \/ \E t \in Trades : AdoptReplacement(t) \/ RecordReplacement(t) \/ ReserveReplacement(t)
           \/ \E t \in Trades : FollowOpenOrder(t) \/ RecordTimeoutCancel(t)
           \/ \E t \in Trades : OriginalFilledMeanwhile(t) \/ ReplaceDeferred(t)
           \/ \E t \in Trades : CloseFromHistory(t) \/ LeaveUnverified(t) \/ RecordStaleCancel(t)
<1>1. ASSUME \/ StartReconcile \/ StartRebalance
             \/ ReconcileRaises \/ FetchOpenOrders \/ FetchHistory \/ FetchHistoryFails
             \/ FinishReconcile \/ StaleCheck \/ StaleCancelEnds
      PROVE  ledger' = ledger
  BY <1>1, Zenon DEF StartReconcile, StartRebalance, ReconcileRaises, FetchOpenOrders,
                     FetchHistory, FetchHistoryFails, FinishReconcile, StaleCheck, StaleCancelEnds
<1>2. ASSUME NEW t \in Trades,
             \/ HistoryUnavailable(t) \/ SendTimeoutCancel(t) \/ EntryCallFails(t)
             \/ ReplaceRefused(t) \/ ReplaceCancelsOriginal(t) \/ PlaceReplacement(t)
             \/ ResumeReplacement(t) \/ SubmitReplacementPlaces(t)
             \/ SendStaleCancel(t) \/ SkipStaleCancel(t)
      PROVE  ledger' = ledger
  BY <1>2, Zenon DEF HistoryUnavailable, SendTimeoutCancel, EntryCallFails, ReplaceRefused,
                     ReplaceCancelsOriginal, PlaceReplacement, ResumeReplacement,
                     SubmitReplacementPlaces, SendStaleCancel, SkipStaleCancel
<1> QED
  BY <1>1, <1>2, Zenon DEF ReconcileStep

(* The rows the pass writes, one action at a time. *)
LEMMA ReconcileRows ==
    ASSUME ExecInv, NEW t \in Trades
    PROVE  /\ AdoptReplacement(t) =>
                \E i \in HistMatches(t) :
                   Upsert(t, HistUpdate([ledger[t] EXCEPT !.ref = "repl", !.repl = FALSE], i))
           /\ RecordReplacement(t) =>
                Upsert(t, [CurrentUpdate([ledger[t] EXCEPT !.ref = "repl", !.repl = FALSE],
                                         Len(orders)) EXCEPT !.age = 0])
           /\ FollowOpenOrder(t) => \E s \in proc.opens : FollowsOpen(t, s) /\ Upsert(t, Followed(t, s))
           /\ RecordTimeoutCancel(t) =>
                \E s \in proc.opens : /\ s.id \in OpenMatches(t)
                                      /\ Upsert(t, [Followed(t, s) EXCEPT !.st = "cancel_pending"])
           /\ OriginalFilledMeanwhile(t) =>
                Upsert(t, CurrentUpdate([ledger[t] EXCEPT !.repl = FALSE], ledger[t].oid))
           /\ ReplaceDeferred(t) =>
                Upsert(t, [ledger[t] EXCEPT !.st = "cancel_pending", !.raw = "PendingCancel"])
           /\ CloseFromHistory(t) =>
                \E i \in Ids : FollowsHistory(t, i) /\ Upsert(t, [Completed(t, i) EXCEPT !.repl = FALSE])
           /\ LeaveUnverified(t) =>
                Upsert(t, [ledger[t] EXCEPT !.st = "unknown", !.raw = "NotOpenUnverified"])
           /\ RecordStaleCancel(t) => Upsert(t, [ledger[t] EXCEPT !.st = "cancel_pending"])
BY Zenon DEF AdoptReplacement, RecordReplacement, FollowOpenOrder, RecordTimeoutCancel,
             OriginalFilledMeanwhile, ReplaceDeferred, CloseFromHistory, LeaveUnverified,
             RecordStaleCancel

(* An upsert changes one row. *)
LEMMA UpsertRow ==
    ASSUME ExecInv, NEW t \in Trades, NEW row, Upsert(t, row)
    PROVE  ledger'[t] = row /\ \A u \in Trades \ {t} : ledger'[u] = ledger[u]
BY DEF ExecInv, TypeOK, ExecTypeOK, Upsert

(* A reconcile pass changes what a row stands for only by reserving a      *)
(* replacement, or by adopting the one it reserved.                        *)
LEMMA ReconcileIdentity ==
    ASSUME ExecInv, ReserveInv, ReconcileStep, NEW u \in Trades
    PROVE  \/ SameIdentity(ledger'[u], ledger[u])
           \/ AdoptsIdentity(ledger'[u], ledger[u])
           \/ ReservesIdentity(ledger'[u], ledger[u]) /\ OrdersOf(u) # {} /\ AutoReplace
<1> DEFINE Goal(t) == \/ SameIdentity(ledger'[t], ledger[t])
                      \/ AdoptsIdentity(ledger'[t], ledger[t])
                      \/ ReservesIdentity(ledger'[t], ledger[t]) /\ OrdersOf(t) # {} /\ AutoReplace
<1>t. ledger \in [Trades -> Row] /\ \A t \in Trades : ledger[t] \in Row
  BY DEF ExecInv, TypeOK, ExecTypeOK
<1>0. ledger'[u] = ledger[u] => Goal(u)
  BY DEF SameIdentity
<1>1. ASSUME NEW t \in Trades, NEW row, Upsert(t, row), Goal(t) PROVE Goal(u)
  <2>1. CASE u = t
    BY <1>1, <2>1
  <2>2. CASE u # t
    BY <1>0, <1>1, <2>2, UpsertRow, Zenon
  <2> QED
    BY <2>1, <2>2
<1>2. ASSUME NEW t \in Trades, NEW base \in Row, base = [ledger[t] EXCEPT !.ref = "repl", !.repl = FALSE],
             NEW row, Upsert(t, row), SameIdentity(row, base), ledger[t].repl
      PROVE  Goal(u)
  <2>1. ledger'[t] = row
    BY <1>2, UpsertRow
  <2>2. base.ref = "repl" /\ base.rc = ledger[t].rc /\ base.repl = FALSE
    BY <1>2, <1>t DEF Row
  <2>3. AdoptsIdentity(ledger'[t], ledger[t])
    BY <1>2, <2>1, <2>2 DEF AdoptsIdentity, SameIdentity
  <2> QED
    BY <1>1, <1>2, <2>3, Zenon
<1>3. ASSUME NEW t \in Trades, NEW row, Upsert(t, row), SameIdentity(row, ledger[t]) PROVE Goal(u)
  <2>1. ledger'[t] = row
    BY <1>3, UpsertRow
  <2>2. Goal(t)
    BY <1>3, <2>1
  <2> HIDE DEF Goal
  <2> QED
    BY <1>1, <1>3, <2>2
<1> HIDE DEF Goal
<1>4. ASSUME NEW t \in Trades, AdoptReplacement(t) PROVE Goal(u)
  <2> DEFINE base == [ledger[t] EXCEPT !.ref = "repl", !.repl = FALSE]
  <2>1. PICK i \in HistMatches(t) : Upsert(t, HistUpdate(base, i))
    BY <1>4, ReconcileRows
  <2>2. base \in Row
    BY <1>t, EditTypes
  <2>3. ledger[t].repl
    BY <1>4 DEF AdoptReplacement, MatchIsReplacement, ReservedMatch
  <2>4. SameIdentity(HistUpdate(base, i), base)
    BY <1>t, <2>2, UpdateIdentity
  <2> QED
    BY <1>2, <2>1, <2>2, <2>3, <2>4, Zenon
<1>5. ASSUME NEW t \in Trades, RecordReplacement(t) PROVE Goal(u)
  <2> DEFINE base == [ledger[t] EXCEPT !.ref = "repl", !.repl = FALSE]
             row == [CurrentUpdate(base, Len(orders)) EXCEPT !.age = 0]
  <2>1. Upsert(t, row)
    BY <1>5, ReconcileRows
  <2>2. base \in Row
    BY <1>t, EditTypes
  <2>3. ledger[t].repl
    BY <1>5 DEF RecordReplacement, ReserveInv, ReplacePcs
  <2> HIDE DEF base
  <2>4. SameIdentity(CurrentUpdate(base, Len(orders)), base)
    BY <1>t, <2>2, UpdateIdentity
  <2>5. row.ref = CurrentUpdate(base, Len(orders)).ref /\ row.rc = CurrentUpdate(base, Len(orders)).rc
        /\ row.repl = CurrentUpdate(base, Len(orders)).repl
    BY <2>2 DEF CurrentUpdate, WithSnapshot, Row
  <2>6. SameIdentity(row, base)
    BY <2>4, <2>5 DEF SameIdentity
  <2> HIDE DEF row
  <2> QED
    BY <1>2, <2>1, <2>2, <2>3, <2>6 DEF base
<1>6. ASSUME NEW t \in Trades, FollowOpenOrder(t) \/ RecordTimeoutCancel(t) PROVE Goal(u)
  <2>1. PICK s \in proc.opens : \/ Upsert(t, Followed(t, s))
                                \/ Upsert(t, [Followed(t, s) EXCEPT !.st = "cancel_pending"])
    BY <1>6, ReconcileRows
  <2>2. Followed(t, s) \in Row /\ SameIdentity(Followed(t, s), ledger[t])
    BY <1>t, FollowedRow, UpdateIdentity
  <2>3. SameIdentity([Followed(t, s) EXCEPT !.st = "cancel_pending"], ledger[t])
    BY <2>2 DEF SameIdentity, Row
  <2> QED
    BY <1>3, <2>1, <2>2, <2>3
<1>7. ASSUME NEW t \in Trades, OriginalFilledMeanwhile(t) PROVE Goal(u)
  <2> DEFINE base == [ledger[t] EXCEPT !.repl = FALSE]
  <2>1. Upsert(t, CurrentUpdate(base, ledger[t].oid))
    BY <1>7, ReconcileRows
  <2>2. base \in Row
    BY <1>t, EditTypes
  <2>3. base.ref = ledger[t].ref /\ base.rc = ledger[t].rc /\ base.repl = FALSE
    BY <1>t DEF Row
  <2> HIDE DEF base
  <2>4. SameIdentity(CurrentUpdate(base, ledger[t].oid), base)
    BY <1>t, <2>2, UpdateIdentity
  <2>5. SameIdentity(CurrentUpdate(base, ledger[t].oid), ledger[t])
    BY <2>3, <2>4 DEF SameIdentity
  <2> QED
    BY <1>3, <2>1, <2>5, Zenon
<1>8. ASSUME NEW t \in Trades, CloseFromHistory(t) PROVE Goal(u)
  <2>1. PICK i \in Ids : Upsert(t, [Completed(t, i) EXCEPT !.repl = FALSE])
    BY <1>8, ReconcileRows
  <2>2. Completed(t, i) \in Row /\ SameIdentity(Completed(t, i), ledger[t])
    <3>1. HistUpdate(ledger[t], i) \in Row /\ SameIdentity(HistUpdate(ledger[t], i), ledger[t])
      BY <1>t, HistUpdateRow, UpdateIdentity
    <3> QED
      BY <3>1 DEF Completed
  <2>3. SameIdentity([Completed(t, i) EXCEPT !.repl = FALSE], ledger[t])
    BY <2>2 DEF SameIdentity, Row
  <2> QED
    BY <1>3, <2>1, <2>3
<1>9. ASSUME NEW t \in Trades, ReplaceDeferred(t) \/ LeaveUnverified(t) \/ RecordStaleCancel(t)
      PROVE  Goal(u)
  <2>1. \/ Upsert(t, [ledger[t] EXCEPT !.st = "cancel_pending", !.raw = "PendingCancel"])
        \/ Upsert(t, [ledger[t] EXCEPT !.st = "unknown", !.raw = "NotOpenUnverified"])
        \/ Upsert(t, [ledger[t] EXCEPT !.st = "cancel_pending"])
    BY <1>9, ReconcileRows
  <2>2. /\ SameIdentity([ledger[t] EXCEPT !.st = "cancel_pending", !.raw = "PendingCancel"], ledger[t])
        /\ SameIdentity([ledger[t] EXCEPT !.st = "unknown", !.raw = "NotOpenUnverified"], ledger[t])
        /\ SameIdentity([ledger[t] EXCEPT !.st = "cancel_pending"], ledger[t])
    BY <1>t DEF SameIdentity, Row
  <2> QED
    BY <1>3, <2>1, <2>2, Zenon
<1>10. ASSUME NEW t \in Trades, ReserveReplacement(t) PROVE Goal(u)
  BY <1>0, <1>10, ReserveIdentity DEF Goal
<1>11. Goal(u)
  BY <1>0, <1>4, <1>5, <1>6, <1>7, <1>8, <1>9, <1>10, ReconcileWrites, Zenon
<1> QED
  BY <1>11 DEF Goal

-----------------------------------------------------------------------------
(* What a step of a pass does to the memory of the process. *)

(* The process ends, or starts over with nothing in memory. *)
RestartShape ==
    \/ proc' = IdleProc
    \/ proc' = [IdleProc EXCEPT !.pc = "rec_open", !.job = "reconcile"]
    \/ proc' = [IdleProc EXCEPT !.pc = "rec_open", !.job = "rebalance"]
    \/ proc' = [IdleProc EXCEPT !.pc = "stale", !.job = "rebalance"]

Restarts ==
    /\ proc'.pc \in {"idle", "rec_open", "stale"}
    /\ proc'.opens = {} /\ proc'.hist = {} /\ proc'.batch = {} /\ proc'.sendq = Qty
    /\ \A t \in Trades : proc'.res[t] = NoResult

(* A process that starts remembers nothing. *)
LEMMA IdleEdit ==
    ASSUME NEW pc, NEW job
    PROVE  LET p == [IdleProc EXCEPT !.pc = pc, !.job = job]
           IN  /\ p.pc = pc /\ p.opens = {} /\ p.hist = {} /\ p.batch = {} /\ p.sendq = Qty
               /\ p.res = [t \in Trades |-> NoResult]
BY DEF IdleProc

(* Every start and every end of a process clears the memory the invariants *)
(* are about.                                                              *)
LEMMA RestartFields ==
    ASSUME RestartShape
    PROVE  Restarts
<1>1. CASE proc' = IdleProc
  BY <1>1 DEF IdleProc, Restarts
<1>2. CASE proc' # IdleProc
  <2>1. PICK pc \in {"rec_open", "stale"}, job \in {"reconcile", "rebalance"} :
          proc' = [IdleProc EXCEPT !.pc = pc, !.job = job]
    BY <1>2 DEF RestartShape
  <2>2. /\ proc'.pc = pc /\ proc'.opens = {} /\ proc'.hist = {} /\ proc'.batch = {}
        /\ proc'.sendq = Qty /\ proc'.res = [t \in Trades |-> NoResult]
    BY <2>1, IdleEdit
  <2> QED
    BY <2>2 DEF Restarts
<1> QED
  BY <1>1, <1>2

SameMemory ==
    /\ proc'.opens = proc.opens /\ proc'.hist = proc.hist /\ proc'.execs = proc.execs
    /\ proc'.batch = proc.batch /\ proc'.sendq = proc.sendq /\ proc'.res = proc.res

EndsEntry(t) == EntryDone(t) \/ EntryFails(t)

(* The pass is busy with the entry of t. *)
InEntry(t) ==
    \/ AtEntry(t)
    \/ proc.cur = t /\ proc.pc \in ReplacePcs \cup {"rec_cancelled"}

(* The end of an entry touches no memory of submit_plan. *)
LEMMA EntryFields ==
    ASSUME proc \in ProcType, NEW t, EndsEntry(t)
    PROVE  proc'.pc = "rec_entry" /\ proc'.todo = proc.todo \ {t} /\ SameMemory
<1>1. CASE EntryDone(t)
  BY <1>1 DEF EntryDone, ProcType, SameMemory
<1>2. CASE EntryFails(t)
  BY <1>2 DEF EntryFails, ProcType, SameMemory
<1> QED
  BY <1>1, <1>2 DEF EndsEntry

(* A call to the broker, or its return, within an entry. *)
CallsBroker(t, pc) == proc' = [proc EXCEPT !.pc = pc, !.cur = t]

(* A call to the broker from within an entry touches no memory of          *)
(* submit_plan.                                                            *)
LEMMA CallFields ==
    ASSUME proc \in ProcType, NEW t, NEW pc, CallsBroker(t, pc)
    PROVE  proc'.pc = pc /\ proc'.cur = t /\ proc'.todo = proc.todo /\ SameMemory
BY DEF CallsBroker, ProcType, SameMemory

(* Which step of a pass calls the broker, and from where. *)
LEMMA EntryCalls ==
    ASSUME proc \in ProcType, NEW t \in Trades
    PROVE  /\ SendTimeoutCancel(t) => AtEntry(t) /\ CallsBroker(t, "rec_cancelled")
           /\ ReserveReplacement(t) => AtEntry(t) /\ CallsBroker(t, "rep_cancel")
           /\ ResumeReplacement(t) => AtEntry(t) /\ CallsBroker(t, "resume")
           /\ ReplaceCancelsOriginal(t) => InEntry(t) /\ CallsBroker(t, "rep_wait")
           /\ PlaceReplacement(t) => InEntry(t) /\ CallsBroker(t, "rep_placed")
           /\ SubmitReplacementPlaces(t) => InEntry(t) /\ CallsBroker(t, "resume_placed")
           /\ SendStaleCancel(t) => CallsBroker(t, "stale_cancelled")
<1>1. ASSUME NEW pc, proc.cur = t, proc' = [proc EXCEPT !.pc = pc]
      PROVE  CallsBroker(t, pc)
  BY <1>1 DEF CallsBroker, ProcType
<1>2. SendTimeoutCancel(t) => AtEntry(t) /\ CallsBroker(t, "rec_cancelled")
  BY Zenon DEF SendTimeoutCancel, FollowsOpen, CallsBroker
<1>3. ReserveReplacement(t) => AtEntry(t) /\ CallsBroker(t, "rep_cancel")
  BY Zenon DEF ReserveReplacement, FollowsOpen, CallsBroker
<1>4. ResumeReplacement(t) => AtEntry(t) /\ CallsBroker(t, "resume")
  BY Zenon DEF ResumeReplacement, FollowsHistory, CallsBroker
<1>5. ReplaceCancelsOriginal(t) => InEntry(t) /\ CallsBroker(t, "rep_wait")
  BY <1>1 DEF ReplaceCancelsOriginal, InEntry, At, ReplacePcs
<1>6. PlaceReplacement(t) => InEntry(t) /\ CallsBroker(t, "rep_placed")
  BY <1>1 DEF PlaceReplacement, InEntry, At, ReplacePcs
<1>7. SubmitReplacementPlaces(t) => InEntry(t) /\ CallsBroker(t, "resume_placed")
  BY <1>1 DEF SubmitReplacementPlaces, InEntry, At, ReplacePcs
<1>8. SendStaleCancel(t) => CallsBroker(t, "stale_cancelled")
  BY Zenon DEF SendStaleCancel, CallsBroker
<1> QED
  BY <1>2, <1>3, <1>4, <1>5, <1>6, <1>7, <1>8, Zenon

(* Only the row of t is written. *)
OnlyRow(t) == \A u \in Trades \ {t} : ledger'[u] = ledger[u]

(* Where the pass finishes with an entry. *)
LEMMA EntryStepEnds ==
    ASSUME ExecInv, NEW t \in Trades,
           \/ HistoryUnavailable(t) \/ AdoptReplacement(t) \/ FollowOpenOrder(t)
           \/ RecordTimeoutCancel(t) \/ EntryCallFails(t) \/ ReplaceRefused(t)
           \/ OriginalFilledMeanwhile(t) \/ ReplaceDeferred(t) \/ RecordReplacement(t)
           \/ CloseFromHistory(t) \/ LeaveUnverified(t)
    PROVE  EndsEntry(t) /\ InEntry(t) /\ OnlyRow(t) /\ orders' = orders
<1>1. ASSUME HistoryUnavailable(t) \/ AdoptReplacement(t) \/ FollowOpenOrder(t)
             \/ CloseFromHistory(t) \/ LeaveUnverified(t)
      PROVE  EndsEntry(t) /\ AtEntry(t)
  BY <1>1, Zenon DEF HistoryUnavailable, AdoptReplacement, FollowOpenOrder, CloseFromHistory,
                     LeaveUnverified, FollowsOpen, FollowsHistory, EndsEntry
<1>2. ASSUME RecordTimeoutCancel(t) \/ ReplaceRefused(t) \/ OriginalFilledMeanwhile(t)
             \/ ReplaceDeferred(t) \/ RecordReplacement(t)
      PROVE  /\ EndsEntry(t) /\ proc.cur = t
             /\ proc.pc \in {"rec_cancelled", "rep_cancel", "rep_wait", "rep_placed", "resume_placed"}
  BY <1>2, Zenon DEF RecordTimeoutCancel, ReplaceRefused, OriginalFilledMeanwhile,
                     ReplaceDeferred, RecordReplacement, EndsEntry, At
<1>3. ASSUME EntryCallFails(t)
      PROVE  /\ EndsEntry(t)
             /\ \/ AtEntry(t)
                \/ proc.cur = t /\ proc.pc \in {"rec_cancelled", "rep_cancel", "rep_wait",
                                                "rep_placed", "resume", "resume_placed"}
  BY <1>3, Zenon DEF EntryCallFails, FollowsOpen, FollowsHistory, EndsEntry
<1>4. orders' = orders /\ (ledger' = ledger \/ \E row : Upsert(t, row))
  BY Zenon DEF HistoryUnavailable, AdoptReplacement, FollowOpenOrder, RecordTimeoutCancel,
               EntryCallFails, ReplaceRefused, OriginalFilledMeanwhile, ReplaceDeferred,
               RecordReplacement, CloseFromHistory, LeaveUnverified
<1>5. OnlyRow(t)
  BY <1>4, UpsertRow, Zenon DEF OnlyRow
<1>6. EndsEntry(t) /\ InEntry(t)
  BY <1>1, <1>2, <1>3 DEF InEntry, ReplacePcs
<1> QED
  BY <1>4, <1>5, <1>6

(* A step of a pass, by what it does to the memory of the process. *)
LEMMA ReconcileShape ==
    ASSUME ExecInv, ReconcileStep
    PROVE  \/ RestartShape /\ orders' = orders /\ ledger' = ledger
           \/ /\ StaleCheck /\ proc' = [proc EXCEPT !.pc = "plan"] /\ ForeignEntries = {}
              /\ orders' = orders /\ ledger' = ledger
           \/ /\ StaleCheck /\ proc' = [proc EXCEPT !.pc = "stale_cancel", !.todo = ForeignEntries]
              /\ orders' = orders /\ ledger' = ledger
           \/ FetchOpenOrders \/ FetchHistory \/ FetchHistoryFails
           \/ \E t \in Trades : EndsEntry(t) /\ InEntry(t) /\ OnlyRow(t) /\ orders' = orders
           \/ \E t \in Trades :
                 \/ SendTimeoutCancel(t) \/ ReserveReplacement(t) \/ ResumeReplacement(t)
                 \/ ReplaceCancelsOriginal(t) \/ PlaceReplacement(t) \/ SubmitReplacementPlaces(t)
           \/ \E t \in Trades : SendStaleCancel(t) \/ RecordStaleCancel(t) \/ SkipStaleCancel(t)
<1>1. ASSUME StartReconcile \/ StartRebalance \/ ReconcileRaises \/ FinishReconcile \/ StaleCancelEnds
      PROVE  RestartShape /\ orders' = orders /\ ledger' = ledger
  BY <1>1, Zenon DEF StartReconcile, StartRebalance, ReconcileRaises, FinishReconcile,
                     StaleCancelEnds, EndProcess, RestartShape
<1>2. ASSUME StaleCheck
      PROVE  /\ orders' = orders /\ ledger' = ledger
             /\ \/ RestartShape
                \/ proc' = [proc EXCEPT !.pc = "plan"] /\ ForeignEntries = {}
                \/ proc' = [proc EXCEPT !.pc = "stale_cancel", !.todo = ForeignEntries]
  BY <1>2, Zenon DEF StaleCheck, EndProcess, RestartShape
<1> QED
  BY <1>1, <1>2, EntryStepEnds, Zenon DEF ReconcileStep

(* The pass reads open orders, or the history. *)
LEMMA FetchFields ==
    ASSUME proc \in ProcType, FetchOpenOrders \/ FetchHistory \/ FetchHistoryFails
    PROVE  /\ proc'.pc \in {"rec_entry", "rec_hist"}
           /\ proc'.batch = proc.batch /\ proc'.sendq = proc.sendq /\ proc'.res = proc.res
           /\ orders' = orders /\ ledger' = ledger
<1>1. PICK pc \in {"rec_entry", "rec_hist"} :
        \/ \E S, T : proc' = [proc EXCEPT !.pc = pc, !.opens = S, !.todo = T]
        \/ \E H, x : proc' = [proc EXCEPT !.pc = pc, !.hist = H, !.execs = x]
        \/ proc' = [proc EXCEPT !.pc = pc, !.histErr = TRUE]
  <2>1. CASE FetchOpenOrders
    BY <2>1 DEF FetchOpenOrders
  <2>2. CASE FetchHistory \/ FetchHistoryFails
    BY <2>2, Zenon DEF FetchHistory, FetchHistoryFails
  <2> QED
    BY <2>1, <2>2
<1>2. orders' = orders /\ ledger' = ledger
  BY Zenon DEF FetchOpenOrders, FetchHistory, FetchHistoryFails
<1>3. ASSUME NEW S, NEW T, proc' = [proc EXCEPT !.pc = pc, !.opens = S, !.todo = T]
      PROVE  /\ proc'.pc = pc
             /\ proc'.batch = proc.batch /\ proc'.sendq = proc.sendq /\ proc'.res = proc.res
  BY <1>3 DEF ProcType
<1>4. ASSUME NEW H, NEW x, proc' = [proc EXCEPT !.pc = pc, !.hist = H, !.execs = x]
      PROVE  /\ proc'.pc = pc
             /\ proc'.batch = proc.batch /\ proc'.sendq = proc.sendq /\ proc'.res = proc.res
  BY <1>4 DEF ProcType
<1>5. ASSUME proc' = [proc EXCEPT !.pc = pc, !.histErr = TRUE]
      PROVE  /\ proc'.pc = pc
             /\ proc'.batch = proc.batch /\ proc'.sendq = proc.sendq /\ proc'.res = proc.res
  BY <1>5 DEF ProcType
<1> QED
  BY <1>1, <1>2, <1>3, <1>4, <1>5

(* The answer to the history request starts the loop over the entries. *)
LEMMA HistoryFields ==
    ASSUME proc \in ProcType, FetchHistory \/ FetchHistoryFails
    PROVE  /\ proc.pc = "rec_hist" /\ proc'.pc = "rec_entry"
           /\ proc'.todo = proc.todo /\ proc'.opens = proc.opens
           /\ orders' = orders /\ ledger' = ledger
           /\ \/ FetchHistory /\ (LossyFills \/ proc'.execs)
              \/ proc'.hist = proc.hist /\ proc'.execs = proc.execs
<1>1. CASE FetchHistory
  <2>1. PICK H, x : /\ proc' = [proc EXCEPT !.pc = "rec_entry", !.hist = H, !.execs = x]
                    /\ LossyFills \/ x
    BY <1>1, Zenon DEF FetchHistory
  <2>2. /\ proc'.pc = "rec_entry" /\ proc'.todo = proc.todo /\ proc'.opens = proc.opens
        /\ proc'.execs = x
    BY <2>1 DEF ProcType
  <2> QED
    BY <1>1, <2>1, <2>2 DEF FetchHistory, At
<1>2. CASE FetchHistoryFails
  <2>1. proc' = [proc EXCEPT !.pc = "rec_entry", !.histErr = TRUE]
    BY <1>2, Zenon DEF FetchHistoryFails
  <2>2. /\ proc'.pc = "rec_entry" /\ proc'.todo = proc.todo /\ proc'.opens = proc.opens
        /\ proc'.hist = proc.hist /\ proc'.execs = proc.execs
    BY <2>1 DEF ProcType
  <2> QED
    BY <1>2, <2>2 DEF FetchHistoryFails, At
<1> QED
  BY <1>1, <1>2

(* check_stale_orders leaves the quantities in memory alone. *)
LEMMA StaleFields ==
    ASSUME proc \in ProcType, NEW t \in Trades, RecordStaleCancel(t) \/ SkipStaleCancel(t)
    PROVE  /\ proc'.pc = "stale_cancel" /\ proc'.todo = proc.todo \ {t}
           /\ proc'.sendq = proc.sendq /\ orders' = orders
<1>1. \/ proc' = [proc EXCEPT !.pc = "stale_cancel", !.cur = NoTrade, !.todo = @ \ {t}]
      \/ At("stale_cancel") /\ proc' = [proc EXCEPT !.todo = @ \ {t}]
  BY Zenon DEF RecordStaleCancel, SkipStaleCancel
<1>2. orders' = orders
  BY Zenon DEF RecordStaleCancel, SkipStaleCancel
<1> QED
  BY <1>1, <1>2 DEF ProcType, At

(* A step of submit_plan, and a crash, do not lead into a pass. *)
LEMMA SubmissionPc ==
    ASSUME proc \in ProcType, SubmissionStep
    PROVE  proc'.pc \in SubmitPcs \cup {"idle"}
<1>i. IdleProc.pc = "idle"
  BY DEF IdleProc
<1>0. ASSUME NextPhase PROVE proc'.pc \in {"reprice", "idle"}
  <2>1. CASE StartPhase("BUY")
    BY <2>1 DEF StartPhase, ProcType
  <2>2. CASE EndProcess
    BY <1>i, <2>2 DEF EndProcess
  <2> QED
    BY <1>0, <2>1, <2>2 DEF NextPhase
<1>1. ASSUME StartPhase("SELL") PROVE proc'.pc = "reprice"
  BY <1>1 DEF StartPhase, ProcType
<1>2. ASSUME NEW resOf, StopSending(resOf) PROVE proc'.pc = "record"
  BY <1>2 DEF StopSending, ProcType
<1>3. ASSUME NEW t, NEW r, ReturnResult(t, r) PROVE proc'.pc \in {"record", "send"}
  <2>1. \/ \E resOf : StopSending(resOf)
        \/ \E n : proc' = [proc EXCEPT !.pc = "send", !.cur = NoTrade, !.fails = n, !.res[t] = r]
    BY <1>3, Zenon DEF ReturnResult
  <2> QED
    BY <1>2, <2>1 DEF ProcType
<1>4. CASE BuildPlan \/ PlanDone
  <2>1. \/ StartPhase("SELL")
        \/ \E P : proc' = [proc EXCEPT !.pc = "plan_trade", !.todo = P, !.fresh = {}]
    BY <1>4, Zenon DEF BuildPlan, PlanDone
  <2> QED
    BY <1>1, <2>1 DEF ProcType, SubmitPcs
<1>5. CASE RepriceDone \/ BlockDone \/ RecordDone
  <2>1. \/ NextPhase
        \/ proc' = [proc EXCEPT !.pc = "fit"]
        \/ proc' = [proc EXCEPT !.pc = "mark", !.todo = proc.batch]
    BY <1>5, Zenon DEF RepriceDone, BlockDone, RecordDone
  <2> QED
    BY <1>0, <2>1 DEF ProcType, SubmitPcs
<1>6. CASE BuysFit \/ BlockBuys \/ MarkDone \/ SendUnavailable \/ SendDone
  <2>1. \/ \E resOf : StopSending(resOf)
        \/ proc' = [proc EXCEPT !.pc = "mark", !.todo = proc.batch]
        \/ proc' = [proc EXCEPT !.pc = "block", !.todo = proc.batch]
        \/ proc' = [proc EXCEPT !.pc = "send", !.todo = proc.batch, !.fails = 0]
    BY <1>6, Zenon DEF BuysFit, BlockBuys, MarkDone, SendUnavailable, SendDone
  <2> QED
    BY <1>2, <2>1, ZenonT(30) DEF ProcType, SubmitPcs
<1>7. ASSUME NEW t \in Trades,
             \/ PlanTrade(t) \/ RepriceTrade(t) \/ BlockOnQuote(t)
             \/ BlockBuy(t) \/ MarkUnconfirmed(t) \/ RecordPhaseResult(t)
      PROVE  proc'.pc \in SubmitPcs
  <2>1. /\ proc.pc \in {"plan_trade", "reprice", "block", "mark", "record"}
        /\ \/ proc' = [proc EXCEPT !.todo = @ \ {t}]
           \/ proc' = [proc EXCEPT !.todo = @ \ {t}, !.fresh = @ \cup {t}]
           \/ proc' = [proc EXCEPT !.todo = @ \ {t}, !.batch = @ \cup {t}]
    BY <1>7, Zenon DEF PlanTrade, RepriceTrade, BlockOnQuote, BlockBuy, MarkUnconfirmed,
                       RecordPhaseResult, At
  <2> QED
    BY <2>1, ZenonT(30) DEF ProcType, SubmitPcs
<1>8. ASSUME NEW t \in Trades, SendFails(t) \/ PlaceOrder(t) \/ EmitPlaced(t) \/ TrimBuy(t)
      PROVE  proc'.pc \in SubmitPcs
  <2>1. \/ At("send") /\ proc' = [proc EXCEPT !.todo = @ \ {t}, !.res[t] = Result("Failed", NoId, 0)]
        \/ proc' = [proc EXCEPT !.pc = "placed", !.cur = t, !.todo = @ \ {t}]
        \/ proc' = [proc EXCEPT !.pc = "wait"]
        \/ \E q : proc' = [proc EXCEPT !.pc = "mark", !.todo = proc.batch,
                                       !.sendq = [@ EXCEPT ![t] = q]]
    BY <1>8, Zenon DEF SendFails, PlaceOrder, EmitPlaced, TrimBuy
  <2>2. proc'.pc \in {"send", "placed", "wait", "mark"}
    BY <2>1 DEF ProcType, At
  <2> QED
    BY <2>2 DEF SubmitPcs
<1>9. ASSUME NEW t \in Trades,
             \/ OutcomeUncertain(t) \/ OrderAnswered(t) \/ AcceptanceTimeout(t) \/ CancelWaitEnds(t)
      PROVE  proc'.pc \in SubmitPcs
  <2>1. \/ \E resOf : StopSending(resOf)
        \/ \E r : ReturnResult(t, r)
        \/ proc' = [proc EXCEPT !.pc = "wait_cancel"]
    BY <1>9, Zenon DEF OutcomeUncertain, OrderAnswered, AcceptanceTimeout, CancelWaitEnds
  <2>2. ASSUME proc' = [proc EXCEPT !.pc = "wait_cancel"] PROVE proc'.pc = "wait_cancel"
    BY <2>2 DEF ProcType
  <2> QED
    BY <1>2, <1>3, <2>1, <2>2 DEF SubmitPcs
<1> QED
  BY <1>4, <1>5, <1>6, <1>7, <1>8, <1>9, Zenon DEF SubmissionStep

-----------------------------------------------------------------------------
(* First layer: the identity of a row and the orders of its trade. *)

(* A trade with any order has one under its ledger key. *)
FamilyInv == \A i \in Ids : BaseOrders(orders[i].t) # {}

GoodRow(t, r) ==
    /\ r.ref = "repl" \/ r.repl => r.rc = 1
    /\ r.repl => r.ref = "base"
    /\ r.rc = 1 => BaseOrders(t) # {}

RowInv == \A t \in Trades : GoodRow(t, ledger[t])

IdentityInv == QtyInv /\ FamilyInv /\ RowInv /\ ReserveInv

(* Without a new order, a trade keeps its orders. *)
LEMMA SameFamilies ==
    ASSUME NoNewOrder, NEW t
    PROVE  OrdersOf(t)' = OrdersOf(t) /\ BaseOrders(t)' = BaseOrders(t)
<1>1. OrdersOf(t)' = OrdersOf(t)
  BY DEF NoNewOrder, Kept, OrdersOf
<1> QED
  BY <1>1 DEF NoNewOrder, Kept, OrdersOf, BaseOrders

(* A new order joins the orders of its own trade only. *)
LEMMA NewFamilies ==
    ASSUME NEW t, NEW ref, NEW q, NewOrderIs(t, ref, q), NEW u
    PROVE  /\ OrdersOf(u) \subseteq OrdersOf(u)' /\ BaseOrders(u) \subseteq BaseOrders(u)'
           /\ u # t => OrdersOf(u)' = OrdersOf(u) /\ BaseOrders(u)' = BaseOrders(u)
           /\ OrdersOf(t)' = OrdersOf(t) \cup {Len(orders')}
           /\ ref = "base" => Len(orders') \in BaseOrders(t)'
           /\ ref # "base" => BaseOrders(t)' = BaseOrders(t)
<1>1. orders'[Len(orders')].t = t /\ orders'[Len(orders')].ref = ref
  BY DEF NewOrderIs, NewOrder
<1>2. Ids' = Ids \cup {Len(orders')} /\ Len(orders') \notin Ids /\ \A i \in Ids : orders'[i] = orders[i]
  BY DEF NewOrderIs
<1> QED
  BY <1>1, <1>2 DEF OrdersOf, BaseOrders

(* The three steps that place an order. *)
LEMMA PlacesOrder ==
    ASSUME ExecInv, QtyInv, ReserveInv, NEW t \in Trades,
           PlaceOrder(t) \/ PlaceReplacement(t) \/ SubmitReplacementPlaces(t)
    PROVE  \E ref \in Refs, q \in 1..MaxQty :
             /\ NewOrderIs(t, ref, q)
             /\ PlaceOrder(t) => ref = "base" /\ q = proc.sendq[t]
             /\ ~PlaceOrder(t) => ref = "repl" /\ ledger[t].repl
<1>t. BrokerTypeOK /\ proc.sendq[t] \in 1..MaxQty /\ proc.hist \subseteq Ids
  BY DEF ExecInv, TypeOK, ExecTypeOK, ProcType, CursorInv
<1>q. ASSUME NEW i \in Ids PROVE orders[i].qty \in 1..MaxQty
  BY <1>t, OrderStatusRaw DEF QtyInv
<1>1. CASE PlaceOrder(t)
  <2>1. Place(t, "base", proc.sendq[t])
    BY <1>1, Zenon DEF PlaceOrder
  <2>2. NewOrderIs(t, "base", proc.sendq[t])
    BY <1>t, <2>1, PlaceMoves
  <2> QED
    BY <1>1, <1>t, <2>2 DEF Refs
<1>2. CASE ~PlaceOrder(t)
  <2>1. ledger[t].repl
    BY <1>2 DEF PlaceReplacement, SubmitReplacementPlaces, ReserveInv, ReplacePcs, At
  <2>2. PICK i \in Ids : Place(t, "repl", orders[i].qty)
    <3>1. CASE PlaceReplacement(t)
      BY <3>1 DEF PlaceReplacement, ExecInv, CursorInv, At
    <3>2. CASE SubmitReplacementPlaces(t)
      <4>1. HistMatches(t) \subseteq Ids
        BY <1>t DEF HistMatches, Matches, ExactMatch, ReservedMatch, FamilyMatch
      <4> QED
        BY <3>2, <4>1, Zenon DEF SubmitReplacementPlaces
    <3> QED
      BY <1>2, <3>1, <3>2
  <2>3. NewOrderIs(t, "repl", orders[i].qty)
    BY <1>t, <2>2, PlaceMoves
  <2> QED
    BY <1>2, <1>q, <2>1, <2>3 DEF Refs
<1> QED
  BY <1>1, <1>2

(* The orders after a step. *)
LEMMA OrdersGrow ==
    ASSUME ExecInv, IdentityInv, [Next]_vars
    PROVE  QtyInv' /\ FamilyInv' /\ \A u \in Trades : BaseOrders(u) \subseteq BaseOrders(u)'
<1> USE DEF IdentityInv
<1>1. CASE NoNewOrder /\ QtyInv'
  <2>1. \A u : BaseOrders(u)' = BaseOrders(u)
    BY <1>1, SameFamilies
  <2>2. FamilyInv'
    BY <1>1, <2>1 DEF FamilyInv, NoNewOrder, Kept
  <2> QED
    BY <1>1, <2>1, <2>2
<1>2. ASSUME NEW t \in Trades, PlaceOrder(t) \/ PlaceReplacement(t) \/ SubmitReplacementPlaces(t)
      PROVE  QtyInv' /\ FamilyInv' /\ \A u \in Trades : BaseOrders(u) \subseteq BaseOrders(u)'
  <2>1. PICK ref \in Refs, q \in 1..MaxQty : /\ NewOrderIs(t, ref, q)
                                             /\ ref = "base" \/ ledger[t].repl
    BY <1>2, PlacesOrder
  <2>2. \A u : BaseOrders(u) \subseteq BaseOrders(u)'
    BY <2>1, NewFamilies
  <2>3. QtyInv'
    BY <2>1 DEF NewOrderIs, NewOrder, QtyInv, IsLive
  <2>4. BaseOrders(t)' # {}
    BY <2>1, <2>2, NewFamilies DEF RowInv, GoodRow
  <2>5. FamilyInv'
    <3> SUFFICES ASSUME NEW i \in Ids' PROVE (BaseOrders(orders[i].t) # {})'
      BY DEF FamilyInv
    <3>1. CASE i \in Ids
      <4>1. BaseOrders(orders[i].t) # {} /\ orders'[i] = orders[i]
        BY <2>1, <3>1 DEF FamilyInv, NewOrderIs
      <4> QED
        BY <2>2, <4>1
    <3>2. CASE i \notin Ids
      <4>1. orders'[i].t = t
        BY <2>1, <3>2 DEF NewOrderIs, NewOrder
      <4> QED
        BY <2>4, <4>1
    <3> QED
      BY <3>1, <3>2
  <2> QED
    BY <2>2, <2>3, <2>5
<1> QED
  BY <1>1, <1>2, OrderMoves

(* Every step keeps the identity of the rows. *)
LEMMA IdentityStep ==
    ASSUME ExecInv, IdentityInv, [Next]_vars
    PROVE  IdentityInv'
<1> USE DEF IdentityInv
<1>t. /\ proc \in ProcType /\ ledger \in [Trades -> Row]
      /\ \A t \in Trades : ledger[t] \in Row
  BY DEF ExecInv, TypeOK, ExecTypeOK
<1>1. QtyInv' /\ FamilyInv' /\ \A u \in Trades : BaseOrders(u) \subseteq BaseOrders(u)'
  BY OrdersGrow
<1>2. RowInv'
  <2> SUFFICES ASSUME NEW u \in Trades PROVE GoodRow(u, ledger[u])'
    BY DEF RowInv
  <2>0. GoodRow(u, ledger[u]) /\ ledger[u] \in Row
    BY <1>t DEF RowInv
  <2>1. ASSUME SameIdentity(ledger'[u], ledger[u]) PROVE GoodRow(u, ledger[u])'
    BY <1>1, <2>0, <2>1 DEF GoodRow, SameIdentity
  <2>2. ASSUME FreshIdentity(ledger'[u]) PROVE GoodRow(u, ledger[u])'
    BY <2>2 DEF GoodRow, FreshIdentity
  <2>3. ASSUME AdoptsIdentity(ledger'[u], ledger[u]) PROVE GoodRow(u, ledger[u])'
    BY <1>1, <2>0, <2>3 DEF GoodRow, AdoptsIdentity
  <2>4. ASSUME ReservesIdentity(ledger'[u], ledger[u]), OrdersOf(u) # {}
        PROVE  GoodRow(u, ledger[u])'
    <3>1. BaseOrders(u) # {}
      BY <2>4 DEF OrdersOf, FamilyInv
    <3>2. ledger[u].ref = "base"
      BY <1>t, <2>0, <2>4 DEF GoodRow, ReservesIdentity, Row, Refs
    <3> QED
      BY <1>1, <2>4, <3>1, <3>2 DEF GoodRow, ReservesIdentity
  <2>5. CASE SubmissionStep
    BY <2>1, <2>2, <2>5, SubmissionIdentity
  <2>6. CASE ReconcileStep
    BY <2>1, <2>3, <2>4, <2>6, ReconcileIdentity
  <2>7. ASSUME NEW t \in Trades, Tick(t) PROVE GoodRow(u, ledger[u])'
    <3>1. ledger' = [ledger EXCEPT ![t] = [ledger[t] EXCEPT !.age = ledger[t].age + 1]]
      BY <2>7 DEF Tick, Upsert
    <3>2. SameIdentity(ledger'[u], ledger[u])
      BY <1>t, <3>1 DEF SameIdentity, Row
    <3> QED
      BY <2>1, <3>2
  <2>8. CASE BrokerActs \/ Crash \/ UNCHANGED vars
    <3>1. ledger' = ledger
      BY <2>8 DEF BrokerActs, execVars, Crash, vars
    <3> QED
      BY <2>1, <3>1 DEF SameIdentity
  <2> QED
    BY <2>5, <2>6, <2>7, <2>8 DEF Next
<1>3. ReserveInv'
  <2>0. ASSUME proc'.pc \notin ReplacePcs PROVE ReserveInv'
    BY <2>0 DEF ReserveInv
  <2>1. CASE SubmissionStep \/ Crash
    <3>1. proc'.pc \in SubmitPcs \cup {"idle"}
      BY <1>t, <2>1, SubmissionPc DEF Crash, EndProcess, IdleProc
    <3> QED
      BY <2>0, <3>1 DEF SubmitPcs, ReplacePcs
  <2>2. CASE BrokerActs \/ UNCHANGED vars
    BY <2>2 DEF BrokerActs, execVars, vars, ReserveInv
  <2>3. ASSUME NEW t \in Trades, Tick(t) PROVE ReserveInv'
    <3>1. proc'.pc = "idle"
      BY <2>3 DEF Tick, At
    <3> QED
      BY <2>0, <3>1 DEF ReplacePcs
  <2>4. CASE ReconcileStep
    <3>1. CASE RestartShape
      BY <2>0, <3>1, RestartFields DEF Restarts, ReplacePcs
    <3>2. CASE \/ proc' = [proc EXCEPT !.pc = "plan"]
               \/ proc' = [proc EXCEPT !.pc = "stale_cancel", !.todo = ForeignEntries]
      BY <1>t, <2>0, <3>2, ZenonT(30) DEF ProcType, ReplacePcs
    <3>3. CASE FetchOpenOrders \/ FetchHistory \/ FetchHistoryFails
      BY <1>t, <2>0, <3>3, FetchFields DEF ReplacePcs
    <3>4. ASSUME NEW t \in Trades, EndsEntry(t) PROVE ReserveInv'
      BY <1>t, <2>0, <3>4, EntryFields DEF ReplacePcs
    <3>5. ASSUME NEW t \in Trades, SendTimeoutCancel(t) \/ SendStaleCancel(t) PROVE ReserveInv'
      BY <1>t, <2>0, <3>5, EntryCalls, CallFields DEF ReplacePcs
    <3>6. ASSUME NEW t \in Trades, RecordStaleCancel(t) \/ SkipStaleCancel(t) PROVE ReserveInv'
      BY <1>t, <2>0, <3>6, StaleFields DEF ReplacePcs
    <3>7. ASSUME NEW t \in Trades,
                 \/ ReserveReplacement(t) \/ ResumeReplacement(t) \/ ReplaceCancelsOriginal(t)
                 \/ PlaceReplacement(t) \/ SubmitReplacementPlaces(t)
          PROVE  ReserveInv'
      <4>1. proc'.cur = t
        BY <1>t, <3>7, EntryCalls, CallFields
      <4>2. ledger'[t].repl
        <5>1. CASE ReserveReplacement(t)
          BY <5>1, ReserveIdentity DEF ReservesIdentity
        <5>2. CASE ResumeReplacement(t)
          BY <5>2 DEF ResumeReplacement, ResumeDue
        <5>3. CASE ReplaceCancelsOriginal(t)
          BY <5>3 DEF ReplaceCancelsOriginal, At, ReserveInv, ReplacePcs
        <5>4. CASE PlaceReplacement(t)
          BY <5>4 DEF PlaceReplacement, At, ReserveInv, ReplacePcs
        <5>5. CASE SubmitReplacementPlaces(t)
          BY <5>5 DEF SubmitReplacementPlaces, At, ReserveInv, ReplacePcs
        <5> QED
          BY <3>7, <5>1, <5>2, <5>3, <5>4, <5>5
      <4> QED
        BY <4>1, <4>2 DEF ReserveInv
    <3> QED
      BY <2>4, <3>1, <3>2, <3>3, <3>4, <3>5, <3>6, <3>7, ReconcileShape, Zenon
  <2> QED
    BY <2>1, <2>2, <2>3, <2>4 DEF Next
<1> QED
  BY <1>1, <1>2, <1>3

(* Every row names orders that exist, in the order they were sent. *)
THEOREM IdentityInvariant == Spec => []IdentityInv
<1>1. Init => IdentityInv
  <2> SUFFICES ASSUME Init PROVE IdentityInv
    OBVIOUS
  <2>1. Ids = {} /\ proc.pc = "idle"
    BY DEF Init, BrokerInit, ExecInit, IdleProc, Ids
  <2>2. ASSUME NEW t \in Trades PROVE FreshIdentity(ledger[t])
    BY DEF Init, ExecInit, AbsentRow, PlannedRow, FreshIdentity
  <2>3. ASSUME NEW t \in Trades PROVE GoodRow(t, ledger[t])
    <3>1. FreshIdentity(ledger[t])
      BY <2>2
    <3> QED
      BY <3>1 DEF GoodRow, FreshIdentity
  <2> QED
    BY <2>1, <2>3 DEF IdentityInv, QtyInv, FamilyInv, RowInv, ReserveInv, ReplacePcs
<1>2. ExecInv /\ IdentityInv /\ [Next]_vars => IdentityInv'
  BY IdentityStep
<1> QED
  BY <1>1, <1>2, ExecInvariant, PTL DEF Spec

-----------------------------------------------------------------------------
(* Second layer: what a process in submit_plan knows about the rows and    *)
(* the orders of its batch.                                                *)

(* The rows still to be priced are the ones _plan_phase has written. *)
UnpricedInv ==
    /\ At("plan_trade") => \A t \in proc.fresh : ledger[t].st = "planned"
    /\ At("reprice") => \A t \in proc.todo : ledger[t].st = "planned"
    /\ proc.pc \in PhasePcs => \A t \in LaterBuys : ledger[t].st = "planned"

(* A row of the batch has at least the quantity that is sent. *)
BatchQtyInv ==
    /\ \A t \in Trades : proc.sendq[t] <= Qty[t]
    /\ proc.pc \in {"reprice", "fit"} => \A t \in proc.batch : ledger[t].qty = Qty[t]
    /\ proc.pc \in {"mark", "record"} \cup SendPcs =>
          \A t \in proc.batch : ledger[t].qty >= proc.sendq[t]

(* Rows are open from their mark until the order is sent. *)
MarkInv ==
    /\ At("mark") => \A t \in proc.batch \ proc.todo : ledger[t].st = "unknown"
    /\ proc.pc \in SendPcs => \A t \in proc.todo : ledger[t].st = "unknown"
    /\ At("placed") => ledger[proc.cur].st = "unknown"

WaitPcs == {"placed", "wait", "wait_cancel"}

BatchInv ==
    /\ proc.pc \in SendPcs \cup {"block", "mark", "record"} => proc.todo \subseteq proc.batch
    /\ proc.pc \in WaitPcs =>
          proc.cur \in proc.batch /\ proc.cur \notin proc.todo /\ orders[Placed].t = proc.cur

(* The statuses that do not claim that an order is done. *)
LooseRaw == LiveRaw \cup {"", "SubmissionUnconfirmed"}

(* What a result may say of order i: never more than was executed, and     *)
(* never that it is done while it is not.                                  *)
ResultOf(i, r) ==
    /\ r.filled <= orders[i].filled
    /\ \/ r.raw \in LooseRaw
       \/ ~IsLive(i) /\ r.raw = orders[i].st /\ r.filled = orders[i].filled

SentInv ==
    /\ proc.pc \in SendPcs \cup {"record"} =>
          \A i \in Ids : orders[i].t \in proc.batch =>
             /\ orders[i].ref = "base" /\ orders[i].qty = proc.sendq[orders[i].t]
             /\ ResultOf(i, proc.res[orders[i].t])
    /\ proc.pc \in {"reprice", "fit", "block", "mark"} => \A t \in Trades : proc.res[t] = NoResult
    /\ proc.pc \in SendPcs => \A t \in proc.todo : proc.res[t] = NoResult

(* submit_plan runs only while every open row is of its own run. *)
RunInv ==
    /\ proc.pc \in SubmitPcs => ForeignEntries = {}
    /\ proc.pc \in SubmitPcs \ {"plan"} =>
          \A t \in proc.todo \cup proc.fresh : RunOf[t] = session.run

SubmitInv == UnpricedInv /\ BatchQtyInv /\ MarkInv /\ BatchInv /\ SentInv /\ RunInv

(* Facts every step of a phase starts from. *)
LEMMA SubmitFacts ==
    ASSUME ExecInv, FamilyInv, SubmitInv
    PROVE  /\ proc \in ProcType /\ ledger \in [Trades -> Row] /\ BrokerTypeOK
           /\ \A t \in Trades : ledger[t] \in Row
           /\ \A i \in Ids : orders[i].t \notin ToSend
           /\ proc.pc \in PhasePcs =>
                /\ proc.todo \cap LaterBuys = {} /\ proc.batch \cap LaterBuys = {}
                /\ proc.todo \subseteq proc.fresh /\ proc.batch \subseteq proc.fresh
           /\ LaterBuys \subseteq proc.fresh
<1>1. /\ proc \in ProcType /\ ledger \in [Trades -> Row] /\ BrokerTypeOK
      /\ \A u \in ToSend : BaseOrders(u) = {}
      /\ proc.pc \in PhasePcs =>
            /\ proc.todo \subseteq OfSide(proc.fresh, proc.phase)
            /\ proc.batch \subseteq OfSide(proc.fresh, proc.phase)
  BY PhaseFacts
<1>2. \A i \in Ids : orders[i].t \notin ToSend
  BY <1>1 DEF FamilyInv
<1>3. \A t \in Trades : ledger[t] \in Row
  BY <1>1
<1> QED
  BY <1>1, <1>2, <1>3 DEF OfSide, LaterBuys

(* What a result says of an order stays true while IBKR goes on. *)
LEMMA ResultKept ==
    ASSUME ExecInv, BrokerTypeOK', NoNewOrder, NEW i \in Ids,
           NEW r, r.filled \in Nat, ResultOf(i, r)
    PROVE  ResultOf(i, r)'
<1>1. BrokerTypeOK
  BY DEF ExecInv, TypeOK
<1>2. orders[i].filled \in Nat /\ Kept(i) /\ i \in Ids'
  BY <1>1, OrderStatusRaw DEF NoNewOrder
<1>3. orders'[i].filled \in Nat
  <2>1. orders' \in Seq(Order) /\ i \in DOMAIN orders'
    BY <1>2 DEF BrokerTypeOK, Ids
  <2>2. orders'[i] \in Order
    BY <2>1
  <2> QED
    BY <2>2 DEF Order
<1> QED
  BY <1>2, <1>3 DEF ResultOf, IsLive, Kept

(* Steps of IBKR change neither rows nor memory. *)
LEMMA SubmitBroker ==
    ASSUME ExecInv, BrokerTypeOK', SubmitInv, NoNewOrder, UNCHANGED execVars
    PROVE  SubmitInv'
<1>1. proc' = proc /\ ledger' = ledger /\ session' = session
  BY DEF execVars
<1>2. UnpricedInv' /\ BatchQtyInv' /\ MarkInv'
  BY <1>1 DEF SubmitInv, UnpricedInv, BatchQtyInv, MarkInv, At, LaterBuys, OfSide
<1>3. BatchInv'
  <2>1. Placed' = Placed
    BY DEF NoNewOrder, Placed
  <2>2. proc.pc \in WaitPcs => Placed \in Ids
    BY ReportedType DEF WaitPcs
  <2> QED
    BY <1>1, <2>1, <2>2 DEF SubmitInv, BatchInv, NoNewOrder, Kept
<1>4. SentInv'
  <2>0. BrokerTypeOK /\ proc \in ProcType
    BY DEF ExecInv, TypeOK, ExecTypeOK
  <2>2. ASSUME proc.pc \in SendPcs \cup {"record"}, NEW i \in Ids, orders'[i].t \in proc.batch
        PROVE  /\ orders'[i].ref = "base" /\ orders'[i].qty = proc.sendq[orders'[i].t]
               /\ ResultOf(i, proc.res[orders[i].t])'
    <3>1. orders'[i].t = orders[i].t /\ orders'[i].ref = orders[i].ref /\ orders'[i].qty = orders[i].qty
      BY <2>2 DEF NoNewOrder, Kept
    <3>2. /\ orders[i].ref = "base" /\ orders[i].qty = proc.sendq[orders[i].t]
          /\ ResultOf(i, proc.res[orders[i].t])
      BY <2>2, <3>1 DEF SubmitInv, SentInv
    <3>3. proc.res[orders[i].t].filled \in Nat
      BY <2>0, OrderStatusRaw DEF ProcType
    <3> QED
      BY <1>1, <3>1, <3>2, <3>3, ResultKept
  <2> QED
    BY <1>1, <2>2 DEF SubmitInv, SentInv, NoNewOrder
<1>5. RunInv'
  BY <1>1 DEF SubmitInv, RunInv, ForeignEntries, OpenEntries
<1> QED
  BY <1>2, <1>3, <1>4, <1>5 DEF SubmitInv

(* Outside submit_plan only the quantities matter. *)
LEMMA SubmitOutside ==
    ASSUME proc'.pc \notin SubmitPcs, \A t \in Trades : proc'.sendq[t] <= Qty[t]
    PROVE  SubmitInv'
BY DEF SubmitInv, UnpricedInv, BatchQtyInv, MarkInv, BatchInv, SentInv, RunInv, At,
       SubmitPcs, PhasePcs, SendPcs, WaitPcs

(* One trade is taken from the list and its row is written. *)
SameBatch ==
    /\ proc'.phase = proc.phase /\ proc'.fresh = proc.fresh
    /\ proc'.batch = proc.batch /\ proc'.sendq = proc.sendq

(* The buys that wait for the sells depend on the phase alone. *)
LEMMA SameLaterBuys ==
    ASSUME proc'.phase = proc.phase, proc'.fresh = proc.fresh
    PROVE  LaterBuys' = LaterBuys
BY DEF LaterBuys, OfSide

(* A row marked SubmissionUnconfirmed is classified UNKNOWN, hence open. *)
LEMMA UnconfirmedIsUnknown ==
    ASSUME NEW rem
    PROVE  ClassifyLifecycle("SubmissionUnconfirmed", 0, rem) = "unknown"
BY DEF ClassifyLifecycle, CancelledRaw, SubmissionFailureRaw

(* Rows of the session's own run may be written. *)
LEMMA OwnRunRow ==
    ASSUME ForeignEntries = {}, session' = session,
           \A u \in Trades : ledger'[u] = ledger[u] \/ RunOf[u] = session.run
    PROVE  ForeignEntries' = {}
BY DEF ForeignEntries, OpenEntries

(* A step that records one trade of the batch and crosses it off. *)
LEMMA OneTradeStep ==
    ASSUME ExecInv, FamilyInv, SubmitInv, NEW t \in Trades, NEW res,
           t \in proc.todo, proc.pc \in {"reprice", "block", "mark", "send", "record"},
           RecordResult(t, res),
           At("mark") => res.raw = "SubmissionUnconfirmed" /\ res.filled = 0,
           proc'.pc = proc.pc, proc'.todo = proc.todo \ {t}, SameBatch,
           \/ proc'.res = proc.res
           \/ At("send") /\ \A u \in Trades \ {t} : proc'.res[u] = proc.res[u],
           orders' = orders, session' = session
    PROVE  SubmitInv'
<1>f. /\ proc \in ProcType /\ ledger \in [Trades -> Row] /\ BrokerTypeOK
      /\ \A u \in Trades : ledger[u] \in Row
      /\ \A i \in Ids : orders[i].t \notin ToSend
      /\ proc.todo \cap LaterBuys = {} /\ proc.batch \cap LaterBuys = {}
      /\ proc.todo \subseteq proc.fresh /\ proc.batch \subseteq proc.fresh
      /\ LaterBuys \subseteq proc.fresh /\ proc.fresh \subseteq Trades
  <2>1. proc.pc \in PhasePcs
    BY DEF PhasePcs
  <2> QED
    BY <2>1, SubmitFacts DEF ProcType
<1>b. LaterBuys' = LaterBuys /\ proc'.batch = proc.batch /\ proc'.sendq = proc.sendq
      /\ proc'.fresh = proc.fresh
  BY SameLaterBuys DEF SameBatch
<1>r. /\ RecordBase(t) \in Row /\ ledger'[t].qty = RecordBase(t).qty
      /\ ledger'[t].st = ClassifyLifecycle(res.raw, res.filled, Monus(RecordBase(t).qty, res.filled))
      /\ \A u \in Trades \ {t} : ledger'[u] = ledger[u]
  <2>1. RecordBase(t) \in Row /\ ledger'[t] = WithOrderResult(RecordBase(t), res)
        /\ \A u \in Trades \ {t} : ledger'[u] = ledger[u]
    BY RecordWrites
  <2> QED
    BY <2>1, ResultFields
<1>1. UnpricedInv'
  BY <1>b, <1>f, <1>r DEF SubmitInv, UnpricedInv, At, PhasePcs
<1>2. BatchQtyInv'
  <2>1. At("reprice") => IsOpen(ledger[t])
    BY DEF SubmitInv, UnpricedInv, IsOpen, TerminalStates
  <2>2. At("reprice") => ledger'[t].qty = ledger[t].qty
    BY <1>r, <2>1 DEF RecordBase
  <2>3. ledger[t].qty >= proc.sendq[t] => ledger'[t].qty >= proc.sendq[t]
    <3>1. PlannedRow(proc.sendq[t]).qty = proc.sendq[t] /\ proc.sendq[t] \in Nat
      BY <1>f DEF PlannedRow, ProcType
    <3> QED
      BY <1>r, <3>1 DEF RecordBase
  <2> QED
    BY <1>b, <1>f, <1>r, <2>2, <2>3 DEF SubmitInv, BatchQtyInv, At
<1>3. MarkInv'
  <2>1. At("mark") => ledger'[t].st = "unknown"
    BY <1>r, UnconfirmedIsUnknown
  <2> QED
    BY <1>b, <1>f, <1>r, <2>1 DEF SubmitInv, MarkInv, At, SendPcs
<1>4. BatchInv'
  BY <1>b DEF SubmitInv, BatchInv, SendPcs, WaitPcs
<1>5. SentInv'
  <2>1. proc'.res = proc.res \/ (At("send") /\ \A i \in Ids : orders[i].t # t)
    BY <1>f, ToSendValue DEF At, SendPcs
  <2>2. \A i \in Ids : proc.pc \in SendPcs \cup {"record"} =>
                        proc'.res[orders[i].t] = proc.res[orders[i].t]
    BY <1>f, <2>1, OrderStatusRaw
  <2>3. /\ proc'.pc \in {"reprice", "fit", "block", "mark"} => \A u \in Trades : proc'.res[u] = NoResult
        /\ proc'.pc \in SendPcs => \A u \in proc'.todo : proc'.res[u] = NoResult
    BY <1>f DEF SubmitInv, SentInv, At
  <2>4. ASSUME proc.pc \in SendPcs \cup {"record"}, NEW i \in Ids, orders[i].t \in proc.batch
        PROVE  /\ orders[i].ref = "base" /\ orders[i].qty = proc.sendq[orders[i].t]
               /\ ResultOf(i, proc.res[orders[i].t])'
    BY <2>2, <2>4 DEF SubmitInv, SentInv, ResultOf, IsLive
  <2>5. Ids' = Ids
    BY DEF Ids
  <2> QED
    BY <1>b, <2>3, <2>4, <2>5 DEF SentInv
<1>6. RunInv'
  <2>1. RunOf[t] = session.run /\ ForeignEntries = {}
    BY DEF SubmitInv, RunInv, SubmitPcs
  <2>2. ForeignEntries' = {}
    BY <1>r, <2>1, OwnRunRow
  <2> QED
    BY <1>b, <2>2 DEF SubmitInv, RunInv, SubmitPcs
<1> QED
  BY <1>1, <1>2, <1>3, <1>4, <1>5, <1>6 DEF SubmitInv

(* A phase starts with the trades that _plan_phase found for its side. *)
LEMMA StartPhaseStep ==
    ASSUME ExecInv, FamilyInv, SubmitInv, UNCHANGED <<orders, ledger, session>>,
           NEW side \in {"SELL", "BUY"}, StartPhase(side),
           \/ At("plan_trade") /\ side = "SELL"
           \/ proc.pc \in PhasePcs /\ proc.phase = "SELL" /\ side = "BUY"
    PROVE  SubmitInv'
<1>f. proc \in ProcType
  BY SubmitFacts
<1>p. /\ proc'.pc = "reprice" /\ proc'.phase = side /\ proc'.batch = {}
      /\ proc'.todo = OfSide(proc.fresh, side) /\ proc'.fresh = proc.fresh
      /\ proc'.sendq = proc.sendq /\ proc'.res = [t \in Trades |-> NoResult]
  BY <1>f DEF StartPhase, ProcType
<1>1. UnpricedInv'
  BY <1>p DEF SubmitInv, UnpricedInv, At, PhasePcs, LaterBuys, OfSide
<1>2. BatchQtyInv' /\ MarkInv' /\ BatchInv'
  BY <1>p DEF SubmitInv, BatchQtyInv, MarkInv, BatchInv, At, SendPcs, WaitPcs
<1>3. SentInv'
  BY <1>p DEF SentInv, SendPcs
<1>4. RunInv'
  <2>1. ForeignEntries' = ForeignEntries
    BY DEF ForeignEntries, OpenEntries
  <2> QED
    BY <1>p, <2>1 DEF SubmitInv, RunInv, At, SubmitPcs, PhasePcs, OfSide
<1> QED
  BY <1>1, <1>2, <1>3, <1>4 DEF SubmitInv

(* The batch moves on as a whole. *)
LEMMA BatchMoves ==
    ASSUME ExecInv, FamilyInv, SubmitInv, UNCHANGED <<orders, ledger, session>>,
           proc'.phase = proc.phase, proc'.fresh = proc.fresh, proc'.batch = proc.batch,
           proc'.res = proc.res,
           \A t \in Trades : proc'.sendq[t] <= Qty[t],
           proc'.todo \in {proc.todo, proc.batch},
           \/ At("reprice") /\ proc.todo = {} /\ proc'.pc \in {"fit", "mark"}
           \/ At("fit") /\ proc'.pc \in {"mark", "block"}
           \/ At("mark") /\ proc.todo = {} /\ proc'.pc = "send" /\ proc'.sendq = proc.sendq,
           proc'.pc # "fit" => proc'.todo = proc.batch
    PROVE  SubmitInv'
<1>f. /\ proc \in ProcType /\ ledger \in [Trades -> Row]
      /\ \A i \in Ids : orders[i].t \notin ToSend
      /\ proc.todo \subseteq proc.fresh /\ proc.batch \subseteq proc.fresh
      /\ proc.fresh \subseteq Trades
  <2>1. proc.pc \in PhasePcs
    BY DEF PhasePcs, At
  <2> QED
    BY <2>1, SubmitFacts DEF ProcType
<1>b. LaterBuys' = LaterBuys
  BY SameLaterBuys
<1>1. UnpricedInv'
  BY <1>b DEF SubmitInv, UnpricedInv, At, PhasePcs
<1>2. BatchQtyInv'
  BY <1>f DEF SubmitInv, BatchQtyInv, At, SendPcs
<1>3. MarkInv' /\ BatchInv'
  BY DEF SubmitInv, MarkInv, BatchInv, At, SendPcs, WaitPcs
<1>4. SentInv'
  <2>1. proc'.pc = "send" => \A i \in Ids : orders[i].t \notin proc.batch
    BY <1>f, ToSendValue DEF At
  <2>2. \A t \in Trades : proc'.res[t] = NoResult
    BY DEF SubmitInv, SentInv, At
  <2>3. Ids' = Ids
    BY DEF Ids
  <2> QED
    BY <1>f, <2>1, <2>2, <2>3 DEF SentInv, SendPcs, At
<1>5. RunInv'
  <2>1. ForeignEntries' = ForeignEntries
    BY DEF ForeignEntries, OpenEntries
  <2> QED
    BY <1>f, <2>1 DEF SubmitInv, RunInv, At, SubmitPcs
<1> QED
  BY <1>1, <1>2, <1>3, <1>4, <1>5 DEF SubmitInv

(* _plan_phase and _reprice_for_execution write a fresh plan row. *)
LEMMA PlanRowStep ==
    ASSUME ExecInv, FamilyInv, SubmitInv, NEW t \in Trades, t \in proc.todo,
           Upsert(t, PlannedRow(Qty[t])), UNCHANGED <<orders, session>>,
           \/ /\ At("plan_trade")
              /\ proc' = [proc EXCEPT !.todo = @ \ {t}, !.fresh = @ \cup {t}]
           \/ /\ At("reprice")
              /\ proc' = [proc EXCEPT !.todo = @ \ {t}, !.batch = @ \cup {t}]
    PROVE  SubmitInv'
<1>f. proc \in ProcType /\ LaterBuys \subseteq proc.fresh
      /\ (At("reprice") => proc.todo \cap LaterBuys = {})
  BY SubmitFacts DEF At, PhasePcs
<1>r. ledger'[t].st = "planned" /\ ledger'[t].qty = Qty[t] /\ Qty[t] \in Nat
      /\ \A u \in Trades \ {t} : ledger'[u] = ledger[u]
  <2>1. ledger'[t] = PlannedRow(Qty[t]) /\ \A u \in Trades \ {t} : ledger'[u] = ledger[u]
    BY UpsertRow
  <2>2. PlannedRow(Qty[t]).st = "planned" /\ PlannedRow(Qty[t]).qty = Qty[t]
    BY DEF PlannedRow
  <2>3. Qty[t] \in Nat
    OBVIOUS
  <2> QED
    BY <2>1, <2>2, <2>3
<1>p. /\ proc'.pc = proc.pc /\ proc'.todo = proc.todo \ {t} /\ proc'.phase = proc.phase
      /\ proc'.sendq = proc.sendq /\ proc'.res = proc.res
      /\ At("plan_trade") => proc'.fresh = proc.fresh \cup {t} /\ proc'.batch = proc.batch
      /\ At("reprice") => proc'.fresh = proc.fresh /\ proc'.batch = proc.batch \cup {t}
  <2>1. CASE At("plan_trade")
    <3>1. proc' = [proc EXCEPT !.todo = @ \ {t}, !.fresh = @ \cup {t}]
      BY <2>1 DEF At
    <3> QED
      BY <1>f, <2>1, <3>1 DEF ProcType, At
  <2>2. CASE At("reprice")
    <3>1. proc' = [proc EXCEPT !.todo = @ \ {t}, !.batch = @ \cup {t}]
      BY <2>2 DEF At
    <3> QED
      BY <1>f, <2>2, <3>1 DEF ProcType, At
  <2> QED
    BY <2>1, <2>2
<1>1. UnpricedInv'
  <2>1. At("reprice") => LaterBuys' = LaterBuys
    BY <1>p, SameLaterBuys
  <2>2. proc.fresh \subseteq Trades /\ proc.todo \subseteq Trades
    BY <1>f DEF ProcType
  <2> QED
    BY <1>f, <1>p, <1>r, <2>1, <2>2 DEF SubmitInv, UnpricedInv, At, PhasePcs
<1>2. BatchQtyInv'
  BY <1>f, <1>p, <1>r DEF SubmitInv, BatchQtyInv, At, SendPcs, ProcType
<1>3. MarkInv' /\ BatchInv'
  BY <1>p DEF MarkInv, BatchInv, At, SendPcs, WaitPcs
<1>4. SentInv'
  BY <1>p DEF SubmitInv, SentInv, At, SendPcs
<1>5. RunInv'
  <2>1. RunOf[t] = session.run /\ ForeignEntries = {}
    BY DEF SubmitInv, RunInv, SubmitPcs, At
  <2>2. ForeignEntries' = {}
    BY <1>r, <2>1, OwnRunRow
  <2> QED
    BY <1>p, <2>1, <2>2 DEF SubmitInv, RunInv, SubmitPcs, At
<1> QED
  BY <1>1, <1>2, <1>3, <1>4, <1>5 DEF SubmitInv

(* The order that is waited for is the only one of its trade. *)
LEMMA WaitFacts ==
    ASSUME ExecInv, FamilyInv, SubmitInv, proc.pc \in WaitPcs
    PROVE  /\ Placed \in Ids /\ orders[Placed].t = proc.cur /\ proc.cur \in Trades
           /\ proc.cur \in proc.batch /\ proc.cur \notin proc.todo
           /\ \A i \in Ids : orders[i].t = proc.cur => i = Placed
           /\ orders[Placed].filled \in Nat
           /\ ResultOf(Placed, Reported)
<1>1. Placed \in Ids /\ BrokerTypeOK /\ proc \in ProcType
  BY ReportedType DEF WaitPcs, ExecInv, TypeOK, ExecTypeOK
<1>2. orders[Placed].t = proc.cur /\ proc.cur \in proc.batch /\ proc.cur \notin proc.todo
  BY DEF SubmitInv, BatchInv
<1>3. \A i \in Ids : orders[i].t = proc.cur => orders[i].ref = "base"
  BY <1>2 DEF SubmitInv, SentInv, SendPcs, WaitPcs
<1>4. \A i \in Ids : orders[i].t = proc.cur => i \in BaseOrders(proc.cur)
  BY <1>3 DEF BaseOrders, OrdersOf
<1>5. proc.cur \in Trades /\ orders[Placed].filled \in Nat
  BY <1>1, <1>2, OrderStatusRaw
<1>6. ResultOf(Placed, Reported)
  <2>1. Reported.raw = orders[Placed].st /\ Reported.filled = orders[Placed].filled
    BY DEF Reported, Result
  <2>2. Reported.filled <= orders[Placed].filled
    BY <1>5, <2>1
  <2>3. Reported.raw \in LooseRaw \/ ~IsLive(Placed)
    BY <2>1 DEF IsLive, LooseRaw
  <2> QED
    BY <2>1, <2>2, <2>3, Zenon DEF ResultOf
<1> QED
  BY <1>1, <1>2, <1>4, <1>5, <1>6 DEF ExecInv, BaseOrderPlacedOnce

(* A step of the wait for the order just placed. *)
LEMMA WaitStep ==
    ASSUME ExecInv, BrokerTypeOK', FamilyInv, SubmitInv, NoNewOrder, session' = session,
           NEW t \in Trades, proc.pc \in WaitPcs, proc.cur = t,
           \A u \in Trades \ {t} : ledger'[u] = ledger[u],
           ledger'[t].qty >= proc.sendq[t],
           proc'.pc \in {"wait", "wait_cancel", "send", "record"}, SameBatch,
           proc'.pc \in WaitPcs => proc'.cur = proc.cur,
           proc'.todo = IF proc'.pc = "record" THEN proc.batch ELSE proc.todo,
           \A u \in Trades \ {t} : u \notin proc.todo \/ proc'.pc # "record" => proc'.res[u] = proc.res[u],
           NEW r, proc'.res[t] = r, r.filled \in Nat, ResultOf(Placed, r)
    PROVE  SubmitInv'
<1>f. /\ proc \in ProcType /\ ledger \in [Trades -> Row] /\ BrokerTypeOK
      /\ \A i \in Ids : orders[i].t \notin ToSend
      /\ proc.batch \cap LaterBuys = {} /\ LaterBuys \subseteq proc.fresh
      /\ proc.todo \subseteq proc.fresh /\ proc.batch \subseteq proc.fresh
      /\ proc.fresh \subseteq Trades /\ proc.todo \subseteq Trades
  <2>1. proc.pc \in PhasePcs
    BY DEF PhasePcs, WaitPcs
  <2> QED
    BY <2>1, SubmitFacts DEF ProcType
<1>w. /\ Placed \in Ids /\ orders[Placed].t = t /\ t \in proc.batch /\ t \notin proc.todo
      /\ \A i \in Ids : orders[i].t = t => i = Placed
  BY WaitFacts
<1>b. LaterBuys' = LaterBuys /\ proc'.batch = proc.batch /\ proc'.sendq = proc.sendq
      /\ proc'.fresh = proc.fresh /\ Placed' = Placed /\ Ids' = Ids
  BY SameLaterBuys DEF SameBatch, NoNewOrder, Placed
<1>1. UnpricedInv'
  BY <1>b, <1>f, <1>w DEF SubmitInv, UnpricedInv, At, PhasePcs, WaitPcs
<1>2. BatchQtyInv'
  BY <1>b, <1>f DEF SubmitInv, BatchQtyInv, SendPcs, WaitPcs
<1>3. MarkInv'
  BY <1>b, <1>f, <1>w DEF SubmitInv, MarkInv, At, SendPcs, WaitPcs
<1>4. BatchInv'
  BY <1>b, <1>w DEF SubmitInv, BatchInv, SendPcs, WaitPcs, NoNewOrder, Kept
<1>5. SentInv'
  <2>1. ASSUME NEW i \in Ids, orders'[i].t \in proc.batch
        PROVE  /\ orders'[i].ref = "base" /\ orders'[i].qty = proc.sendq[orders'[i].t]
               /\ ResultOf(i, proc.res[orders[i].t])'
    <3>1. orders'[i].t = orders[i].t /\ orders'[i].ref = orders[i].ref /\ orders'[i].qty = orders[i].qty
      BY DEF NoNewOrder, Kept
    <3>2. /\ orders[i].ref = "base" /\ orders[i].qty = proc.sendq[orders[i].t]
          /\ ResultOf(i, proc.res[orders[i].t])
      BY <2>1, <3>1 DEF SubmitInv, SentInv, SendPcs, WaitPcs
    <3>3. orders[i].t \in Trades /\ proc.res[orders[i].t].filled \in Nat
      BY <1>f, OrderStatusRaw DEF ProcType
    <3>4. CASE orders[i].t = t
      BY <1>w, <3>1, <3>2, <3>4, ResultKept
    <3>5. CASE orders[i].t # t
      <4>1. orders[i].t \notin proc.todo
        BY <1>f, ToSendValue DEF WaitPcs, SendPcs
      <4>2. proc'.res[orders[i].t] = proc.res[orders[i].t]
        BY <3>3, <3>5, <4>1
      <4> QED
        BY <3>1, <3>2, <3>3, <4>2, ResultKept
    <3> QED
      BY <3>4, <3>5
  <2>2. proc'.pc \in SendPcs => \A u \in proc'.todo : proc'.res[u] = NoResult
    BY <1>f, <1>w DEF SubmitInv, SentInv, SendPcs, WaitPcs
  <2> QED
    BY <1>b, <2>1, <2>2 DEF SentInv
<1>6. RunInv'
  <2>1. RunOf[t] = session.run /\ ForeignEntries = {}
    BY <1>f, <1>w DEF SubmitInv, RunInv, SubmitPcs, WaitPcs
  <2>2. ForeignEntries' = {}
    BY <2>1, OwnRunRow
  <2> QED
    BY <1>b, <1>f, <2>2 DEF SubmitInv, RunInv, SubmitPcs, WaitPcs
<1> QED
  BY <1>1, <1>2, <1>3, <1>4, <1>5, <1>6 DEF SubmitInv

(* placeOrder: the row was marked before, so the new order is accounted    *)
(* for.                                                                    *)
LEMMA PlaceOrderStep ==
    ASSUME ExecInv, FamilyInv, QtyInv, ReserveInv, SubmitInv, NEW t \in Trades, PlaceOrder(t)
    PROVE  SubmitInv'
<1>f. /\ proc \in ProcType /\ ledger \in [Trades -> Row] /\ BrokerTypeOK
      /\ proc.todo \subseteq proc.fresh /\ proc.batch \subseteq proc.fresh
  BY SubmitFacts DEF PlaceOrder, At, PhasePcs
<1>0. /\ proc.pc = "send" /\ t \in proc.todo /\ ledger' = ledger /\ session' = session
      /\ proc' = [proc EXCEPT !.pc = "placed", !.cur = t, !.todo = @ \ {t}]
  BY Zenon DEF PlaceOrder, At
<1>p. /\ proc'.pc = "placed" /\ proc'.cur = t /\ proc'.todo = proc.todo \ {t} /\ SameBatch
      /\ proc'.res = proc.res
  BY <1>0, <1>f DEF ProcType, SameBatch
<1>n. NewOrderIs(t, "base", proc.sendq[t])
  BY PlacesOrder
<1>b. LaterBuys' = LaterBuys /\ proc'.batch = proc.batch /\ proc'.sendq = proc.sendq
      /\ proc'.fresh = proc.fresh /\ Placed' = Len(orders')
  BY <1>p, SameLaterBuys DEF SameBatch, Placed
<1>1. UnpricedInv' /\ BatchQtyInv' /\ MarkInv'
  BY <1>0, <1>b, <1>p
     DEF SubmitInv, UnpricedInv, BatchQtyInv, MarkInv, At, PhasePcs, SendPcs
<1>2. BatchInv'
  BY <1>0, <1>b, <1>n, <1>p DEF SubmitInv, BatchInv, SendPcs, WaitPcs, NewOrderIs, NewOrder
<1>3. SentInv'
  <2>1. ASSUME NEW i \in Ids, orders[i].t \in proc.batch
        PROVE  /\ orders'[i].ref = "base" /\ orders'[i].qty = proc.sendq[orders'[i].t]
               /\ ResultOf(i, proc.res[orders[i].t])'
    <3>1. /\ orders[i].ref = "base" /\ orders[i].qty = proc.sendq[orders[i].t]
          /\ ResultOf(i, proc.res[orders[i].t])
      BY <1>0, <2>1 DEF SubmitInv, SentInv, SendPcs
    <3>2. orders'[i] = orders[i]
      BY <1>n DEF NewOrderIs
    <3> QED
      BY <1>p, <3>1, <3>2 DEF ResultOf, IsLive
  <2>2. LET i == Len(orders')
        IN  /\ orders'[i].ref = "base" /\ orders'[i].qty = proc.sendq[orders'[i].t]
            /\ orders'[i].t = t /\ orders'[i].filled = 0
    BY <1>n DEF NewOrderIs, NewOrder
  <2>3. proc'.res[t] = NoResult
    BY <1>0, <1>p DEF SubmitInv, SentInv, SendPcs
  <2>4. NoResult.filled <= 0 /\ NoResult.raw \in LooseRaw
    BY DEF NoResult, Result, LooseRaw
  <2>5. Ids' = Ids \cup {Len(orders')} /\ \A i \in Ids : orders'[i] = orders[i]
    BY <1>n DEF NewOrderIs
  <2>6. ASSUME NEW i \in Ids', orders'[i].t \in proc.batch
        PROVE  /\ orders'[i].ref = "base" /\ orders'[i].qty = proc.sendq[orders'[i].t]
               /\ ResultOf(i, proc.res[orders[i].t])'
    <3>1. CASE i \in Ids
      BY <2>1, <2>5, <2>6, <3>1
    <3>2. CASE i = Len(orders')
      BY <2>2, <2>3, <2>4, <3>2 DEF ResultOf
    <3> QED
      BY <2>5, <3>1, <3>2
  <2>7. \A u \in proc'.todo : proc'.res[u] = NoResult
    BY <1>0, <1>p DEF SubmitInv, SentInv, SendPcs
  <2> QED
    BY <1>b, <1>p, <2>6, <2>7 DEF SentInv
<1>4. RunInv'
  <2>1. ForeignEntries' = ForeignEntries
    BY <1>0 DEF ForeignEntries, OpenEntries
  <2> QED
    BY <1>0, <1>b, <1>p, <2>1 DEF SubmitInv, RunInv, SubmitPcs
<1> QED
  BY <1>1, <1>2, <1>3, <1>4 DEF SubmitInv

(* submit_trades ends between two orders. *)
LEMMA StopBetweenOrders ==
    ASSUME ExecInv, FamilyInv, SubmitInv, At("send"), UNCHANGED <<orders, ledger, session>>,
           NEW resOf, StopSending(resOf),
           \A u \in Trades : u \notin proc.todo => resOf[u] = proc.res[u]
    PROVE  SubmitInv'
<1>f. /\ proc \in ProcType /\ BrokerTypeOK /\ \A i \in Ids : orders[i].t \notin ToSend
      /\ proc.batch \subseteq proc.fresh
  BY SubmitFacts DEF At, PhasePcs
<1>p. proc'.pc = "record" /\ proc'.todo = proc.batch /\ proc'.res = resOf /\ SameBatch
  BY <1>f DEF StopSending, ProcType, SameBatch
<1>b. LaterBuys' = LaterBuys /\ proc'.batch = proc.batch /\ proc'.sendq = proc.sendq
      /\ proc'.fresh = proc.fresh /\ Ids' = Ids
  BY <1>p, SameLaterBuys DEF SameBatch, Ids
<1>1. UnpricedInv' /\ BatchQtyInv' /\ MarkInv' /\ BatchInv'
  BY <1>b, <1>p DEF SubmitInv, UnpricedInv, BatchQtyInv, MarkInv, BatchInv, At, PhasePcs,
                    SendPcs, WaitPcs
<1>2. SentInv'
  <2>1. ASSUME NEW i \in Ids, orders[i].t \in proc.batch
        PROVE  /\ orders[i].ref = "base" /\ orders[i].qty = proc.sendq[orders[i].t]
               /\ ResultOf(i, proc.res[orders[i].t])'
    <3>1. /\ orders[i].ref = "base" /\ orders[i].qty = proc.sendq[orders[i].t]
          /\ ResultOf(i, proc.res[orders[i].t])
      BY <2>1 DEF SubmitInv, SentInv, SendPcs, At
    <3>2. orders[i].t \notin proc.todo /\ orders[i].t \in Trades
      BY <1>f, ToSendValue, OrderStatusRaw DEF At, SendPcs
    <3>3. proc'.res[orders[i].t] = proc.res[orders[i].t]
      BY <1>p, <3>2
    <3> QED
      BY <3>1, <3>3 DEF ResultOf, IsLive
  <2> QED
    BY <1>b, <1>p, <2>1 DEF SentInv, SendPcs
<1>3. RunInv'
  <2>1. ForeignEntries' = ForeignEntries
    BY DEF ForeignEntries, OpenEntries
  <2> QED
    BY <1>b, <1>f, <1>p, <2>1 DEF SubmitInv, RunInv, SubmitPcs, At
<1> QED
  BY <1>1, <1>2, <1>3 DEF SubmitInv

(* Whatever is recorded for a trade of the batch keeps its quantity. *)
LEMMA BatchRowQty ==
    ASSUME ExecInv, SubmitInv, NEW t \in Trades, t \in proc.batch,
           proc.pc \in SendPcs \cup {"record"},
           \/ \E res : RecordResult(t, res)
           \/ ledger' = ledger
    PROVE  ledger'[t].qty >= proc.sendq[t] /\ \A u \in Trades \ {t} : ledger'[u] = ledger[u]
<1>1. ledger[t].qty >= proc.sendq[t]
  BY DEF SubmitInv, BatchQtyInv
<1>2. ASSUME NEW res, RecordResult(t, res)
      PROVE  ledger'[t].qty >= proc.sendq[t] /\ \A u \in Trades \ {t} : ledger'[u] = ledger[u]
  <2>1. RecordBase(t) \in Row /\ ledger'[t] = WithOrderResult(RecordBase(t), res)
        /\ \A u \in Trades \ {t} : ledger'[u] = ledger[u]
    BY <1>2, RecordWrites
  <2>2. ledger'[t].qty = RecordBase(t).qty
    BY <2>1, ResultFields
  <2>3. PlannedRow(proc.sendq[t]).qty = proc.sendq[t] /\ proc.sendq[t] \in Nat
    BY DEF PlannedRow, ExecInv, TypeOK, ExecTypeOK, ProcType
  <2> QED
    BY <1>1, <2>1, <2>2, <2>3 DEF RecordBase
<1> QED
  BY <1>1, <1>2

(* The results of a stopped batch: unsent trades have no fill. *)
LEMMA UnsentResult ==
    ASSUME NEW t \in Trades, NEW r
    PROVE  /\ [Unsent(proc.todo) EXCEPT ![t] = r][t] = r
           /\ \A u \in Trades \ {t} :
                 /\ u \notin proc.todo => [Unsent(proc.todo) EXCEPT ![t] = r][u] = proc.res[u]
                 /\ u \in proc.todo => [Unsent(proc.todo) EXCEPT ![t] = r][u].filled = 0
BY DEF Unsent, Result

(* The result of the order is in, and the batch goes on or stops. *)
LEMMA ReturnFields ==
    ASSUME proc \in ProcType, NEW t \in Trades, NEW r,
           ReturnResult(t, r) \/ StopSending([Unsent(proc.todo) EXCEPT ![t] = r])
    PROVE  /\ proc'.pc \in {"send", "record"} /\ SameBatch
           /\ proc'.todo = IF proc'.pc = "record" THEN proc.batch ELSE proc.todo
           /\ proc'.res[t] = r
           /\ \A u \in Trades \ {t} :
                 /\ u \notin proc.todo \/ proc'.pc # "record" => proc'.res[u] = proc.res[u]
                 /\ proc'.res[u] = proc.res[u] \/ proc'.res[u].filled = 0
<1>1. CASE StopSending([Unsent(proc.todo) EXCEPT ![t] = r])
  <2> DEFINE results == [Unsent(proc.todo) EXCEPT ![t] = r]
  <2>1. /\ results[t] = r
        /\ \A u \in Trades \ {t} :
              IF u \in proc.todo THEN results[u].filled = 0 ELSE results[u] = proc.res[u]
    BY UnsentResult
  <2>2. proc' = [proc EXCEPT !.pc = "record", !.cur = NoTrade, !.todo = proc.batch,
                             !.res = results, !.fails = 0]
    BY <1>1, Zenon DEF StopSending
  <2> HIDE DEF results
  <2>3. proc'.pc = "record" /\ SameBatch /\ proc'.todo = proc.batch /\ proc'.res = results
    BY <2>2 DEF ProcType, SameBatch
  <2> QED
    BY <2>1, <2>3
<1>2. CASE ~StopSending([Unsent(proc.todo) EXCEPT ![t] = r])
  <2>1. PICK n : proc' = [proc EXCEPT !.pc = "send", !.cur = NoTrade, !.fails = n, !.res[t] = r]
    BY <1>2, Zenon DEF ReturnResult
  <2>2. proc'.pc = "send" /\ SameBatch /\ proc'.todo = proc.todo
        /\ proc'.res = [proc.res EXCEPT ![t] = r]
    BY <2>1 DEF ProcType, SameBatch
  <2>3. proc.res \in [Trades -> [raw : RawStatuses, oid : Nat, filled : 0..MaxQty]]
    BY DEF ProcType
  <2> QED
    BY <2>2, <2>3
<1> QED
  BY <1>1, <1>2

(* The steps that follow placeOrder. *)
LEMMA WaitActions ==
    ASSUME ExecInv, BrokerTypeOK', IdentityInv, SubmitInv, NEW t \in Trades,
           \/ EmitPlaced(t) \/ OutcomeUncertain(t) \/ OrderAnswered(t)
           \/ AcceptanceTimeout(t) \/ CancelWaitEnds(t)
    PROVE  SubmitInv'
<1> USE DEF IdentityInv
<1>f. proc \in ProcType /\ BrokerTypeOK
  BY SubmitFacts
<1>0. proc.pc \in WaitPcs /\ proc.cur = t /\ session' = session
  <2>1. CASE EmitPlaced(t)
    BY <2>1 DEF EmitPlaced, At, WaitPcs
  <2>2. CASE OutcomeUncertain(t)
    BY <2>2, Zenon DEF OutcomeUncertain, WaitPcs
  <2>3. CASE OrderAnswered(t)
    BY <2>3 DEF OrderAnswered, At, WaitPcs
  <2>4. CASE AcceptanceTimeout(t)
    BY <2>4 DEF AcceptanceTimeout, At, WaitPcs
  <2>5. CASE CancelWaitEnds(t)
    BY <2>5 DEF CancelWaitEnds, At, WaitPcs
  <2> QED
    BY <2>1, <2>2, <2>3, <2>4, <2>5
<1>w. /\ Placed \in Ids /\ orders[Placed].t = t /\ t \in proc.batch
      /\ orders[Placed].filled \in Nat /\ ResultOf(Placed, Reported)
      /\ Reported.filled = orders[Placed].filled
  BY <1>0, WaitFacts DEF Reported, Result
<1>r. ASSUME (\E res : RecordResult(t, res)) \/ ledger' = ledger
      PROVE  ledger'[t].qty >= proc.sendq[t] /\ \A u \in Trades \ {t} : ledger'[u] = ledger[u]
  <2>1. proc.pc \in SendPcs \cup {"record"}
    BY <1>0 DEF WaitPcs, SendPcs
  <2> QED
    BY <1>r, <1>w, <2>1, BatchRowQty
<1>n. ASSUME orders' = orders PROVE NoNewOrder
  BY <1>n, <1>f, OrdersStay
<1>c. ASSUME NEW pc \in {"wait", "wait_cancel"}, proc' = [proc EXCEPT !.pc = pc], NoNewOrder,
             \E res : RecordResult(t, res)
      PROVE  SubmitInv'
  <2>1. proc'.pc = pc /\ proc'.cur = proc.cur /\ proc'.todo = proc.todo /\ SameBatch
        /\ proc'.res = proc.res
    BY <1>c, <1>f DEF ProcType, SameBatch
  <2>2. ResultOf(Placed, proc.res[t]) /\ proc.res[t].filled \in Nat
    BY <1>0, <1>f, <1>w DEF SubmitInv, SentInv, SendPcs, WaitPcs, ProcType
  <2>3. ledger'[t].qty >= proc.sendq[t] /\ \A u \in Trades \ {t} : ledger'[u] = ledger[u]
    BY <1>c, <1>r
  <2> QED
    BY <1>0, <1>c, <2>1, <2>2, <2>3, WaitStep
<1>d. ASSUME NEW r, r.filled \in Nat, ResultOf(Placed, r), orders' = orders,
             ReturnResult(t, r) \/ StopSending([Unsent(proc.todo) EXCEPT ![t] = r]),
             (\E res : RecordResult(t, res)) \/ ledger' = ledger
      PROVE  SubmitInv'
  <2>1. /\ proc'.pc \in {"send", "record"} /\ SameBatch
        /\ proc'.todo = IF proc'.pc = "record" THEN proc.batch ELSE proc.todo
        /\ proc'.res[t] = r
        /\ \A u \in Trades \ {t} :
              u \notin proc.todo \/ proc'.pc # "record" => proc'.res[u] = proc.res[u]
    BY <1>d, <1>f, ReturnFields
  <2>2. proc'.pc \notin WaitPcs
    BY <2>1 DEF WaitPcs
  <2>3. ledger'[t].qty >= proc.sendq[t] /\ \A u \in Trades \ {t} : ledger'[u] = ledger[u]
    BY <1>d, <1>r
  <2>4. NoNewOrder
    BY <1>d, <1>n
  <2> QED
    BY <1>0, <1>d, <2>1, <2>2, <2>3, <2>4, WaitStep
<1>1. CASE EmitPlaced(t)
  <2>1. proc' = [proc EXCEPT !.pc = "wait"] /\ orders' = orders /\ \E res : RecordResult(t, res)
    BY <1>1, Zenon DEF EmitPlaced
  <2> QED
    BY <1>c, <1>n, <2>1
<1>2. CASE OutcomeUncertain(t)
  <2>1. PICK oid \in {NoId, Placed} :
          LET r == Result("SubmissionUnconfirmed", oid, IF oid = NoId THEN 0 ELSE orders[Placed].filled)
          IN  RecordResult(t, r) /\ StopSending([Unsent(proc.todo) EXCEPT ![t] = r])
    BY <1>2, Zenon DEF OutcomeUncertain
  <2> DEFINE r == Result("SubmissionUnconfirmed", oid, IF oid = NoId THEN 0 ELSE orders[Placed].filled)
  <2>2. r.filled \in Nat /\ r.filled <= orders[Placed].filled /\ r.raw = "SubmissionUnconfirmed"
    BY <1>w DEF Result
  <2>3. ResultOf(Placed, r)
    BY <2>2 DEF ResultOf, LooseRaw
  <2>4. RecordResult(t, r) /\ StopSending([Unsent(proc.todo) EXCEPT ![t] = r])
    BY <2>1
  <2>5. orders' = orders
    BY <1>2, Zenon DEF OutcomeUncertain
  <2> HIDE DEF r
  <2> QED
    BY <1>d, <2>2, <2>3, <2>4, <2>5
<1>3. CASE OrderAnswered(t) \/ CancelWaitEnds(t)
  <2>1. orders' = orders /\ ReturnResult(t, Reported)
        /\ ((\E res : RecordResult(t, res)) \/ ledger' = ledger)
    BY <1>3, Zenon DEF OrderAnswered, CancelWaitEnds, EmitChange
  <2> QED
    BY <1>d, <1>w, <2>1
<1>4. CASE AcceptanceTimeout(t)
  <2>1. CASE RequestCancel(Placed) /\ (\E res : RecordResult(t, res))
             /\ proc' = [proc EXCEPT !.pc = "wait_cancel"]
    BY <1>4, <1>c, <2>1, TimeoutCancels
  <2>2. CASE orders' = orders /\ ReturnResult(t, Reported) /\ ledger' = ledger
    BY <1>d, <1>w, <2>2
  <2> QED
    BY <1>4, <2>1, <2>2, Zenon DEF AcceptanceTimeout
<1> QED
  BY <1>1, <1>2, <1>3, <1>4

(* Every step of submit_plan keeps what it knows about its batch. *)
LEMMA SubmissionKeeps ==
    ASSUME ExecInv, BrokerTypeOK', IdentityInv, SubmitInv, SubmissionStep
    PROVE  SubmitInv'
<1> USE DEF IdentityInv
<1>f. /\ proc \in ProcType /\ ledger \in [Trades -> Row] /\ BrokerTypeOK
      /\ \A t \in Trades : proc.sendq[t] <= Qty[t]
  BY SubmitFacts DEF SubmitInv, BatchQtyInv
<1>i. ASSUME proc' = IdleProc PROVE SubmitInv'
  <2>1. proc'.pc = "idle" /\ proc'.sendq = Qty
    BY <1>i DEF IdleProc
  <2> QED
    BY <2>1, SubmitOutside DEF SubmitPcs
<1>n. ASSUME NextPhase, proc.pc \in {"reprice", "block", "record"},
             UNCHANGED <<orders, ledger, session>>
      PROVE  SubmitInv'
  BY <1>i, <1>n, StartPhaseStep DEF NextPhase, EndProcess, PhasePcs
<1>1. CASE BuildPlan
  <2>1. PICK P \in SUBSET {t \in Trades : RunOf[t] = session.run} :
          proc' = [proc EXCEPT !.pc = "plan_trade", !.todo = P, !.fresh = {}]
    BY <1>1, Zenon DEF BuildPlan
  <2>2. proc'.pc = "plan_trade" /\ proc'.todo = P /\ proc'.fresh = {} /\ proc'.sendq = proc.sendq
    BY <1>f, <2>1 DEF ProcType
  <2>3. ForeignEntries' = {} /\ session' = session
    BY <1>1 DEF BuildPlan, SubmitInv, RunInv, At, SubmitPcs, ForeignEntries, OpenEntries
  <2>4. RunInv'
    BY <2>2, <2>3 DEF RunInv
  <2>5. UnpricedInv' /\ BatchQtyInv' /\ MarkInv' /\ BatchInv' /\ SentInv'
    BY <1>f, <2>2 DEF UnpricedInv, BatchQtyInv, MarkInv, BatchInv, SentInv, At, PhasePcs,
                      SendPcs, WaitPcs
  <2> QED
    BY <2>4, <2>5 DEF SubmitInv
<1>2. CASE PlanDone
  BY <1>2, StartPhaseStep DEF PlanDone
<1>3. CASE RepriceDone
  <2>1. CASE NextPhase
    BY <1>3, <1>n, <2>1 DEF RepriceDone, At
  <2>2. CASE \/ proc' = [proc EXCEPT !.pc = "fit"]
             \/ proc' = [proc EXCEPT !.pc = "mark", !.todo = proc.batch]
    <3>0. At("reprice") /\ proc.todo = {} /\ UNCHANGED <<orders, ledger, session>>
      BY <1>3, Zenon DEF RepriceDone
    <3>1. PICK pc \in {"fit", "mark"} :
            \/ proc' = [proc EXCEPT !.pc = pc] /\ pc = "fit"
            \/ proc' = [proc EXCEPT !.pc = pc, !.todo = proc.batch]
      BY <2>2
    <3>2. /\ proc'.pc = pc /\ proc'.phase = proc.phase /\ proc'.fresh = proc.fresh
          /\ proc'.batch = proc.batch /\ proc'.res = proc.res /\ proc'.sendq = proc.sendq
          /\ proc'.todo \in {proc.todo, proc.batch} /\ (pc # "fit" => proc'.todo = proc.batch)
      BY <1>f, <3>1 DEF ProcType
    <3> QED
      BY <1>f, <3>0, <3>2, BatchMoves
  <2> QED
    BY <1>3, <2>1, <2>2, Zenon DEF RepriceDone
<1>4. CASE BuysFit \/ BlockBuys
  <2>0. At("fit") /\ UNCHANGED <<orders, ledger, session>>
    BY <1>4, Zenon DEF BuysFit, BlockBuys
  <2>1. PICK pc \in {"mark", "block"} : proc' = [proc EXCEPT !.pc = pc, !.todo = proc.batch]
    BY <1>4, Zenon DEF BuysFit, BlockBuys
  <2>2. /\ proc'.pc = pc /\ proc'.phase = proc.phase /\ proc'.fresh = proc.fresh
        /\ proc'.batch = proc.batch /\ proc'.res = proc.res /\ proc'.sendq = proc.sendq
        /\ proc'.todo = proc.batch
    BY <1>f, <2>1 DEF ProcType
  <2> QED
    BY <1>f, <2>0, <2>2, BatchMoves
<1>5. ASSUME NEW t \in Trades, TrimBuy(t) PROVE SubmitInv'
  <2>0. At("fit") /\ UNCHANGED <<orders, ledger, session>>
    BY <1>5, Zenon DEF TrimBuy
  <2>1. PICK q \in 1..Qty[t] :
          proc' = [proc EXCEPT !.pc = "mark", !.todo = proc.batch,
                               !.sendq = [proc.sendq EXCEPT ![t] = q]]
    BY <1>5 DEF TrimBuy
  <2>2. /\ proc'.pc = "mark" /\ proc'.phase = proc.phase /\ proc'.fresh = proc.fresh
        /\ proc'.batch = proc.batch /\ proc'.res = proc.res /\ proc'.todo = proc.batch
        /\ proc'.sendq = [proc.sendq EXCEPT ![t] = q]
    BY <1>f, <2>1 DEF ProcType
  <2>3. \A u \in Trades : proc'.sendq[u] <= Qty[u]
    <3>1. proc.sendq \in [Trades -> 1..MaxQty] /\ q <= Qty[t]
      BY <1>f DEF ProcType
    <3> QED
      BY <1>f, <2>2, <3>1
  <2> QED
    BY <2>0, <2>2, <2>3, BatchMoves
<1>6. CASE BlockDone \/ RecordDone
  BY <1>6, <1>n DEF BlockDone, RecordDone, At
<1>7. CASE MarkDone
  <2>0. At("mark") /\ proc.todo = {} /\ UNCHANGED <<orders, ledger, session>>
        /\ proc' = [proc EXCEPT !.pc = "send", !.todo = proc.batch, !.fails = 0]
    BY <1>7, Zenon DEF MarkDone
  <2>2. /\ proc'.pc = "send" /\ proc'.phase = proc.phase /\ proc'.fresh = proc.fresh
        /\ proc'.batch = proc.batch /\ proc'.res = proc.res /\ proc'.sendq = proc.sendq
        /\ proc'.todo = proc.batch
    BY <1>f, <2>0 DEF ProcType
  <2> QED
    BY <1>f, <2>0, <2>2, BatchMoves
<1>8. CASE SendUnavailable \/ SendDone
  <2>1. PICK resOf \in {Unsent(proc.todo), proc.res} : StopSending(resOf)
    BY <1>8, Zenon DEF SendUnavailable, SendDone
  <2>2. \A u \in Trades : u \notin proc.todo => resOf[u] = proc.res[u]
    BY DEF Unsent
  <2>3. At("send") /\ UNCHANGED <<orders, ledger, session>>
    BY <1>8, Zenon DEF SendUnavailable, SendDone
  <2> QED
    BY <2>1, <2>2, <2>3, StopBetweenOrders
<1>9. ASSUME NEW t \in Trades, PlanTrade(t) PROVE SubmitInv'
  <2>0. At("plan_trade") /\ t \in proc.todo /\ UNCHANGED <<orders, session>>
    BY <1>9, Zenon DEF PlanTrade
  <2>1. CASE proc' = [proc EXCEPT !.todo = @ \ {t}] /\ ledger' = ledger
    <3>1. proc'.pc = "plan_trade" /\ proc'.todo = proc.todo \ {t} /\ proc'.fresh = proc.fresh
          /\ proc'.sendq = proc.sendq
      BY <1>f, <2>0, <2>1 DEF ProcType, At
    <3>2. ForeignEntries' = ForeignEntries
      BY <2>0, <2>1 DEF ForeignEntries, OpenEntries
    <3>3. RunInv'
      BY <2>0, <3>1, <3>2 DEF SubmitInv, RunInv, At, SubmitPcs
    <3>4. UnpricedInv'
      BY <2>0, <2>1, <3>1 DEF SubmitInv, UnpricedInv, At, PhasePcs
    <3>5. BatchQtyInv' /\ MarkInv' /\ BatchInv' /\ SentInv'
      BY <1>f, <3>1 DEF BatchQtyInv, MarkInv, BatchInv, SentInv, At, PhasePcs, SendPcs, WaitPcs
    <3> QED
      BY <3>3, <3>4, <3>5 DEF SubmitInv
  <2>2. CASE proc' = [proc EXCEPT !.todo = @ \ {t}, !.fresh = @ \cup {t}]
             /\ Upsert(t, PlannedRow(Qty[t]))
    BY <2>0, <2>2, PlanRowStep
  <2> QED
    BY <1>9, <2>1, <2>2, Zenon DEF PlanTrade
<1>10. ASSUME NEW t \in Trades, RepriceTrade(t) PROVE SubmitInv'
  <2>1. /\ At("reprice") /\ t \in proc.todo /\ UNCHANGED <<orders, session>>
        /\ proc' = [proc EXCEPT !.todo = @ \ {t}, !.batch = @ \cup {t}]
        /\ Upsert(t, PlannedRow(Qty[t]))
    BY <1>10, Zenon DEF RepriceTrade
  <2> QED
    BY <2>1, PlanRowStep
<1>11. ASSUME NEW t \in Trades,
              BlockOnQuote(t) \/ BlockBuy(t) \/ MarkUnconfirmed(t) \/ RecordPhaseResult(t)
       PROVE  SubmitInv'
  <2>1. /\ proc.pc \in {"reprice", "block", "mark", "record"} /\ t \in proc.todo
        /\ proc' = [proc EXCEPT !.todo = @ \ {t}] /\ UNCHANGED <<orders, session>>
    BY <1>11, Zenon DEF BlockOnQuote, BlockBuy, MarkUnconfirmed, RecordPhaseResult, At
  <2>2. PICK res : /\ RecordResult(t, res)
                   /\ At("mark") => res = Result("SubmissionUnconfirmed", NoId, 0)
    <3>1. CASE MarkUnconfirmed(t)
      BY <3>1, Zenon DEF MarkUnconfirmed
    <3>2. CASE BlockOnQuote(t) \/ BlockBuy(t) \/ RecordPhaseResult(t)
      <4>1. \E res : RecordResult(t, res)
        BY <3>2, Zenon DEF BlockOnQuote, BlockBuy, RecordPhaseResult
      <4>2. ~At("mark")
        BY <3>2 DEF BlockOnQuote, BlockBuy, RecordPhaseResult, At
      <4> QED
        BY <4>1, <4>2
    <3> QED
      BY <1>11, <3>1, <3>2
  <2>3. At("mark") => res.raw = "SubmissionUnconfirmed" /\ res.filled = 0
    BY <2>2 DEF Result
  <2>4. proc'.pc = proc.pc /\ proc'.todo = proc.todo \ {t} /\ SameBatch /\ proc'.res = proc.res
    BY <1>f, <2>1 DEF ProcType, SameBatch
  <2> QED
    BY <2>1, <2>2, <2>3, <2>4, OneTradeStep
<1>12. ASSUME NEW t \in Trades, SendFails(t) PROVE SubmitInv'
  <2>1. /\ proc.pc = "send" /\ t \in proc.todo /\ UNCHANGED <<orders, session>>
        /\ proc' = [proc EXCEPT !.todo = @ \ {t}, !.res[t] = Result("Failed", NoId, 0)]
        /\ RecordResult(t, Result("Failed", NoId, 0))
    BY <1>12, Zenon DEF SendFails, At
  <2>2. proc'.pc = proc.pc /\ proc'.todo = proc.todo \ {t} /\ SameBatch
        /\ proc'.res = [proc.res EXCEPT ![t] = Result("Failed", NoId, 0)]
    BY <1>f, <2>1 DEF ProcType, SameBatch
  <2>3. \A u \in Trades \ {t} : proc'.res[u] = proc.res[u]
    BY <1>f, <2>2 DEF ProcType
  <2> QED
    BY <2>1, <2>2, <2>3, OneTradeStep DEF At
<1>13. ASSUME NEW t \in Trades, PlaceOrder(t) PROVE SubmitInv'
  BY <1>13, PlaceOrderStep
<1>14. ASSUME NEW t \in Trades,
              \/ EmitPlaced(t) \/ OutcomeUncertain(t) \/ OrderAnswered(t)
              \/ AcceptanceTimeout(t) \/ CancelWaitEnds(t)
       PROVE  SubmitInv'
  BY <1>14, WaitActions
<1> QED
  BY <1>1, <1>2, <1>3, <1>4, <1>5, <1>6, <1>7, <1>8, <1>9, <1>10, <1>11, <1>12, <1>13, <1>14,
     Zenon DEF SubmissionStep


(* A pass leads into submit_plan only through check_stale_orders. *)
LEMMA ReconcilePc ==
    ASSUME ExecInv, ReconcileStep
    PROVE  \/ /\ proc'.pc \notin SubmitPcs
              /\ proc'.sendq = proc.sendq \/ proc'.sendq = Qty
           \/ /\ StaleCheck /\ proc' = [proc EXCEPT !.pc = "plan"] /\ ForeignEntries = {}
              /\ orders' = orders /\ ledger' = ledger
<1>t. proc \in ProcType
  BY DEF ExecInv, TypeOK, ExecTypeOK
<1> DEFINE Away == /\ proc'.pc \notin SubmitPcs
                   /\ proc'.sendq = proc.sendq \/ proc'.sendq = Qty
<1>1. ASSUME RestartShape PROVE Away
  BY <1>1, RestartFields DEF Restarts, SubmitPcs
<1>2. ASSUME proc' = [proc EXCEPT !.pc = "stale_cancel", !.todo = ForeignEntries] PROVE Away
  BY <1>t, <1>2 DEF ProcType, SubmitPcs
<1>3. ASSUME FetchOpenOrders \/ FetchHistory \/ FetchHistoryFails PROVE Away
  BY <1>t, <1>3, FetchFields DEF SubmitPcs
<1>4. ASSUME NEW t \in Trades, EndsEntry(t) PROVE Away
  BY <1>t, <1>4, EntryFields DEF SubmitPcs, SameMemory
<1>5. ASSUME NEW t \in Trades,
             \/ SendTimeoutCancel(t) \/ ReserveReplacement(t) \/ ResumeReplacement(t)
             \/ ReplaceCancelsOriginal(t) \/ PlaceReplacement(t) \/ SubmitReplacementPlaces(t)
             \/ SendStaleCancel(t)
      PROVE  Away
  <2>1. PICK pc \in {"rec_cancelled", "rep_cancel", "resume", "rep_wait", "rep_placed",
                     "resume_placed", "stale_cancelled"} : CallsBroker(t, pc)
    BY <1>t, <1>5, EntryCalls
  <2> QED
    BY <1>t, <2>1, CallFields DEF SubmitPcs, SameMemory
<1>6. ASSUME NEW t \in Trades, RecordStaleCancel(t) \/ SkipStaleCancel(t) PROVE Away
  BY <1>t, <1>6, StaleFields DEF SubmitPcs
<1> HIDE DEF Away
<1>7. \/ Away
      \/ /\ StaleCheck /\ proc' = [proc EXCEPT !.pc = "plan"] /\ ForeignEntries = {}
         /\ orders' = orders /\ ledger' = ledger
  BY <1>1, <1>2, <1>3, <1>4, <1>5, <1>6, ReconcileShape, Zenon
<1> QED
  BY <1>7 DEF Away

(* Every step of the system does. *)
LEMMA SubmitStep ==
    ASSUME ExecInv, ExecInv', IdentityInv, SubmitInv, [Next]_vars
    PROVE  SubmitInv'
<1>t. proc \in ProcType /\ BrokerTypeOK /\ BrokerTypeOK' /\ \A t \in Trades : proc.sendq[t] <= Qty[t]
  BY DEF ExecInv, TypeOK, ExecTypeOK, SubmitInv, BatchQtyInv
<1>q. \A t \in Trades : Qty[t] <= Qty[t]
  OBVIOUS
<1>1. CASE SubmissionStep
  BY <1>t, <1>1, SubmissionKeeps
<1>2. CASE BrokerActs
  <2>1. NoNewOrder
    BY <1>t, <1>2, BrokerMoves DEF BrokerActs, IdentityInv
  <2> QED
    BY <1>t, <1>2, <2>1, SubmitBroker DEF BrokerActs
<1>3. CASE UNCHANGED vars
  <2>1. orders' = orders /\ UNCHANGED execVars
    BY <1>3 DEF vars, execVars
  <2>2. NoNewOrder
    BY <1>t, <2>1, OrdersStay DEF IdentityInv
  <2> QED
    BY <1>t, <2>1, <2>2, SubmitBroker
<1>4. CASE Crash
  <2>1. proc'.pc = "idle" /\ proc'.sendq = Qty
    BY <1>4 DEF Crash, EndProcess, IdleProc
  <2> QED
    BY <1>q, <2>1, SubmitOutside DEF SubmitPcs
<1>5. ASSUME NEW t \in Trades, Tick(t) PROVE SubmitInv'
  <2>1. proc'.pc = "idle" /\ proc'.sendq = proc.sendq
    BY <1>5 DEF Tick, At
  <2> QED
    BY <1>t, <2>1, SubmitOutside DEF SubmitPcs
<1>6. CASE ReconcileStep
  <2>1. CASE /\ proc'.pc \notin SubmitPcs
             /\ proc'.sendq = proc.sendq \/ proc'.sendq = Qty
    BY <1>t, <1>q, <2>1, SubmitOutside
  <2>2. CASE /\ StaleCheck /\ proc' = [proc EXCEPT !.pc = "plan"] /\ ForeignEntries = {}
             /\ orders' = orders /\ ledger' = ledger
    <3>1. proc'.pc = "plan" /\ proc'.sendq = proc.sendq /\ session' = session
      BY <1>t, <2>2 DEF ProcType, StaleCheck
    <3>2. RunInv'
      BY <2>2, <3>1 DEF RunInv, ForeignEntries, OpenEntries
    <3>3. UnpricedInv' /\ BatchQtyInv' /\ MarkInv' /\ BatchInv' /\ SentInv'
      BY <1>t, <3>1 DEF UnpricedInv, BatchQtyInv, MarkInv, BatchInv, SentInv, At,
                        PhasePcs, SendPcs, WaitPcs
    <3> QED
      BY <3>2, <3>3 DEF SubmitInv
  <2> QED
    BY <1>6, <2>1, <2>2, ReconcilePc
<1> QED
  BY <1>1, <1>2, <1>3, <1>4, <1>5, <1>6 DEF Next

(* submit_plan: what the process knows of its batch is what the ledger and *)
(* the broker say, at every step of every phase.                           *)
THEOREM SubmitInvariant == Spec => []SubmitInv
<1>1. Init => SubmitInv
  <2> SUFFICES ASSUME Init PROVE SubmitInv
    OBVIOUS
  <2>1. proc.pc = "idle" /\ proc.sendq = Qty /\ \A t \in Trades : Qty[t] <= Qty[t]
    BY DEF Init, ExecInit, IdleProc
  <2> QED
    BY <2>1 DEF SubmitInv, UnpricedInv, BatchQtyInv, MarkInv, BatchInv, SentInv, RunInv, At,
                SubmitPcs, PhasePcs, SendPcs, WaitPcs
<1>2. ExecInv /\ ExecInv' /\ IdentityInv /\ SubmitInv /\ [Next]_vars => SubmitInv'
  BY SubmitStep
<1> QED
  BY <1>1, <1>2, ExecInvariant, IdentityInvariant, PTL DEF Spec

(* check_stale_orders: a rebalance sends an order only while no other run  *)
(* has an unresolved row.                                                  *)
THEOREM StaleRunsBlock == Spec => NoOrderOverUnresolvedRun
<1>1. SubmitInv => (At("send") => ForeignEntries = {})
  BY DEF SubmitInv, RunInv, At, SubmitPcs
<1>2. SubmitInv /\ [Next]_vars
        => [Len(orders') > Len(orders) /\ proc.job = "rebalance" /\ At("send")
              => ForeignEntries = {}]_vars
  BY <1>1
<1> QED
  BY <1>2, SubmitInvariant, PTL DEF Spec, NoOrderOverUnresolvedRun

=============================================================================
