--------------------------- MODULE TrackingProofs ---------------------------
(***************************************************************************)
(* Proofs about ExecutionManager, continued: no live order escapes the     *)
(* ledger, a trade has at most one live order, only an unfilled cancelled  *)
(* order is replaced, a terminal row is final and, as long as fills can be *)
(* read and nothing is replaced, true, the working buys are covered by     *)
(* cash, and the ledger implements OrderRows.                              *)
(***************************************************************************)
EXTENDS ExecutionProofs, SumTheorems

USE MaxQtyAssumption, BrokerAssumption, ExecutionAssumption

-----------------------------------------------------------------------------
(* The rows a pass works on are open, and it writes no other. *)

(* Inside reconcile's loop over the open entries. *)
PassPcs == {"rec_hist", "rec_entry", "rec_cancelled"} \cup ReplacePcs

OpenInv ==
    /\ proc.pc \in PassPcs \cup {"stale_cancel", "stale_cancelled"} =>
          \A t \in proc.todo : IsOpen(ledger[t])
    /\ proc.pc \in ReplacePcs \cup {"rec_cancelled", "stale_cancelled"} => proc.cur \in proc.todo

(* Outside a pass, and outside check_stale_orders, there is nothing to say. *)
LEMMA OpenOutside ==
    ASSUME proc'.pc \in {"idle", "rec_open", "stale"} \cup SubmitPcs
    PROVE  OpenInv'
BY DEF OpenInv, PassPcs, ReplacePcs, SubmitPcs

(* replace_order is entered with an open row. *)
LEMMA ReservedRow ==
    ASSUME ExecInv, NEW t \in Trades, ReserveReplacement(t)
    PROVE  /\ IsOpen(ledger'[t]) /\ OnlyRow(t) /\ orders' = orders
           /\ \E s \in proc.opens : FollowsOpen(t, s) /\ ledger'[t].oid = s.id
<1>t. ledger[t] \in Row
  BY DEF ExecInv, TypeOK, ExecTypeOK
<1>1. PICK s \in proc.opens :
        /\ FollowsOpen(t, s)
        /\ Upsert(t, [Followed(t, s) EXCEPT
                          !.st = "replace_pending", !.raw = "ReplacementUnconfirmed",
                          !.rc = 1, !.repl = TRUE])
  BY Zenon DEF ReserveReplacement
<1>2. /\ ledger'[t] = [Followed(t, s) EXCEPT
                          !.st = "replace_pending", !.raw = "ReplacementUnconfirmed",
                          !.rc = 1, !.repl = TRUE]
      /\ OnlyRow(t)
  BY <1>1, UpsertRow DEF OnlyRow
<1>3. Followed(t, s) \in Row /\ Followed(t, s).oid = s.id
  BY FollowedRow
<1>4. ledger'[t].st = "replace_pending" /\ ledger'[t].oid = s.id
  BY <1>2, <1>3 DEF Row
<1>5. orders' = orders
  BY DEF ReserveReplacement
<1> QED
  BY <1>1, <1>2, <1>4, <1>5 DEF IsOpen, TerminalStates

(* The entry a pass is busy with is one of the open ones. *)
LEMMA EntryIsOpen ==
    ASSUME OpenInv, NEW t, InEntry(t) \/ (At("stale_cancelled") /\ proc.cur = t)
    PROVE  t \in proc.todo /\ IsOpen(ledger[t])
BY DEF OpenInv, InEntry, AtEntry, At, PassPcs, ReplacePcs

(* A reconcile pass works on open rows only. *)
LEMMA ReconcileOpen ==
    ASSUME ExecInv, OpenInv, ReconcileStep
    PROVE  OpenInv'
<1>t. proc \in ProcType /\ ledger \in [Trades -> Row] /\ proc.todo \subseteq Trades
  BY DEF ExecInv, TypeOK, ExecTypeOK, ProcType
<1>1. ASSUME RestartShape PROVE OpenInv'
  BY <1>1, RestartFields, OpenOutside DEF Restarts
<1>2. ASSUME proc' = [proc EXCEPT !.pc = "plan"] PROVE OpenInv'
  <2>1. proc'.pc = "plan"
    BY <1>t, <1>2 DEF ProcType
  <2> QED
    BY <2>1, OpenOutside DEF SubmitPcs
<1>3. ASSUME proc' = [proc EXCEPT !.pc = "stale_cancel", !.todo = ForeignEntries], ledger' = ledger
      PROVE  OpenInv'
  <2>1. proc'.pc = "stale_cancel" /\ proc'.todo = ForeignEntries
    BY <1>t, <1>3 DEF ProcType
  <2> QED
    BY <1>3, <2>1 DEF OpenInv, ForeignEntries, OpenEntries, PassPcs, ReplacePcs
<1>4. ASSUME FetchOpenOrders \/ FetchHistory \/ FetchHistoryFails PROVE OpenInv'
  <2>1. proc'.pc \in {"rec_entry", "rec_hist"} /\ ledger' = ledger
    BY <1>t, <1>4, FetchFields
  <2>2. CASE FetchOpenOrders
    <3>1. PICK pc, S : proc' = [proc EXCEPT !.pc = pc, !.opens = S, !.todo = OpenEntries]
      BY <2>2, Zenon DEF FetchOpenOrders
    <3>2. proc'.todo = OpenEntries
      BY <1>t, <3>1 DEF ProcType
    <3> QED
      BY <2>1, <3>2 DEF OpenInv, OpenEntries, PassPcs, ReplacePcs
  <2>3. CASE FetchHistory \/ FetchHistoryFails
    <3>1. proc'.todo = proc.todo /\ proc.pc = "rec_hist"
      BY <1>t, <2>3, HistoryFields
    <3> QED
      BY <2>1, <3>1 DEF OpenInv, PassPcs, ReplacePcs
  <2> QED
    BY <1>4, <2>2, <2>3
<1>5. ASSUME NEW t \in Trades, EndsEntry(t), InEntry(t), OnlyRow(t) PROVE OpenInv'
  <2>1. proc'.pc = "rec_entry" /\ proc'.todo = proc.todo \ {t}
    BY <1>t, <1>5, EntryFields
  <2>2. \A u \in proc.todo : IsOpen(ledger[u])
    BY <1>5 DEF OpenInv, InEntry, AtEntry, At, PassPcs
  <2> QED
    BY <1>t, <1>5, <2>1, <2>2 DEF OpenInv, OnlyRow, PassPcs, ReplacePcs
<1>6. ASSUME NEW t \in Trades,
             \/ SendTimeoutCancel(t) \/ ReserveReplacement(t) \/ ResumeReplacement(t)
             \/ ReplaceCancelsOriginal(t) \/ PlaceReplacement(t) \/ SubmitReplacementPlaces(t)
      PROVE  OpenInv'
  <2>1. PICK pc : CallsBroker(t, pc) /\ InEntry(t)
    BY <1>t, <1>6, EntryCalls DEF InEntry
  <2>2. proc'.cur = t /\ proc'.todo = proc.todo
    BY <1>t, <2>1, CallFields
  <2>3. t \in proc.todo /\ \A u \in proc.todo : IsOpen(ledger[u])
    BY <2>1, EntryIsOpen DEF OpenInv, InEntry, AtEntry, At, PassPcs
  <2>4. CASE ReserveReplacement(t)
    BY <1>t, <2>2, <2>3, <2>4, ReservedRow DEF OpenInv, OnlyRow
  <2>5. CASE ~ReserveReplacement(t)
    <3>1. ledger' = ledger
      BY <1>6, <2>5, Zenon DEF SendTimeoutCancel, ResumeReplacement, ReplaceCancelsOriginal,
                               PlaceReplacement, SubmitReplacementPlaces
    <3> QED
      BY <2>2, <2>3, <3>1 DEF OpenInv
  <2> QED
    BY <2>4, <2>5
<1>7. ASSUME NEW t \in Trades, SendStaleCancel(t) PROVE OpenInv'
  <2>1. proc'.cur = t /\ proc'.todo = proc.todo /\ proc'.pc = "stale_cancelled"
    BY <1>t, <1>7, EntryCalls, CallFields
  <2>2. ledger' = ledger /\ t \in proc.todo /\ proc.pc = "stale_cancel"
    BY <1>7, Zenon DEF SendStaleCancel, At
  <2> QED
    BY <2>1, <2>2 DEF OpenInv
<1>8. ASSUME NEW t \in Trades, RecordStaleCancel(t) \/ SkipStaleCancel(t) PROVE OpenInv'
  <2>1. proc'.todo = proc.todo \ {t} /\ proc'.pc = "stale_cancel"
    BY <1>t, <1>8, StaleFields
  <2>2. proc.pc \in {"stale_cancel", "stale_cancelled"}
    BY <1>8, Zenon DEF RecordStaleCancel, SkipStaleCancel, At
  <2>3. OnlyRow(t)
    <3>1. ledger' = ledger \/ \E row : Upsert(t, row)
      BY <1>8, Zenon DEF RecordStaleCancel, SkipStaleCancel
    <3> QED
      BY <3>1, UpsertRow, Zenon DEF OnlyRow
  <2> QED
    BY <1>t, <2>1, <2>2, <2>3 DEF OpenInv, OnlyRow, PassPcs, ReplacePcs
<1> QED
  BY <1>1, <1>2, <1>3, <1>4, <1>5, <1>6, <1>7, <1>8, ReconcileShape, Zenon

(* reconcile and check_stale_orders only ever act on open rows. *)
THEOREM OpenInvariant == Spec => []OpenInv
<1>1. Init => OpenInv
  <2> SUFFICES ASSUME Init PROVE OpenInv
    OBVIOUS
  <2>1. proc.pc = "idle"
    BY DEF Init, ExecInit, IdleProc
  <2> QED
    BY <2>1 DEF OpenInv, PassPcs, ReplacePcs
<1>2. ExecInv /\ OpenInv /\ [Next]_vars => OpenInv'
  <2> SUFFICES ASSUME ExecInv, OpenInv, [Next]_vars PROVE OpenInv'
    OBVIOUS
  <2>t. proc \in ProcType
    BY DEF ExecInv, TypeOK, ExecTypeOK
  <2>1. CASE SubmissionStep
    BY <2>t, <2>1, SubmissionPc, OpenOutside
  <2>2. CASE ReconcileStep
    BY <2>2, ReconcileOpen
  <2>3. CASE BrokerActs \/ UNCHANGED vars
    <3>1. proc' = proc /\ ledger' = ledger
      BY <2>3 DEF BrokerActs, execVars, vars
    <3> QED
      BY <3>1 DEF OpenInv
  <2>4. ASSUME Crash \/ \E t \in Trades : Tick(t) PROVE OpenInv'
    <3>1. proc'.pc = "idle"
      <4>1. CASE Crash
        BY <4>1 DEF Crash, EndProcess, IdleProc
      <4>2. CASE \E t \in Trades : Tick(t)
        BY <4>2 DEF Tick, At
      <4> QED
        BY <2>4, <4>1, <4>2
    <3> QED
      BY <3>1, OpenOutside
  <2> QED
    BY <2>1, <2>2, <2>3, <2>4 DEF Next
<1> QED
  BY <1>1, <1>2, ExecInvariant, PTL DEF Spec


-----------------------------------------------------------------------------
(* Terminal rows. *)

(* The row a step of a pass writes is open. *)
LEMMA PassWritesOpen ==
    ASSUME ExecInv, OpenInv, ReconcileStep, NEW u \in Trades, ledger'[u] # ledger[u]
    PROVE  IsOpen(ledger[u])
<1>0. ledger' # ledger
  OBVIOUS
<1>1. ASSUME NEW t \in Trades,
             \/ AdoptReplacement(t) \/ RecordReplacement(t) \/ FollowOpenOrder(t)
             \/ RecordTimeoutCancel(t) \/ OriginalFilledMeanwhile(t) \/ ReplaceDeferred(t)
             \/ CloseFromHistory(t) \/ LeaveUnverified(t)
      PROVE  IsOpen(ledger[u])
  <2>1. InEntry(t) /\ OnlyRow(t)
    BY <1>1, EntryStepEnds, Zenon
  <2>2. u = t
    BY <2>1 DEF OnlyRow
  <2> QED
    BY <2>1, <2>2, EntryIsOpen, Zenon
<1>2. ASSUME NEW t \in Trades, ReserveReplacement(t) PROVE IsOpen(ledger[u])
  <2>1. OnlyRow(t) /\ InEntry(t)
    BY <1>2, ReservedRow DEF FollowsOpen, InEntry
  <2>2. u = t
    BY <2>1 DEF OnlyRow
  <2> QED
    BY <2>1, <2>2, EntryIsOpen, Zenon
<1>3. ASSUME NEW t \in Trades, RecordStaleCancel(t) PROVE IsOpen(ledger[u])
  <2>1. Upsert(t, [ledger[t] EXCEPT !.st = "cancel_pending"]) /\ At("stale_cancelled") /\ proc.cur = t
    BY <1>3, Zenon DEF RecordStaleCancel
  <2>2. u = t
    BY <2>1, UpsertRow
  <2> QED
    BY <2>1, <2>2, EntryIsOpen, Zenon
<1> QED
  BY <1>0, <1>1, <1>2, <1>3, ReconcileWrites, Zenon

(* Outside its batch submit_plan writes only rows that stand for no order, *)
(* or that it has planned itself.                                          *)
LEMMA SubmissionWritesBatch ==
    ASSUME ExecInv, SubmitInv, SubmissionStep, NEW u \in Trades, ledger'[u] # ledger[u]
    PROVE  u \in proc.batch \/ ~MustReplay(ledger[u]) \/ ledger[u].st = "planned"
<1> DEFINE Free == u \in proc.batch \/ ~MustReplay(ledger[u]) \/ ledger[u].st = "planned"
<1>t. ledger \in [Trades -> Row]
  BY DEF ExecInv, TypeOK, ExecTypeOK
<1>0. ledger' # ledger
  OBVIOUS
<1>w. ASSUME NEW t \in Trades, NEW res, RecordResult(t, res) PROVE u = t
  BY <1>w, RecordWrites
<1>p. ASSUME NEW t \in Trades, NEW row, Upsert(t, row) PROVE u = t
  BY <1>p, UpsertRow
<1>1. ASSUME NEW t \in Trades, PlanTrade(t) PROVE Free
  <2>1. ledger' = ledger \/ (~MustReplay(ledger[t]) /\ Upsert(t, PlannedRow(Qty[t])))
    BY <1>1, Zenon DEF PlanTrade
  <2> QED
    BY <1>0, <1>p, <2>1
<1>2. ASSUME NEW t \in Trades, RepriceTrade(t) \/ BlockOnQuote(t) PROVE Free
  <2>1. /\ At("reprice") /\ t \in proc.todo
        /\ Upsert(t, PlannedRow(Qty[t])) \/ \E res : RecordResult(t, res)
    BY <1>2, Zenon DEF RepriceTrade, BlockOnQuote
  <2>2. u = t
    BY <1>w, <1>p, <2>1
  <2> QED
    BY <2>1, <2>2 DEF SubmitInv, UnpricedInv
<1>3. ASSUME NEW t \in Trades,
             BlockBuy(t) \/ MarkUnconfirmed(t) \/ SendFails(t) \/ RecordPhaseResult(t)
      PROVE  Free
  <2>1. /\ proc.pc \in {"block", "mark", "send", "record"} /\ t \in proc.todo
        /\ \E res : RecordResult(t, res)
    BY <1>3, Zenon DEF BlockBuy, MarkUnconfirmed, SendFails, RecordPhaseResult, At
  <2>2. u = t
    BY <1>w, <2>1
  <2> QED
    BY <2>1, <2>2 DEF SubmitInv, BatchInv, SendPcs
<1>4. ASSUME NEW t \in Trades,
             \/ EmitPlaced(t) \/ OutcomeUncertain(t) \/ OrderAnswered(t)
             \/ CancelWaitEnds(t) \/ AcceptanceTimeout(t)
      PROVE  Free
  <2>1. /\ proc.pc \in {"placed", "wait", "wait_cancel"} /\ proc.cur = t
        /\ ledger' = ledger \/ \E res : RecordResult(t, res)
    BY <1>4, Zenon DEF EmitPlaced, OutcomeUncertain, OrderAnswered, CancelWaitEnds,
                       AcceptanceTimeout, EmitChange, At
  <2>2. u = t
    BY <1>0, <1>w, <2>1
  <2> QED
    BY <2>1, <2>2 DEF SubmitInv, BatchInv, WaitPcs
<1>5. ASSUME NEW t \in Trades, TrimBuy(t) \/ PlaceOrder(t) PROVE ledger' = ledger
  BY <1>5, Zenon DEF TrimBuy, PlaceOrder
<1>6. ASSUME \/ BuildPlan \/ PlanDone \/ RepriceDone
             \/ BuysFit \/ BlockBuys \/ BlockDone \/ MarkDone
             \/ SendUnavailable \/ SendDone \/ RecordDone
      PROVE  ledger' = ledger
  BY <1>6, Zenon DEF BuildPlan, PlanDone, RepriceDone, BuysFit, BlockBuys, BlockDone, MarkDone,
                     SendUnavailable, SendDone, RecordDone
<1> HIDE DEF Free
<1>7. Free
  BY <1>0, <1>1, <1>2, <1>3, <1>4, <1>5, <1>6, Zenon DEF SubmissionStep
<1> QED
  BY <1>7 DEF Free

(* OrderStore.get and _idempotent_replay: outside the batch that is being  *)
(* submitted, a terminal row that stands for a broker order is final.      *)
THEOREM TerminalRowsAreFinal == Spec => TerminalRowIsFinal
<1> DEFINE Final == \A t \in Trades \ proc.batch :
                      IsTerminal(ledger[t]) /\ MustReplay(ledger[t]) => ledger'[t] = ledger[t]
<1>1. ExecInv /\ SubmitInv /\ OpenInv /\ [Next]_vars => [Final]_vars
  <2> SUFFICES ASSUME ExecInv, SubmitInv, OpenInv, Next, NEW t \in Trades, t \notin proc.batch,
                      IsTerminal(ledger[t]), MustReplay(ledger[t]), ledger'[t] # ledger[t]
               PROVE  FALSE
    OBVIOUS
  <2>0. ~IsOpen(ledger[t]) /\ ledger[t].st # "planned"
    BY DEF IsTerminal, IsOpen, TerminalStates
  <2>1. CASE SubmissionStep
    BY <2>0, <2>1, SubmissionWritesBatch
  <2>2. CASE ReconcileStep
    BY <2>0, <2>2, PassWritesOpen
  <2>3. CASE BrokerActs \/ Crash
    BY <2>3 DEF BrokerActs, execVars, Crash
  <2>4. ASSUME NEW u \in Trades, Tick(u) PROVE FALSE
    <3>1. IsOpen(ledger[u]) /\ \E row : Upsert(u, row)
      BY <2>4, Zenon DEF Tick
    <3>2. t = u
      BY <3>1, UpsertRow
    <3> QED
      BY <2>0, <3>1, <3>2
  <2> QED
    BY <2>1, <2>2, <2>3, <2>4 DEF Next
<1> HIDE DEF Final
<1>2. [][Final]_vars => TerminalRowIsFinal
  BY PTL DEF TerminalRowIsFinal, Final
<1> QED
  BY <1>1, <1>2, ExecInvariant, SubmitInvariant, OpenInvariant, PTL DEF Spec


-----------------------------------------------------------------------------
(* Every live order has an open row, and a trade has one at most. *)

(* The row that the ledger has for order i follows it. *)
Tracks(i) ==
    LET row == ledger[orders[i].t] IN
    /\ IsOpen(row)
    /\ row.ref = orders[i].ref \/ (row.repl /\ orders[i].ref = "repl")

(* A status that is not final, with something left to fill, keeps a row    *)
(* open.                                                                   *)
LEMMA LooseIsOpen ==
    ASSUME NEW raw \in LooseRaw, NEW filled, NEW rem, filled > 0 => rem # 0
    PROVE  ClassifyLifecycle(raw, filled, rem) \notin TerminalStates \cup {"absent"}
BY DEF ClassifyLifecycle, LooseRaw, LiveRaw, CancelledRaw, SubmissionFailureRaw, TerminalStates

(* Orders that are live after a step of a kind other than placeOrder were  *)
(* live before it.                                                         *)
LEMMA LiveBefore ==
    ASSUME NoNewOrder
    PROVE  /\ LiveIds' \subseteq LiveIds
           /\ \A i \in LiveIds' : orders'[i].t = orders[i].t /\ orders'[i].ref = orders[i].ref
<1>1. ASSUME NEW i \in LiveIds'
      PROVE  i \in LiveIds /\ orders'[i].t = orders[i].t /\ orders'[i].ref = orders[i].ref
  <2>1. i \in Ids /\ Kept(i) /\ orders'[i].st \in LiveRaw
    BY <1>1 DEF NoNewOrder, LiveIds, IsLive
  <2> QED
    BY <2>1 DEF Kept, LiveIds, IsLive
<1> QED
  BY <1>1

(* Without a new order it is enough that the live orders stay tracked. *)
LEMMA NoNewOrderTracks ==
    ASSUME NoNewOrder, OneLiveOrder,
           \A i \in LiveIds' : i \in LiveIds => Tracks(i)'
    PROVE  LiveOrderIsTracked' /\ OneLiveOrder'
<1>1. /\ LiveIds' \subseteq LiveIds
      /\ \A i \in LiveIds' : orders'[i].t = orders[i].t
  BY LiveBefore
<1>2. OneLiveOrder'
  BY <1>1 DEF OneLiveOrder
<1>3. LiveOrderIsTracked'
  BY <1>1 DEF LiveOrderIsTracked, Tracks
<1> QED
  BY <1>2, <1>3

(* A row that keeps its status and identity, or is left alone. *)
LEMMA SameRowTracks ==
    ASSUME ExecInv, NoNewOrder, LiveOrderIsTracked, NEW i \in LiveIds',
           ledger'[orders[i].t] = ledger[orders[i].t]
    PROVE  Tracks(i)'
<1>1. i \in LiveIds /\ orders'[i].t = orders[i].t /\ orders'[i].ref = orders[i].ref
  BY LiveBefore
<1> QED
  BY <1>1 DEF LiveOrderIsTracked, Tracks

(* placeOrder for a trade none of whose orders is live, into a row that is *)
(* open and has the orderRef.                                              *)
LEMMA NewOrderTracks ==
    ASSUME ExecInv, LiveOrderIsTracked, OneLiveOrder, ledger' = ledger,
           NEW t \in Trades, NEW ref \in Refs, NEW q, NewOrderIs(t, ref, q),
           OrdersOf(t) \cap LiveIds = {}, IsOpen(ledger[t]),
           ledger[t].ref = ref \/ (ledger[t].repl /\ ref = "repl")
    PROVE  LiveOrderIsTracked' /\ OneLiveOrder'
<1>1. ASSUME NEW i \in LiveIds'
      PROVE  \/ i \in LiveIds /\ orders'[i] = orders[i] /\ orders[i].t # t
             \/ i = Len(orders') /\ orders'[i].t = t /\ orders'[i].ref = ref
  <2>1. CASE i \in Ids
    <3>1. orders'[i] = orders[i] /\ i \in LiveIds
      BY <1>1, <2>1 DEF NewOrderIs, LiveIds, IsLive
    <3> QED
      BY <2>1, <3>1 DEF OrdersOf
  <2>2. CASE i \notin Ids
    <3>1. i = Len(orders') /\ orders'[i] = NewOrder(t, ref, q)
      BY <1>1, <2>2 DEF NewOrderIs, LiveIds
    <3> QED
      BY <3>1 DEF NewOrder
  <2> QED
    BY <2>1, <2>2
<1>2. OneLiveOrder'
  <2> SUFFICES ASSUME NEW i \in LiveIds', NEW j \in LiveIds', orders'[i].t = orders'[j].t
               PROVE  i = j
    BY DEF OneLiveOrder
  <2> QED
    BY <1>1 DEF OneLiveOrder
<1>3. LiveOrderIsTracked'
  <2> SUFFICES ASSUME NEW i \in LiveIds' PROVE Tracks(i)'
    BY DEF LiveOrderIsTracked, Tracks
  <2>1. CASE i \in LiveIds /\ orders'[i] = orders[i]
    BY <2>1 DEF LiveOrderIsTracked, Tracks
  <2>2. CASE orders'[i].t = t /\ orders'[i].ref = ref
    BY <2>2 DEF Tracks
  <2> QED
    BY <1>1, <2>1, <2>2
<1> QED
  BY <1>2, <1>3


(* _record_result: a result that does not claim more than the broker did   *)
(* leaves the row of a live order open.                                    *)
LEMMA ResultTracks ==
    ASSUME ExecInv, IdentityInv, SubmitInv, LiveOrderIsTracked, NoNewOrder,
           NEW t \in Trades, t \in proc.batch, proc.pc \in SendPcs \cup {"record"},
           NEW res, res.filled \in Nat, RecordResult(t, res),
           NEW i \in LiveIds', orders[i].t = t, ResultOf(i, res)
    PROVE  Tracks(i)'
<1>1. i \in LiveIds /\ i \in Ids /\ orders'[i].t = orders[i].t /\ orders'[i].ref = orders[i].ref
  BY LiveBefore DEF LiveIds
<1>2. res.raw \in LooseRaw /\ res.filled <= orders[i].filled /\ IsLive(i)
  BY <1>1 DEF ResultOf, LiveIds
<1>3. orders[i].filled < orders[i].qty /\ orders[i].ref = "base" /\ orders[i].qty = proc.sendq[t]
  BY <1>1, <1>2 DEF IdentityInv, QtyInv, SubmitInv, SentInv
<1>4. IsOpen(ledger[t]) /\ ledger[t].ref = "base" /\ ledger[t].qty >= proc.sendq[t]
  BY <1>1, <1>3 DEF LiveOrderIsTracked, SubmitInv, BatchQtyInv
<1>5. /\ ledger[t] \in Row /\ ledger'[t] = WithOrderResult(ledger[t], res)
      /\ orders[i].filled \in Nat /\ orders[i].qty \in Nat /\ ledger[t].qty \in Nat
  BY <1>1, <1>4, RecordWrites, OrderStatusRaw DEF RecordBase, ExecInv, TypeOK, Row
<1>6. res.filled > 0 => Monus(ledger[t].qty, res.filled) # 0
  BY <1>2, <1>3, <1>4, <1>5 DEF Monus
<1>7. /\ ledger'[t].st = ClassifyLifecycle(res.raw, res.filled, Monus(ledger[t].qty, res.filled))
      /\ ledger'[t].ref = ledger[t].ref
  BY <1>5, ResultFields
<1>8. ledger'[t].st \notin TerminalStates \cup {"absent"}
  BY <1>2, <1>6, <1>7, LooseIsOpen
<1> QED
  BY <1>1, <1>3, <1>4, <1>7, <1>8 DEF Tracks, IsOpen

(* The results recorded after placeOrder say nothing that is not so. *)
LEMMA WaitResults ==
    ASSUME ExecInv, IdentityInv, SubmitInv, NEW t \in Trades,
           \/ EmitPlaced(t) \/ OutcomeUncertain(t) \/ OrderAnswered(t)
           \/ AcceptanceTimeout(t) \/ CancelWaitEnds(t)
    PROVE  /\ proc.pc \in WaitPcs /\ proc.cur = t
           /\ \/ ledger' = ledger
              \/ \E res : /\ res.filled \in Nat /\ ResultOf(Placed, res)
                          /\ RecordResult(t, res)
<1> DEFINE Says == \/ ledger' = ledger
                   \/ \E res : /\ res.filled \in Nat /\ ResultOf(Placed, res)
                               /\ RecordResult(t, res)
<1>0. proc.pc \in WaitPcs /\ proc.cur = t
  <2>1. proc.pc \in {"placed", "wait", "wait_cancel"} /\ proc.cur = t
    BY Zenon DEF EmitPlaced, OutcomeUncertain, OrderAnswered, CancelWaitEnds, AcceptanceTimeout, At
  <2> QED
    BY <2>1 DEF WaitPcs
<1>w. /\ orders[Placed].filled \in Nat /\ ResultOf(Placed, Reported)
      /\ Reported.filled = orders[Placed].filled
  BY <1>0, WaitFacts DEF Reported, Result, IdentityInv
<1>1. ASSUME RecordResult(t, Reported) PROVE Says
  BY <1>1, <1>w, Zenon
<1>2. ASSUME EmitPlaced(t) PROVE Says
  BY <1>1, <1>2, Zenon DEF EmitPlaced
<1>3. ASSUME OrderAnswered(t) \/ CancelWaitEnds(t) PROVE Says
  BY <1>1, <1>3, Zenon DEF OrderAnswered, CancelWaitEnds, EmitChange
<1>4. ASSUME AcceptanceTimeout(t) PROVE Says
  <2> DEFINE r == Result("PendingCancel", Placed, Reported.filled)
  <2>1. ledger' = ledger \/ RecordResult(t, r)
    BY <1>4, Zenon DEF AcceptanceTimeout
  <2>2. r.filled = orders[Placed].filled /\ r.raw = "PendingCancel"
    BY <1>w DEF Result
  <2>3. r.filled \in Nat /\ ResultOf(Placed, r)
    BY <1>w, <2>2 DEF ResultOf, LooseRaw, LiveRaw
  <2> HIDE DEF r
  <2> QED
    BY <2>1, <2>3, Zenon
<1>5. ASSUME OutcomeUncertain(t) PROVE Says
  <2>1. PICK oid \in {NoId, Placed} :
          RecordResult(t, Result("SubmissionUnconfirmed", oid,
                                 IF oid = NoId THEN 0 ELSE orders[Placed].filled))
    BY <1>5, Zenon DEF OutcomeUncertain
  <2> DEFINE r == Result("SubmissionUnconfirmed", oid, IF oid = NoId THEN 0 ELSE orders[Placed].filled)
  <2>2. r.filled \in Nat /\ r.filled <= orders[Placed].filled /\ r.raw = "SubmissionUnconfirmed"
    BY <1>w DEF Result
  <2>3. ResultOf(Placed, r)
    BY <2>2 DEF ResultOf, LooseRaw
  <2>4. RecordResult(t, r)
    BY <2>1
  <2> HIDE DEF r
  <2> QED
    BY <2>2, <2>3, <2>4, Zenon
<1> HIDE DEF Says
<1>6. Says
  BY <1>2, <1>3, <1>4, <1>5
<1> QED
  BY <1>0, <1>6 DEF Says

(* The rows written before a trade is sent belong to trades that have no   *)
(* order.                                                                  *)
LEMMA UnsentWrites ==
    ASSUME ExecInv, FamilyInv, SubmitInv, NEW t \in Trades,
           \/ PlanTrade(t) /\ ledger' # ledger
           \/ RepriceTrade(t) \/ BlockOnQuote(t) \/ BlockBuy(t)
           \/ MarkUnconfirmed(t) \/ SendFails(t) \/ PlaceOrder(t)
    PROVE  OrdersOf(t) = {}
<1>0. BaseOrders(t) = {}
  <2>1. CASE PlanTrade(t) /\ ledger' # ledger
    <3>1. ~MustReplay(ledger[t])
      BY <2>1, Zenon DEF PlanTrade
    <3> QED
      BY <3>1 DEF ExecInv, ResubmittableMeansUnsent
  <2>2. CASE RepriceTrade(t) \/ BlockOnQuote(t) \/ BlockBuy(t) \/ MarkUnconfirmed(t)
             \/ SendFails(t) \/ PlaceOrder(t)
    <3>1. proc.pc \in {"reprice", "block", "mark", "send"} /\ t \in proc.todo
      BY <2>2, Zenon DEF RepriceTrade, BlockOnQuote, BlockBuy, MarkUnconfirmed, SendFails,
                         PlaceOrder, At
    <3>2. t \in ToSend
      BY <3>1, ToSendValue DEF SendPcs
    <3> QED
      BY <3>2, PhaseFacts
  <2> QED
    BY <2>1, <2>2
<1> QED
  BY <1>0 DEF OrdersOf, FamilyInv

(* submit_plan never loses an order it has sent. *)
LEMMA SubmissionTracks ==
    ASSUME ExecInv, IdentityInv, SubmitInv, LiveOrderIsTracked, OneLiveOrder,
           SubmissionStep
    PROVE  LiveOrderIsTracked' /\ OneLiveOrder'
<1> USE DEF IdentityInv
<1>t. ledger \in [Trades -> Row]
  BY DEF ExecInv, TypeOK, ExecTypeOK
<1>1. CASE NoNewOrder
  <2> SUFFICES ASSUME NEW i \in LiveIds', i \in LiveIds PROVE Tracks(i)'
    BY <1>1, NoNewOrderTracks
  <2>0. ledger'[orders[i].t] = ledger[orders[i].t] => Tracks(i)'
    BY <1>1, SameRowTracks
  <2>i. i \in Ids
    BY DEF LiveIds
  <2>1. ASSUME NEW t \in Trades, OrdersOf(t) = {}, \A u \in Trades \ {t} : ledger'[u] = ledger[u]
        PROVE  Tracks(i)'
    <3>1. orders[i].t \in Trades /\ orders[i].t # t
      BY <2>i, <2>1, OrderStatusRaw DEF OrdersOf, ExecInv, TypeOK
    <3> QED
      BY <2>0, <2>1, <3>1
  <2>2. ASSUME NEW t \in Trades,
               \/ PlanTrade(t) \/ RepriceTrade(t) \/ BlockOnQuote(t) \/ BlockBuy(t)
               \/ MarkUnconfirmed(t) \/ SendFails(t)
        PROVE  Tracks(i)'
    <3>0. CASE ledger' = ledger
      BY <2>0, <3>0
    <3>1. CASE ledger' # ledger
      <4>1. OrdersOf(t) = {}
        BY <2>2, <3>1, UnsentWrites, Zenon
      <4>2. Upsert(t, PlannedRow(Qty[t])) \/ \E res : RecordResult(t, res)
        BY <2>2, <3>1, Zenon DEF PlanTrade, RepriceTrade, BlockOnQuote, BlockBuy,
                                 MarkUnconfirmed, SendFails
      <4>3. \A u \in Trades \ {t} : ledger'[u] = ledger[u]
        BY <4>2, UpsertRow, RecordWrites, Zenon
      <4> QED
        BY <2>1, <4>1, <4>3
    <3> QED
      BY <3>0, <3>1
  <2>3. ASSUME NEW t \in Trades, t \in proc.batch, proc.pc \in SendPcs \cup {"record"}, NEW res,
               res.filled \in Nat, RecordResult(t, res),
               \A j \in Ids : orders[j].t = t => ResultOf(j, res)
        PROVE  Tracks(i)'
    <3>1. CASE orders[i].t = t
      BY <1>1, <2>3, <2>i, <3>1, ResultTracks
    <3>2. CASE orders[i].t # t
      <4>1. orders[i].t \in Trades
        BY <2>i, OrderStatusRaw DEF ExecInv, TypeOK
      <4> QED
        BY <2>0, <2>3, <3>2, <4>1, RecordWrites
    <3> QED
      BY <3>1, <3>2
  <2>4. ASSUME NEW t \in Trades,
               \/ EmitPlaced(t) \/ OutcomeUncertain(t) \/ OrderAnswered(t)
               \/ AcceptanceTimeout(t) \/ CancelWaitEnds(t)
        PROVE  Tracks(i)'
    <3>1. /\ proc.pc \in WaitPcs /\ proc.cur = t
          /\ \/ ledger' = ledger
             \/ \E res : res.filled \in Nat /\ ResultOf(Placed, res) /\ RecordResult(t, res)
      BY <2>4, WaitResults
    <3>2. /\ t \in proc.batch /\ \A j \in Ids : orders[j].t = t => j = Placed
          /\ proc.pc \in SendPcs \cup {"record"}
      BY <3>1, WaitFacts DEF WaitPcs, SendPcs
    <3> QED
      BY <2>0, <2>3, <3>1, <3>2
  <2>5. ASSUME NEW t \in Trades, RecordPhaseResult(t) PROVE Tracks(i)'
    <3>1. At("record") /\ t \in proc.todo /\ RecordResult(t, proc.res[t])
      BY <2>5, Zenon DEF RecordPhaseResult
    <3>2. t \in proc.batch /\ proc.pc \in SendPcs \cup {"record"}
      BY <3>1 DEF SubmitInv, BatchInv, At
    <3>3. \A j \in Ids : orders[j].t = t => ResultOf(j, proc.res[t])
      BY <3>2 DEF SubmitInv, SentInv
    <3>4. proc.res[t].filled \in Nat
      BY DEF ExecInv, TypeOK, ExecTypeOK, ProcType
    <3> QED
      BY <2>3, <3>1, <3>2, <3>3, <3>4
  <2>6. ASSUME \/ BuildPlan \/ PlanDone \/ RepriceDone
               \/ BuysFit \/ BlockBuys \/ BlockDone \/ MarkDone
               \/ SendUnavailable \/ SendDone \/ RecordDone
               \/ \E t \in Trades : TrimBuy(t) \/ PlaceOrder(t)
        PROVE  Tracks(i)'
    <3>1. ledger' = ledger
      BY <2>6, Zenon DEF BuildPlan, PlanDone, RepriceDone, BuysFit, BlockBuys, BlockDone, MarkDone,
                         SendUnavailable, SendDone, RecordDone, TrimBuy, PlaceOrder
    <3> QED
      BY <2>0, <3>1
  <2> QED
    BY <2>2, <2>4, <2>5, <2>6, Zenon DEF SubmissionStep
<1>2. ASSUME NEW t \in Trades, PlaceOrder(t) PROVE LiveOrderIsTracked' /\ OneLiveOrder'
  <2>1. OrdersOf(t) = {}
    BY <1>2, UnsentWrites
  <2>2. At("send") /\ t \in proc.todo /\ Place(t, "base", proc.sendq[t]) /\ ledger' = ledger
    BY <1>2, Zenon DEF PlaceOrder
  <2>3. IsOpen(ledger[t])
    BY <2>2 DEF SubmitInv, MarkInv, SendPcs, At, IsOpen, TerminalStates
  <2>4. ledger[t].ref = "base"
    BY <1>t, <2>1 DEF RowInv, GoodRow, BaseOrders, Row, Refs
  <2>5. NewOrderIs(t, "base", proc.sendq[t])
    <3>1. BrokerTypeOK /\ proc.sendq[t] \in 1..MaxQty
      BY DEF ExecInv, TypeOK, ExecTypeOK, ProcType
    <3> QED
      BY <2>2, <3>1, PlaceMoves
  <2> QED
    BY <2>1, <2>2, <2>3, <2>4, <2>5, NewOrderTracks DEF Refs
<1>3. ASSUME NEW t \in Trades, AcceptanceTimeout(t), RequestCancel(Placed) PROVE NoNewOrder
  BY <1>3, TimeoutCancels
<1>4. ASSUME orders' = orders PROVE NoNewOrder
  BY <1>4, OrdersStay DEF ExecInv, TypeOK
<1> QED
  BY <1>1, <1>2, <1>3, <1>4, SubmissionOrders, Zenon


-----------------------------------------------------------------------------
(* What a pass knows about the orders of the entries it still has to visit. *)

(* The order that this process has placed last and not recorded yet. *)
JustPlaced(i) == proc.pc \in {"rep_placed", "resume_placed"} /\ i = Len(orders)

(* The snapshot of the open orders: it has every order that is still live, *)
(* once per trade and under the orderRef of the row; what it says was left *)
(* to fill, was.                                                           *)
SnapInv ==
    proc.pc \in PassPcs =>
        /\ \A s \in proc.opens :
              /\ s.filled < orders[s.id].qty
              /\ orders[s.id].t \in proc.todo => orders[s.id].ref = ledger[orders[s.id].t].ref
        /\ \A s, u \in proc.opens : orders[s.id].t = orders[u.id].t => s.id = u.id
        /\ \A i \in LiveIds : orders[i].t \in proc.todo => i \in OpenIds \/ JustPlaced(i)

(* The replace under way: nothing of the trade but the original is live    *)
(* before the replacement is placed, and nothing but the replacement after.*)
ReplaceInv ==
    /\ proc.pc \in {"rep_cancel", "rep_wait"} =>
          ledger[proc.cur].oid \in OpenIds /\ orders[ledger[proc.cur].oid].t = proc.cur
    /\ At("resume") => OrdersOf(proc.cur) \cap LiveIds = {}
    /\ proc.pc \in {"rep_placed", "resume_placed"} =>
          /\ orders[Len(orders)].t = proc.cur /\ orders[Len(orders)].ref = "repl"
          /\ OrdersOf(proc.cur) \cap LiveIds \subseteq {Len(orders)}

TrackInv == LiveOrderIsTracked /\ OneLiveOrder /\ SnapInv /\ ReplaceInv

(* What every step of an entry starts from. *)
LEMMA EntryFacts ==
    ASSUME ExecInv, OpenInv, SnapInv, NEW t \in Trades, InEntry(t)
    PROVE  /\ proc \in ProcType /\ ledger \in [Trades -> Row] /\ ledger[t] \in Row /\ BrokerTypeOK
           /\ t \in proc.todo /\ IsOpen(ledger[t]) /\ proc.pc \in PassPcs
           /\ \A s \in proc.opens : s.id \in Ids /\ s \in Snap /\ s.filled < orders[s.id].qty
           /\ \A i \in OpenIds : i \in Ids
           /\ \A i, j \in OpenIds : orders[i].t = orders[j].t => i = j
           /\ \A i \in OpenIds : orders[i].t = t => orders[i].ref = ledger[t].ref
           /\ \A i \in LiveIds : orders[i].t = t => i \in OpenIds \/ JustPlaced(i)
<1>1. /\ proc \in ProcType /\ ledger \in [Trades -> Row] /\ BrokerTypeOK
      /\ \A s \in proc.opens : s.id \in Ids
  BY DEF ExecInv, TypeOK, ExecTypeOK, CursorInv
<1>2. t \in proc.todo /\ IsOpen(ledger[t])
  BY EntryIsOpen
<1>3. proc.pc \in PassPcs
  BY DEF InEntry, AtEntry, At, PassPcs
<1>4. \A s \in proc.opens : s \in Snap
  BY <1>1 DEF ProcType
<1> QED
  BY <1>1, <1>2, <1>3, <1>4 DEF SnapInv, OpenIds

(* Nothing of the trade matches the snapshot: nothing of it is live. *)
LEMMA UnmatchedIsDone ==
    ASSUME ExecInv, OpenInv, SnapInv, NEW t \in Trades, AtEntry(t), OpenMatches(t) = {}
    PROVE  OrdersOf(t) \cap LiveIds = {}
<1> SUFFICES ASSUME NEW i \in LiveIds, orders[i].t = t PROVE FALSE
  BY DEF OrdersOf
<1>1. InEntry(t) /\ ~JustPlaced(i)
  BY DEF InEntry, AtEntry, At, JustPlaced
<1>2. i \in OpenIds /\ orders[i].ref = ledger[t].ref
  BY <1>1, EntryFacts
<1>3. i \in ExactMatch(t, OpenIds)
  BY <1>2 DEF ExactMatch
<1>4. OpenMatches(t) = ExactMatch(t, OpenIds)
  BY <1>3 DEF OpenMatches, Matches
<1> QED
  BY <1>3, <1>4

(* The order a pass follows is the only one of the trade that can be live. *)
LEMMA FollowedIsLive ==
    ASSUME ExecInv, OpenInv, SnapInv, NEW t \in Trades, InEntry(t),
           proc.pc \notin {"rep_placed", "resume_placed"},
           NEW s \in proc.opens, s.id \in OpenMatches(t)
    PROVE  /\ orders[s.id].t = t /\ s.id \in OpenIds
           /\ \A i \in LiveIds : orders[i].t = t => i = s.id /\ orders[i].ref = ledger[t].ref
<1>1. orders[s.id].t = t /\ s.id \in OpenIds
  BY DEF OpenMatches, Matches, ExactMatch, ReservedMatch, FamilyMatch, OpenIds
<1>2. ASSUME NEW i \in LiveIds, orders[i].t = t PROVE i = s.id /\ orders[i].ref = ledger[t].ref
  <2>1. i \in OpenIds
    BY <1>2, EntryFacts DEF JustPlaced
  <2> QED
    BY <1>1, <1>2, <2>1, EntryFacts
<1> QED
  BY <1>1, <1>2

(* with_snapshot of an order that was fetched open leaves the row open. *)
LEMMA FollowedIsOpen ==
    ASSUME ExecInv, NEW t \in Trades, NEW s \in proc.opens, s \in Snap,
           s.filled < orders[s.id].qty, orders[s.id].qty \in Nat, ledger[t] \in Row
    PROVE  IsOpen(Followed(t, s)) /\ Followed(t, s).ref = ledger[t].ref
<1>0. s.raw \in LiveRaw /\ s.filled \in 0..MaxQty
  BY DEF Snap
<1>1. s.raw \in LooseRaw /\ s.filled \in Nat
  <2>1. s.raw \in LooseRaw
    BY <1>0, Zenon DEF LooseRaw
  <2> QED
    BY <1>0, <2>1
<1>2. s.filled > 0 => Monus(orders[s.id].qty, s.filled) # 0
  BY <1>1 DEF Monus
<1>3. OpenUpdate(t, s).st \notin TerminalStates \cup {"absent"} /\ OpenUpdate(t, s).ref = ledger[t].ref
  BY <1>1, <1>2, SnapshotFields, LooseIsOpen DEF OpenUpdate
<1>4. OpenUpdate(t, s) \in Row
  <2>1. s.id \in Nat /\ s.raw \in RawStatuses /\ s.filled \in 0..MaxQty
    BY DEF Snap, LiveRaw, RawStatuses, DoneRaw, AcceptedRaw, CancelledRaw
  <2> QED
    BY <2>1, SnapshotTypes DEF OpenUpdate
<1>5. [OpenUpdate(t, s) EXCEPT !.repl = FALSE].st = OpenUpdate(t, s).st
      /\ [OpenUpdate(t, s) EXCEPT !.repl = FALSE].ref = OpenUpdate(t, s).ref
  BY <1>4 DEF Row
<1> QED
  BY <1>3, <1>5 DEF Followed, IsOpen

(* with_snapshot of an order that is live now. *)
LEMMA CurrentIsOpen ==
    ASSUME ExecInv, QtyInv, NEW row \in Row, NEW i \in LiveIds
    PROVE  IsOpen(CurrentUpdate(row, i)) /\ CurrentUpdate(row, i).ref = row.ref
<1>0. i \in Ids /\ BrokerTypeOK
  BY DEF LiveIds, ExecInv, TypeOK
<1>1. /\ orders[i].st \in LooseRaw /\ orders[i].filled < orders[i].qty
      /\ orders[i].filled \in Nat /\ orders[i].qty \in Nat
  <2>1. orders[i].filled \in 0..MaxQty /\ orders[i].qty \in 0..MaxQty
    BY <1>0, OrderStatusRaw
  <2>2. orders[i].st \in LooseRaw
    BY Zenon DEF LiveIds, IsLive, LooseRaw
  <2>3. orders[i].filled < orders[i].qty
    BY <1>0 DEF LiveIds, QtyInv
  <2> QED
    BY <2>1, <2>2, <2>3
<1>2. orders[i].filled > 0 => Remaining(orders[i]) # 0
  BY <1>1 DEF Remaining, Monus
<1> QED
  BY <1>1, <1>2, SnapshotFields, LooseIsOpen DEF CurrentUpdate, IsOpen


(* replace_order and _resume_replacement place the replacement only when   *)
(* nothing of the trade is live.                                           *)
LEMMA ReplacesDoneOrder ==
    ASSUME ExecInv, IdentityInv, OpenInv, TrackInv, NEW t \in Trades,
           PlaceReplacement(t) \/ SubmitReplacementPlaces(t)
    PROVE  /\ OrdersOf(t) \cap LiveIds = {} /\ IsOpen(ledger[t]) /\ ledger[t].repl
           /\ ledger' = ledger /\ \E q : NewOrderIs(t, "repl", q)
<1>1. proc.cur = t /\ proc.pc \in {"rep_wait", "resume"} /\ ledger' = ledger /\ \E q : Place(t, "repl", q)
  BY Zenon DEF PlaceReplacement, SubmitReplacementPlaces, At
<1>2. InEntry(t)
  BY <1>1 DEF InEntry, ReplacePcs
<1>3. ledger[t].repl /\ BrokerTypeOK
  BY <1>1 DEF IdentityInv, ReserveInv, ReplacePcs, ExecInv, TypeOK
<1>4. \E q : NewOrderIs(t, "repl", q)
  BY <1>1, <1>3, PlaceMoves
<1>5. OrdersOf(t) \cap LiveIds = {}
  <2>1. CASE proc.pc = "resume"
    BY <1>1, <2>1 DEF TrackInv, ReplaceInv, At
  <2>2. CASE PlaceReplacement(t)
    <3>1. orders[ledger[t].oid].st \in CancelledRaw /\ proc.pc = "rep_wait"
      BY <2>2 DEF PlaceReplacement, At
    <3>2. ledger[t].oid \in OpenIds /\ orders[ledger[t].oid].t = t
      BY <1>1, <3>1 DEF TrackInv, ReplaceInv
    <3>3. ASSUME NEW i \in LiveIds, orders[i].t = t PROVE FALSE
      <4>1. i \in OpenIds
        BY <1>2, <3>1, <3>3, EntryFacts DEF TrackInv, JustPlaced
      <4>2. i = ledger[t].oid
        BY <1>2, <3>2, <3>3, <4>1, EntryFacts DEF TrackInv
      <4> QED
        BY <3>1, <3>3, <4>2 DEF LiveIds, IsLive, LiveRaw, CancelledRaw
    <3> QED
      BY <3>3 DEF OrdersOf
  <2> QED
    BY <1>1, <2>1, <2>2 DEF SubmitReplacementPlaces, At
<1> QED
  BY <1>1, <1>2, <1>3, <1>4, <1>5, EntryIsOpen

(* A pass writes no row that would lose a live order. *)
LEMMA PassRowTracks ==
    ASSUME ExecInv, IdentityInv, OpenInv, TrackInv, NEW t \in Trades,
           \/ AdoptReplacement(t) \/ RecordReplacement(t) \/ FollowOpenOrder(t)
           \/ RecordTimeoutCancel(t) \/ OriginalFilledMeanwhile(t) \/ ReplaceDeferred(t)
           \/ CloseFromHistory(t) \/ LeaveUnverified(t),
           NEW i \in LiveIds, orders[i].t = t
    PROVE  Tracks(i)'
<1> USE DEF TrackInv
<1>e. InEntry(t) /\ orders' = orders
  BY EntryStepEnds, Zenon
<1>f. ledger[t] \in Row /\ i \in Ids /\ IsOpen(ledger[t]) /\ BrokerTypeOK
  BY <1>e, EntryFacts DEF LiveIds
<1>g. ASSUME IsOpen(ledger'[t]), ledger'[t].ref = orders[i].ref PROVE Tracks(i)'
  BY <1>e, <1>g DEF Tracks
<1>1. ASSUME AdoptReplacement(t) \/ CloseFromHistory(t) \/ LeaveUnverified(t) PROVE FALSE
  <2>1. AtEntry(t) /\ OpenMatches(t) = {}
    BY <1>1, Zenon DEF AdoptReplacement, CloseFromHistory, LeaveUnverified, FollowsHistory
  <2>2. OrdersOf(t) \cap LiveIds = {}
    BY <2>1, UnmatchedIsDone
  <2> QED
    BY <1>f, <2>2 DEF OrdersOf
<1>2. ASSUME FollowOpenOrder(t) \/ RecordTimeoutCancel(t) PROVE Tracks(i)'
  <2>1. PICK s \in proc.opens :
          /\ s.id \in OpenMatches(t)
          /\ \/ Upsert(t, Followed(t, s))
             \/ Upsert(t, [Followed(t, s) EXCEPT !.st = "cancel_pending"])
    BY <1>2, ReconcileRows, Zenon DEF FollowsOpen
  <2>2. proc.pc \notin {"rep_placed", "resume_placed"}
    <3>1. proc.pc \in {"rec_entry", "rec_cancelled"}
      BY <1>2, Zenon DEF FollowOpenOrder, RecordTimeoutCancel, FollowsOpen, AtEntry, At
    <3> QED
      BY <3>1
  <2>3. orders[i].ref = ledger[t].ref
    BY <1>e, <2>1, <2>2, FollowedIsLive
  <2>4. s \in Snap /\ s.filled < orders[s.id].qty /\ s.id \in Ids
    BY <1>e, EntryFacts
  <2>5. orders[s.id].qty \in Nat
    BY <1>f, <2>4, OrderStatusRaw
  <2>6. IsOpen(Followed(t, s)) /\ Followed(t, s).ref = ledger[t].ref /\ Followed(t, s) \in Row
    BY <1>f, <2>4, <2>5, FollowedIsOpen, FollowedRow
  <2>7. [Followed(t, s) EXCEPT !.st = "cancel_pending"].st = "cancel_pending"
        /\ [Followed(t, s) EXCEPT !.st = "cancel_pending"].ref = Followed(t, s).ref
    BY <2>6 DEF Row
  <2>8. \/ ledger'[t] = Followed(t, s)
        \/ ledger'[t] = [Followed(t, s) EXCEPT !.st = "cancel_pending"]
    BY <2>1, UpsertRow, Zenon
  <2>9. IsOpen(ledger'[t]) /\ ledger'[t].ref = orders[i].ref
    BY <2>3, <2>6, <2>7, <2>8 DEF IsOpen, TerminalStates
  <2> QED
    BY <1>g, <2>9, Zenon
<1>3. ASSUME OriginalFilledMeanwhile(t) PROVE Tracks(i)'
  <2> DEFINE base == [ledger[t] EXCEPT !.repl = FALSE]
  <2>1. Upsert(t, CurrentUpdate(base, ledger[t].oid)) /\ proc.pc = "rep_wait" /\ proc.cur = t
    BY <1>3, ReconcileRows DEF OriginalFilledMeanwhile, At
  <2>2. base \in Row /\ base.ref = ledger[t].ref
    BY <1>f, EditTypes DEF Row
  <2> HIDE DEF base
  <2>3. ledger[t].oid \in OpenIds /\ orders[ledger[t].oid].t = t
    BY <2>1 DEF ReplaceInv
  <2>4. i \in OpenIds /\ orders[i].ref = ledger[t].ref
    BY <1>e, <2>1, EntryFacts DEF JustPlaced
  <2>5. i = ledger[t].oid
    BY <1>e, <2>3, <2>4, EntryFacts
  <2>6. IsOpen(CurrentUpdate(base, i)) /\ CurrentUpdate(base, i).ref = base.ref
    BY <2>2, CurrentIsOpen DEF IdentityInv
  <2>7. ledger'[t] = CurrentUpdate(base, i)
    BY <2>1, <2>5, UpsertRow
  <2> QED
    BY <1>g, <2>2, <2>4, <2>6, <2>7
<1>4. ASSUME ReplaceDeferred(t) PROVE Tracks(i)'
  <2>1. ledger'[t] = [ledger[t] EXCEPT !.st = "cancel_pending", !.raw = "PendingCancel"]
    BY <1>4, ReconcileRows, UpsertRow
  <2>2. ledger'[t].st = "cancel_pending" /\ ledger'[t].ref = ledger[t].ref
    BY <1>f, <2>1 DEF Row
  <2>3. proc.pc = "rep_wait"
    BY <1>4 DEF ReplaceDeferred, At
  <2>4. orders[i].ref = ledger[t].ref
    BY <1>e, <2>3, EntryFacts DEF JustPlaced
  <2>5. IsOpen(ledger'[t]) /\ ledger'[t].ref = orders[i].ref
    BY <2>2, <2>4 DEF IsOpen, TerminalStates
  <2> QED
    BY <1>g, <2>5, Zenon
<1>5. ASSUME RecordReplacement(t) PROVE Tracks(i)'
  <2> DEFINE base == [ledger[t] EXCEPT !.ref = "repl", !.repl = FALSE]
  <2>1. ledger'[t] = [CurrentUpdate(base, Len(orders)) EXCEPT !.age = 0]
    BY <1>5, ReconcileRows, UpsertRow
  <2>2. base \in Row /\ base.ref = "repl"
    BY <1>f, EditTypes DEF Row
  <2> HIDE DEF base
  <2>3. proc.pc \in {"rep_placed", "resume_placed"} /\ proc.cur = t
    BY <1>5, Zenon DEF RecordReplacement
  <2>4. i = Len(orders) /\ orders[i].ref = "repl"
    BY <1>f, <2>3 DEF ReplaceInv, OrdersOf
  <2>5. IsOpen(CurrentUpdate(base, i)) /\ CurrentUpdate(base, i).ref = "repl"
    BY <2>2, CurrentIsOpen DEF IdentityInv
  <2>6. CurrentUpdate(base, i) \in Row
    BY <1>f, <2>2, CurrentUpdateRow
  <2>7. ledger'[t].st = CurrentUpdate(base, i).st /\ ledger'[t].ref = CurrentUpdate(base, i).ref
    BY <2>1, <2>4, <2>6 DEF Row
  <2>8. IsOpen(ledger'[t]) /\ ledger'[t].ref = orders[i].ref
    BY <2>4, <2>5, <2>7 DEF IsOpen
  <2> QED
    BY <1>g, <2>8, Zenon
<1> QED
  BY <1>1, <1>2, <1>3, <1>4, <1>5, Zenon

(* reconcile and check_stale_orders never lose a live order. *)
LEMMA ReconcileTracks ==
    ASSUME ExecInv, IdentityInv, OpenInv, TrackInv, ReconcileStep
    PROVE  LiveOrderIsTracked' /\ OneLiveOrder'
<1> USE DEF TrackInv
<1>1. CASE NoNewOrder
  <2> SUFFICES ASSUME NEW i \in LiveIds', i \in LiveIds PROVE Tracks(i)'
    BY <1>1, NoNewOrderTracks
  <2>0. ledger'[orders[i].t] = ledger[orders[i].t] => Tracks(i)'
    BY <1>1, SameRowTracks
  <2>i. i \in Ids /\ orders[i].t \in Trades
    BY OrderStatusRaw DEF LiveIds, ExecInv, TypeOK
  <2>1. ASSUME NEW t \in Trades,
               \/ AdoptReplacement(t) \/ RecordReplacement(t) \/ FollowOpenOrder(t)
               \/ RecordTimeoutCancel(t) \/ OriginalFilledMeanwhile(t) \/ ReplaceDeferred(t)
               \/ CloseFromHistory(t) \/ LeaveUnverified(t)
        PROVE  Tracks(i)'
    <3>1. OnlyRow(t)
      BY <2>1, EntryStepEnds, Zenon
    <3>2. CASE orders[i].t = t
      BY <2>1, <3>2, PassRowTracks, Zenon
    <3>3. CASE orders[i].t # t
      BY <2>0, <2>i, <3>1, <3>3 DEF OnlyRow
    <3> QED
      BY <3>2, <3>3
  <2>2. ASSUME NEW t \in Trades, ReserveReplacement(t) \/ RecordStaleCancel(t) PROVE Tracks(i)'
    <3>1. CASE orders[i].t # t
      <4>1. OnlyRow(t)
        BY <2>2, ReservedRow, ReconcileRows, UpsertRow, Zenon DEF OnlyRow
      <4> QED
        BY <2>0, <2>i, <3>1, <4>1 DEF OnlyRow
    <3>2. CASE orders[i].t = t
      <4>0. ledger[t] \in Row /\ orders' = orders
        BY <2>2, ReservedRow DEF ExecInv, TypeOK, ExecTypeOK, RecordStaleCancel
      <4>1. /\ IsOpen(ledger'[t]) /\ ledger'[t].ref = ledger[t].ref
            /\ ledger[t].repl => ledger'[t].repl
        <5>1. CASE ReserveReplacement(t)
          BY <5>1, ReservedRow, ReserveIdentity DEF ReservesIdentity
        <5>2. CASE RecordStaleCancel(t)
          <6>1. ledger'[t] = [ledger[t] EXCEPT !.st = "cancel_pending"]
            BY <5>2, ReconcileRows, UpsertRow
          <6> QED
            BY <4>0, <6>1 DEF Row, IsOpen, TerminalStates
        <5> QED
          BY <2>2, <5>1, <5>2
      <4> QED
        BY <3>2, <4>0, <4>1 DEF LiveOrderIsTracked, Tracks
    <3> QED
      BY <3>1, <3>2
  <2>3. ASSUME ledger' = ledger PROVE Tracks(i)'
    BY <2>0, <2>3
  <2> QED
    BY <2>1, <2>2, <2>3, ReconcileWrites, Zenon
<1>2. ASSUME NEW t \in Trades, PlaceReplacement(t) \/ SubmitReplacementPlaces(t)
      PROVE  LiveOrderIsTracked' /\ OneLiveOrder'
  BY <1>2, ReplacesDoneOrder, NewOrderTracks DEF Refs
<1>3. ASSUME orders' = orders PROVE NoNewOrder
  BY <1>3, OrdersStay DEF IdentityInv, ExecInv, TypeOK
<1>4. ASSUME NEW t \in Trades, SendTimeoutCancel(t) \/ ReplaceCancelsOriginal(t) \/ SendStaleCancel(t)
      PROVE  NoNewOrder
  BY <1>4, PassCancels, Zenon DEF IdentityInv
<1> QED
  BY <1>1, <1>2, <1>3, <1>4, ReconcileOrders, Zenon


(* Outside a pass nothing is said of its snapshot. *)
LEMMA SnapOutside ==
    ASSUME proc'.pc \notin PassPcs
    PROVE  SnapInv' /\ ReplaceInv'
BY DEF SnapInv, ReplaceInv, PassPcs, ReplacePcs, At

(* The snapshot stays good while IBKR moves the orders and the pass moves  *)
(* through its entries.                                                    *)
LEMMA SnapKept ==
    ASSUME ExecInv, SnapInv, proc.pc \in PassPcs, NoNewOrder,
           proc'.opens = proc.opens, proc'.todo \subseteq proc.todo,
           \A u \in proc'.todo : ledger'[u].ref = ledger[u].ref,
           \A i \in Ids : JustPlaced(i) => orders[i].t \notin proc'.todo \/ JustPlaced(i)'
    PROVE  SnapInv'
<1>1. ASSUME NEW s \in proc'.opens
      PROVE  /\ s \in proc.opens /\ s.id \in Ids
             /\ orders'[s.id].t = orders[s.id].t /\ orders'[s.id].ref = orders[s.id].ref
             /\ orders'[s.id].qty = orders[s.id].qty
  <2>1. s \in proc.opens /\ s.id \in Ids
    BY <1>1 DEF ExecInv, CursorInv
  <2> QED
    BY <2>1 DEF NoNewOrder, Kept
<1>2. ASSUME NEW s \in proc'.opens
      PROVE  /\ s.filled < orders'[s.id].qty
             /\ orders'[s.id].t \in proc'.todo => orders'[s.id].ref = ledger'[orders'[s.id].t].ref
  BY <1>1, <1>2 DEF SnapInv
<1>3. ASSUME NEW s \in proc'.opens, NEW u \in proc'.opens, orders'[s.id].t = orders'[u.id].t
      PROVE  s.id = u.id
  BY <1>1, <1>3 DEF SnapInv
<1>4. ASSUME NEW i \in LiveIds', orders'[i].t \in proc'.todo PROVE i \in OpenIds' \/ JustPlaced(i)'
  <2>1. i \in LiveIds /\ i \in Ids /\ orders'[i].t = orders[i].t
    BY <1>4, LiveBefore DEF LiveIds
  <2>2. i \in OpenIds \/ JustPlaced(i)
    BY <1>4, <2>1 DEF SnapInv
  <2>3. OpenIds' = OpenIds
    BY DEF OpenIds
  <2> QED
    BY <1>4, <2>1, <2>2, <2>3
<1> QED
  BY <1>2, <1>3, <1>4 DEF SnapInv

(* A pass starts from the open orders as they are. *)
LEMMA FetchedSnap ==
    ASSUME ExecInv, IdentityInv, OneLiveOrder, FetchOpenOrders
    PROVE  SnapInv'
<1>t. proc \in ProcType
  BY DEF ExecInv, TypeOK, ExecTypeOK
<1> DEFINE S == {[id |-> i, raw |-> orders[i].st, filled |-> orders[i].filled] : i \in LiveIds}
<1>1. \E pc : proc' = [proc EXCEPT !.pc = pc, !.opens = S, !.todo = OpenEntries]
  BY Zenon DEF FetchOpenOrders
<1>2. orders' = orders /\ ledger' = ledger /\ \A i \in LiveIds : ~RestoreConflict(i)
  BY Zenon DEF FetchOpenOrders
<1>3. ASSUME NEW s \in S PROVE s.id \in LiveIds /\ s.filled = orders[s.id].filled
  BY <1>3
<1>4. ASSUME NEW i \in LiveIds PROVE \E s \in S : s.id = i
  <2>1. [id |-> i, raw |-> orders[i].st, filled |-> orders[i].filled] \in S
    OBVIOUS
  <2> QED
    BY <2>1
<1> HIDE DEF S
<1>5. proc'.opens = S
  BY <1>t, <1>1 DEF ProcType
<1>6. ASSUME NEW i \in LiveIds
      PROVE  orders[i].filled < orders[i].qty /\ orders[i].ref = ledger[orders[i].t].ref
  BY <1>2, <1>6 DEF IdentityInv, QtyInv, LiveIds, RestoreConflict
<1>7. LiveIds' = LiveIds
  BY <1>2 DEF LiveIds, Ids, IsLive
<1>8. \A i \in LiveIds : i \in OpenIds'
  BY <1>4, <1>5 DEF OpenIds
<1>9. ASSUME NEW s \in S PROVE s.filled < orders[s.id].qty /\ orders[s.id].ref = ledger[orders[s.id].t].ref
  BY <1>3, <1>6, <1>9
<1>10. ASSUME NEW s \in S, NEW u \in S, orders[s.id].t = orders[u.id].t PROVE s.id = u.id
  BY <1>3, <1>10 DEF OneLiveOrder
<1> QED
  BY <1>2, <1>5, <1>7, <1>8, <1>9, <1>10 DEF SnapInv

(* A replacement has been placed. *)
LEMMA PlacedSnap ==
    ASSUME ExecInv, IdentityInv, OpenInv, TrackInv, NEW t \in Trades,
           PlaceReplacement(t) \/ SubmitReplacementPlaces(t)
    PROVE  SnapInv' /\ ReplaceInv'
<1>t. proc \in ProcType
  BY DEF ExecInv, TypeOK, ExecTypeOK
<1>1. PICK pc \in {"rep_placed", "resume_placed"} : CallsBroker(t, pc) /\ InEntry(t)
  BY <1>t, EntryCalls
<1>2. proc'.pc = pc /\ proc'.cur = t /\ proc'.todo = proc.todo /\ proc'.opens = proc.opens
  BY <1>t, <1>1, CallFields DEF SameMemory
<1>3. OrdersOf(t) \cap LiveIds = {} /\ ledger' = ledger /\ \E q : NewOrderIs(t, "repl", q)
  BY ReplacesDoneOrder
<1>4. PICK q : NewOrderIs(t, "repl", q)
  BY <1>3
<1>5. /\ orders'[Len(orders')].t = t /\ orders'[Len(orders')].ref = "repl"
      /\ Len(orders') \notin Ids /\ Ids' = Ids \cup {Len(orders')}
      /\ \A i \in Ids : orders'[i] = orders[i]
  BY <1>4 DEF NewOrderIs, NewOrder
<1>6. ASSUME NEW i \in LiveIds' PROVE (i \in LiveIds /\ orders'[i] = orders[i]) \/ i = Len(orders')
  BY <1>5, <1>6 DEF LiveIds, IsLive
<1>7. ASSUME NEW i \in LiveIds', orders'[i].t = t PROVE i = Len(orders')
  BY <1>3, <1>6, <1>7 DEF OrdersOf, LiveIds
<1>8. proc.pc \in PassPcs /\ proc.pc \notin {"rep_placed", "resume_placed"}
  <2>1. proc.pc \in {"rep_wait", "resume"}
    BY Zenon DEF PlaceReplacement, SubmitReplacementPlaces, At
  <2> QED
    BY <2>1 DEF PassPcs, ReplacePcs
<1>9. ASSUME NEW s \in proc.opens PROVE orders'[s.id] = orders[s.id]
  BY <1>5, <1>9 DEF ExecInv, CursorInv
<1>10. SnapInv'
  <2>1. ASSUME NEW s \in proc.opens
        PROVE  /\ s.filled < orders'[s.id].qty
               /\ orders'[s.id].t \in proc'.todo => orders'[s.id].ref = ledger'[orders'[s.id].t].ref
    BY <1>2, <1>3, <1>8, <1>9, <2>1 DEF TrackInv, SnapInv
  <2>2. ASSUME NEW s \in proc.opens, NEW u \in proc.opens, orders'[s.id].t = orders'[u.id].t
        PROVE  s.id = u.id
    BY <1>8, <1>9, <2>2 DEF TrackInv, SnapInv
  <2>3. ASSUME NEW i \in LiveIds', orders'[i].t \in proc'.todo PROVE i \in OpenIds' \/ JustPlaced(i)'
    <3>1. CASE i = Len(orders')
      BY <1>2, <3>1 DEF JustPlaced
    <3>2. CASE i \in LiveIds /\ orders'[i] = orders[i]
      BY <1>2, <1>8, <2>3, <3>2 DEF TrackInv, SnapInv, JustPlaced, OpenIds
    <3> QED
      BY <1>6, <3>1, <3>2
  <2> QED
    BY <1>2, <2>1, <2>2, <2>3 DEF SnapInv
<1>11. ReplaceInv'
  BY <1>2, <1>5, <1>7 DEF ReplaceInv, At, OrdersOf
<1> QED
  BY <1>10, <1>11

(* What a pass knows stays true as it goes on. *)
LEMMA ReconcileSnap ==
    ASSUME ExecInv, IdentityInv, OpenInv, TrackInv, ReconcileStep
    PROVE  SnapInv' /\ ReplaceInv'
<1> USE DEF TrackInv
<1>t. proc \in ProcType /\ ledger \in [Trades -> Row] /\ proc.todo \subseteq Trades
  BY DEF ExecInv, TypeOK, ExecTypeOK, ProcType
<1>n. ASSUME orders' = orders PROVE NoNewOrder
  BY <1>n, OrdersStay DEF IdentityInv, ExecInv, TypeOK
<1>1. ASSUME RestartShape PROVE SnapInv' /\ ReplaceInv'
  BY <1>1, RestartFields, SnapOutside DEF Restarts, PassPcs, ReplacePcs
<1>2. ASSUME \/ proc' = [proc EXCEPT !.pc = "plan"]
             \/ proc' = [proc EXCEPT !.pc = "stale_cancel", !.todo = ForeignEntries]
      PROVE  SnapInv' /\ ReplaceInv'
  <2>1. proc'.pc \in {"plan", "stale_cancel"}
    BY <1>t, <1>2 DEF ProcType
  <2> QED
    BY <2>1, SnapOutside DEF PassPcs, ReplacePcs
<1>3. ASSUME FetchOpenOrders PROVE SnapInv' /\ ReplaceInv'
  <2>1. proc'.pc \in {"rec_entry", "rec_hist"}
    BY <1>t, <1>3, FetchFields
  <2> QED
    BY <1>3, <2>1, FetchedSnap DEF ReplaceInv, At
<1>4. ASSUME FetchHistory \/ FetchHistoryFails PROVE SnapInv' /\ ReplaceInv'
  <2>2. /\ proc'.todo = proc.todo /\ proc'.opens = proc.opens /\ proc'.pc = "rec_entry"
        /\ proc.pc = "rec_hist" /\ ledger' = ledger /\ orders' = orders
    BY <1>t, <1>4, HistoryFields
  <2>3. proc.pc = "rec_hist" /\ NoNewOrder /\ ledger' = ledger
    BY <1>n, <2>2
  <2>4. proc.pc \in PassPcs /\ \A i \in Ids : ~JustPlaced(i)
    BY <2>3 DEF PassPcs, JustPlaced
  <2>5. SnapInv'
    BY <2>2, <2>3, <2>4, SnapKept
  <2> QED
    BY <2>2, <2>5 DEF ReplaceInv, At
<1>5. ASSUME NEW t \in Trades, EndsEntry(t), InEntry(t), OnlyRow(t), orders' = orders
      PROVE  SnapInv' /\ ReplaceInv'
  <2>1. proc'.pc = "rec_entry" /\ proc'.todo = proc.todo \ {t} /\ proc'.opens = proc.opens
    BY <1>t, <1>5, EntryFields DEF SameMemory
  <2>2. \A u \in proc'.todo : ledger'[u].ref = ledger[u].ref
    BY <1>t, <1>5, <2>1 DEF OnlyRow
  <2>3. proc.pc \in PassPcs
    BY <1>5, EntryFacts
  <2>4. ASSUME NEW i \in Ids, JustPlaced(i) PROVE orders[i].t = t
    <3>1. proc.cur = t /\ i = Len(orders) /\ proc.pc \in {"rep_placed", "resume_placed"}
      BY <1>5, <2>4 DEF JustPlaced, InEntry, AtEntry, At
    <3> QED
      BY <3>1 DEF ReplaceInv
  <2>5. SnapInv'
    BY <1>5, <1>n, <2>1, <2>2, <2>3, <2>4, SnapKept
  <2> QED
    BY <2>1, <2>5 DEF ReplaceInv, At
<1>6. ASSUME NEW t \in Trades,
             SendTimeoutCancel(t) \/ ReserveReplacement(t) \/ ResumeReplacement(t)
             \/ ReplaceCancelsOriginal(t)
      PROVE  SnapInv' /\ ReplaceInv'
  <2>1. PICK pc : CallsBroker(t, pc) /\ InEntry(t)
    BY <1>t, <1>6, EntryCalls DEF InEntry
  <2>2. proc'.pc = pc /\ proc'.cur = t /\ proc'.todo = proc.todo /\ proc'.opens = proc.opens
    BY <1>t, <2>1, CallFields DEF SameMemory
  <2>3. proc.pc \in {"rec_entry", "rep_cancel"}
    BY <1>6, Zenon DEF SendTimeoutCancel, ReserveReplacement, ResumeReplacement,
                       ReplaceCancelsOriginal, FollowsOpen, FollowsHistory, AtEntry, At
  <2>4. NoNewOrder
    <3>1. CASE SendTimeoutCancel(t) \/ ReplaceCancelsOriginal(t)
      BY <3>1, PassCancels, Zenon DEF IdentityInv
    <3>2. CASE ReserveReplacement(t) \/ ResumeReplacement(t)
      <4>1. orders' = orders
        BY <3>2, Zenon DEF ReserveReplacement, ResumeReplacement
      <4> QED
        BY <1>n, <4>1
    <3> QED
      BY <1>6, <3>1, <3>2
  <2>5. OpenIds' = OpenIds
    BY <2>2 DEF OpenIds
  <2>6. SnapInv'
    <3>1. \A u \in proc.todo : ledger'[u].ref = ledger[u].ref
      <4>1. CASE ReserveReplacement(t)
        BY <1>t, <4>1, ReserveIdentity DEF ReservesIdentity
      <4>2. CASE ~ReserveReplacement(t)
        <5>1. ledger' = ledger
          BY <1>6, <4>2, Zenon DEF SendTimeoutCancel, ResumeReplacement, ReplaceCancelsOriginal
        <5> QED
          BY <5>1
      <4> QED
        BY <4>1, <4>2
    <3>2. proc.pc \in PassPcs /\ \A i \in Ids : ~JustPlaced(i)
      BY <2>3 DEF PassPcs, ReplacePcs, JustPlaced
    <3> QED
      BY <2>2, <2>4, <3>1, <3>2, SnapKept
  <2>7. ReplaceInv'
    <3>1. CASE SendTimeoutCancel(t)
      <4>1. proc'.pc = "rec_cancelled"
        BY <1>t, <3>1, EntryCalls, CallFields
      <4> QED
        BY <4>1 DEF ReplaceInv, At
    <3>2. CASE ReserveReplacement(t)
      <4>1. proc'.pc = "rep_cancel"
        BY <1>t, <3>2, EntryCalls, CallFields
      <4>2. PICK s \in proc.opens : FollowsOpen(t, s) /\ ledger'[t].oid = s.id
        BY <3>2, ReservedRow
      <4>3. orders[s.id].t = t /\ s.id \in OpenIds /\ orders' = orders
        BY <2>1, <2>3, <3>2, <4>2, FollowedIsLive, ReservedRow DEF FollowsOpen
      <4> QED
        BY <2>2, <2>5, <4>1, <4>2, <4>3 DEF ReplaceInv, At
    <3>3. CASE ResumeReplacement(t)
      <4>1. proc'.pc = "resume"
        BY <1>t, <3>3, EntryCalls, CallFields
      <4>2. AtEntry(t) /\ OpenMatches(t) = {} /\ orders' = orders
        BY <3>3, Zenon DEF ResumeReplacement, FollowsHistory
      <4>3. OrdersOf(t) \cap LiveIds = {}
        BY <4>2, UnmatchedIsDone
      <4>4. OrdersOf(t)' = OrdersOf(t) /\ LiveIds' = LiveIds
        BY <4>2 DEF OrdersOf, LiveIds, IsLive, Ids
      <4> QED
        BY <2>2, <4>1, <4>3, <4>4 DEF ReplaceInv, At
    <3>4. CASE ReplaceCancelsOriginal(t)
      <4>1. proc'.pc = "rep_wait" /\ proc.pc = "rep_cancel" /\ proc.cur = t /\ ledger' = ledger
        BY <1>t, <3>4, EntryCalls, CallFields DEF ReplaceCancelsOriginal, At
      <4>2. ledger[t].oid \in OpenIds /\ orders[ledger[t].oid].t = t
        BY <4>1 DEF ReplaceInv
      <4>3. orders'[ledger[t].oid].t = t
        BY <2>1, <2>4, <4>2, EntryFacts DEF NoNewOrder, Kept
      <4> QED
        BY <2>2, <2>5, <4>1, <4>2, <4>3 DEF ReplaceInv, At
    <3> QED
      BY <1>6, <3>1, <3>2, <3>3, <3>4
  <2> QED
    BY <2>6, <2>7
<1>7. ASSUME NEW t \in Trades, PlaceReplacement(t) \/ SubmitReplacementPlaces(t)
      PROVE  SnapInv' /\ ReplaceInv'
  BY <1>7, PlacedSnap
<1>8. ASSUME NEW t \in Trades, SendStaleCancel(t) \/ RecordStaleCancel(t) \/ SkipStaleCancel(t)
      PROVE  SnapInv' /\ ReplaceInv'
  <2>1. proc'.pc \in {"stale_cancel", "stale_cancelled"}
    BY <1>t, <1>8, EntryCalls, CallFields, StaleFields
  <2> QED
    BY <2>1, SnapOutside DEF PassPcs, ReplacePcs
<1> QED
  BY <1>1, <1>2, <1>3, <1>4, <1>5, <1>6, <1>7, <1>8, ReconcileShape, Zenon


(* IBKR moves the orders, and neither the rows nor the memory change. *)
LEMMA BrokerTracks ==
    ASSUME ExecInv, TrackInv, NoNewOrder, ledger' = ledger, proc' = proc
    PROVE  TrackInv'
<1> USE DEF TrackInv
<1>1. LiveOrderIsTracked' /\ OneLiveOrder'
  BY SameRowTracks, NoNewOrderTracks
<1>2. SnapInv'
  <2>1. CASE proc.pc \in PassPcs
    <3>1. \A i \in Ids : JustPlaced(i) => JustPlaced(i)'
      BY DEF JustPlaced, NoNewOrder
    <3> QED
      BY <2>1, <3>1, SnapKept
  <2>2. CASE proc.pc \notin PassPcs
    BY <2>2, SnapOutside
  <2> QED
    BY <2>1, <2>2
<1>3. ReplaceInv'
  <2>0. /\ OpenIds' = OpenIds /\ \A i \in OpenIds : i \in Ids
        /\ \A i \in Ids : orders'[i].t = orders[i].t /\ orders'[i].ref = orders[i].ref
        /\ Ids' = Ids /\ Len(orders') = Len(orders) /\ LiveIds' \subseteq LiveIds
    BY LiveBefore DEF OpenIds, ExecInv, CursorInv, NoNewOrder, Kept
  <2>1. \A t : OrdersOf(t)' = OrdersOf(t)
    BY <2>0 DEF OrdersOf
  <2>2. proc.pc \in {"rep_placed", "resume_placed"} => Len(orders) \in Ids
    BY DEF ExecInv, CursorInv, TypeOK, BrokerTypeOK, Ids
  <2> QED
    BY <2>0, <2>1, <2>2 DEF ReplaceInv, At
<1> QED
  BY <1>1, <1>2, <1>3

(* Every step keeps each live order tracked by its row. *)
LEMMA TrackStep ==
    ASSUME ExecInv, IdentityInv, SubmitInv, OpenInv, TrackInv, [Next]_vars
    PROVE  TrackInv'
<1>t. proc \in ProcType /\ ledger \in [Trades -> Row] /\ BrokerTypeOK
  BY DEF ExecInv, TypeOK, ExecTypeOK
<1>n. ASSUME orders' = orders PROVE NoNewOrder
  BY <1>t, <1>n, OrdersStay DEF IdentityInv
<1>1. CASE SubmissionStep
  <2>1. proc'.pc \in SubmitPcs \cup {"idle"}
    BY <1>t, <1>1, SubmissionPc
  <2>2. proc'.pc \notin PassPcs
    BY <2>1 DEF SubmitPcs, PassPcs, ReplacePcs
  <2> QED
    BY <1>1, <2>2, SubmissionTracks, SnapOutside DEF TrackInv
<1>2. CASE ReconcileStep
  BY <1>2, ReconcileTracks, ReconcileSnap DEF TrackInv
<1>3. CASE BrokerActs
  BY <1>t, <1>3, BrokerMoves, BrokerTracks DEF BrokerActs, IdentityInv, execVars
<1>4. CASE UNCHANGED vars
  BY <1>n, <1>4, BrokerTracks DEF vars
<1>5. CASE Crash
  <2>1. proc'.pc = "idle" /\ orders' = orders /\ ledger' = ledger
    BY <1>5 DEF Crash, EndProcess, IdleProc
  <2>2. LiveOrderIsTracked' /\ OneLiveOrder'
    BY <1>n, <2>1, SameRowTracks, NoNewOrderTracks DEF TrackInv
  <2> QED
    BY <2>1, <2>2, SnapOutside DEF TrackInv, PassPcs, ReplacePcs
<1>6. ASSUME NEW t \in Trades, Tick(t) PROVE TrackInv'
  <2>1. /\ proc'.pc = "idle" /\ orders' = orders
        /\ ledger' = [ledger EXCEPT ![t] = [ledger[t] EXCEPT !.age = ledger[t].age + 1]]
    BY <1>6 DEF Tick, At, Upsert
  <2>2. ASSUME NEW u \in Trades
        PROVE  /\ ledger'[u].st = ledger[u].st /\ ledger'[u].ref = ledger[u].ref
               /\ ledger'[u].repl = ledger[u].repl
    BY <1>t, <2>1 DEF Row
  <2>3. ASSUME NEW i \in LiveIds', i \in LiveIds PROVE Tracks(i)'
    <3>1. orders[i].t \in Trades
      BY <1>t, <2>3, OrderStatusRaw DEF LiveIds
    <3> QED
      BY <2>1, <2>2, <2>3, <3>1 DEF TrackInv, LiveOrderIsTracked, Tracks, IsOpen
  <2>4. LiveOrderIsTracked' /\ OneLiveOrder'
    BY <1>n, <2>1, <2>3, NoNewOrderTracks DEF TrackInv
  <2> QED
    BY <2>1, <2>4, SnapOutside DEF TrackInv, PassPcs, ReplacePcs
<1> QED
  BY <1>1, <1>2, <1>3, <1>4, <1>5, <1>6 DEF Next

(* What the pass knows, what the ledger says and what IBKR holds agree. *)
THEOREM TrackInvariant == Spec => []TrackInv
<1>1. Init => TrackInv
  <2> SUFFICES ASSUME Init PROVE TrackInv
    OBVIOUS
  <2>1. LiveIds = {} /\ proc.pc = "idle"
    BY DEF Init, BrokerInit, ExecInit, IdleProc, Ids, LiveIds
  <2> QED
    BY <2>1 DEF TrackInv, LiveOrderIsTracked, OneLiveOrder, SnapInv, ReplaceInv, PassPcs,
                ReplacePcs, At
<1>2. ExecInv /\ IdentityInv /\ SubmitInv /\ OpenInv /\ TrackInv /\ [Next]_vars => TrackInv'
  BY TrackStep
<1> QED
  BY <1>1, <1>2, ExecInvariant, IdentityInvariant, SubmitInvariant, OpenInvariant, PTL DEF Spec

(* _record_result and reconcile: whatever crashes, answers and retries     *)
(* happen, an order that can still execute has an open row that names it.  *)
THEOREM LiveOrdersAreTracked == Spec => []LiveOrderIsTracked
<1>1. TrackInv => LiveOrderIsTracked
  BY DEF TrackInv
<1> QED
  BY <1>1, TrackInvariant, PTL

(* replace_order and _resume_replacement: an original and its replacement  *)
(* never work at the same time.                                            *)
THEOREM AtMostOneLiveOrder == Spec => []OneLiveOrder
<1>1. TrackInv => OneLiveOrder
  BY DEF TrackInv
<1> QED
  BY <1>1, TrackInvariant, PTL


-----------------------------------------------------------------------------
(* Replacements, as long as executions accompany the completed orders.     *)

(* A completed order that the pass knows of comes with its executions, and *)
(* a replacement is resumed only for an original that is cancelled without *)
(* a fill.                                                                 *)
HistInv ==
    /\ proc.pc \in PassPcs \cup {"rec_open"} => proc.hist = {} \/ proc.execs
    /\ At("resume") =>
          \A i \in BaseOrders(proc.cur) : orders[i].st = "Cancelled" /\ orders[i].filled = 0

ReplacementInv == ~LossyFills => HistInv /\ ReplacesOnlyUnfilledCancelled

(* A status of IBKR that says cancelled. *)
LEMMA CancelledOrder ==
    ASSUME BrokerTypeOK, NEW i \in Ids, orders[i].st \in CancelledRaw
    PROVE  orders[i].st = "Cancelled"
<1>1. orders[i] \in Order
  BY OrderStatusRaw
<1> QED
  BY <1>1 DEF Order, LiveRaw, CancelledRaw

(* Steps that place nothing cannot break it: a cancelled order never       *)
(* changes again.                                                          *)
LEMMA ReplacedStay ==
    ASSUME NoNewOrder, ReplacesOnlyUnfilledCancelled
    PROVE  ReplacesOnlyUnfilledCancelled'
<1> SUFFICES ASSUME NEW i \in Ids, NEW j \in Ids, orders'[i].t = orders'[j].t,
                    orders'[i].ref = "base", orders'[j].ref = "repl"
             PROVE  orders'[i].st = "Cancelled" /\ orders'[i].filled = 0
  BY DEF ReplacesOnlyUnfilledCancelled, NoNewOrder
<1>1. /\ orders[i].t = orders[j].t /\ orders[i].ref = "base" /\ orders[j].ref = "repl"
      /\ Kept(i)
  BY DEF NoNewOrder, Kept
<1>2. orders[i].st = "Cancelled" /\ orders[i].filled = 0
  BY <1>1 DEF ReplacesOnlyUnfilledCancelled
<1> QED
  BY <1>1, <1>2 DEF Kept, LiveRaw

(* An order is placed for a trade whose originals are cancelled unfilled,  *)
(* or that has no order at all.                                            *)
LEMMA ReplacedGrow ==
    ASSUME ReplacesOnlyUnfilledCancelled, NEW t, NEW ref, NEW q, NewOrderIs(t, ref, q),
           \/ ref = "repl" /\ \A i \in BaseOrders(t) : orders[i].st = "Cancelled" /\ orders[i].filled = 0
           \/ ref = "base" /\ OrdersOf(t) = {}
    PROVE  ReplacesOnlyUnfilledCancelled'
<1>1. /\ Ids' = Ids \cup {Len(orders')} /\ \A i \in Ids : orders'[i] = orders[i]
      /\ Len(orders') \notin Ids
      /\ orders'[Len(orders')].t = t /\ orders'[Len(orders')].ref = ref
  BY DEF NewOrderIs, NewOrder
<1> SUFFICES ASSUME NEW i \in Ids', NEW j \in Ids', orders'[i].t = orders'[j].t,
                    orders'[i].ref = "base", orders'[j].ref = "repl"
             PROVE  orders'[i].st = "Cancelled" /\ orders'[i].filled = 0
  BY DEF ReplacesOnlyUnfilledCancelled
<1>2. CASE i \in Ids /\ j \in Ids
  BY <1>1, <1>2 DEF ReplacesOnlyUnfilledCancelled
<1>3. CASE i \in Ids /\ j \notin Ids
  <2>1. j = Len(orders') /\ orders[i].t = t /\ ref = "repl" /\ orders[i].ref = "base"
    BY <1>1, <1>3
  <2>2. i \in BaseOrders(t)
    BY <1>3, <2>1 DEF BaseOrders, OrdersOf
  <2> QED
    BY <1>1, <1>3, <2>1, <2>2
<1>4. CASE i \notin Ids
  <2>1. i = Len(orders') /\ ref = "base"
    BY <1>1, <1>4
  <2>2. j # i
    BY <1>1, <2>1
  <2>3. j \in Ids /\ orders[j].t = t
    BY <1>1, <2>1, <2>2
  <2> QED
    BY <2>1, <2>3 DEF OrdersOf
<1> QED
  BY <1>2, <1>3, <1>4

(* The original of a row that has reserved its replacement. *)
LEMMA ResumedOriginal ==
    ASSUME ExecInv, IdentityInv, NEW t \in Trades, NEW i \in Ids,
           FollowsHistory(t, i), ledger[t].repl
    PROVE  i \in BaseOrders(t) /\ i \in proc.hist
<1>1. ledger[t].ref = "base"
  BY DEF IdentityInv, RowInv, GoodRow
<1>2. i \in Matches(t, proc.hist) /\ ~MatchIsReplacement(t, proc.hist)
  BY DEF FollowsHistory, HistMatches
<1>3. i \in proc.hist /\ orders[i].t = t
  BY <1>2 DEF Matches, ExactMatch, ReservedMatch, FamilyMatch
<1>4. orders[i].ref = "base"
  <2>1. CASE ExactMatch(t, proc.hist) # {}
    BY <1>1, <1>2, <2>1 DEF Matches, ExactMatch
  <2>2. CASE ExactMatch(t, proc.hist) = {}
    <3>1. ReservedMatch(t, proc.hist) = {}
      BY <1>2, <2>2 DEF MatchIsReplacement
    <3>2. orders[i].ref \in Refs
      BY OrderStatusRaw DEF ExecInv, TypeOK
    <3> QED
      BY <1>3, <3>1, <3>2 DEF ReservedMatch, Refs
  <2> QED
    BY <2>1, <2>2
<1> QED
  BY <1>3, <1>4 DEF BaseOrders, OrdersOf

(* _resume_replacement is entered only for such an original. *)
LEMMA ResumesUnfilled ==
    ASSUME ExecInv, IdentityInv, proc.hist = {} \/ proc.execs, NEW t \in Trades,
           ResumeReplacement(t)
    PROVE  \A i \in BaseOrders(t) : orders[i].st = "Cancelled" /\ orders[i].filled = 0
<1>1. PICK i \in Ids : FollowsHistory(t, i) /\ ResumeDue(t, i)
  BY Zenon DEF ResumeReplacement
<1>2. i \in BaseOrders(t) /\ i \in proc.hist
  BY <1>1, ResumedOriginal DEF ResumeDue
<1>3. BrokerTypeOK /\ ledger[t] \in Row /\ HistFilled(i) = orders[i].filled
  BY <1>2 DEF HistFilled, ExecInv, TypeOK, ExecTypeOK
<1>4. /\ Completed(t, i).st = ClassifyLifecycle(orders[i].st, orders[i].filled,
                                                Monus(orders[i].qty, orders[i].filled))
      /\ Completed(t, i).filled = orders[i].filled
  BY <1>3, SnapshotFields DEF Completed, HistUpdate
<1>5. Completed(t, i).st = "cancelled" /\ Completed(t, i).filled = 0
  BY <1>1 DEF ResumeDue
<1>6. orders[i].filled = 0 /\ orders[i].st \in CancelledRaw
  BY <1>4, <1>5 DEF ClassifyLifecycle
<1>7. orders[i].st = "Cancelled"
  BY <1>3, <1>6, CancelledOrder
<1>8. \A j \in BaseOrders(t) : j = i
  BY <1>2 DEF ExecInv, BaseOrderPlacedOnce
<1> QED
  BY <1>6, <1>7, <1>8

(* replace_order places the replacement only for such an original. *)
LEMMA ReplacesUnfilled ==
    ASSUME ExecInv, IdentityInv, OpenInv, TrackInv, NEW t \in Trades, PlaceReplacement(t)
    PROVE  \A i \in BaseOrders(t) : orders[i].st = "Cancelled" /\ orders[i].filled = 0
<1> DEFINE k == ledger[t].oid
<1>1. /\ proc.pc = "rep_wait" /\ proc.cur = t
      /\ orders[k].filled = 0 /\ orders[k].st \in CancelledRaw
  BY DEF PlaceReplacement, At
<1>2. k \in OpenIds /\ orders[k].t = t /\ InEntry(t)
  BY <1>1 DEF TrackInv, ReplaceInv, InEntry, ReplacePcs
<1>3. k \in Ids /\ orders[k].ref = ledger[t].ref /\ BrokerTypeOK
  BY <1>2, EntryFacts DEF TrackInv
<1>4. ledger[t].ref = "base"
  BY <1>1 DEF IdentityInv, RowInv, GoodRow, ReserveInv, ReplacePcs
<1>5. k \in BaseOrders(t)
  BY <1>2, <1>3, <1>4 DEF BaseOrders, OrdersOf
<1>6. orders[k].st = "Cancelled"
  BY <1>1, <1>3, CancelledOrder
<1>7. \A j \in BaseOrders(t) : j = k
  BY <1>5 DEF ExecInv, BaseOrderPlacedOnce
<1> QED
  BY <1>1, <1>6, <1>7

(* What the pass knows of the history stays true. *)
LEMMA HistStep ==
    ASSUME ExecInv, IdentityInv, HistInv, ~LossyFills, [Next]_vars
    PROVE  HistInv'
<1>t. proc \in ProcType
  BY DEF ExecInv, TypeOK, ExecTypeOK
<1>0. ASSUME proc'.pc \notin PassPcs \cup {"rec_open"} PROVE HistInv'
  BY <1>0 DEF HistInv, At, PassPcs, ReplacePcs
<1>1. CASE SubmissionStep
  BY <1>0, <1>1, <1>t, SubmissionPc DEF SubmitPcs, PassPcs, ReplacePcs
<1>2. CASE Crash
  BY <1>0, <1>2 DEF Crash, EndProcess, IdleProc, PassPcs, ReplacePcs
<1>3. ASSUME NEW t \in Trades, Tick(t) PROVE HistInv'
  BY <1>0, <1>3 DEF Tick, At, PassPcs, ReplacePcs
<1>4. CASE BrokerActs \/ UNCHANGED vars
  <2>1. proc' = proc
    BY <1>4 DEF BrokerActs, execVars, vars
  <2>2. NoNewOrder
    <3>1. CASE BrokerActs
      BY <3>1, BrokerMoves DEF BrokerActs, ExecInv, TypeOK, IdentityInv
    <3>2. CASE UNCHANGED vars
      BY <3>2, OrdersStay DEF vars, ExecInv, TypeOK, IdentityInv
    <3> QED
      BY <1>4, <3>1, <3>2
  <2>3. ASSUME At("resume"), NEW i \in BaseOrders(proc.cur)
        PROVE  orders'[i].st = "Cancelled" /\ orders'[i].filled = 0
    <3>1. orders[i].st = "Cancelled" /\ orders[i].filled = 0 /\ i \in Ids
      BY <2>3 DEF HistInv, BaseOrders, OrdersOf
    <3> QED
      BY <2>2, <3>1 DEF NoNewOrder, Kept, LiveRaw
  <2>4. BaseOrders(proc.cur)' = BaseOrders(proc.cur)
    BY <2>1, <2>2, SameFamilies
  <2> QED
    BY <2>1, <2>3, <2>4 DEF HistInv, At
<1>5. CASE ReconcileStep
  <2>a. ASSUME proc'.hist = {} \/ proc'.execs, proc'.pc # "resume" PROVE HistInv'
    BY <2>a DEF HistInv, At
  <2>1. ASSUME RestartShape PROVE HistInv'
    BY <2>1, <2>a, RestartFields DEF Restarts
  <2>2. ASSUME \/ proc' = [proc EXCEPT !.pc = "plan"]
               \/ proc' = [proc EXCEPT !.pc = "stale_cancel", !.todo = ForeignEntries]
        PROVE  HistInv'
    <3>1. proc'.pc \in {"plan", "stale_cancel"}
      BY <1>t, <2>2 DEF ProcType
    <3> QED
      BY <1>0, <3>1 DEF PassPcs, ReplacePcs
  <2>3. ASSUME FetchOpenOrders PROVE HistInv'
    <3>1. At("rec_open") /\ \E pc, S : proc' = [proc EXCEPT !.pc = pc, !.opens = S, !.todo = OpenEntries]
      BY <2>3, Zenon DEF FetchOpenOrders
    <3>2. proc'.hist = proc.hist /\ proc'.execs = proc.execs
      BY <1>t, <3>1 DEF ProcType
    <3>3. proc'.pc \in {"rec_entry", "rec_hist"}
      BY <1>t, <2>3, FetchFields
    <3> QED
      BY <2>a, <3>1, <3>2, <3>3 DEF HistInv, At
  <2>4. ASSUME FetchHistory \/ FetchHistoryFails PROVE HistInv'
    <3>1. /\ proc.pc = "rec_hist" /\ proc'.pc = "rec_entry"
          /\ proc'.execs \/ (proc'.hist = proc.hist /\ proc'.execs = proc.execs)
      BY <1>t, <2>4, HistoryFields
    <3> QED
      BY <2>a, <3>1 DEF HistInv, PassPcs
  <2>5. ASSUME NEW t \in Trades, InEntry(t), SameMemory, proc'.pc # "resume" PROVE HistInv'
    <3>1. proc.pc \in PassPcs
      BY <2>5 DEF InEntry, AtEntry, At, PassPcs
    <3> QED
      BY <2>a, <2>5, <3>1 DEF HistInv, SameMemory
  <2>6. ASSUME NEW t \in Trades, EndsEntry(t), InEntry(t) PROVE HistInv'
    BY <1>t, <2>5, <2>6, EntryFields
  <2>7. ASSUME NEW t \in Trades,
               SendTimeoutCancel(t) \/ ReserveReplacement(t) \/ ReplaceCancelsOriginal(t)
               \/ PlaceReplacement(t) \/ SubmitReplacementPlaces(t)
        PROVE  HistInv'
    <3>1. PICK pc \in {"rec_cancelled", "rep_cancel", "rep_wait", "rep_placed", "resume_placed"} :
            CallsBroker(t, pc) /\ InEntry(t)
      BY <1>t, <2>7, EntryCalls DEF InEntry
    <3> QED
      BY <1>t, <2>5, <3>1, CallFields
  <2>8. ASSUME NEW t \in Trades, ResumeReplacement(t) PROVE HistInv'
    <3>1. AtEntry(t) /\ proc'.pc = "resume" /\ proc'.cur = t /\ SameMemory
      BY <1>t, <2>8, EntryCalls, CallFields
    <3>2. proc.hist = {} \/ proc.execs
      BY <3>1 DEF HistInv, AtEntry, At, PassPcs
    <3>3. \A i \in BaseOrders(t) : orders[i].st = "Cancelled" /\ orders[i].filled = 0
      BY <2>8, <3>2, ResumesUnfilled
    <3>4. orders' = orders
      BY <2>8 DEF ResumeReplacement
    <3>5. BaseOrders(t)' = BaseOrders(t)
      BY <3>4 DEF BaseOrders, OrdersOf, Ids
    <3> QED
      BY <3>1, <3>2, <3>3, <3>4, <3>5 DEF HistInv, SameMemory, At
  <2>9. ASSUME NEW t \in Trades, SendStaleCancel(t) \/ RecordStaleCancel(t) \/ SkipStaleCancel(t)
        PROVE  HistInv'
    <3>1. proc'.pc \in {"stale_cancel", "stale_cancelled"}
      BY <1>t, <2>9, EntryCalls, CallFields, StaleFields
    <3> QED
      BY <1>0, <3>1 DEF PassPcs, ReplacePcs
  <2> QED
    BY <1>5, <2>1, <2>2, <2>3, <2>4, <2>6, <2>7, <2>8, <2>9, ReconcileShape, Zenon
<1> QED
  BY <1>1, <1>2, <1>3, <1>4, <1>5 DEF Next

(* Every step keeps what is known of an original that is being replaced. *)
LEMMA ReplacementStep ==
    ASSUME ExecInv, IdentityInv, SubmitInv, OpenInv, TrackInv, ReplacementInv, [Next]_vars
    PROVE  ReplacementInv'
<1> SUFFICES ASSUME ~LossyFills PROVE HistInv' /\ ReplacesOnlyUnfilledCancelled'
  BY DEF ReplacementInv
<1>0. HistInv /\ ReplacesOnlyUnfilledCancelled
  BY DEF ReplacementInv
<1>1. HistInv'
  BY <1>0, HistStep
<1>2. CASE NoNewOrder
  BY <1>0, <1>1, <1>2, ReplacedStay
<1>3. ASSUME NEW t \in Trades, PlaceOrder(t) PROVE ReplacesOnlyUnfilledCancelled'
  <2>1. OrdersOf(t) = {}
    BY <1>3, UnsentWrites DEF IdentityInv
  <2>2. NewOrderIs(t, "base", proc.sendq[t])
    BY <1>3, PlaceMoves DEF PlaceOrder, ExecInv, TypeOK
  <2> QED
    BY <1>0, <2>1, <2>2, ReplacedGrow
<1>4. ASSUME NEW t \in Trades, PlaceReplacement(t) \/ SubmitReplacementPlaces(t)
      PROVE  ReplacesOnlyUnfilledCancelled'
  <2>1. PICK q : NewOrderIs(t, "repl", q)
    BY <1>4, ReplacesDoneOrder
  <2>2. \A i \in BaseOrders(t) : orders[i].st = "Cancelled" /\ orders[i].filled = 0
    <3>1. CASE PlaceReplacement(t)
      BY <3>1, ReplacesUnfilled
    <3>2. CASE SubmitReplacementPlaces(t)
      <4>1. At("resume") /\ proc.cur = t
        BY <3>2, Zenon DEF SubmitReplacementPlaces
      <4> QED
        BY <1>0, <4>1 DEF HistInv
    <3> QED
      BY <1>4, <3>1, <3>2
  <2> QED
    BY <1>0, <2>1, <2>2, ReplacedGrow
<1> QED
  BY <1>1, <1>2, <1>3, <1>4, OrderMoves DEF IdentityInv

(* The history of the pass and the replacements that were sent agree. *)
THEOREM ReplacementInvariant == Spec => []ReplacementInv
<1>1. Init => ReplacementInv
  <2> SUFFICES ASSUME Init PROVE ReplacementInv
    OBVIOUS
  <2>1. Ids = {} /\ proc.pc = "idle"
    BY DEF Init, BrokerInit, ExecInit, IdleProc, Ids
  <2> QED
    BY <2>1 DEF ReplacementInv, HistInv, ReplacesOnlyUnfilledCancelled, PassPcs, ReplacePcs, At
<1>2. ExecInv /\ IdentityInv /\ SubmitInv /\ OpenInv /\ TrackInv /\ ReplacementInv /\ [Next]_vars
        => ReplacementInv'
  BY ReplacementStep
<1> QED
  BY <1>1, <1>2, ExecInvariant, IdentityInvariant, SubmitInvariant, OpenInvariant,
     TrackInvariant, PTL DEF Spec

(* replace_order and _resume_replacement: as long as IBKR reports the      *)
(* executions of completed orders, a replacement is only ever sent for an  *)
(* original that is cancelled without a single fill.                       *)
THEOREM ReplacesOnlyUnfilled == Spec => [](~LossyFills => ReplacesOnlyUnfilledCancelled)
<1>1. ReplacementInv => (~LossyFills => ReplacesOnlyUnfilledCancelled)
  BY DEF ReplacementInv
<1> QED
  BY <1>1, ReplacementInvariant, PTL


-----------------------------------------------------------------------------
(* Fifth layer: what a terminal row says.  Without AUTO_REPLACE a trade    *)
(* has one order, so the row's fill can be compared with it.               *)

(* No replacement was ever reserved or sent. *)
PlainInv ==
    /\ \A t \in Trades : ledger[t].rc = 0
    /\ \A i \in Ids : orders[i].ref = "base"

(* What a row says of the fills of its trade. *)
TrueRow(t) ==
    /\ OrdersOf(t) = {} => ledger[t].filled = 0
    /\ IsTerminal(ledger[t]) => \A i \in OrdersOf(t) : ledger[t].filled = orders[i].filled

(* The result of a trade that was not sent claims no fill. *)
UnsentResultInv ==
    proc.pc \in SendPcs \cup {"record"} =>
        \A t \in proc.batch : OrdersOf(t) = {} => proc.res[t].filled = 0

TruthInv ==
    ~LossyFills /\ ~AutoReplace =>
        PlainInv /\ UnsentResultInv /\ \A t \in Trades : TrueRow(t)

(* The orders of a trade only grow in number. *)
LEMMA OrdersOfGrow ==
    ASSUME ExecInv, IdentityInv, [Next]_vars, NEW u
    PROVE  OrdersOf(u) \subseteq OrdersOf(u)'
<1>1. CASE NoNewOrder
  BY <1>1, SameFamilies
<1>2. ASSUME NEW t \in Trades, PlaceOrder(t) \/ PlaceReplacement(t) \/ SubmitReplacementPlaces(t)
      PROVE  OrdersOf(u) \subseteq OrdersOf(u)'
  BY <1>2, PlacesOrder, NewFamilies DEF IdentityInv
<1> QED
  BY <1>1, <1>2, OrderMoves DEF IdentityInv

(* Without AUTO_REPLACE nothing is reserved, so nothing is replaced. *)
LEMMA PlainStep ==
    ASSUME ExecInv, IdentityInv, PlainInv, ~AutoReplace, [Next]_vars
    PROVE  PlainInv'
<1> USE DEF IdentityInv
<1>r. \A t \in Trades : ~ledger[t].repl
  BY DEF PlainInv, RowInv, GoodRow
<1>1. ASSUME NEW u \in Trades PROVE ledger'[u].rc = 0
  <2>0. ledger[u].rc = 0 /\ ledger[u] \in Row /\ ledger \in [Trades -> Row]
    BY DEF PlainInv, ExecInv, TypeOK, ExecTypeOK
  <2>1. CASE SubmissionStep
    BY <2>0, <2>1, SubmissionIdentity DEF SameIdentity, FreshIdentity
  <2>2. CASE ReconcileStep
    <3>1. SameIdentity(ledger'[u], ledger[u])
      BY <1>r, <2>2, ReconcileIdentity DEF AdoptsIdentity
    <3> QED
      BY <2>0, <3>1 DEF SameIdentity
  <2>3. ASSUME NEW t \in Trades, Tick(t) PROVE ledger'[u].rc = 0
    <3>1. ledger' = [ledger EXCEPT ![t] = [ledger[t] EXCEPT !.age = @ + 1]]
      BY <2>3 DEF Tick, Upsert
    <3> QED
      BY <2>0, <3>1 DEF Row
  <2>4. CASE BrokerActs \/ Crash \/ UNCHANGED vars
    BY <2>0, <2>4 DEF BrokerActs, Crash, execVars, vars
  <2> QED
    BY <2>1, <2>2, <2>3, <2>4, Zenon DEF Next
<1>2. CASE NoNewOrder
  BY <1>1, <1>2 DEF PlainInv, NoNewOrder, Kept
<1>3. ASSUME NEW t \in Trades, PlaceOrder(t) \/ PlaceReplacement(t) \/ SubmitReplacementPlaces(t)
      PROVE  PlainInv'
  <2>1. PICK q : NewOrderIs(t, "base", q)
    BY <1>3, <1>r, PlacesOrder
  <2>2. NewOrder(t, "base", q).ref = "base"
    BY DEF NewOrder
  <2>3. \A i \in Ids' : orders'[i].ref = "base"
    BY <2>1, <2>2 DEF PlainInv, NewOrderIs
  <2> QED
    BY <1>1, <2>3 DEF PlainInv
<1> QED
  BY <1>2, <1>3, OrderMoves

(* Without replacements the order of a trade is its only one. *)
LEMMA OnlyOrder ==
    ASSUME ExecInv, PlainInv, NEW t \in Trades, NEW i \in OrdersOf(t)
    PROVE  OrdersOf(t) = {i} /\ i \in Ids /\ orders[i].t = t
<1>1. \A j \in OrdersOf(t) : j \in BaseOrders(t)
  BY DEF PlainInv, BaseOrders, OrdersOf
<1>2. \A j \in OrdersOf(t) : j = i
  BY <1>1 DEF ExecInv, BaseOrderPlacedOnce
<1> QED
  BY <1>2 DEF OrdersOf

(* submit_trades reports a fill only for what it sent. *)
LEMMA UnsentResultStep ==
    ASSUME ExecInv, IdentityInv, SubmitInv, UnsentResultInv, [Next]_vars
    PROVE  UnsentResultInv'
<1>t. proc \in ProcType
  BY DEF ExecInv, TypeOK, ExecTypeOK
<1>g. \A u : OrdersOf(u) \subseteq OrdersOf(u)'
  BY OrdersOfGrow
<1>0. ASSUME proc'.pc \notin SendPcs \cup {"record"} PROVE UnsentResultInv'
  BY <1>0 DEF UnsentResultInv
<1>a. ASSUME proc.pc \in SendPcs \cup {"record"}, proc'.batch = proc.batch,
             \A u \in proc.batch : \/ proc'.res[u] = proc.res[u] \/ proc'.res[u].filled = 0
                                   \/ OrdersOf(u) # {}
      PROVE  UnsentResultInv'
  <2>1. \A u \in proc.batch : OrdersOf(u)' = {} => proc'.res[u].filled = 0
    BY <1>a, <1>g DEF UnsentResultInv
  <2> QED
    BY <1>a, <2>1 DEF UnsentResultInv
<1>1. CASE ReconcileStep
  <2>1. proc'.pc \notin SendPcs \cup {"record"}
    <3>1. proc'.pc \notin SubmitPcs \/ proc'.pc = "plan"
      BY <1>1, <1>t, ReconcilePc DEF ProcType
    <3> QED
      BY <3>1 DEF SubmitPcs, SendPcs
  <2> QED
    BY <1>0, <2>1
<1>2. CASE Crash \/ \E t \in Trades : Tick(t)
  <2>1. proc' = IdleProc \/ (proc.pc = "idle" /\ proc' = proc)
    BY <1>2, Zenon DEF Crash, Tick, EndProcess, At
  <2>2. proc'.pc = "idle"
    BY <2>1 DEF IdleProc
  <2> QED
    BY <1>0, <2>2 DEF SendPcs
<1>3. CASE BrokerActs \/ UNCHANGED vars
  <2>1. proc' = proc
    BY <1>3 DEF BrokerActs, execVars, vars
  <2> QED
    BY <1>0, <1>a, <2>1
<1>4. ASSUME \/ BuildPlan \/ PlanDone \/ RepriceDone \/ BuysFit \/ BlockBuys \/ BlockDone \/ RecordDone
             \/ \E t \in Trades : \/ PlanTrade(t) \/ RepriceTrade(t) \/ BlockOnQuote(t) \/ TrimBuy(t)
                                  \/ BlockBuy(t) \/ MarkUnconfirmed(t)
      PROVE  UnsentResultInv'
  <2>i. IdleProc.pc = "idle"
    BY DEF IdleProc
  <2>n. ASSUME NextPhase PROVE proc'.pc \in {"reprice", "idle"}
    BY <1>t, <2>i, <2>n, ZenonT(30) DEF NextPhase, StartPhase, EndProcess, ProcType
  <2>1. ASSUME BuildPlan \/ PlanDone \/ RepriceDone \/ BuysFit \/ BlockBuys \/ BlockDone \/ RecordDone
        PROVE  proc'.pc \in {"plan_trade", "reprice", "fit", "mark", "block", "idle"}
    <3>1. \/ NextPhase \/ StartPhase("SELL")
          \/ \E pc \in {"plan_trade", "fit", "mark", "block"} : \E S, F :
                \/ proc' = [proc EXCEPT !.pc = pc]
                \/ proc' = [proc EXCEPT !.pc = pc, !.todo = S]
                \/ proc' = [proc EXCEPT !.pc = pc, !.todo = S, !.fresh = F]
      BY <2>1, Zenon DEF BuildPlan, PlanDone, RepriceDone, BuysFit, BlockBuys, BlockDone, RecordDone
    <3> QED
      BY <1>t, <2>n, <3>1 DEF StartPhase, ProcType
  <2>2. ASSUME NEW t \in Trades,
               \/ PlanTrade(t) \/ RepriceTrade(t) \/ BlockOnQuote(t) \/ BlockBuy(t)
               \/ MarkUnconfirmed(t)
        PROVE  proc'.pc \in {"plan_trade", "reprice", "mark", "block"}
    BY <1>t, <2>2 DEF PlanTrade, RepriceTrade, BlockOnQuote, BlockBuy, MarkUnconfirmed, At, ProcType
  <2>3. ASSUME NEW t \in Trades, TrimBuy(t) PROVE proc'.pc = "mark"
    BY <1>t, <2>3 DEF TrimBuy, ProcType
  <2>4. proc'.pc \in {"plan_trade", "reprice", "fit", "mark", "block", "idle"}
    BY <1>4, <2>1, <2>2, <2>3
  <2> QED
    BY <1>0, <2>4 DEF SendPcs
<1>5. CASE MarkDone
  <2>1. /\ proc.pc = "mark"
        /\ proc' = [proc EXCEPT !.pc = "send", !.todo = proc.batch, !.fails = 0]
    BY <1>5 DEF MarkDone, At
  <2>2. proc'.res = proc.res /\ proc'.batch = proc.batch /\ proc.batch \subseteq Trades
    BY <1>t, <2>1 DEF ProcType
  <2>r. NoResult.filled = 0
    BY DEF NoResult, Result
  <2>3. \A t \in Trades : proc.res[t].filled = 0
    BY <2>1, <2>r DEF SubmitInv, SentInv
  <2> QED
    BY <2>2, <2>3 DEF UnsentResultInv
<1>6. CASE SendUnavailable \/ SendDone
  <2>1. PICK resOf \in {Unsent(proc.todo), proc.res} : StopSending(resOf)
    BY <1>6, Zenon DEF SendUnavailable, SendDone
  <2>2. \A u \in Trades : resOf[u] = proc.res[u] \/ resOf[u].filled = 0
    BY DEF Unsent, Result
  <2>3. proc.pc = "send" /\ proc'.res = resOf /\ proc'.batch = proc.batch /\ proc.batch \subseteq Trades
    BY <1>6, <1>t, <2>1 DEF SendUnavailable, SendDone, StopSending, ProcType, At
  <2> QED
    BY <1>a, <2>2, <2>3 DEF SendPcs
<1>7. ASSUME NEW t \in Trades, SendFails(t) PROVE UnsentResultInv'
  <2>1. /\ proc.pc = "send"
        /\ proc' = [proc EXCEPT !.todo = @ \ {t}, !.res[t] = Result("Failed", NoId, 0)]
    BY <1>7, Zenon DEF SendFails, At
  <2>2. /\ proc'.batch = proc.batch /\ proc.batch \subseteq Trades
        /\ proc'.res = [proc.res EXCEPT ![t] = Result("Failed", NoId, 0)]
    BY <1>t, <2>1 DEF ProcType
  <2>3. \A u \in Trades : proc'.res[u] = proc.res[u] \/ proc'.res[u].filled = 0
    BY <1>t, <2>2 DEF ProcType, Result
  <2> QED
    BY <1>a, <2>1, <2>2, <2>3 DEF SendPcs
<1>8. ASSUME NEW t \in Trades, PlaceOrder(t) \/ RecordPhaseResult(t) \/ EmitPlaced(t) PROVE UnsentResultInv'
  <2>1. proc.pc \in SendPcs \cup {"record"} /\ proc'.batch = proc.batch /\ proc'.res = proc.res
    BY <1>8, <1>t, ZenonT(30) DEF PlaceOrder, RecordPhaseResult, EmitPlaced, ProcType, At, SendPcs
  <2> QED
    BY <1>a, <2>1
<1>9. ASSUME NEW t \in Trades,
             OutcomeUncertain(t) \/ OrderAnswered(t) \/ CancelWaitEnds(t) \/ AcceptanceTimeout(t)
      PROVE  UnsentResultInv'
  <2>1. proc.pc \in WaitPcs /\ proc.cur = t
    BY <1>9, WaitResults
  <2>2. OrdersOf(t) # {} /\ proc.batch \subseteq Trades /\ proc.pc \in SendPcs
    BY <1>t, <2>1, WaitFacts DEF OrdersOf, WaitPcs, SendPcs, IdentityInv, ProcType
  <2>3. \/ proc' = [proc EXCEPT !.pc = "wait_cancel"]
        \/ \E r : ReturnResult(t, r) \/ StopSending([Unsent(proc.todo) EXCEPT ![t] = r])
    BY <1>9, Zenon DEF OutcomeUncertain, OrderAnswered, CancelWaitEnds, AcceptanceTimeout
  <2>4. CASE proc' = [proc EXCEPT !.pc = "wait_cancel"]
    <3>1. proc'.batch = proc.batch /\ proc'.res = proc.res
      BY <1>t, <2>4 DEF ProcType
    <3> QED
      BY <1>a, <2>2, <3>1
  <2>5. ASSUME NEW r, ReturnResult(t, r) \/ StopSending([Unsent(proc.todo) EXCEPT ![t] = r])
        PROVE  UnsentResultInv'
    <3>1. /\ proc'.batch = proc.batch
          /\ \A u \in Trades \ {t} : proc'.res[u] = proc.res[u] \/ proc'.res[u].filled = 0
      BY <1>t, <2>5, ReturnFields DEF SameBatch
    <3> QED
      BY <1>a, <2>2, <3>1
  <2> QED
    BY <2>3, <2>4, <2>5
<1>10. CASE SubmissionStep
  BY <1>4, <1>5, <1>6, <1>7, <1>8, <1>9, <1>10, Zenon DEF SubmissionStep
<1> QED
  BY <1>1, <1>2, <1>3, <1>10, Zenon DEF Next


(* A row that is not closed anew, and whose fill is not changed. *)
LEMMA TrueRowStays ==
    ASSUME ExecInv, LiveOrderIsTracked, NoNewOrder, NEW u \in Trades, TrueRow(u),
           ledger'[u].filled = ledger[u].filled,
           IsTerminal(ledger'[u]) => IsTerminal(ledger[u])
    PROVE  TrueRow(u)'
<1>1. OrdersOf(u)' = OrdersOf(u)
  BY SameFamilies
<1>2. ASSUME IsTerminal(ledger'[u]), NEW i \in OrdersOf(u) PROVE ledger'[u].filled = orders'[i].filled
  <2>1. i \in Ids /\ orders[i].t = u /\ IsTerminal(ledger[u])
    BY <1>2 DEF OrdersOf
  <2>2. ~IsLive(i)
    BY <2>1 DEF LiveOrderIsTracked, LiveIds, IsOpen, IsTerminal
  <2>3. orders'[i] = orders[i]
    BY <2>1, <2>2 DEF NoNewOrder, Kept, IsLive
  <2> QED
    BY <1>2, <2>1, <2>3 DEF TrueRow
<1> QED
  BY <1>1, <1>2 DEF TrueRow

(* The row of a trade that has no order. *)
LEMMA TrueUnsentRow ==
    ASSUME NoNewOrder, NEW t \in Trades, OrdersOf(t) = {}, ledger'[t].filled = 0
    PROVE  TrueRow(t)'
<1>1. OrdersOf(t)' = {}
  BY SameFamilies
<1> QED
  BY <1>1 DEF TrueRow

(* classify_lifecycle closes a row on an undecided status only when the    *)
(* fill is complete.                                                       *)
LEMMA ClosedByFill ==
    ASSUME NEW raw \in LooseRaw, NEW filled \in Nat, NEW rem,
           ClassifyLifecycle(raw, filled, rem) \in TerminalStates
    PROVE  filled > 0 /\ rem = 0
BY DEF ClassifyLifecycle, LooseRaw, LiveRaw, CancelledRaw, SubmissionFailureRaw, TerminalStates

(* _record_result: a row that a result closes has the fill of its order. *)
LEMMA ResultIsTrue ==
    ASSUME ExecInv, IdentityInv, SubmitInv, PlainInv, orders' = orders,
           NEW t \in Trades, t \in proc.batch, proc.pc \in SendPcs \cup {"record"},
           NEW res, res.filled \in Nat, RecordResult(t, res),
           OrdersOf(t) = {} => res.filled = 0,
           \A j \in OrdersOf(t) : ResultOf(j, res)
    PROVE  TrueRow(t)'
<1>1. /\ RecordBase(t) \in Row
      /\ ledger'[t] = WithOrderResult(RecordBase(t), res)
  BY RecordWrites
<1>2. /\ ledger'[t].filled = res.filled
      /\ ledger'[t].st = ClassifyLifecycle(res.raw, res.filled, Monus(RecordBase(t).qty, res.filled))
  BY <1>1, ResultFields
<1>3. OrdersOf(t)' = OrdersOf(t)
  BY DEF OrdersOf, Ids
<1>4. ASSUME IsTerminal(ledger'[t]), NEW i \in OrdersOf(t) PROVE res.filled = orders[i].filled
  <2>1. i \in Ids /\ orders[i].t = t /\ ResultOf(i, res)
    BY <1>4 DEF OrdersOf
  <2>2. /\ orders[i].qty = proc.sendq[t] /\ orders[i].filled <= orders[i].qty
        /\ orders[i].qty \in Nat /\ orders[i].filled \in Nat
    BY <2>1, OrderStatusRaw DEF SubmitInv, SentInv, IdentityInv, QtyInv, ExecInv, TypeOK
  <2>3. RecordBase(t).qty >= proc.sendq[t] /\ RecordBase(t).qty \in Nat
    <3>1. ledger[t].qty >= proc.sendq[t] /\ PlannedRow(proc.sendq[t]).qty = proc.sendq[t]
      BY DEF SubmitInv, BatchQtyInv, PlannedRow
    <3>2. RecordBase(t).qty = ledger[t].qty \/ RecordBase(t).qty = proc.sendq[t]
      BY <3>1 DEF RecordBase
    <3> QED
      BY <1>1, <2>2, <3>1, <3>2 DEF Row
  <2>4. CASE res.raw \in LooseRaw
    <3>1. res.filled > 0 /\ Monus(RecordBase(t).qty, res.filled) = 0
      BY <1>2, <1>4, <2>4, ClosedByFill DEF IsTerminal
    <3>2. res.filled >= RecordBase(t).qty
      BY <2>3, <3>1 DEF Monus
    <3>3. res.filled <= orders[i].filled
      BY <2>1 DEF ResultOf
    <3> QED
      BY <2>2, <2>3, <3>2, <3>3
  <2>5. CASE res.raw \notin LooseRaw
    BY <2>1, <2>5 DEF ResultOf
  <2> QED
    BY <2>4, <2>5
<1> QED
  BY <1>2, <1>3, <1>4 DEF TrueRow

(* submit_plan closes rows truthfully. *)
LEMMA SubmissionIsTrue ==
    ASSUME ExecInv, IdentityInv, SubmitInv, TrackInv, TrackInv', PlainInv, UnsentResultInv,
           \A t \in Trades : TrueRow(t), SubmissionStep
    PROVE  \A u \in Trades : TrueRow(u)'
<1> USE DEF IdentityInv
<1> SUFFICES ASSUME NEW u \in Trades PROVE TrueRow(u)'
  OBVIOUS
<1>0. ASSUME NoNewOrder, ledger'[u] = ledger[u] PROVE TrueRow(u)'
  BY <1>0, TrueRowStays DEF TrackInv
<1>n. ASSUME orders' = orders PROVE NoNewOrder
  BY <1>n, OrdersStay DEF ExecInv, TypeOK
<1>1. ASSUME NEW t \in Trades,
             \/ PlanTrade(t) \/ RepriceTrade(t) \/ BlockOnQuote(t) \/ BlockBuy(t)
             \/ MarkUnconfirmed(t) \/ SendFails(t)
      PROVE  TrueRow(u)'
  <2>1. NoNewOrder
    <3>1. orders' = orders
      BY <1>1, Zenon DEF PlanTrade, RepriceTrade, BlockOnQuote, BlockBuy, MarkUnconfirmed, SendFails
    <3> QED
      BY <1>n, <3>1
  <2>2. CASE ledger' = ledger
    BY <1>0, <2>1, <2>2
  <2>3. CASE ledger' # ledger
    <3>1. OrdersOf(t) = {}
      BY <1>1, <2>3, UnsentWrites, Zenon
    <3>2. \/ Upsert(t, PlannedRow(Qty[t]))
          \/ \E raw : RecordResult(t, Result(raw, NoId, 0))
      BY <1>1, <2>3, Zenon DEF PlanTrade, RepriceTrade, BlockOnQuote, BlockBuy,
                               MarkUnconfirmed, SendFails
    <3>3. ledger'[t].filled = 0 /\ \A v \in Trades \ {t} : ledger'[v] = ledger[v]
      <4>1. CASE Upsert(t, PlannedRow(Qty[t]))
        <5>1. PlannedRow(Qty[t]).filled = 0
          BY DEF PlannedRow
        <5> QED
          BY <4>1, <5>1, UpsertRow
      <4>2. ASSUME NEW raw, RecordResult(t, Result(raw, NoId, 0))
            PROVE  ledger'[t].filled = 0 /\ \A v \in Trades \ {t} : ledger'[v] = ledger[v]
        <5>1. Result(raw, NoId, 0).filled = 0
          BY DEF Result
        <5> QED
          BY <4>2, <5>1, RecordWrites, ResultFields
      <4> QED
        BY <3>2, <4>1, <4>2
    <3> QED
      BY <1>0, <2>1, <3>1, <3>3, TrueUnsentRow
  <2> QED
    BY <2>2, <2>3
<1>2. ASSUME NEW t \in Trades, t \in proc.batch, proc.pc \in SendPcs \cup {"record"}, NEW res,
             res.filled \in Nat, RecordResult(t, res), orders' = orders,
             OrdersOf(t) = {} => res.filled = 0, \A j \in OrdersOf(t) : ResultOf(j, res)
      PROVE  TrueRow(u)'
  <2>1. CASE u = t
    BY <1>2, <2>1, ResultIsTrue
  <2>2. CASE u # t
    BY <1>0, <1>2, <1>n, <2>2, RecordWrites
  <2> QED
    BY <2>1, <2>2
<1>3. ASSUME NEW t \in Trades,
             \/ EmitPlaced(t) \/ OutcomeUncertain(t) \/ OrderAnswered(t)
             \/ AcceptanceTimeout(t) \/ CancelWaitEnds(t)
      PROVE  TrueRow(u)'
  <2>1. /\ proc.pc \in WaitPcs /\ proc.cur = t
        /\ \/ ledger' = ledger
           \/ \E res : res.filled \in Nat /\ ResultOf(Placed, res) /\ RecordResult(t, res)
    BY <1>3, WaitResults
  <2>2. /\ t \in proc.batch /\ \A j \in OrdersOf(t) : j = Placed
        /\ proc.pc \in SendPcs \cup {"record"} /\ Placed \in OrdersOf(t)
    BY <2>1, WaitFacts DEF WaitPcs, SendPcs, OrdersOf
  <2>3. orders' = orders \/ (AcceptanceTimeout(t) /\ RequestCancel(Placed))
    BY <1>3, Zenon DEF EmitPlaced, OutcomeUncertain, OrderAnswered, AcceptanceTimeout, CancelWaitEnds
  <2>4. CASE orders' = orders
    BY <1>0, <1>2, <1>n, <2>1, <2>2, <2>4
  <2>5. CASE AcceptanceTimeout(t) /\ RequestCancel(Placed)
    <3>1. NoNewOrder
      BY <2>5, TimeoutCancels
    <3>2. CASE u # t
      BY <1>0, <2>1, <3>1, <3>2, RecordWrites
    <3>3. CASE u = t
      <4>1. Placed \in LiveIds' /\ orders'[Placed].t = t
        <5>1. Placed \in Ids /\ orders[Placed].t = t /\ orders \in Seq(Order)
          BY <2>2 DEF OrdersOf, ExecInv, TypeOK, BrokerTypeOK
        <5>2. orders' = [orders EXCEPT ![Placed].st = "PendingCancel"]
          BY <2>5 DEF RequestCancel
        <5>3. orders[Placed] \in Order
          BY <5>1 DEF Ids
        <5>4. orders'[Placed].st = "PendingCancel"
          BY <5>1, <5>2, <5>3 DEF Ids, Order
        <5> QED
          BY <3>1, <5>1, <5>4 DEF NoNewOrder, Kept, LiveIds, IsLive, LiveRaw
      <4>2. IsOpen(ledger'[t])
        BY <4>1 DEF TrackInv, LiveOrderIsTracked
      <4>3. OrdersOf(t)' # {}
        BY <2>2, <3>1, SameFamilies
      <4> QED
        BY <3>3, <4>2, <4>3 DEF TrueRow, IsOpen, IsTerminal
    <3> QED
      BY <3>2, <3>3
  <2> QED
    BY <2>3, <2>4, <2>5
<1>4. ASSUME NEW t \in Trades, RecordPhaseResult(t) PROVE TrueRow(u)'
  <2>1. At("record") /\ t \in proc.todo /\ RecordResult(t, proc.res[t]) /\ orders' = orders
    BY <1>4, Zenon DEF RecordPhaseResult
  <2>2. t \in proc.batch /\ proc.pc \in SendPcs \cup {"record"}
    BY <2>1 DEF SubmitInv, BatchInv, At
  <2>3. \A j \in OrdersOf(t) : ResultOf(j, proc.res[t])
    BY <2>2 DEF SubmitInv, SentInv, OrdersOf
  <2>4. proc.res[t].filled \in Nat /\ (OrdersOf(t) = {} => proc.res[t].filled = 0)
    BY <2>2 DEF UnsentResultInv, ExecInv, TypeOK, ExecTypeOK, ProcType
  <2> QED
    BY <1>2, <2>1, <2>2, <2>3, <2>4
<1>5. ASSUME \/ BuildPlan \/ PlanDone \/ RepriceDone
             \/ BuysFit \/ BlockBuys \/ BlockDone \/ MarkDone
             \/ SendUnavailable \/ SendDone \/ RecordDone
             \/ \E t \in Trades : TrimBuy(t)
      PROVE  TrueRow(u)'
  <2>1. ledger' = ledger /\ orders' = orders
    BY <1>5, Zenon DEF BuildPlan, PlanDone, RepriceDone, BuysFit, BlockBuys, BlockDone, MarkDone,
                       SendUnavailable, SendDone, RecordDone, TrimBuy
  <2> QED
    BY <1>0, <1>n, <2>1
<1>6. ASSUME NEW t \in Trades, PlaceOrder(t) PROVE TrueRow(u)'
  <2>1. At("send") /\ t \in proc.todo /\ Place(t, "base", proc.sendq[t]) /\ ledger' = ledger
    BY <1>6, Zenon DEF PlaceOrder
  <2>2. NewOrderIs(t, "base", proc.sendq[t])
    <3>1. BrokerTypeOK /\ proc.sendq[t] \in 1..MaxQty
      BY DEF ExecInv, TypeOK, ExecTypeOK, ProcType
    <3> QED
      BY <2>1, <3>1, PlaceMoves
  <2>3. CASE u = t
    <3>1. ~IsTerminal(ledger[t])
      BY <2>1 DEF SubmitInv, MarkInv, SendPcs, At, IsTerminal, TerminalStates
    <3>2. OrdersOf(t)' # {}
      BY <2>2, NewFamilies
    <3> QED
      BY <2>1, <2>3, <3>1, <3>2 DEF TrueRow
  <2>4. CASE u # t
    <3>1. OrdersOf(u)' = OrdersOf(u)
      BY <2>2, <2>4, NewFamilies
    <3>2. \A i \in OrdersOf(u) : orders'[i] = orders[i]
      BY <2>2 DEF NewOrderIs, OrdersOf
    <3> QED
      BY <2>1, <3>1, <3>2 DEF TrueRow
  <2> QED
    BY <2>3, <2>4
<1> QED
  BY <1>1, <1>3, <1>4, <1>5, <1>6, Zenon DEF SubmissionStep


(* A pass that follows an open order leaves its row open. *)
LEMMA FollowedStaysOpen ==
    ASSUME ExecInv, OpenInv, SnapInv, NEW t \in Trades,
           FollowOpenOrder(t) \/ RecordTimeoutCancel(t)
    PROVE  ~IsTerminal(ledger'[t]) /\ OrdersOf(t) # {}
<1>e. InEntry(t)
  BY EntryStepEnds, Zenon
<1>f. ledger[t] \in Row /\ BrokerTypeOK
  BY <1>e, EntryFacts
<1>1. PICK s \in proc.opens :
        /\ s.id \in OpenMatches(t)
        /\ \/ Upsert(t, Followed(t, s))
           \/ Upsert(t, [Followed(t, s) EXCEPT !.st = "cancel_pending"])
  BY ReconcileRows, Zenon DEF FollowsOpen
<1>2. s \in Snap /\ s.filled < orders[s.id].qty /\ s.id \in Ids
  BY <1>e, EntryFacts
<1>3. orders[s.id].qty \in Nat
  BY <1>f, <1>2, OrderStatusRaw
<1>4. IsOpen(Followed(t, s)) /\ Followed(t, s) \in Row
  BY <1>f, <1>2, <1>3, FollowedIsOpen, FollowedRow
<1>5. [Followed(t, s) EXCEPT !.st = "cancel_pending"].st = "cancel_pending"
  BY <1>4 DEF Row
<1>6. \/ ledger'[t] = Followed(t, s)
      \/ ledger'[t] = [Followed(t, s) EXCEPT !.st = "cancel_pending"]
  BY <1>1, UpsertRow, Zenon
<1>7. s.id \in OrdersOf(t)
  BY <1>1, <1>2 DEF OpenMatches, Matches, ExactMatch, ReservedMatch, FamilyMatch, OrdersOf
<1> QED
  BY <1>4, <1>5, <1>6, <1>7 DEF IsOpen, IsTerminal, TerminalStates

(* A row closed from the history has the fill the executions report. *)
LEMMA HistoryIsTrue ==
    ASSUME ExecInv, PlainInv, proc.hist = {} \/ proc.execs, NEW t \in Trades, CloseFromHistory(t)
    PROVE  TrueRow(t)'
<1>t. ledger[t] \in Row /\ orders' = orders
  BY Zenon DEF ExecInv, TypeOK, ExecTypeOK, CloseFromHistory
<1>1. PICK i \in Ids : FollowsHistory(t, i) /\ Upsert(t, [Completed(t, i) EXCEPT !.repl = FALSE])
  BY ReconcileRows
<1>2. i \in proc.hist /\ i \in OrdersOf(t)
  BY <1>1 DEF FollowsHistory, HistMatches, Matches, ExactMatch, ReservedMatch, FamilyMatch, OrdersOf
<1>3. OrdersOf(t) = {i}
  BY <1>2, OnlyOrder
<1>4. Completed(t, i).filled = orders[i].filled /\ Completed(t, i) \in Row
  <2>1. HistFilled(i) = orders[i].filled
    BY <1>2 DEF HistFilled
  <2>2. HistUpdate(ledger[t], i) \in Row
    BY <1>t, HistUpdateRow
  <2> QED
    BY <1>t, <2>1, <2>2, SnapshotFields DEF Completed, HistUpdate
<1>5. ledger'[t].filled = orders[i].filled
  <2>1. [Completed(t, i) EXCEPT !.repl = FALSE].filled = Completed(t, i).filled
    BY <1>4 DEF Row
  <2> QED
    BY <1>1, <1>4, <2>1, UpsertRow
<1>6. OrdersOf(t)' = {i}
  BY <1>3, <1>t DEF OrdersOf, Ids
<1> QED
  BY <1>5, <1>6, <1>t DEF TrueRow

(* reconcile and check_stale_orders close rows truthfully. *)
LEMMA ReconcileIsTrue ==
    ASSUME ExecInv, IdentityInv, OpenInv, TrackInv, PlainInv, HistInv,
           \A t \in Trades : TrueRow(t), ReconcileStep
    PROVE  \A u \in Trades : TrueRow(u)'
<1> USE DEF IdentityInv
<1> SUFFICES ASSUME NEW u \in Trades PROVE TrueRow(u)'
  OBVIOUS
<1>t. ledger \in [Trades -> Row] /\ \A t \in Trades : ledger[t] \in Row
  BY DEF ExecInv, TypeOK, ExecTypeOK
<1>r. \A t \in Trades : ~ledger[t].repl
  BY DEF PlainInv, RowInv, GoodRow
<1>m. proc.pc \notin ReplacePcs
  <2>1. proc.pc \in {"rep_cancel", "rep_wait"} => proc.cur \in Trades
    BY DEF ExecInv, CursorInv
  <2>2. proc.pc \in ReplacePcs => proc.cur \in Trades
    <3>1. proc.todo \subseteq Trades
      BY DEF ExecInv, TypeOK, ExecTypeOK, ProcType
    <3> QED
      BY <3>1 DEF OpenInv
  <2> QED
    BY <1>r, <2>2 DEF ReserveInv
<1>0. ASSUME NoNewOrder, ledger'[u] = ledger[u] PROVE TrueRow(u)'
  BY <1>0, TrueRowStays DEF TrackInv
<1>n. NoNewOrder
  <2>1. ASSUME NEW t \in Trades PROVE ~PlaceReplacement(t) /\ ~SubmitReplacementPlaces(t)
    BY <1>m DEF PlaceReplacement, SubmitReplacementPlaces, At, ReplacePcs
  <2>2. ASSUME orders' = orders PROVE NoNewOrder
    BY <2>2, OrdersStay DEF ExecInv, TypeOK
  <2>3. ASSUME NEW t \in Trades, SendTimeoutCancel(t) \/ ReplaceCancelsOriginal(t) \/ SendStaleCancel(t)
        PROVE  NoNewOrder
    BY <2>3, PassCancels, Zenon
  <2> QED
    BY <2>1, <2>2, <2>3, ReconcileOrders, Zenon
<1>a. ASSUME NEW t \in Trades, NEW row, Upsert(t, row), TrueRow(t)' PROVE TrueRow(u)'
  <2>1. CASE u = t
    BY <1>a, <2>1
  <2>2. CASE u # t
    BY <1>0, <1>a, <1>n, <2>2, UpsertRow
  <2> QED
    BY <2>1, <2>2
<1>1. ASSUME NEW t \in Trades, FollowOpenOrder(t) \/ RecordTimeoutCancel(t) PROVE TrueRow(u)'
  <2>1. ~IsTerminal(ledger'[t]) /\ OrdersOf(t) # {}
    BY <1>1, FollowedStaysOpen DEF TrackInv
  <2>2. OrdersOf(t)' # {}
    BY <1>n, <2>1, SameFamilies
  <2>3. \E row : Upsert(t, row)
    BY <1>1, ReconcileRows, Zenon
  <2>4. TrueRow(t)'
    BY <2>1, <2>2 DEF TrueRow
  <2> QED
    BY <1>a, <2>3, <2>4, Zenon
<1>2. ASSUME NEW t \in Trades, CloseFromHistory(t) PROVE TrueRow(u)'
  <2>1. proc.hist = {} \/ proc.execs
    <3>1. At("rec_entry")
      BY <1>2, Zenon DEF CloseFromHistory, FollowsHistory, AtEntry
    <3> QED
      BY <3>1 DEF HistInv, At, PassPcs
  <2>2. TrueRow(t)'
    BY <1>2, <2>1, HistoryIsTrue
  <2>3. \E row : Upsert(t, row)
    BY <1>2, ReconcileRows, Zenon
  <2> QED
    BY <1>a, <2>2, <2>3, Zenon
<1>3. ASSUME NEW t \in Trades, LeaveUnverified(t) \/ RecordStaleCancel(t) PROVE TrueRow(u)'
  <2>1. PICK row : /\ Upsert(t, row)
                   /\ \/ row = [ledger[t] EXCEPT !.st = "unknown", !.raw = "NotOpenUnverified"]
                      \/ row = [ledger[t] EXCEPT !.st = "cancel_pending"]
    BY <1>3, ReconcileRows, Zenon
  <2>2. row.filled = ledger[t].filled /\ row.st \in {"unknown", "cancel_pending"}
    BY <1>t, <2>1 DEF Row
  <2>3. ledger'[t] = row
    BY <2>1, UpsertRow
  <2>4. TrueRow(t)'
    BY <1>n, <2>2, <2>3, TrueRowStays DEF TrackInv, IsTerminal, TerminalStates
  <2> QED
    BY <1>a, <2>1, <2>4
<1>4. ASSUME NEW t \in Trades, ReserveReplacement(t) PROVE TrueRow(u)'
  <2>1. IsOpen(ledger'[t]) /\ OnlyRow(t)
    BY <1>4, ReservedRow
  <2>2. OrdersOf(t)' # {}
    BY <1>4, <1>n, ReserveIdentity, SameFamilies
  <2>3. TrueRow(t)'
    BY <2>1, <2>2 DEF TrueRow, IsOpen, IsTerminal
  <2> QED
    BY <1>0, <1>n, <2>1, <2>3 DEF OnlyRow
<1>5. ASSUME NEW t \in Trades,
             \/ AdoptReplacement(t) \/ RecordReplacement(t) \/ OriginalFilledMeanwhile(t)
             \/ ReplaceDeferred(t)
      PROVE  FALSE
  <2>1. CASE AdoptReplacement(t)
    BY <1>r, <2>1 DEF AdoptReplacement, MatchIsReplacement, ReservedMatch
  <2>2. CASE RecordReplacement(t) \/ OriginalFilledMeanwhile(t) \/ ReplaceDeferred(t)
    <3>1. proc.pc \in {"rep_placed", "resume_placed", "rep_wait"}
      BY <2>2, Zenon DEF RecordReplacement, OriginalFilledMeanwhile, ReplaceDeferred, At
    <3> QED
      BY <1>m, <3>1 DEF ReplacePcs
  <2> QED
    BY <1>5, <2>1, <2>2
<1> QED
  BY <1>0, <1>n, <1>1, <1>2, <1>3, <1>4, <1>5, ReconcileWrites, Zenon

(* The whole layer is kept by every step. *)
LEMMA TruthStep ==
    ASSUME ExecInv, IdentityInv, SubmitInv, OpenInv, TrackInv, TrackInv', ReplacementInv, TruthInv,
           [Next]_vars
    PROVE  TruthInv'
<1> SUFFICES ASSUME ~LossyFills, ~AutoReplace
             PROVE  PlainInv' /\ UnsentResultInv' /\ \A t \in Trades : TrueRow(t)'
  BY DEF TruthInv
<1>0. PlainInv /\ UnsentResultInv /\ HistInv /\ \A t \in Trades : TrueRow(t)
  BY DEF TruthInv, ReplacementInv
<1>1. PlainInv' /\ UnsentResultInv'
  BY <1>0, PlainStep, UnsentResultStep
<1>2. CASE SubmissionStep
  BY <1>0, <1>1, <1>2, SubmissionIsTrue
<1>3. CASE ReconcileStep
  BY <1>0, <1>1, <1>3, ReconcileIsTrue
<1>4. CASE BrokerActs \/ Crash \/ UNCHANGED vars
  <2>1. ledger' = ledger
    BY <1>4 DEF BrokerActs, Crash, execVars, vars
  <2>2. NoNewOrder
    <3>1. CASE BrokerActs
      BY <3>1, BrokerMoves DEF BrokerActs, ExecInv, TypeOK, IdentityInv
    <3>2. CASE Crash \/ UNCHANGED vars
      BY <3>2, OrdersStay DEF Crash, vars, ExecInv, TypeOK, IdentityInv
    <3> QED
      BY <1>4, <3>1, <3>2
  <2> QED
    BY <1>0, <1>1, <2>1, <2>2, TrueRowStays DEF TrackInv
<1>5. ASSUME NEW t \in Trades, Tick(t) PROVE \A u \in Trades : TrueRow(u)'
  <2>1. orders' = orders /\ Upsert(t, [ledger[t] EXCEPT !.age = @ + 1]) /\ ledger[t] \in Row
    BY <1>5 DEF Tick, ExecInv, TypeOK, ExecTypeOK
  <2>2. NoNewOrder
    BY <2>1, OrdersStay DEF ExecInv, TypeOK, IdentityInv
  <2>3. \A u \in Trades : ledger'[u].filled = ledger[u].filled /\ ledger'[u].st = ledger[u].st
    <3>1. [ledger[t] EXCEPT !.age = @ + 1].filled = ledger[t].filled
          /\ [ledger[t] EXCEPT !.age = @ + 1].st = ledger[t].st
      BY <2>1 DEF Row
    <3> QED
      BY <2>1, <3>1, UpsertRow
  <2> QED
    BY <1>0, <2>2, <2>3, TrueRowStays DEF TrackInv, IsTerminal
<1> QED
  BY <1>1, <1>2, <1>3, <1>4, <1>5, Zenon DEF Next

(* Without replacements every row says what was executed. *)
THEOREM TruthInvariant == Spec => []TruthInv
<1>1. Init => TruthInv
  <2> SUFFICES ASSUME Init PROVE TruthInv
    OBVIOUS
  <2>1. Ids = {} /\ proc.pc = "idle"
    BY DEF Init, BrokerInit, ExecInit, IdleProc, Ids
  <2>2. \A t \in Trades : ledger[t].rc = 0 /\ ledger[t].filled = 0 /\ ledger[t].st = "absent"
    BY DEF Init, ExecInit, AbsentRow, PlannedRow
  <2> QED
    BY <2>1, <2>2 DEF TruthInv, PlainInv, UnsentResultInv, TrueRow, IsTerminal, TerminalStates, SendPcs
<1>2. ExecInv /\ IdentityInv /\ SubmitInv /\ OpenInv /\ TrackInv /\ TrackInv' /\ ReplacementInv
        /\ TruthInv /\ [Next]_vars => TruthInv'
  BY TruthStep
<1> QED
  BY <1>1, <1>2, ExecInvariant, IdentityInvariant, SubmitInvariant, OpenInvariant,
     TrackInvariant, ReplacementInvariant, PTL DEF Spec


(* Executed is a fold; of a trade without orders it is 0. *)
LEMMA ExecutedNone ==
    ASSUME NEW t, OrdersOf(t) = {}
    PROVE  Executed(t) = 0
<1> DEFINE G(iter) == [s \in SUBSET {} |->
             IF s = {} THEN 0
             ELSE orders[CHOOSE x \in s : TRUE].filled + iter[s \ {CHOOSE x \in s : TRUE}]]
           it == CHOOSE iter : iter = G(iter)
           w == [s \in SUBSET {} |-> 0]
<1>1. Executed(t) = it[{}]
  BY DEF Executed, MapThenSumSet, MapThenFoldSet
<1>2. w = G(w)
  OBVIOUS
<1>3. it = G(it)
  <2> HIDE DEF w, G
  <2> QED
    BY <1>2
<1> HIDE DEF it
<1>4. it[{}] = 0
  BY <1>3
<1> QED
  BY <1>1, <1>4

(* The same for the one order of a trade. *)
LEMMA ExecutedOne ==
    ASSUME NEW t, NEW i, OrdersOf(t) = {i}, orders[i].filled \in Nat
    PROVE  Executed(t) = orders[i].filled
<1> DEFINE G(iter) == [s \in SUBSET {i} |->
             IF s = {} THEN 0
             ELSE orders[CHOOSE x \in s : TRUE].filled + iter[s \ {CHOOSE x \in s : TRUE}]]
           it == CHOOSE iter : iter = G(iter)
           w == [s \in SUBSET {i} |-> IF s = {} THEN 0 ELSE orders[i].filled]
<1>1. Executed(t) = it[{i}]
  BY DEF Executed, MapThenSumSet, MapThenFoldSet
<1>2. w = G(w)
  <2>1. ASSUME NEW s \in SUBSET {i}, s # {}
        PROVE  (CHOOSE x \in s : TRUE) = i /\ s \ {CHOOSE x \in s : TRUE} = {}
    <3>1. s = {i}
      BY <2>1
    <3>2. (CHOOSE x \in s : TRUE) \in s
      BY <3>1
    <3> QED
      BY <3>1, <3>2
  <2>2. \A s \in SUBSET {i} : w[s] = G(w)[s]
    BY <2>1
  <2>3. G(w) = [s \in SUBSET {i} |-> G(w)[s]]
    OBVIOUS
  <2> HIDE DEF G
  <2> QED
    BY <2>2, <2>3
<1>3. it = G(it)
  <2> HIDE DEF w, G
  <2> QED
    BY <1>2
<1>4. (CHOOSE x \in {i} : TRUE) = i /\ {i} \ {i} = {}
  OBVIOUS
<1> HIDE DEF it
<1>5. it[{i}] = orders[i].filled + it[{}] /\ it[{}] = 0
  <2>1. it[{i}] = G(it)[{i}] /\ it[{}] = G(it)[{}]
    BY <1>3
  <2> QED
    BY <1>4, <2>1
<1> QED
  BY <1>1, <1>5

(* with_snapshot and with_order_result: as long as IBKR reports the        *)
(* executions of completed orders and unfilled orders are not replaced, a  *)
(* terminal row tells the truth.  Nothing of the trade is live any more,   *)
(* and the recorded fill is what the broker executed.                      *)
THEOREM TerminalRowsAreTrue == Spec => [](~LossyFills /\ ~AutoReplace => TerminalRowIsTrue)
<1>1. ASSUME ExecInv, TrackInv, TruthInv, ~LossyFills, ~AutoReplace,
             NEW t \in Trades, IsTerminal(ledger[t])
      PROVE  OrdersOf(t) \cap LiveIds = {} /\ ledger[t].filled = Executed(t)
  <2>0. PlainInv /\ TrueRow(t)
    BY <1>1 DEF TruthInv
  <2>1. OrdersOf(t) \cap LiveIds = {}
    BY <1>1 DEF TrackInv, LiveOrderIsTracked, IsOpen, IsTerminal, OrdersOf
  <2>2. CASE OrdersOf(t) = {}
    BY <2>0, <2>1, <2>2, ExecutedNone DEF TrueRow
  <2>3. ASSUME NEW i \in OrdersOf(t) PROVE ledger[t].filled = Executed(t)
    <3>1. OrdersOf(t) = {i} /\ i \in Ids
      BY <1>1, <2>0, <2>3, OnlyOrder
    <3>2. orders[i].filled \in Nat
      BY <1>1, <3>1, OrderStatusRaw DEF ExecInv, TypeOK
    <3> QED
      BY <1>1, <2>0, <2>3, <3>1, <3>2, ExecutedOne DEF TrueRow
  <2> QED
    BY <2>1, <2>2, <2>3
<1>2. ExecInv /\ TrackInv /\ TruthInv => (~LossyFills /\ ~AutoReplace => TerminalRowIsTrue)
  BY <1>1 DEF TerminalRowIsTrue
<1> QED
  BY <1>2, ExecInvariant, TrackInvariant, TruthInvariant, PTL

-----------------------------------------------------------------------------
(* Sixth layer: the buys at work are paid for. *)

(* How a step of submit_plan that neither ends it nor fits the buys moves  *)
(* through the phases.                                                     *)
Advances ==
    LET from == proc.pc
        to   == proc'.pc
    IN
    /\ proc'.job = proc.job /\ proc'.sendq = proc.sendq
    /\ \/ from \in {"plan", "plan_trade"} /\ to = "plan_trade"
       \/ from = "plan_trade" /\ to = "reprice" /\ proc'.phase = "SELL"
       \/ from \in PhasePcs /\ proc.phase = "SELL" /\ to = "reprice" /\ proc'.phase = "BUY"
       \/ /\ proc'.phase = proc.phase
          /\ \/ from = "reprice" /\ to = "reprice"
             \/ from = "reprice" /\ to = "fit" /\ proc.phase = "BUY"
             \/ from = "reprice" /\ to = "mark" /\ proc.phase = "SELL"
             \/ from \in {"fit", "block"} /\ to = "block"
             \/ from = "mark" /\ to = "mark" /\ proc'.batch = proc.batch
             \/ from = "mark" /\ to = "send" /\ proc'.todo = proc.batch
             \/ from \in SendPcs /\ to \in SendPcs /\ proc'.todo \subseteq proc.todo
             \/ from \in SendPcs \cup {"record"} /\ to = "record"

(* Every step of submit_plan ends it, fits the buys or advances so. *)
LEMMA SubmissionAdvances ==
    ASSUME proc \in ProcType, SubmissionStep
    PROVE  \/ EndProcess
           \/ BuysFit \/ \E t \in Trades : TrimBuy(t)
           \/ Advances
<1>0. ASSUME NextPhase, proc.pc \in PhasePcs PROVE EndProcess \/ Advances
  <2>1. CASE proc.phase = "SELL"
    BY <1>0, <2>1 DEF NextPhase, StartPhase, ProcType, Advances
  <2> QED
    BY <1>0, <2>1 DEF NextPhase
<1>2. ASSUME NEW resOf, StopSending(resOf), proc.pc \in SendPcs PROVE Advances
  BY <1>2 DEF StopSending, ProcType, Advances, SendPcs
<1>3. ASSUME NEW t, NEW r, ReturnResult(t, r), proc.pc \in SendPcs PROVE Advances
  <2>1. \/ \E resOf : StopSending(resOf)
        \/ \E n : proc' = [proc EXCEPT !.pc = "send", !.cur = NoTrade, !.fails = n, !.res[t] = r]
    BY <1>3, Zenon DEF ReturnResult
  <2>2. ASSUME NEW n, proc' = [proc EXCEPT !.pc = "send", !.cur = NoTrade, !.fails = n, !.res[t] = r]
        PROVE  Advances
    BY <1>3, <2>2 DEF ProcType, Advances, SendPcs
  <2> QED
    BY <1>2, <1>3, <2>1, <2>2
<1>4. CASE BuildPlan
  <2>1. proc.pc = "plan" /\ \E P : proc' = [proc EXCEPT !.pc = "plan_trade", !.todo = P, !.fresh = {}]
    BY <1>4, Zenon DEF BuildPlan, At
  <2> QED
    BY <2>1 DEF ProcType, Advances
<1>5. CASE PlanDone
  BY <1>5 DEF PlanDone, StartPhase, ProcType, Advances, At
<1>6. CASE RepriceDone
  <2>1. proc.pc = "reprice"
        /\ \/ NextPhase
           \/ proc.phase = "BUY" /\ proc' = [proc EXCEPT !.pc = "fit"]
           \/ proc.phase # "BUY" /\ proc' = [proc EXCEPT !.pc = "mark", !.todo = proc.batch]
    BY <1>6, Zenon DEF RepriceDone, At
  <2>2. CASE NextPhase
    BY <1>0, <2>1, <2>2 DEF PhasePcs
  <2>3. CASE proc.phase = "BUY" /\ proc' = [proc EXCEPT !.pc = "fit"]
    BY <2>1, <2>3 DEF ProcType, Advances
  <2>4. CASE proc.phase # "BUY" /\ proc' = [proc EXCEPT !.pc = "mark", !.todo = proc.batch]
    BY <2>1, <2>4 DEF ProcType, Advances
  <2> QED
    BY <2>1, <2>2, <2>3, <2>4
<1>7. CASE BlockDone \/ RecordDone
  <2>1. proc.pc \in {"block", "record"} /\ NextPhase
    BY <1>7, Zenon DEF BlockDone, RecordDone, At
  <2> QED
    BY <1>0, <2>1 DEF PhasePcs
<1>8. CASE BlockBuys
  BY <1>8 DEF BlockBuys, ProcType, Advances, At
<1>9. CASE MarkDone
  BY <1>9 DEF MarkDone, ProcType, Advances, At
<1>10. CASE SendUnavailable \/ SendDone
  <2>1. proc.pc \in SendPcs /\ \E resOf : StopSending(resOf)
    BY <1>10, Zenon DEF SendUnavailable, SendDone, At, SendPcs
  <2> QED
    BY <1>2, <2>1
<1>11. ASSUME NEW t \in Trades,
             \/ PlanTrade(t) \/ RepriceTrade(t) \/ BlockOnQuote(t)
             \/ BlockBuy(t) \/ MarkUnconfirmed(t) \/ RecordPhaseResult(t)
      PROVE  Advances
  <2>1. \/ /\ proc.pc \in {"plan_trade", "reprice", "block", "mark", "record"}
           /\ \/ proc' = [proc EXCEPT !.todo = @ \ {t}]
              \/ proc' = [proc EXCEPT !.todo = @ \ {t}, !.fresh = @ \cup {t}]
        \/ proc.pc = "reprice" /\ proc' = [proc EXCEPT !.todo = @ \ {t}, !.batch = @ \cup {t}]
    BY <1>11, Zenon DEF PlanTrade, RepriceTrade, BlockOnQuote, BlockBuy, MarkUnconfirmed,
                       RecordPhaseResult, At
  <2>2. /\ proc'.pc = proc.pc /\ proc'.job = proc.job /\ proc'.sendq = proc.sendq
        /\ proc'.phase = proc.phase /\ (proc.pc = "mark" => proc'.batch = proc.batch)
        /\ proc.pc \in {"plan_trade", "reprice", "block", "mark", "record"}
    BY <2>1 DEF ProcType
  <2>3. CASE proc.pc = "mark"
    BY <2>2, <2>3 DEF Advances
  <2>4. CASE proc.pc = "plan_trade"
    BY <2>2, <2>4 DEF Advances
  <2>5. CASE proc.pc = "reprice"
    BY <2>2, <2>5 DEF Advances
  <2>6. CASE proc.pc = "block"
    BY <2>2, <2>6 DEF Advances
  <2>7. CASE proc.pc = "record"
    BY <2>2, <2>7 DEF Advances
  <2> QED
    BY <2>2, <2>3, <2>4, <2>5, <2>6, <2>7
<1>12. ASSUME NEW t \in Trades, SendFails(t) \/ PlaceOrder(t) \/ EmitPlaced(t)
      PROVE  Advances
  <2>1. \/ At("send") /\ proc' = [proc EXCEPT !.todo = @ \ {t}, !.res[t] = Result("Failed", NoId, 0)]
        \/ At("send") /\ proc' = [proc EXCEPT !.pc = "placed", !.cur = t, !.todo = @ \ {t}]
        \/ At("placed") /\ proc' = [proc EXCEPT !.pc = "wait"]
    BY <1>12, Zenon DEF SendFails, PlaceOrder, EmitPlaced
  <2>2. /\ proc.pc \in SendPcs /\ proc'.pc \in SendPcs /\ proc'.job = proc.job
        /\ proc'.sendq = proc.sendq /\ proc'.phase = proc.phase /\ proc'.todo \subseteq proc.todo
    <3>1. CASE At("send") /\ proc' = [proc EXCEPT !.todo = @ \ {t}, !.res[t] = Result("Failed", NoId, 0)]
      BY <3>1 DEF ProcType, At, SendPcs
    <3>2. CASE At("send") /\ proc' = [proc EXCEPT !.pc = "placed", !.cur = t, !.todo = @ \ {t}]
      BY <3>2 DEF ProcType, At, SendPcs
    <3>3. CASE At("placed") /\ proc' = [proc EXCEPT !.pc = "wait"]
      BY <3>3 DEF ProcType, At, SendPcs
    <3> QED
      BY <2>1, <3>1, <3>2, <3>3
  <2> QED
    BY <2>2, Zenon DEF Advances
<1>13. ASSUME NEW t \in Trades,
             \/ OutcomeUncertain(t) \/ OrderAnswered(t) \/ AcceptanceTimeout(t) \/ CancelWaitEnds(t)
      PROVE  Advances
  <2>1. /\ proc.pc \in SendPcs
        /\ \/ \E resOf : StopSending(resOf)
           \/ \E r : ReturnResult(t, r)
           \/ proc' = [proc EXCEPT !.pc = "wait_cancel"]
    <3>1. proc.pc \in {"placed", "wait", "wait_cancel"}
      BY <1>13, Zenon DEF OutcomeUncertain, OrderAnswered, AcceptanceTimeout, CancelWaitEnds, At
    <3>2. \/ \E resOf : StopSending(resOf)
          \/ \E r : ReturnResult(t, r)
          \/ proc' = [proc EXCEPT !.pc = "wait_cancel"]
      BY <1>13, Zenon DEF OutcomeUncertain, OrderAnswered, AcceptanceTimeout, CancelWaitEnds
    <3> QED
      BY <3>1, <3>2 DEF SendPcs
  <2>2. ASSUME proc' = [proc EXCEPT !.pc = "wait_cancel"] PROVE Advances
    BY <2>1, <2>2 DEF ProcType, Advances, SendPcs
  <2> QED
    BY <1>2, <1>3, <2>1, <2>2
<1> QED
  BY <1>4, <1>5, <1>6, <1>7, <1>8, <1>9, <1>10, <1>11, <1>12, <1>13, Zenon DEF SubmissionStep

(* How a step of a pass moves on: into another pass, on through the stale  *)
(* check of a rebalance, or out.                                           *)
PassMoves ==
    /\ proc.pc \notin SubmitPcs /\ cash' = cash
    /\ proc'.sendq = proc.sendq \/ proc'.sendq = Qty
    /\ \/ StartRebalance /\ proc'.pc = "rec_open"
       \/ /\ session' = session
          /\ \/ proc'.pc = "idle"
             \/ proc'.pc = "rec_open" /\ proc'.job = "reconcile"
             \/ /\ proc.pc # "idle" /\ proc'.job = proc.job
                /\ \/ proc'.pc \in ReconcilePcs
                   \/ proc'.pc \in StalePcs \cup {"plan"}
                      /\ (proc.pc \in StalePcs \/ proc.job = "rebalance")

(* Every step of a pass moves so. *)
LEMMA ReconcileMoves ==
    ASSUME ExecInv, ReconcileStep
    PROVE  PassMoves
<1>t. proc \in ProcType
  BY DEF ExecInv, TypeOK, ExecTypeOK
<1>s. proc.pc \notin SubmitPcs /\ cash' = cash
  <2>1. ASSUME \/ StartReconcile \/ StartRebalance
               \/ ReconcileRaises \/ FetchOpenOrders \/ FetchHistory \/ FetchHistoryFails
               \/ FinishReconcile \/ StaleCheck \/ StaleCancelEnds
        PROVE  /\ cash' = cash
               /\ proc.pc \in {"idle", "rec_open", "rec_hist", "rec_entry", "stale", "stale_cancel",
                              "stale_cancelled"}
    BY <2>1, Zenon DEF StartReconcile, StartRebalance, ReconcileRaises, FetchOpenOrders,
                       FetchHistory, FetchHistoryFails, FinishReconcile, StaleCheck,
                       StaleCancelEnds, At
  <2>2. ASSUME NEW t \in Trades,
               \/ HistoryUnavailable(t) \/ AdoptReplacement(t)
               \/ FollowOpenOrder(t) \/ SendTimeoutCancel(t) \/ RecordTimeoutCancel(t)
               \/ EntryCallFails(t)
               \/ ReserveReplacement(t) \/ ReplaceRefused(t) \/ ReplaceCancelsOriginal(t)
               \/ OriginalFilledMeanwhile(t) \/ ReplaceDeferred(t)
               \/ PlaceReplacement(t) \/ RecordReplacement(t)
               \/ CloseFromHistory(t) \/ ResumeReplacement(t)
               \/ SubmitReplacementPlaces(t)
               \/ LeaveUnverified(t)
               \/ SendStaleCancel(t) \/ RecordStaleCancel(t) \/ SkipStaleCancel(t)
        PROVE  /\ cash' = cash
               /\ proc.pc \in {"rec_entry", "rec_cancelled", "rep_cancel", "rep_wait", "rep_placed",
                              "resume", "resume_placed", "stale_cancel", "stale_cancelled"}
    BY <2>2, Zenon
       DEF HistoryUnavailable, AdoptReplacement, FollowOpenOrder, SendTimeoutCancel,
           RecordTimeoutCancel, EntryCallFails, ReserveReplacement, ReplaceRefused,
           ReplaceCancelsOriginal, OriginalFilledMeanwhile, ReplaceDeferred, PlaceReplacement,
           RecordReplacement, CloseFromHistory, ResumeReplacement, SubmitReplacementPlaces,
           LeaveUnverified, SendStaleCancel, RecordStaleCancel, SkipStaleCancel,
           FollowsOpen, FollowsHistory, AtEntry, At
  <2>3. proc.pc \in {"idle", "rec_open", "rec_hist", "rec_entry", "rec_cancelled", "rep_cancel",
                    "rep_wait", "rep_placed", "resume", "resume_placed", "stale", "stale_cancel",
                    "stale_cancelled"} /\ cash' = cash
    BY <2>1, <2>2, Zenon DEF ReconcileStep
  <2> QED
    BY <2>3 DEF SubmitPcs
<1>1. ASSUME StartReconcile \/ ReconcileRaises \/ FinishReconcile \/ StaleCancelEnds \/ StaleCheck
      PROVE  PassMoves
  <2>1. /\ session' = session
        /\ \/ proc' = IdleProc
           \/ proc' = [IdleProc EXCEPT !.pc = "rec_open", !.job = "reconcile"]
           \/ /\ proc.pc = "rec_entry" /\ proc.job = "rebalance"
              /\ proc' = [IdleProc EXCEPT !.pc = "stale", !.job = "rebalance"]
           \/ proc.pc = "stale" /\ proc' = [proc EXCEPT !.pc = "plan"]
           \/ proc.pc = "stale" /\ proc' = [proc EXCEPT !.pc = "stale_cancel", !.todo = ForeignEntries]
    BY <1>1, Zenon DEF StartReconcile, ReconcileRaises, FinishReconcile, StaleCancelEnds, StaleCheck,
                       EndProcess, At
  <2>2. CASE proc' = IdleProc
    BY <1>s, <2>1, <2>2 DEF IdleProc, PassMoves
  <2>3. CASE proc' = [IdleProc EXCEPT !.pc = "rec_open", !.job = "reconcile"]
    BY <1>s, <2>1, <2>3 DEF IdleProc, PassMoves
  <2>4. CASE /\ proc.pc = "rec_entry" /\ proc.job = "rebalance"
             /\ proc' = [IdleProc EXCEPT !.pc = "stale", !.job = "rebalance"]
    BY <1>s, <2>1, <2>4 DEF IdleProc, PassMoves, StalePcs
  <2>5. CASE proc.pc = "stale" /\ proc' = [proc EXCEPT !.pc = "plan"]
    BY <1>s, <1>t, <2>1, <2>5 DEF ProcType, PassMoves, StalePcs
  <2>6. CASE proc.pc = "stale" /\ proc' = [proc EXCEPT !.pc = "stale_cancel", !.todo = ForeignEntries]
    BY <1>s, <1>t, <2>1, <2>6 DEF ProcType, PassMoves, StalePcs
  <2> QED
    BY <2>1, <2>2, <2>3, <2>4, <2>5, <2>6
<1>2. CASE StartRebalance
  <2>1. proc'.pc = "rec_open" /\ proc'.sendq = Qty
    BY <1>2 DEF StartRebalance, IdleProc
  <2> QED
    BY <1>2, <1>s, <2>1 DEF PassMoves
<1>3. ASSUME session' = session, proc'.sendq = proc.sendq, proc'.job = proc.job, proc.pc # "idle",
             \/ proc'.pc \in {"rec_hist", "rec_entry", "rec_cancelled", "rep_cancel", "rep_wait",
                             "rep_placed", "resume", "resume_placed"}
             \/ proc.pc \in StalePcs /\ proc'.pc \in StalePcs
      PROVE  PassMoves
  <2>1. proc'.pc \in ReconcilePcs \/ (proc.pc \in StalePcs /\ proc'.pc \in StalePcs)
    BY <1>3 DEF ReconcilePcs
  <2> QED
    BY <1>s, <1>3, <2>1 DEF PassMoves
<1>4. CASE FetchOpenOrders \/ FetchHistory \/ FetchHistoryFails
  <2>1. /\ session' = session /\ proc.pc # "idle"
        /\ \E pc \in {"rec_hist", "rec_entry"} :
             \/ \E S, T : proc' = [proc EXCEPT !.pc = pc, !.opens = S, !.todo = T]
             \/ \E H, x : proc' = [proc EXCEPT !.pc = pc, !.hist = H, !.execs = x]
             \/ proc' = [proc EXCEPT !.pc = pc, !.histErr = TRUE]
    <3>1. CASE FetchOpenOrders
      BY <3>1 DEF FetchOpenOrders, At
    <3>2. CASE FetchHistory \/ FetchHistoryFails
      BY <3>2, Zenon DEF FetchHistory, FetchHistoryFails, At
    <3> QED
      BY <1>4, <3>1, <3>2
  <2>2. PICK pc \in {"rec_hist", "rec_entry"} :
             \/ \E S, T : proc' = [proc EXCEPT !.pc = pc, !.opens = S, !.todo = T]
             \/ \E H, x : proc' = [proc EXCEPT !.pc = pc, !.hist = H, !.execs = x]
             \/ proc' = [proc EXCEPT !.pc = pc, !.histErr = TRUE]
    BY <2>1
  <2>3. proc'.pc = pc /\ proc'.sendq = proc.sendq /\ proc'.job = proc.job
    BY <1>t, <2>2 DEF ProcType
  <2> QED
    BY <1>3, <2>1, <2>3
<1>5. ASSUME NEW t \in Trades,
             \/ HistoryUnavailable(t) \/ AdoptReplacement(t) \/ FollowOpenOrder(t)
             \/ RecordTimeoutCancel(t) \/ EntryCallFails(t) \/ ReplaceRefused(t)
             \/ OriginalFilledMeanwhile(t) \/ ReplaceDeferred(t) \/ RecordReplacement(t)
             \/ CloseFromHistory(t) \/ LeaveUnverified(t)
      PROVE  PassMoves
  <2>1. EndsEntry(t) /\ InEntry(t)
    BY <1>5, EntryStepEnds
  <2>2. session' = session
    BY <1>5, Zenon
       DEF HistoryUnavailable, AdoptReplacement, FollowOpenOrder,
           RecordTimeoutCancel, EntryCallFails, ReplaceRefused, OriginalFilledMeanwhile,
           ReplaceDeferred, RecordReplacement, CloseFromHistory, LeaveUnverified
  <2>3. proc.pc # "idle"
    BY <2>1 DEF InEntry, AtEntry, At, ReplacePcs
  <2>4. proc'.pc = "rec_entry" /\ proc'.sendq = proc.sendq /\ proc'.job = proc.job
    <3>1. CASE EntryDone(t)
      BY <1>t, <3>1 DEF EntryDone, ProcType
    <3>2. CASE EntryFails(t)
      BY <1>t, <3>2 DEF EntryFails, ProcType
    <3> QED
      BY <2>1, <3>1, <3>2 DEF EndsEntry
  <2> QED
    BY <1>3, <2>2, <2>3, <2>4
<1>6. ASSUME NEW t \in Trades,
             \/ SendTimeoutCancel(t) \/ ReserveReplacement(t) \/ ResumeReplacement(t)
             \/ ReplaceCancelsOriginal(t) \/ PlaceReplacement(t) \/ SubmitReplacementPlaces(t)
      PROVE  PassMoves
  <2>1. PICK pc \in {"rec_cancelled", "rep_cancel", "resume", "rep_wait", "rep_placed",
                     "resume_placed"} : CallsBroker(t, pc) /\ InEntry(t)
    BY <1>t, <1>6, EntryCalls DEF InEntry
  <2>2. session' = session
    BY <1>6, Zenon DEF SendTimeoutCancel, ReserveReplacement, ResumeReplacement,
                       ReplaceCancelsOriginal, PlaceReplacement, SubmitReplacementPlaces
  <2>3. proc.pc # "idle"
    BY <2>1 DEF InEntry, AtEntry, At, ReplacePcs
  <2>4. proc'.pc = pc /\ proc'.sendq = proc.sendq /\ proc'.job = proc.job
    BY <1>t, <2>1 DEF CallsBroker, ProcType
  <2> QED
    BY <1>3, <2>2, <2>3, <2>4
<1>7. ASSUME NEW t \in Trades, SendStaleCancel(t) \/ RecordStaleCancel(t) \/ SkipStaleCancel(t)
      PROVE  PassMoves
  <2>1. /\ session' = session /\ proc.pc \in StalePcs
        /\ \/ proc' = [proc EXCEPT !.pc = "stale_cancelled", !.cur = t]
           \/ proc' = [proc EXCEPT !.pc = "stale_cancel", !.cur = NoTrade, !.todo = @ \ {t}]
           \/ proc' = [proc EXCEPT !.todo = @ \ {t}]
    BY <1>7, Zenon DEF SendStaleCancel, RecordStaleCancel, SkipStaleCancel, At, StalePcs
  <2>2. proc'.pc \in StalePcs /\ proc'.sendq = proc.sendq /\ proc'.job = proc.job
    BY <1>t, <2>1 DEF ProcType, StalePcs
  <2>3. proc.pc # "idle"
    BY <2>1 DEF StalePcs
  <2> QED
    BY <1>3, <2>1, <2>2, <2>3
<1> QED
  BY <1>1, <1>2, <1>4, <1>5, <1>6, <1>7, Zenon DEF ReconcileStep

-----------------------------------------------------------------------------
(* What the orders at work and the batch still to be sent take from cash.  *)

ClaimsOf(os) ==
    [i \in DOMAIN os |-> IF SideOf[os[i].t] = "BUY" THEN Remaining(os[i]) ELSE 0]

LiveOf(os) == {i \in DOMAIN os : os[i].st \in LiveRaw}

ClaimedBy(os) == SumFunctionOnSet(ClaimsOf(os), LiveOf(os))

(* Increments that working buys may still fill. *)
Claimed == SumFunctionOnSet(Claims, LiveIds)

(* The buys that the cash was fitted to and that are not sent yet. *)
ToPay ==
    IF proc.phase # "BUY" THEN {}
    ELSE IF At("mark") THEN proc.batch
    ELSE IF proc.pc \in SendPcs THEN proc.todo
    ELSE {}

Owed == SumFunctionOnSet(proc.sendq, ToPay)

(* A sequence of orders has a finite number of claims, none of them        *)
(* negative.                                                               *)
LEMMA ClaimTypes ==
    ASSUME NEW os \in Seq(Order)
    PROVE  /\ IsFiniteSet(DOMAIN os) /\ ClaimsOf(os) \in [DOMAIN os -> Int]
           /\ \A i \in DOMAIN os : ClaimsOf(os)[i] >= 0
           /\ LiveOf(os) \in SUBSET DOMAIN os
           /\ ClaimedBy(os) \in Int /\ ClaimedBy(os) >= 0
<1>1. IsFiniteSet(DOMAIN os)
  <2>1. DOMAIN os = 1..Len(os) /\ Len(os) \in Nat
    OBVIOUS
  <2> QED
    BY <2>1, FS_Interval
<1>2. \A i \in DOMAIN os : os[i] \in Order
  OBVIOUS
<1>3. \A o \in Order : Remaining(o) \in Nat
  BY DEF Order, Remaining, Monus
<1>4. \A i \in DOMAIN os : ClaimsOf(os)[i] \in Nat
  BY <1>2, <1>3 DEF ClaimsOf
<1>5. ClaimsOf(os) \in [DOMAIN os -> Int]
  BY <1>4 DEF ClaimsOf
<1>6. LiveOf(os) \in SUBSET DOMAIN os
  BY DEF LiveOf
<1>7. \A i \in LiveOf(os) : ClaimsOf(os)[i] >= 0
  BY <1>4, <1>6
<1>8. ClaimedBy(os) \in Int
  BY <1>1, <1>5, <1>6, SumRecursion DEF ClaimedBy
<1>9. ClaimedBy(os) >= 0
  BY <1>1, <1>5, <1>6, <1>7, SumNatural DEF ClaimedBy
<1> QED
  BY <1>1, <1>4, <1>5, <1>6, <1>8, <1>9

(* The claims before and after a step. *)
LEMMA ClaimedValue ==
    /\ Claimed = ClaimedBy(orders) /\ Claimed' = ClaimedBy(orders')
    /\ LiveIds = LiveOf(orders) /\ LiveIds' = LiveOf(orders')
BY DEF Claimed, Claims, ClaimedBy, ClaimsOf, LiveOf, LiveIds, Ids, IsLive

(* The claims are natural numbers. *)
LEMMA ClaimedType ==
    ASSUME BrokerTypeOK
    PROVE  Claimed \in Nat
BY ClaimTypes, ClaimedValue DEF BrokerTypeOK

(* What an order may still take never grows. *)
LEMMA ClaimFalls ==
    ASSUME BrokerTypeOK, BrokerTypeOK', NoNewOrder, NEW i \in Ids
    PROVE  ClaimsOf(orders')[i] <= ClaimsOf(orders)[i]
<1>1. /\ orders[i] \in Order /\ orders'[i] \in Order /\ i \in DOMAIN orders /\ i \in DOMAIN orders'
      /\ Kept(i)
  BY DEF BrokerTypeOK, NoNewOrder, Ids
<1>2. \A o \in Order : o.qty \in Nat /\ o.filled \in Nat
  BY DEF Order
<1>3. Remaining(orders'[i]) <= Remaining(orders[i])
  BY <1>1, <1>2 DEF Kept, Remaining, Monus
<1> QED
  BY <1>1, <1>3 DEF ClaimsOf, Kept

(* Nor do the claims together, as long as no order is placed. *)
LEMMA ClaimsFall ==
    ASSUME BrokerTypeOK, BrokerTypeOK', NoNewOrder
    PROVE  Claimed' <= Claimed
<1> DEFINE F == ClaimsOf(orders')
           G == ClaimsOf(orders)
<1>1. /\ IsFiniteSet(Ids) /\ F \in [Ids -> Int] /\ G \in [Ids -> Int]
      /\ LiveIds \in SUBSET Ids /\ LiveIds' \in SUBSET Ids /\ LiveIds' \subseteq LiveIds
      /\ \A i \in LiveIds : G[i] >= 0
  <2>1. DOMAIN orders = Ids /\ DOMAIN orders' = Ids
    BY DEF NoNewOrder, Ids
  <2>2. LiveIds' \subseteq LiveIds
    BY LiveBefore
  <2> QED
    BY <2>1, <2>2, ClaimTypes, ClaimedValue DEF BrokerTypeOK
<1>2. \A i \in LiveIds' : F[i] <= G[i]
  BY <1>1, ClaimFalls
<1> HIDE DEF F, G
<1>3. SumFunctionOnSet(F, LiveIds') <= SumFunctionOnSet(G, LiveIds)
  BY <1>1, <1>2, SumShrinks
<1> QED
  BY <1>3, ClaimedValue DEF ClaimedBy, F, G

(* A fill of a buy uses up a part of the claims that its price was kept    *)
(* for.                                                                    *)
LEMMA FillUsesClaim ==
    ASSUME BrokerTypeOK, BrokerTypeOK', NoNewOrder, NEW i \in Ids, Fill(i), SideOf[orders[i].t] = "BUY"
    PROVE  Claimed' <= Claimed - 1 /\ cash' = cash - Price
<1> DEFINE F == ClaimsOf(orders')
           G == ClaimsOf(orders)
           Sum(f, T) == SumFunctionOnSet(f, T)
<1>1. /\ IsFiniteSet(Ids) /\ F \in [Ids -> Int] /\ G \in [Ids -> Int]
      /\ LiveIds \in SUBSET Ids /\ LiveIds' \in SUBSET Ids /\ LiveIds' \subseteq LiveIds
      /\ \A j \in Ids : G[j] >= 0 /\ F[j] <= G[j]
  <2>1. DOMAIN orders = Ids /\ DOMAIN orders' = Ids
    BY DEF NoNewOrder, Ids
  <2>2. LiveIds' \subseteq LiveIds
    BY LiveBefore
  <2> QED
    BY <2>1, <2>2, ClaimTypes, ClaimFalls, ClaimedValue DEF BrokerTypeOK
<1>2. i \in LiveIds /\ cash' = cash - Price /\ G[i] >= 1 /\ F[i] = G[i] - 1
  <2>1. /\ orders[i] \in Order /\ orders[i].filled \in Nat /\ orders[i].qty \in Nat
        /\ orders[i].filled < orders[i].qty
    BY OrderStatusRaw DEF Fill
  <2> DEFINE st == IF orders[i].filled + 1 = orders[i].qty THEN "Filled"
                   ELSE IF orders[i].st = "PendingSubmit" THEN "Submitted"
                   ELSE orders[i].st
             o == [orders[i] EXCEPT !.filled = orders[i].filled + 1, !.st = st]
  <2>2. orders' = [orders EXCEPT ![i] = o]
    BY DEF Fill
  <2> HIDE DEF st
  <2>3. o.t = orders[i].t /\ o.qty = orders[i].qty /\ o.filled = orders[i].filled + 1
    BY <2>1 DEF Order
  <2> HIDE DEF o
  <2>4. orders'[i] = o
    BY <2>2 DEF BrokerTypeOK, Ids
  <2>5. Remaining(orders[i]) >= 1 /\ Remaining(o) = Remaining(orders[i]) - 1
    BY <2>1, <2>3 DEF Remaining, Monus
  <2>6. G[i] = Remaining(orders[i]) /\ F[i] = Remaining(o)
    BY <2>3, <2>4 DEF ClaimsOf, Ids, NoNewOrder
  <2>7. i \in LiveIds /\ cash' = cash - Price
    BY DEF Fill, LiveIds
  <2> QED
    BY <2>5, <2>6, <2>7
<1> HIDE DEF F, G
<1>3. Sum(G, LiveIds) = G[i] + Sum(G, LiveIds \ {i})
  BY <1>1, <1>2, SumRemove
<1>4. Sum(F, LiveIds' \ {i}) <= Sum(G, LiveIds \ {i})
  <2>1. /\ LiveIds' \ {i} \in SUBSET Ids /\ LiveIds \ {i} \in SUBSET Ids
        /\ LiveIds' \ {i} \subseteq LiveIds \ {i}
        /\ \A j \in LiveIds \ {i} : G[j] >= 0
        /\ \A j \in LiveIds' \ {i} : F[j] <= G[j]
    BY <1>1
  <2> QED
    BY <1>1, <2>1, SumShrinks
<1>5. Sum(F, LiveIds') = F[i] + Sum(F, LiveIds' \ {i}) \/ Sum(F, LiveIds') = Sum(F, LiveIds' \ {i})
  <2>1. CASE i \in LiveIds'
    BY <1>1, <2>1, SumRemove
  <2>2. CASE i \notin LiveIds'
    <3>1. LiveIds' \ {i} = LiveIds'
      BY <2>2
    <3> QED
      BY <3>1
  <2> QED
    BY <2>1, <2>2
<1>6. \A T \in SUBSET Ids : Sum(F, T) \in Int /\ Sum(G, T) \in Int
  BY <1>1, SumRecursion
<1>7. /\ Sum(F, LiveIds') \in Int /\ Sum(F, LiveIds' \ {i}) \in Int /\ Sum(G, LiveIds) \in Int
      /\ Sum(G, LiveIds \ {i}) \in Int /\ F[i] \in Int /\ G[i] \in Int
  BY <1>1, <1>6
<1>8. Claimed = Sum(G, LiveIds) /\ Claimed' = Sum(F, LiveIds')
  BY ClaimedValue DEF ClaimedBy, F, G
<1> HIDE DEF Sum
<1> QED
  BY <1>2, <1>3, <1>4, <1>5, <1>7, <1>8

(* placeOrder: a new buy claims its quantity, a new sell nothing. *)
LEMMA NewClaim ==
    ASSUME BrokerTypeOK, BrokerTypeOK', NEW t \in Trades, NEW ref, NEW q \in 1..MaxQty,
           NewOrderIs(t, ref, q)
    PROVE  Claimed' = Claimed + (IF SideOf[t] = "BUY" THEN q ELSE 0)
<1> DEFINE F == ClaimsOf(orders')
           G == ClaimsOf(orders)
           n == Len(orders')
           c == IF SideOf[t] = "BUY" THEN q ELSE 0
<1>1. /\ IsFiniteSet(Ids) /\ IsFiniteSet(Ids') /\ F \in [Ids' -> Int] /\ G \in [Ids -> Int]
      /\ LiveIds \in SUBSET Ids /\ LiveIds' \in SUBSET Ids'
  BY ClaimTypes, ClaimedValue DEF BrokerTypeOK, Ids
<1>2. /\ Ids' = Ids \cup {n} /\ n \notin Ids /\ \A i \in Ids : orders'[i] = orders[i]
      /\ orders'[n] = NewOrder(t, ref, q)
  BY DEF NewOrderIs
<1>3. NewOrder(t, ref, q).t = t /\ Remaining(NewOrder(t, ref, q)) = q
      /\ NewOrder(t, ref, q).st \in LiveRaw
  BY DEF NewOrder, Remaining, Monus, LiveRaw
<1>4. F[n] = c /\ c \in Int
  BY <1>2, <1>3 DEF ClaimsOf, Ids
<1>5. \A i \in Ids : F[i] = G[i]
  BY <1>2 DEF ClaimsOf, Ids
<1>6. LiveIds' \ {n} = LiveIds /\ n \in LiveIds'
  BY <1>2, <1>3 DEF LiveIds, IsLive
<1>7. SumFunctionOnSet(F, LiveIds') = F[n] + SumFunctionOnSet(F, LiveIds' \ {n})
  <2> HIDE DEF F, n
  <2> QED
    BY <1>1, <1>6, SumRemove
<1>8. SumFunctionOnSet(F, LiveIds) = SumFunctionOnSet(G, LiveIds)
  <2>1. LiveIds \in SUBSET (Ids' \cap Ids) /\ \A i \in LiveIds : F[i] = G[i]
    BY <1>1, <1>2, <1>5
  <2> HIDE DEF F, G
  <2> QED
    BY <1>1, <2>1, SumSame
<1>9. Claimed \in Nat
  BY ClaimedType
<1>10. Claimed = SumFunctionOnSet(G, LiveIds) /\ Claimed' = SumFunctionOnSet(F, LiveIds')
  BY ClaimedValue DEF ClaimedBy
<1> HIDE DEF F, G, c, n
<1>11. Claimed' = c + Claimed
  BY <1>4, <1>6, <1>7, <1>8, <1>10
<1> QED
  BY <1>4, <1>9, <1>11 DEF c

(* What is still to be paid for is a natural number. *)
LEMMA OwedType ==
    ASSUME proc \in ProcType
    PROVE  /\ proc.sendq \in [Trades -> Int] /\ \A t \in Trades : proc.sendq[t] >= 1
           /\ ToPay \in SUBSET Trades /\ Owed \in Nat
           /\ ToPay = {} => Owed = 0
<1>1. /\ proc.sendq \in [Trades -> Int] /\ \A t \in Trades : proc.sendq[t] >= 1
      /\ proc.batch \subseteq Trades /\ proc.todo \subseteq Trades
  BY DEF ProcType
<1>2. ToPay \in SUBSET Trades
  BY <1>1 DEF ToPay
<1>3. Owed \in Int /\ (ToPay = {} => Owed = 0)
  BY <1>1, <1>2, SumRecursion DEF Owed
<1>4. \A t \in ToPay : proc.sendq[t] >= 0
  BY <1>1, <1>2
<1>5. Owed >= 0
  BY <1>1, <1>2, <1>4, SumNatural DEF Owed
<1> QED
  BY <1>1, <1>2, <1>3, <1>5

(* The same after a step, whose process has the same quantities. *)
LEMMA OwedFalls ==
    ASSUME proc \in ProcType, proc' \in ProcType, ToPay' \subseteq ToPay,
           proc'.sendq = proc.sendq \/ ToPay' = {}
    PROVE  Owed' \in Nat /\ Owed' <= Owed
<1>1. /\ proc.sendq \in [Trades -> Int] /\ \A t \in Trades : proc.sendq[t] >= 1
      /\ ToPay \in SUBSET Trades /\ Owed \in Nat
  BY OwedType
<1>2. proc'.sendq \in [Trades -> Int] /\ \A t \in Trades : proc'.sendq[t] >= 1
  BY DEF ProcType
<1>3. CASE ToPay' = {}
  BY <1>1, <1>2, <1>3, SumEmpty DEF Owed
<1>4. CASE proc'.sendq = proc.sendq
  <2>1. ToPay' \in SUBSET Trades
    BY <1>1
  <2>2. /\ \A t \in ToPay : proc.sendq[t] >= 0
        /\ \A t \in ToPay' : proc'.sendq[t] >= 0 /\ proc'.sendq[t] <= proc.sendq[t]
    BY <1>1, <1>2, <1>4, <2>1
  <2>3. SumFunctionOnSet(proc'.sendq, ToPay') <= SumFunctionOnSet(proc.sendq, ToPay)
    BY <1>1, <1>2, <2>1, <2>2, SumShrinks
  <2>4. SumFunctionOnSet(proc'.sendq, ToPay') \in Int /\ SumFunctionOnSet(proc'.sendq, ToPay') >= 0
    BY <1>2, <2>1, <2>2, SumRecursion, SumNatural
  <2> QED
    BY <2>3, <2>4 DEF Owed
<1> QED
  BY <1>3, <1>4

-----------------------------------------------------------------------------
(* The cash changes only when an order fills.                              *)
LEMMA CashMoves ==
    ASSUME ExecInv, [Next]_vars
    PROVE  cash' = cash \/ \E i \in Ids : Fill(i) /\ UNCHANGED execVars
<1>1. CASE SubmissionStep
  <2>1. ASSUME \/ BuildPlan \/ PlanDone \/ RepriceDone
               \/ BuysFit \/ BlockBuys \/ BlockDone \/ MarkDone
               \/ SendUnavailable \/ SendDone \/ RecordDone
        PROVE  cash' = cash
    BY <2>1, Zenon DEF BuildPlan, PlanDone, RepriceDone, BuysFit, BlockBuys, BlockDone, MarkDone,
                       SendUnavailable, SendDone, RecordDone
  <2>2. ASSUME NEW t \in Trades,
               \/ PlanTrade(t) \/ RepriceTrade(t) \/ BlockOnQuote(t) \/ TrimBuy(t)
               \/ BlockBuy(t) \/ MarkUnconfirmed(t) \/ SendFails(t) \/ PlaceOrder(t)
               \/ EmitPlaced(t) \/ OutcomeUncertain(t) \/ OrderAnswered(t)
               \/ AcceptanceTimeout(t) \/ CancelWaitEnds(t) \/ RecordPhaseResult(t)
        PROVE  cash' = cash
    BY <2>2, Zenon DEF PlanTrade, RepriceTrade, BlockOnQuote, TrimBuy, BlockBuy, MarkUnconfirmed,
                       SendFails, PlaceOrder, EmitPlaced, OutcomeUncertain, OrderAnswered,
                       AcceptanceTimeout, CancelWaitEnds, RecordPhaseResult
  <2> QED
    BY <1>1, <2>1, <2>2, Zenon DEF SubmissionStep
<1>2. CASE ReconcileStep
  BY <1>2, ReconcileMoves DEF PassMoves
<1>3. CASE BrokerActs
  BY <1>3 DEF BrokerActs, BrokerStep, Accept, Reject, ConfirmCancel, RejectCancel, CloseOut
<1>4. CASE Crash \/ (\E t \in Trades : Tick(t)) \/ UNCHANGED vars
  BY <1>4, Zenon DEF Crash, Tick, vars
<1> QED
  BY <1>1, <1>2, <1>3, <1>4, Zenon DEF Next

(* Quantities differ from the plan only between the fitting of the buys    *)
(* and the end of their phase.                                             *)
FitInv ==
    /\ At("fit") => proc.phase = "BUY"
    /\ proc.sendq = Qty \/ (proc.phase = "BUY" /\ proc.pc \in {"mark", "record"} \cup SendPcs)

(* _fit_buys_to_refreshed_cash: the batch moves on to its mark. *)
LEMMA FitFields ==
    ASSUME proc \in ProcType, BuysFit \/ \E t \in Trades : TrimBuy(t)
    PROVE  /\ proc.pc = "fit" /\ proc'.pc = "mark" /\ proc'.batch = proc.batch
           /\ proc'.phase = proc.phase /\ proc'.job = proc.job
           /\ UNCHANGED <<orders, cash, ledger, session>>
<1>1. /\ proc.pc = "fit" /\ UNCHANGED <<orders, cash, ledger, session>>
      /\ \/ proc' = [proc EXCEPT !.pc = "mark", !.todo = proc.batch]
         \/ \E t, q : proc' = [proc EXCEPT !.pc = "mark", !.todo = proc.batch,
                                          !.sendq = [@ EXCEPT ![t] = q]]
  BY Zenon DEF BuysFit, TrimBuy, At
<1>2. CASE proc' = [proc EXCEPT !.pc = "mark", !.todo = proc.batch]
  BY <1>1, <1>2 DEF ProcType
<1>3. ASSUME NEW t, NEW q, proc' = [proc EXCEPT !.pc = "mark", !.todo = proc.batch,
                                                !.sendq = [@ EXCEPT ![t] = q]]
      PROVE  /\ proc'.pc = "mark" /\ proc'.batch = proc.batch
             /\ proc'.phase = proc.phase /\ proc'.job = proc.job
  BY <1>3 DEF ProcType
<1> QED
  BY <1>1, <1>2, <1>3

(* Every step keeps the quantities of the plan until buys are fitted. *)
LEMMA FitStep ==
    ASSUME ExecInv, FitInv, [Next]_vars
    PROVE  FitInv'
<1>t. proc \in ProcType
  BY DEF ExecInv, TypeOK, ExecTypeOK
<1>e. ASSUME EndProcess PROVE FitInv'
  <2>1. proc'.pc = "idle" /\ proc'.sendq = Qty
    BY <1>e DEF EndProcess, IdleProc
  <2> QED
    BY <2>1 DEF FitInv, At
<1>1. CASE SubmissionStep
  <2>1. CASE EndProcess
    BY <1>e, <2>1
  <2>2. CASE BuysFit \/ \E t \in Trades : TrimBuy(t)
    <3>1. proc.pc = "fit" /\ proc'.pc = "mark" /\ proc'.phase = proc.phase
      BY <1>t, <2>2, FitFields
    <3> QED
      BY <3>1 DEF FitInv, At
  <2>3. CASE Advances
    <3>1. CASE proc.sendq = Qty
      <4>1. proc'.sendq = Qty /\ (proc'.pc = "fit" => proc'.phase = "BUY")
        BY <2>3, <3>1 DEF Advances, SendPcs
      <4> QED
        BY <4>1 DEF FitInv, At
    <3>2. CASE proc.sendq # Qty
      <4>1. proc.phase = "BUY" /\ proc.pc \in {"mark", "record"} \cup SendPcs
        BY <3>2 DEF FitInv
      <4>2. proc'.phase = "BUY" /\ proc'.pc \in {"mark", "record"} \cup SendPcs
        BY <2>3, <4>1 DEF Advances, SendPcs
      <4> QED
        BY <4>2 DEF FitInv, At
    <3> QED
      BY <3>1, <3>2
  <2> QED
    BY <1>t, <1>1, <2>1, <2>2, <2>3, SubmissionAdvances
<1>2. CASE ReconcileStep
  <2>1. PassMoves
    BY <1>2, ReconcileMoves
  <2>2. proc.sendq = Qty
    BY <2>1 DEF PassMoves, FitInv, SubmitPcs, SendPcs
  <2>3. proc'.pc # "fit"
    BY <2>1 DEF PassMoves, ReconcilePcs, StalePcs
  <2> QED
    BY <2>1, <2>2, <2>3 DEF PassMoves, FitInv, At
<1>3. CASE Crash
  BY <1>3, <1>e DEF Crash
<1>4. CASE BrokerActs \/ (\E t \in Trades : Tick(t)) \/ UNCHANGED vars
  <2>1. proc' = proc
    BY <1>4, Zenon DEF BrokerActs, Tick, vars, execVars
  <2> QED
    BY <2>1 DEF FitInv, At
<1> QED
  BY <1>1, <1>2, <1>3, <1>4, Zenon DEF Next

-----------------------------------------------------------------------------
(* A run with a single attempt finds no order of its own.                  *)

(* A rebalance that has not sent anything yet. *)
BeforePhases == ReconcilePcs \cup StalePcs \cup {"plan", "plan_trade"}

(* The points of a phase before its first order. *)
BeforeSending == {"reprice", "fit", "block", "mark"}

FirstInv ==
    /\ session.run > 0 => session.attempts >= 1
    /\ proc.pc \in StalePcs \cup SubmitPcs => proc.job = "rebalance"
    /\ \A i \in Ids :
          /\ RunOf[orders[i].t] <= session.run
          /\ proc.job = "rebalance" /\ proc.pc \in BeforePhases => RunOf[orders[i].t] # session.run
          /\ /\ proc.pc \in PhasePcs /\ (proc.phase = "SELL" \/ proc.pc \in BeforeSending)
             /\ RunOf[orders[i].t] = session.run
             => SideOf[orders[i].t] = "SELL"

(* A trade that is about to be sent is of the run and the side at hand. *)
LEMMA SentTrade ==
    ASSUME ExecInv, FamilyInv, SubmitInv, NEW t \in Trades, PlaceOrder(t)
    PROVE  /\ SideOf[t] = proc.phase /\ RunOf[t] = session.run
           /\ proc.pc = "send" /\ t \in proc.todo /\ proc'.pc = "placed"
           /\ proc'.todo = proc.todo \ {t} /\ proc'.phase = proc.phase /\ proc'.job = proc.job
           /\ proc'.sendq = proc.sendq
           /\ UNCHANGED <<cash, ledger, session>>
<1>1. /\ proc.pc = "send" /\ t \in proc.todo /\ UNCHANGED <<cash, ledger, session>>
      /\ proc' = [proc EXCEPT !.pc = "placed", !.cur = t, !.todo = @ \ {t}]
  BY DEF PlaceOrder, At
<1>2. proc \in ProcType /\ proc.todo \subseteq OfSide(proc.fresh, proc.phase)
  BY <1>1, PhaseFacts DEF PhasePcs
<1>3. RunOf[t] = session.run
  BY <1>1 DEF SubmitInv, RunInv, SubmitPcs
<1> QED
  BY <1>1, <1>2, <1>3 DEF ProcType, OfSide

(* Every step keeps it, where a run is attempted once: a second one would  *)
(* find the orders of the first.                                           *)
LEMMA FirstStep ==
    ASSUME ExecInv, IdentityInv, SubmitInv, PlainInv, FirstInv, MaxAttempts <= 1, [Next]_vars
    PROVE  FirstInv'
<1>t. /\ proc \in ProcType /\ BrokerTypeOK
      /\ session \in [run : 0..MaxRun, attempts : 0..MaxAttempts]
      /\ \A t \in Trades : RunOf[t] \in Nat
      /\ \A i \in Ids : orders[i].t \in Trades
  BY OrderStatusRaw DEF ExecInv, TypeOK, ExecTypeOK
<1> DEFINE Old == \A i \in Ids' : i \in Ids /\ orders'[i].t = orders[i].t
<1>r. \A t \in Trades : ~ledger[t].repl
  BY DEF PlainInv, IdentityInv, RowInv, GoodRow
<1>o. Old \/ \E t \in Trades : PlaceOrder(t)
  <2>1. ASSUME NoNewOrder PROVE Old
    BY <2>1 DEF NoNewOrder, Kept
  <2>2. ASSUME NEW t \in Trades, PlaceReplacement(t) \/ SubmitReplacementPlaces(t), ~PlaceOrder(t)
        PROVE  FALSE
    BY <1>r, <2>2, PlacesOrder DEF IdentityInv
  <2> QED
    BY <2>1, <2>2, OrderMoves DEF IdentityInv
<1> HIDE DEF Old
<1>e. ASSUME Old, session' = session, proc'.pc = "idle" PROVE FirstInv'
  BY <1>e DEF FirstInv, Old, SubmitPcs, StalePcs, PhasePcs, BeforePhases, ReconcilePcs
<1>s. ASSUME Old, UNCHANGED <<session, proc>> PROVE FirstInv'
  BY <1>s DEF FirstInv, Old
<1>1. ASSUME NEW t \in Trades, PlaceOrder(t) PROVE FirstInv'
  <2>1. /\ SideOf[t] = proc.phase /\ RunOf[t] = session.run
        /\ proc.pc = "send" /\ proc'.pc = "placed"
        /\ proc'.phase = proc.phase /\ proc'.job = proc.job /\ session' = session
    BY <1>1, SentTrade DEF IdentityInv
  <2>2. PICK q : NewOrderIs(t, "base", q)
    BY <1>1, PlacesOrder DEF IdentityInv
  <2>3. NewOrder(t, "base", q).t = t
    BY DEF NewOrder
  <2>4. \A i \in Ids' : \/ i \in Ids /\ orders'[i].t = orders[i].t
                        \/ orders'[i].t = t
    BY <2>2, <2>3 DEF NewOrderIs
  <2>5. proc.job = "rebalance"
    BY <2>1 DEF FirstInv, SubmitPcs
  <2>6. ASSUME NEW i \in Ids'
        PROVE  /\ RunOf[orders'[i].t] <= session.run
               /\ proc.phase = "SELL" /\ RunOf[orders'[i].t] = session.run => SideOf[orders'[i].t] = "SELL"
    <3>1. CASE orders'[i].t = t
      BY <1>t, <2>1, <3>1
    <3>2. CASE i \in Ids /\ orders'[i].t = orders[i].t
      BY <2>1, <3>2 DEF FirstInv, PhasePcs
    <3> QED
      BY <2>4, <3>1, <3>2
  <2>7. proc'.pc \notin BeforePhases \cup BeforeSending
    BY <2>1 DEF BeforePhases, BeforeSending, ReconcilePcs, StalePcs
  <2> QED
    BY <2>1, <2>5, <2>6, <2>7 DEF FirstInv
<1>2. ASSUME Old, SubmissionStep PROVE FirstInv'
  <2>0. session' = session
    <3>1. ASSUME \/ BuildPlan \/ PlanDone \/ RepriceDone
                 \/ BuysFit \/ BlockBuys \/ BlockDone \/ MarkDone
                 \/ SendUnavailable \/ SendDone \/ RecordDone
          PROVE  session' = session
      BY <3>1, Zenon DEF BuildPlan, PlanDone, RepriceDone, BuysFit, BlockBuys, BlockDone, MarkDone,
                         SendUnavailable, SendDone, RecordDone
    <3>2. ASSUME NEW t \in Trades,
                 \/ PlanTrade(t) \/ RepriceTrade(t) \/ BlockOnQuote(t) \/ TrimBuy(t)
                 \/ BlockBuy(t) \/ MarkUnconfirmed(t) \/ SendFails(t) \/ PlaceOrder(t)
                 \/ EmitPlaced(t) \/ OutcomeUncertain(t) \/ OrderAnswered(t)
                 \/ AcceptanceTimeout(t) \/ CancelWaitEnds(t) \/ RecordPhaseResult(t)
          PROVE  session' = session
      BY <3>2, Zenon DEF PlanTrade, RepriceTrade, BlockOnQuote, TrimBuy, BlockBuy, MarkUnconfirmed,
                         SendFails, PlaceOrder, EmitPlaced, OutcomeUncertain, OrderAnswered,
                         AcceptanceTimeout, CancelWaitEnds, RecordPhaseResult
    <3> QED
      BY <1>2, <3>1, <3>2, Zenon DEF SubmissionStep
  <2>1. CASE EndProcess
    <3>1. proc'.pc = "idle"
      BY <2>1 DEF EndProcess, IdleProc
    <3> QED
      BY <1>2, <1>e, <2>0, <3>1
  <2>2. CASE BuysFit \/ \E t \in Trades : TrimBuy(t)
    <3>1. proc.pc = "fit" /\ proc'.pc = "mark" /\ proc'.phase = proc.phase /\ proc'.job = proc.job
      BY <1>t, <2>2, FitFields
    <3> QED
      BY <1>2, <2>0, <3>1 DEF FirstInv, Old, SubmitPcs, PhasePcs, BeforePhases, BeforeSending,
                              ReconcilePcs, StalePcs
  <2>3. CASE Advances
    <3>1. proc.pc \in SubmitPcs /\ proc.job = "rebalance" /\ proc'.job = "rebalance"
      BY <2>3 DEF Advances, SubmitPcs, SendPcs, PhasePcs, FirstInv
    <3>2. proc'.pc \in BeforePhases => proc.pc \in BeforePhases
      BY <2>3 DEF Advances, BeforePhases, ReconcilePcs, StalePcs, SendPcs
    <3>3. proc'.pc \in PhasePcs /\ (proc'.phase = "SELL" \/ proc'.pc \in BeforeSending)
            => \/ proc.pc \in BeforePhases
               \/ proc.pc \in PhasePcs /\ (proc.phase = "SELL" \/ proc.pc \in BeforeSending)
      BY <2>3 DEF Advances, BeforePhases, BeforeSending, PhasePcs, SendPcs
    <3> QED
      BY <1>2, <2>0, <3>1, <3>2, <3>3 DEF FirstInv, Old
  <2> QED
    BY <1>t, <1>2, <2>1, <2>2, <2>3, SubmissionAdvances
<1>3. ASSUME Old, ReconcileStep PROVE FirstInv'
  <2>0. PassMoves
    BY <1>3, ReconcileMoves
  <2>1. CASE StartRebalance /\ proc'.pc = "rec_open"
    <3>1. session.run < MaxRun /\ session' = [run |-> session.run + 1, attempts |-> 1]
      BY <1>t, <2>1 DEF StartRebalance, FirstInv
    <3>2. session'.run = session.run + 1 /\ session'.attempts = 1 /\ session.run \in Nat
      BY <1>t, <3>1
    <3>3. ASSUME NEW i \in Ids'
          PROVE  RunOf[orders'[i].t] <= session'.run /\ RunOf[orders'[i].t] # session'.run
      BY <1>t, <1>3, <3>2 DEF FirstInv, Old
    <3> QED
      BY <2>1, <3>2, <3>3 DEF FirstInv, SubmitPcs, StalePcs
  <2>2. CASE session' = session /\ proc'.pc = "idle"
    BY <1>3, <1>e, <2>2
  <2>3. CASE session' = session /\ proc'.pc = "rec_open" /\ proc'.job = "reconcile"
    BY <1>3, <2>3 DEF FirstInv, Old, SubmitPcs, StalePcs, PhasePcs
  <2>4. CASE /\ session' = session /\ proc.pc # "idle" /\ proc'.job = proc.job
             /\ \/ proc'.pc \in ReconcilePcs
                \/ proc'.pc \in StalePcs \cup {"plan"}
                   /\ (proc.pc \in StalePcs \/ proc.job = "rebalance")
    <3>1. proc.pc \in BeforePhases
      BY <1>t, <2>0, <2>4 DEF PassMoves, BeforePhases, ProcType
    <3>2. proc'.pc \notin PhasePcs /\ (proc'.pc \in StalePcs \cup SubmitPcs => proc.job = "rebalance")
      BY <2>4 DEF FirstInv, ReconcilePcs, StalePcs, SubmitPcs, PhasePcs
    <3> QED
      BY <1>3, <2>4, <3>1, <3>2 DEF FirstInv, Old
  <2> QED
    BY <2>0, <2>1, <2>2, <2>3, <2>4 DEF PassMoves
<1>4. ASSUME Old, Crash PROVE FirstInv'
  BY <1>4, <1>e DEF Crash, EndProcess, IdleProc
<1>5. ASSUME Old, BrokerActs \/ (\E t \in Trades : Tick(t)) \/ UNCHANGED vars PROVE FirstInv'
  <2>1. UNCHANGED <<session, proc>>
    BY <1>5, Zenon DEF BrokerActs, Tick, vars, execVars
  <2> QED
    BY <1>5, <1>s, <2>1
<1> QED
  BY <1>o, <1>1, <1>2, <1>3, <1>4, <1>5, Zenon DEF Next

-----------------------------------------------------------------------------
(* The inductive invariant: what working buys claim, and what the batch at *)
(* hand will claim, is covered.                                            *)
Funded == Claimed + Owed > 0 => Price * (Claimed + Owed) <= cash

FundInv ==
    NoRivalClaims => PlainInv /\ FitInv /\ (MaxAttempts <= 1 => FirstInv) /\ Funded

(* When buys are fitted to the cash, no buy is at work. *)
LEMMA NoRivalAtFit ==
    ASSUME ExecInv, IdentityInv, SubmitInv, LiveOrderIsTracked, NoRivalClaims,
           MaxAttempts <= 1 => FirstInv,
           At("fit"), proc.phase = "BUY", proc.batch # {}
    PROVE  Claimed = 0
<1>1. PICK u \in proc.batch : TRUE
  OBVIOUS
<1>2. /\ proc \in ProcType /\ BrokerTypeOK
      /\ proc.batch \subseteq OfSide(proc.fresh, "BUY") /\ proc.fresh \subseteq Trades
  BY PhaseFacts DEF At, PhasePcs, ProcType
<1>3. /\ u \in Trades /\ SideOf[u] = "BUY" /\ u \in proc.fresh
      /\ RunOf[u] = session.run /\ ForeignEntries = {}
  BY <1>1, <1>2 DEF OfSide, SubmitInv, RunInv, SubmitPcs, At
<1>4. u \in ToSend
  BY <1>1, ToSendValue DEF At
<1>5. ASSUME NEW i \in LiveIds PROVE SideOf[orders[i].t] # "BUY"
  <2>1. i \in Ids /\ orders[i].t \in Trades /\ IsOpen(ledger[orders[i].t])
    BY <1>2, OrderStatusRaw DEF LiveIds, LiveOrderIsTracked
  <2>2. RunOf[orders[i].t] = session.run
    BY <1>3, <2>1 DEF ForeignEntries, OpenEntries
  <2>3. orders[i].t # u
    BY <1>4, <2>1, SubmitFacts DEF IdentityInv
  <2>4. CASE OneBuyPerRun
    BY <1>3, <2>1, <2>2, <2>3, <2>4 DEF OneBuyPerRun, OfSide
  <2>5. CASE MaxAttempts <= 1
    BY <2>1, <2>2, <2>5 DEF FirstInv, PhasePcs, BeforeSending, At
  <2> QED
    BY <2>4, <2>5 DEF NoRivalClaims
<1>6. /\ IsFiniteSet(Ids) /\ ClaimsOf(orders) \in [Ids -> Int] /\ LiveIds \in SUBSET Ids
  BY <1>2, ClaimTypes, ClaimedValue DEF BrokerTypeOK, Ids
<1>7. \A i \in LiveIds : ClaimsOf(orders)[i] = 0
  BY <1>5, <1>6 DEF ClaimsOf, Ids
<1> QED
  BY <1>6, <1>7, SumZero, ClaimedValue DEF ClaimedBy

(* Whole increments are cut until the shortfall is gone. *)
LEMMA CutCoversShortfall ==
    ASSUME NEW s \in Int
    PROVE  /\ (s + Price - 1) \div Price \in Int
           /\ s <= Price * ((s + Price - 1) \div Price)
OBVIOUS

(* A larger number of increments costs more. *)
LEMMA CostGrows ==
    ASSUME NEW a \in Int, NEW b \in Int, a <= b
    PROVE  Price * a <= Price * b /\ Price * a \in Int /\ Price * b \in Int
OBVIOUS

(* The cost of fewer increments. *)
LEMMA CostSplits ==
    ASSUME NEW a \in Int, NEW b \in Int
    PROVE  Price * (a - b) = Price * a - Price * b /\ Price * (a - 1) = Price * a - Price
OBVIOUS

(* _fit_buys_to_refreshed_cash: the batch that is marked next is covered.  *)
LEMMA FitPays ==
    ASSUME ExecInv, ExecInv', FitInv, proc.phase = "BUY",
           BuysFit \/ \E t \in Trades : TrimBuy(t)
    PROVE  Owed' \in Int /\ Price * Owed' <= cash
<1>1. /\ proc \in ProcType /\ proc' \in ProcType /\ proc.batch \subseteq Trades /\ cash \in Int
  BY DEF ExecInv, TypeOK, ExecTypeOK, BrokerTypeOK, ProcType
<1>2. /\ proc.pc = "fit" /\ ToPay' = proc.batch /\ proc.sendq = Qty
  <2>1. proc.pc = "fit" /\ proc'.pc = "mark" /\ proc'.batch = proc.batch /\ proc'.phase = proc.phase
    BY <1>1, FitFields
  <2> QED
    BY <2>1 DEF ToPay, At, FitInv, SendPcs
<1> DEFINE C == SumFunctionOnSet(Qty, proc.batch)
<1>3. Qty \in [Trades -> Int] /\ C \in Int
  <2>1. Qty \in [Trades -> Int]
    OBVIOUS
  <2> QED
    BY <1>1, <2>1, SumRecursion
<1>4. Shortfall = Price * C - cash
  BY DEF Shortfall, CashRequired
<1>5. CASE BuysFit
  <2>1. proc'.sendq = Qty /\ Shortfall <= 0
    BY <1>1, <1>2, <1>5 DEF BuysFit, ProcType
  <2>2. Owed' = C
    BY <1>2, <2>1 DEF Owed
  <2> HIDE DEF C
  <2>3. Price * C \in Int
    BY <1>3
  <2> QED
    BY <1>1, <1>3, <1>4, <2>1, <2>2, <2>3
<1>6. ASSUME NEW t \in Trades, TrimBuy(t) PROVE Owed' \in Int /\ Price * Owed' <= cash
  <2>1. PICK q \in 1..Qty[t] :
          /\ q = Qty[t] - Cut
          /\ proc' = [proc EXCEPT !.pc = "mark", !.todo = proc.batch, !.sendq = [@ EXCEPT ![t] = q]]
    BY <1>6 DEF TrimBuy
  <2>2. t \in proc.batch
    BY <1>6 DEF TrimBuy, Trimmable
  <2> DEFINE Q == [Qty EXCEPT ![t] = q]
  <2>3. proc'.sendq = Q
    BY <1>1, <1>2, <2>1 DEF ProcType
  <2>4. Q \in [Trades -> Int] /\ Q[t] = q /\ \A u \in proc.batch \ {t} : Q[u] = Qty[u]
    BY <1>1, <1>3, <2>1
  <2> HIDE DEF Q
  <2> DEFINE Rest == SumFunctionOnSet(Qty, proc.batch \ {t})
  <2>5. SumFunctionOnSet(Q, proc.batch) = Q[t] + SumFunctionOnSet(Q, proc.batch \ {t})
    BY <1>1, <2>2, <2>4, SumRemove
  <2>6. SumFunctionOnSet(Q, proc.batch \ {t}) = Rest
    <3>1. proc.batch \ {t} \in SUBSET (Trades \cap Trades)
      BY <1>1
    <3> QED
      BY <1>3, <2>4, <3>1, SumSame
  <2>7. C = Qty[t] + Rest
    BY <1>1, <1>3, <2>2, SumRemove
  <2>8. Rest \in Int
    <3>1. proc.batch \ {t} \in SUBSET Trades
      BY <1>1
    <3> QED
      BY <1>3, <3>1, SumRecursion
  <2>9. Owed' = q + Rest
    BY <1>2, <2>3, <2>4, <2>5, <2>6 DEF Owed
  <2> HIDE DEF C, Rest
  <2>10. Shortfall \in Int /\ Price * C \in Int
    BY <1>1, <1>3, <1>4
  <2>11. Cut \in Int /\ Shortfall <= Price * Cut
    BY <2>10, CutCoversShortfall DEF Cut
  <2>12. Owed' = C - Cut
    BY <2>1, <2>7, <2>8, <2>9, <2>11
  <2>13. Price * (C - Cut) = Price * C - Price * Cut /\ Price * Cut \in Int
    BY <1>3, <2>11, CostSplits, CostGrows
  <2> QED
    BY <1>1, <1>3, <1>4, <2>10, <2>11, <2>12, <2>13
<1> QED
  BY <1>5, <1>6

(* What is not placed or fitted in a step does not become more. *)
LEMMA FundedFalls ==
    ASSUME ExecInv, ExecInv', Funded, NoNewOrder, ToPay' \subseteq ToPay,
           proc'.sendq = proc.sendq \/ ToPay' = {},
           cash' = cash \/ \E i \in Ids : Fill(i)
    PROVE  Funded'
<1>1. /\ proc \in ProcType /\ proc' \in ProcType /\ BrokerTypeOK /\ BrokerTypeOK'
      /\ cash \in Int /\ cash' \in Int
  BY DEF ExecInv, TypeOK, ExecTypeOK, BrokerTypeOK
<1>2. Claimed \in Nat /\ Claimed' \in Nat /\ Claimed' <= Claimed
  BY <1>1, ClaimedType, ClaimsFall, ClaimTypes, ClaimedValue DEF BrokerTypeOK
<1>3. Owed \in Nat /\ Owed' \in Nat /\ Owed' <= Owed
  BY <1>1, OwedType, OwedFalls
<1> DEFINE n == Claimed + Owed
           m == Claimed' + Owed'
<1>a. \A a, b, c, d \in Nat :
        /\ a + b \in Nat
        /\ c <= a /\ d <= b => c + d <= a + b
  OBVIOUS
<1>b. \A a, b, c, d \in Nat : c <= a - 1 /\ d <= b => c + d <= (a + b) - 1
  OBVIOUS
<1>4. n \in Nat /\ m \in Nat /\ m <= n
  BY <1>a, <1>2, <1>3, Zenon
<1>5. n > 0 => Price * n <= cash
  BY DEF Funded
<1>6. SUFFICES ASSUME m > 0 PROVE Price * m <= cash'
  BY DEF Funded
<1>7. CASE cash' >= cash
  <2> HIDE DEF n, m
  <2>1. Price * m <= Price * n /\ Price * m \in Int /\ Price * n \in Int
    BY <1>4, CostGrows
  <2> QED
    BY <1>1, <1>4, <1>5, <1>6, <1>7, <2>1
<1>8. ASSUME NEW i \in Ids, Fill(i), SideOf[orders[i].t] = "BUY" PROVE Price * m <= cash'
  <2>1. Claimed' <= Claimed - 1 /\ cash' = cash - Price
    BY <1>1, <1>8, FillUsesClaim
  <2>2. m <= n - 1 /\ n - 1 \in Int
    <3>1. m <= n - 1
      BY <1>b, <1>2, <1>3, <2>1, Zenon
    <3> HIDE DEF n, m
    <3> QED
      BY <1>4, <3>1
  <2> HIDE DEF n, m
  <2>3. Price * m <= Price * (n - 1) /\ Price * m \in Int /\ Price * (n - 1) \in Int
    BY <1>4, <2>2, CostGrows
  <2>4. Price * (n - 1) = Price * n - Price /\ Price * n \in Int
    BY <1>4, CostSplits
  <2> QED
    BY <1>1, <1>4, <1>5, <1>6, <2>1, <2>2, <2>3, <2>4
<1>9. ASSUME NEW i \in Ids, Fill(i), SideOf[orders[i].t] # "BUY" PROVE cash' >= cash
  BY <1>1, <1>9 DEF Fill
<1>10. cash' = cash => cash' >= cash
  BY <1>1
<1> HIDE DEF n, m
<1> QED
  BY <1>7, <1>8, <1>9, <1>10

(* placeOrder turns what is owed for a buy into what it claims. *)
LEMMA PlacedIsFunded ==
    ASSUME ExecInv, ExecInv', IdentityInv, SubmitInv, Funded, NEW t \in Trades, PlaceOrder(t)
    PROVE  Funded'
<1>1. /\ proc \in ProcType /\ proc' \in ProcType /\ BrokerTypeOK /\ BrokerTypeOK'
  BY DEF ExecInv, TypeOK, ExecTypeOK
<1>2. /\ SideOf[t] = proc.phase /\ proc.pc = "send" /\ t \in proc.todo /\ proc'.pc = "placed"
      /\ proc'.todo = proc.todo \ {t} /\ proc'.phase = proc.phase
      /\ proc'.sendq = proc.sendq /\ cash' = cash
  BY SentTrade DEF IdentityInv
<1>3. PICK q \in 1..MaxQty : NewOrderIs(t, "base", q) /\ q = proc.sendq[t]
  BY PlacesOrder DEF IdentityInv
<1>4. Claimed' = Claimed + (IF SideOf[t] = "BUY" THEN q ELSE 0) /\ Claimed \in Nat
  BY <1>1, <1>3, NewClaim, ClaimedType
<1>5. CASE proc.phase = "BUY"
  <2>1. ToPay = proc.todo /\ ToPay' = proc.todo \ {t}
    BY <1>2, <1>5 DEF ToPay, At, SendPcs
  <2>2. proc.sendq \in [Trades -> Int] /\ proc.todo \in SUBSET Trades
    BY <1>1, OwedType DEF ProcType
  <2>3. Owed = q + Owed'
    BY <1>2, <1>3, <2>1, <2>2, SumRemove DEF Owed
  <2>4. Owed' \in Nat
    BY <1>1, <1>2, <2>1, OwedFalls
  <2>5. Claimed' + Owed' = Claimed + Owed
    BY <1>2, <1>3, <1>4, <1>5, <2>3, <2>4
  <2> QED
    BY <1>2, <2>5 DEF Funded
<1>6. CASE proc.phase # "BUY"
  <2>1. ToPay = {} /\ ToPay' = {}
    BY <1>2, <1>6 DEF ToPay
  <2>2. Owed' = Owed
    BY <1>2, <2>1 DEF Owed
  <2>3. Claimed' = Claimed
    BY <1>2, <1>4, <1>6
  <2> QED
    BY <1>2, <2>2, <2>3 DEF Funded
<1> QED
  BY <1>5, <1>6

(* Only the fitting of buys adds to what is owed. *)
LEMMA ToPayFalls ==
    ASSUME ExecInv, SubmitInv, [Next]_vars, ~BuysFit, \A t \in Trades : ~TrimBuy(t)
    PROVE  ToPay' \subseteq ToPay /\ (proc'.sendq = proc.sendq \/ ToPay' = {})
<1>t. proc \in ProcType
  BY DEF ExecInv, TypeOK, ExecTypeOK
<1>e. ASSUME proc'.pc \notin {"mark"} \cup SendPcs PROVE ToPay' = {}
  BY <1>e DEF ToPay, At
<1>1. CASE SubmissionStep
  <2>1. CASE EndProcess
    <3>1. proc'.pc = "idle"
      BY <2>1 DEF EndProcess, IdleProc
    <3> QED
      BY <1>e, <3>1 DEF SendPcs
  <2>2. CASE Advances
    <3>1. CASE proc'.pc \notin {"mark"} \cup SendPcs
      BY <1>e, <3>1
    <3>2. CASE proc.pc = "reprice" /\ proc'.pc = "mark" /\ proc.phase = "SELL" /\ proc'.phase = proc.phase
      BY <3>2 DEF ToPay
    <3>3. CASE /\ proc.pc = "mark" /\ proc'.phase = proc.phase /\ proc'.sendq = proc.sendq
               /\ \/ proc'.pc = "mark" /\ proc'.batch = proc.batch
                  \/ proc'.pc = "send" /\ proc'.todo = proc.batch
      BY <3>3 DEF ToPay, At, SendPcs
    <3>4. CASE /\ proc.pc \in SendPcs /\ proc'.pc \in SendPcs /\ proc'.todo \subseteq proc.todo
               /\ proc'.phase = proc.phase /\ proc'.sendq = proc.sendq
      BY <3>4 DEF ToPay, At, SendPcs
    <3> QED
      BY <2>2, <3>1, <3>2, <3>3, <3>4 DEF Advances, SendPcs
  <2> QED
    BY <1>t, <1>1, <2>1, <2>2, SubmissionAdvances
<1>2. CASE ReconcileStep
  <2>1. proc'.pc \notin {"mark"} \cup SendPcs
    BY <1>2, ReconcileMoves DEF PassMoves, ReconcilePcs, StalePcs, SendPcs
  <2> QED
    BY <1>e, <2>1
<1>3. CASE Crash
  <2>1. proc'.pc = "idle"
    BY <1>3 DEF Crash, EndProcess, IdleProc
  <2> QED
    BY <1>e, <2>1 DEF SendPcs
<1>4. CASE BrokerActs \/ (\E t \in Trades : Tick(t)) \/ UNCHANGED vars
  <2>1. proc' = proc
    BY <1>4, Zenon DEF BrokerActs, Tick, vars, execVars
  <2> QED
    BY <2>1 DEF ToPay, At
<1> QED
  BY <1>1, <1>2, <1>3, <1>4, Zenon DEF Next

(* Every step keeps the cash sufficient. *)
LEMMA FundStep ==
    ASSUME ExecInv, ExecInv', IdentityInv, SubmitInv, TrackInv, FundInv, [Next]_vars
    PROVE  FundInv'
<1> SUFFICES ASSUME NoRivalClaims
             PROVE  PlainInv' /\ FitInv' /\ (MaxAttempts <= 1 => FirstInv') /\ Funded'
  BY DEF FundInv, NoRivalClaims, OneBuyPerRun, OfSide
<1>1. PlainInv /\ FitInv /\ (MaxAttempts <= 1 => FirstInv) /\ Funded /\ ~AutoReplace
  BY DEF FundInv, NoRivalClaims
<1>2. PlainInv'
  BY <1>1, PlainStep
<1>3. FitInv'
  BY <1>1, FitStep
<1>4. MaxAttempts <= 1 => FirstInv'
  BY <1>1, FirstStep
<1>t. proc \in ProcType /\ proc' \in ProcType /\ BrokerTypeOK /\ BrokerTypeOK'
  BY DEF ExecInv, TypeOK, ExecTypeOK
<1>5. ASSUME BuysFit \/ \E t \in Trades : TrimBuy(t) PROVE Funded'
  <2>1. /\ proc.pc = "fit" /\ proc'.pc = "mark" /\ proc'.batch = proc.batch
        /\ proc'.phase = proc.phase /\ orders' = orders /\ cash' = cash
    BY <1>t, <1>5, FitFields
  <2>2. CASE proc.batch = {}
    <3>1. ToPay' = {}
      BY <2>1, <2>2 DEF ToPay, At
    <3>2. NoNewOrder
      BY <1>t, <2>1, OrdersStay DEF IdentityInv
    <3> QED
      BY <1>1, <2>1, <3>1, <3>2, FundedFalls
  <2>3. CASE proc.batch # {}
    <3>1. proc.phase = "BUY"
      BY <1>1, <2>1 DEF FitInv, At
    <3>2. Claimed = 0
      BY <1>1, <2>1, <2>3, <3>1, NoRivalAtFit DEF TrackInv, At
    <3>3. Claimed' = Claimed
      BY <2>1, ClaimedValue
    <3>4. Owed' \in Int /\ Price * Owed' <= cash
      BY <1>1, <1>5, <3>1, FitPays
    <3>5. Claimed' + Owed' = Owed'
      <4>1. \A n \in Int : 0 + n = n
        OBVIOUS
      <4> QED
        BY <3>2, <3>3, <3>4, <4>1, Zenon
    <3> QED
      BY <2>1, <3>4, <3>5 DEF Funded
  <2> QED
    BY <2>2, <2>3
<1>6. ASSUME NEW t \in Trades, PlaceOrder(t) PROVE Funded'
  BY <1>1, <1>6, PlacedIsFunded
<1>7. ASSUME NEW t \in Trades, PlaceReplacement(t) \/ SubmitReplacementPlaces(t), ~PlaceOrder(t)
      PROVE  FALSE
  <2>1. ~ledger[t].repl
    BY <1>1 DEF PlainInv, IdentityInv, RowInv, GoodRow
  <2> QED
    BY <1>7, <2>1, PlacesOrder DEF IdentityInv
<1>8. ASSUME NoNewOrder, ~BuysFit, \A t \in Trades : ~TrimBuy(t) PROVE Funded'
  <2>1. ToPay' \subseteq ToPay /\ (proc'.sendq = proc.sendq \/ ToPay' = {})
    BY <1>8, ToPayFalls
  <2>2. cash' = cash \/ \E i \in Ids : Fill(i)
    BY CashMoves
  <2> QED
    BY <1>1, <1>8, <2>1, <2>2, FundedFalls
<1>9. Funded'
  BY <1>5, <1>6, <1>7, <1>8, OrderMoves, Zenon DEF IdentityInv
<1> QED
  BY <1>2, <1>3, <1>4, <1>9

(* submit_plan: while no working buy has a claim on the cash that a later  *)
(* phase is fitted to, every increment that is at work, marked or about to *)
(* be sent is covered by the account, through fills, cancels, timeouts,    *)
(* crashes and retries.                                                    *)
THEOREM FundInvariant == Spec => []FundInv
<1>1. Init => FundInv
  <2> SUFFICES ASSUME Init PROVE PlainInv /\ FitInv /\ FirstInv /\ Funded
    BY DEF FundInv
  <2>1. /\ orders = << >> /\ cash \in Int /\ proc = IdleProc /\ session.run = 0
        /\ \A t \in Trades : ledger[t] = AbsentRow
    BY DEF Init, BrokerInit, ExecInit
  <2>2. Ids = {} /\ proc.pc = "idle" /\ proc.sendq = Qty
    BY <2>1 DEF Ids, IdleProc
  <2>3. PlainInv
    <3>1. AbsentRow.rc = 0
      BY DEF AbsentRow, PlannedRow
    <3> QED
      BY <2>1, <2>2, <3>1 DEF PlainInv
  <2>4. FitInv
    BY <2>2 DEF FitInv, At
  <2>5. FirstInv
    BY <2>1, <2>2 DEF FirstInv, StalePcs, SubmitPcs
  <2>6. proc \in ProcType /\ ToPay = {}
    BY <2>1, <2>2, IdleType DEF ToPay, At, SendPcs
  <2>7. Owed = 0
    BY <2>6, OwedType
  <2>8. Claimed = 0
    <3>1. IsFiniteSet({}) /\ Claims \in [{} -> Int] /\ LiveIds = {}
      BY <2>2, FS_EmptySet DEF Claims, LiveIds
    <3> QED
      BY <3>1, SumEmpty DEF Claimed
  <2> QED
    BY <2>3, <2>4, <2>5, <2>7, <2>8 DEF Funded
<1>2. ExecInv /\ ExecInv' /\ IdentityInv /\ SubmitInv /\ TrackInv /\ FundInv /\ [Next]_vars => FundInv'
  BY FundStep
<1> QED
  BY <1>1, <1>2, ExecInvariant, IdentityInvariant, SubmitInvariant, TrackInvariant, PTL DEF Spec

(* _fit_buys_to_refreshed_cash: the buys at work can be paid for.  With    *)
(* replacements, or with a second attempt beside a working buy of the same *)
(* run, the cash the buys are fitted to is no longer free, and the code    *)
(* makes no such promise.                                                  *)
THEOREM BuysFunded == Spec => [](NoRivalClaims => BuysAreFunded)
<1>1. ExecInv /\ FundInv => (NoRivalClaims => BuysAreFunded)
  <2> SUFFICES ASSUME ExecInv, FundInv, NoRivalClaims, OpenBuyCost > 0 PROVE OpenBuyCost <= cash
    BY DEF BuysAreFunded
  <2>1. proc \in ProcType /\ BrokerTypeOK /\ cash \in Int /\ Funded
    BY DEF ExecInv, TypeOK, ExecTypeOK, BrokerTypeOK, FundInv
  <2>2. Claimed \in Nat /\ Owed \in Nat
    BY <2>1, ClaimedType, OwedType
  <2>3. OpenBuyCost = Price * Claimed
    BY DEF OpenBuyCost, Claimed
  <2>4. Claimed > 0
    BY <2>2, <2>3
  <2>5. Claimed + Owed > 0 /\ Claimed <= Claimed + Owed /\ Claimed + Owed \in Int
    BY <2>2, <2>4
  <2>6. Price * (Claimed + Owed) <= cash
    BY <2>1, <2>5 DEF Funded
  <2>7. /\ Price * Claimed <= Price * (Claimed + Owed)
        /\ Price * Claimed \in Int /\ Price * (Claimed + Owed) \in Int
    BY <2>2, <2>5, CostGrows
  <2> QED
    BY <2>1, <2>3, <2>6, <2>7
<1> QED
  BY <1>1, ExecInvariant, FundInvariant, PTL

-----------------------------------------------------------------------------
(* Seventh layer: the ledger implements OrderRows. *)

(* A recorded result, seen from a row that is written anew, ends the trade. *)
Ends(t) ==
    ClassifyLifecycle(proc.res[t].raw, proc.res[t].filled,
                      Monus(proc.sendq[t], proc.res[t].filled)) \in TerminalStates

(* An open row has nothing that a retry would act on, unless it is as      *)
(* planned.                                                                *)
OpenRowInv ==
    \A t \in Trades : IsOpen(ledger[t]) =>
        MustReplay(ledger[t]) \/ (ledger[t].st = "planned" /\ ledger[t].raw \notin RetryableRaw)

(* The rows of a batch stay as they were planned until they are marked. *)
HandInv ==
    /\ At("reprice") => proc.todo \cap proc.batch = {}
    /\ proc.pc \in {"reprice", "fit"} => \A t \in proc.batch : ledger[t].st = "planned"
    /\ proc.pc \in {"block", "mark"} => \A t \in proc.todo : ledger[t].st = "planned"
    /\ proc.pc \in SendPcs \cup {"mark", "record"} =>
          \A t \in proc.batch : ledger[t].st # "absent"

(* A row that was closed while its phase was sent is neither opened again  *)
(* nor called unsent by the result in memory.                              *)
Answered(t) ==
    IsTerminal(ledger[t]) =>
        Ends(t) /\ MustReplay(ledger[t]) /\ proc.res[t].raw \notin RetryableRaw

AnswerInv ==
    /\ proc.pc \in SendPcs => \A t \in proc.batch \ Awaited : Answered(t)
    /\ At("record") => \A t \in proc.todo : Answered(t)

RowsInv == OpenRowInv /\ HandInv /\ AnswerInv

RowStep == [R!Next]_<<AbstractRows, Sending>>

(* Only the row of t moves. *)
OthersStay(t) ==
    /\ \A u \in Trades \ {t} : AbstractRow(u)' = AbstractRow(u)
    /\ \A u : u # t => (u \in Sending' <=> u \in Sending)

(* Nothing moves. *)
LEMMA RowsStutter ==
    ASSUME Sending' = Sending, \A u \in Trades : AbstractRow(u)' = AbstractRow(u)
    PROVE  RowStep
<1>1. AbstractRows' = AbstractRows
  BY DEF AbstractRows
<1> QED
  BY <1>1 DEF RowStep

(* What the row in the batch looks like to the callers. *)
LEMMA SendingIsPlanned ==
    ASSUME NEW t
    PROVE  /\ t \in Sending => AbstractRow(t) = "planned"
           /\ t \in Sending' => AbstractRow(t)' = "planned"
BY DEF AbstractRow

(* The four ways in which the row of one trade moves. *)
LEMMA OneRowMoves ==
    ASSUME NEW t \in Trades, OthersStay(t),
           \/ t \in Sending /\ t \in Sending'
           \/ /\ t \in Sending /\ t \notin Sending'
              /\ AbstractRow(t)' \in {"working", "unknown", "retry", "final"}
           \/ t \notin Sending /\ t \notin Sending' /\ AbstractRow(t)' = AbstractRow(t)
           \/ /\ t \notin Sending /\ t \notin Sending'
              /\ AbstractRow(t) \in R!OpenStates /\ AbstractRow(t)' \in R!Evidence(AbstractRow(t))
           \/ t \in Sending' /\ AbstractRow(t) \in R!Resubmittable
    PROVE  RowStep
<1>v. /\ \A u \in Trades : AbstractRows[u] = AbstractRow(u) /\ AbstractRows'[u] = AbstractRow(u)'
      /\ AbstractRows = [u \in Trades |-> AbstractRows[u]]
      /\ AbstractRows' = [u \in Trades |-> AbstractRows'[u]]
  BY DEF AbstractRows
<1>s. Sending' \ {t} = Sending \ {t}
  BY DEF OthersStay
<1>o. \A u \in Trades \ {t} : AbstractRows'[u] = AbstractRows[u]
  BY <1>v DEF OthersStay
<1>1. CASE t \in Sending /\ t \in Sending'
  <2>1. Sending' = Sending
    BY <1>1, <1>s
  <2> QED
    BY <1>1, <2>1, SendingIsPlanned, RowsStutter DEF OthersStay
<1>2. CASE /\ t \in Sending /\ t \notin Sending'
           /\ AbstractRow(t)' \in {"working", "unknown", "retry", "final"}
  <2>1. Sending' = Sending \ {t}
    BY <1>2, <1>s
  <2>2. AbstractRows' = [AbstractRows EXCEPT ![t] = AbstractRow(t)']
    BY <1>v, <1>o
  <2>3. AbstractRows[t] = "planned"
    BY <1>2, <1>v, SendingIsPlanned
  <2>4. R!Submit(t)
    BY <1>2, <2>1, <2>2, <2>3 DEF R!Submit
  <2> QED
    BY <2>4 DEF RowStep, R!Next
<1>3. CASE t \notin Sending /\ t \notin Sending' /\ AbstractRow(t)' = AbstractRow(t)
  <2>1. Sending' = Sending
    BY <1>3, <1>s
  <2> QED
    BY <1>3, <2>1, RowsStutter DEF OthersStay
<1>4. CASE /\ t \notin Sending /\ t \notin Sending'
           /\ AbstractRow(t) \in R!OpenStates /\ AbstractRow(t)' \in R!Evidence(AbstractRow(t))
  <2>1. Sending' = Sending
    BY <1>4, <1>s
  <2>2. AbstractRows' = [AbstractRows EXCEPT ![t] = AbstractRow(t)']
    BY <1>v, <1>o
  <2>3. R!Follow(t)
    BY <1>4, <1>v, <2>1, <2>2 DEF R!Follow
  <2> QED
    BY <2>3 DEF RowStep, R!Next
<1>5. CASE t \in Sending' /\ AbstractRow(t) \in R!Resubmittable
  <2>1. Sending' = Sending \cup {t}
    BY <1>5, <1>s
  <2>2. AbstractRows' = [k \in Trades |-> IF k \in {t} THEN "planned" ELSE AbstractRows[k]]
    BY <1>5, <1>v, <1>o, SendingIsPlanned
  <2>3. R!Plan({t})
    BY <1>5, <1>v, <2>1, <2>2 DEF R!Plan
  <2> QED
    BY <2>3 DEF RowStep, R!Next
<1> QED
  BY <1>1, <1>2, <1>3, <1>4, <1>5

(* A row that nothing touches looks the same. *)
LEMMA SameAbstractRow ==
    ASSUME NEW u, ledger'[u] = ledger[u], OrdersOf(u)' = OrdersOf(u),
           u \in Sending' <=> u \in Sending
    PROVE  AbstractRow(u)' = AbstractRow(u)
BY DEF AbstractRow, IsTerminal, MustReplay

(* Within submit_plan, a step that leaves a trade alone leaves it where it *)
(* is: in the batch or out of it.                                          *)
LEMMA SameMembership ==
    ASSUME proc.pc \in HandPcs, proc'.pc \in HandPcs, NEW u,
           u \in proc'.fresh <=> u \in proc.fresh,
           u \in Awaited' <=> u \in Awaited,
           ledger'[u] = ledger[u], OrdersOf(u)' = OrdersOf(u)
    PROVE  u \in Sending' <=> u \in Sending
BY DEF Sending, Unsubmitted, IsOpen

(* Outside the wait for an order nothing is awaited. *)
LEMMA AwaitedValue ==
    /\ proc.pc \notin WaitPcs => Awaited = {}
    /\ proc'.pc \notin WaitPcs => Awaited' = {}
    /\ proc.pc \in WaitPcs => Awaited = {proc.cur}
    /\ proc'.pc \in WaitPcs => Awaited' = {proc'.cur}
BY DEF Awaited, WaitPcs

(* A step of submit_plan for one trade. *)
LEMMA OneTradeMoves ==
    ASSUME proc.pc \in HandPcs, proc'.pc \in HandPcs, NEW t \in Trades,
           proc'.fresh \in {proc.fresh, proc.fresh \cup {t}},
           Awaited \subseteq {t}, Awaited' \subseteq {t},
           \A u \in Trades \ {t} : ledger'[u] = ledger[u] /\ OrdersOf(u)' = OrdersOf(u),
           proc.fresh \subseteq Trades
    PROVE  OthersStay(t)
<1>1. ASSUME NEW u, u # t PROVE u \in Sending' <=> u \in Sending
  <2>1. CASE u \in Trades
    BY <1>1, <2>1, SameMembership
  <2>2. CASE u \notin Trades
    BY <1>1, <2>2 DEF Sending, Unsubmitted
  <2> QED
    BY <2>1, <2>2
<1>2. ASSUME NEW u \in Trades \ {t} PROVE AbstractRow(u)' = AbstractRow(u)
  BY <1>1, SameAbstractRow
<1> QED
  BY <1>1, <1>2 DEF OthersStay

(* A step of submit_plan that touches neither rows nor orders. *)
LEMMA QuietRows ==
    ASSUME proc.pc \in HandPcs \ WaitPcs, proc'.pc \in HandPcs \ WaitPcs,
           proc'.fresh = proc.fresh, UNCHANGED <<orders, ledger>>
    PROVE  RowStep
<1>1. \A u : OrdersOf(u)' = OrdersOf(u)
  BY DEF OrdersOf, Ids
<1>2. \A u : u \in Sending' <=> u \in Sending
  BY <1>1, AwaitedValue, SameMembership
<1>3. \A u \in Trades : AbstractRow(u)' = AbstractRow(u)
  BY <1>1, <1>2, SameAbstractRow
<1>4. Sending' = Sending
  BY <1>2
<1> QED
  BY <1>3, <1>4, RowsStutter

-----------------------------------------------------------------------------
(* What the rows look like to the callers. *)

(* A row whose trade has an order is final or open with an order. *)
LEMMA SentRow ==
    ASSUME ExecInv, FamilyInv, NEW t \in Trades, OrdersOf(t) # {}
    PROVE  /\ MustReplay(ledger[t])
           /\ t \notin Sending => AbstractRow(t) \in {"working", "unknown", "final"}
           /\ IsOpen(ledger[t]) /\ t \notin Sending => AbstractRow(t) \in {"working", "unknown"}
           /\ IsTerminal(ledger[t]) /\ t \notin Sending => AbstractRow(t) = "final"
<1>1. BaseOrders(t) # {}
  BY DEF FamilyInv, OrdersOf
<1>2. MustReplay(ledger[t])
  BY <1>1 DEF ExecInv, ResubmittableMeansUnsent
<1>3. ledger[t].st \notin {"absent", "planned"}
  BY <1>2 DEF MustReplay
<1> QED
  BY <1>2, <1>3 DEF AbstractRow, IsTerminal, IsOpen

(* An open row without an order was planned, or has lost its order. *)
LEMMA UnsentRow ==
    ASSUME NEW t \in Trades, OrdersOf(t) = {}, IsOpen(ledger[t]), t \notin Sending
    PROVE  AbstractRow(t) = IF ledger[t].st = "planned" THEN "planned" ELSE "lost"
BY DEF AbstractRow, IsTerminal, IsOpen

(* An open row is open to the callers. *)
LEMMA OpenRow ==
    ASSUME ExecInv, FamilyInv, NEW t \in Trades, IsOpen(ledger[t]), t \notin Sending
    PROVE  AbstractRow(t) \in R!OpenStates
BY SentRow, UnsentRow DEF R!OpenStates

(* A process outside submit_plan has nothing in hand. *)
LEMMA NothingInHand ==
    /\ proc.pc \notin HandPcs => Sending = {}
    /\ proc'.pc \notin HandPcs => Sending' = {}
<1>1. proc.pc \notin HandPcs => Awaited = {}
  BY DEF Awaited, HandPcs, PhasePcs
<1>2. proc'.pc \notin HandPcs => Awaited' = {}
  BY DEF Awaited, HandPcs, PhasePcs
<1> QED
  BY <1>1, <1>2 DEF Sending, Unsubmitted

(* The batch is made of trades. *)
LEMMA SendingTrades ==
    ASSUME ExecInv, FamilyInv, SubmitInv
    PROVE  Sending \subseteq Trades /\ proc.fresh \subseteq Trades
<1>1. proc.fresh \subseteq Trades
  BY DEF ExecInv, TypeOK, ExecTypeOK, ProcType
<1>2. Awaited \subseteq Trades
  BY WaitFacts, AwaitedValue
<1> QED
  BY <1>1, <1>2 DEF Sending, Unsubmitted

(* submit_plan ends or is killed. *)
LEMMA CutRows ==
    ASSUME ExecInv, FamilyInv, SubmitInv, ExecInv', FamilyInv',
           proc'.pc \notin HandPcs, UNCHANGED <<orders, ledger>>
    PROVE  RowStep
<1>0. Sending' = {}
  BY NothingInHand
<1>1. \A u : OrdersOf(u)' = OrdersOf(u)
  BY DEF OrdersOf, Ids
<1>2. ASSUME NEW u \in Trades, u \notin Sending PROVE AbstractRow(u)' = AbstractRow(u)
  BY <1>0, <1>1, <1>2, SameAbstractRow
<1>3. ASSUME NEW u \in Sending PROVE AbstractRow(u)' \in R!OpenStates \cup {"final"}
  <2>0. u \in Trades
    BY SendingTrades
  <2>1. CASE OrdersOf(u) # {}
    <3>1. MustReplay(ledger[u])
      BY <2>0, <2>1, SentRow
    <3>2. ledger[u].st \notin {"absent", "planned"} /\ MustReplay(ledger'[u]) /\ ledger'[u] = ledger[u]
      BY <3>1 DEF MustReplay
    <3> QED
      BY <1>0, <1>1, <2>1, <3>2 DEF AbstractRow, R!OpenStates
  <2>2. CASE OrdersOf(u) = {}
    <3>1. u \notin Awaited
      <4>1. ASSUME u \in Awaited PROVE Placed \in OrdersOf(u)
        BY <4>1, WaitFacts, AwaitedValue DEF OrdersOf
      <4> QED
        BY <2>2, <4>1
    <3>2. IsOpen(ledger[u])
      BY <3>1 DEF Sending, Unsubmitted
    <3>3. ledger'[u] = ledger[u] /\ ~IsTerminal(ledger[u]) /\ ledger[u].st # "absent"
      BY <3>2 DEF IsOpen, IsTerminal
    <3> QED
      BY <1>0, <1>1, <2>2, <3>3 DEF AbstractRow, R!OpenStates, IsTerminal
  <2> QED
    BY <2>1, <2>2
<1> DEFINE f == [u \in Sending |-> AbstractRow(u)']
<1>4. f \in [Sending -> R!OpenStates \cup {"final"}]
  BY <1>3
<1>5. AbstractRows' = [k \in Trades |-> IF k \in Sending THEN f[k] ELSE AbstractRows[k]]
  BY <1>2 DEF AbstractRows
<1>6. R!CutShort
  BY <1>0, <1>4, <1>5 DEF R!CutShort
<1> QED
  BY <1>6 DEF RowStep, R!Next

(* What IBKR does to its orders shows in the ledger only once it is read. *)
LEMMA BrokerRows ==
    ASSUME NoNewOrder, ledger' = ledger, proc' = proc
    PROVE  RowStep
<1>1. \A u : OrdersOf(u)' = OrdersOf(u)
  BY SameFamilies
<1>2. Sending' = Sending
  BY <1>1 DEF Sending, Unsubmitted, Awaited
<1> QED
  BY <1>1, <1>2, SameAbstractRow, RowsStutter

(* Time passes. *)
LEMMA TickRows ==
    ASSUME ExecInv, NEW t \in Trades, Tick(t)
    PROVE  RowStep
<1>1. /\ proc.pc = "idle" /\ proc' = proc /\ orders' = orders /\ ledger[t] \in Row
      /\ ledger'[t] = [ledger[t] EXCEPT !.age = @ + 1]
      /\ \A u \in Trades \ {t} : ledger'[u] = ledger[u]
  BY UpsertRow DEF Tick, At, ExecInv, TypeOK, ExecTypeOK
<1>2. Sending = {} /\ Sending' = {}
  BY <1>1, NothingInHand DEF HandPcs, PhasePcs
<1>3. \A u : OrdersOf(u)' = OrdersOf(u)
  BY <1>1 DEF OrdersOf, Ids
<1>4. /\ ledger'[t].st = ledger[t].st /\ ledger'[t].raw = ledger[t].raw
      /\ ledger'[t].oid = ledger[t].oid /\ ledger'[t].filled = ledger[t].filled
  BY <1>1 DEF Row
<1>5. AbstractRow(t)' = AbstractRow(t)
  BY <1>2, <1>3, <1>4 DEF AbstractRow, IsTerminal, MustReplay
<1>6. \A u \in Trades : AbstractRow(u)' = AbstractRow(u)
  BY <1>1, <1>2, <1>3, <1>5, SameAbstractRow
<1> QED
  BY <1>2, <1>6, RowsStutter

-----------------------------------------------------------------------------
(* A pass. *)

(* The actions of a pass that write the row of t. *)
PassWrites(t) ==
    \/ AdoptReplacement(t) \/ RecordReplacement(t) \/ ReserveReplacement(t)
    \/ FollowOpenOrder(t) \/ RecordTimeoutCancel(t)
    \/ OriginalFilledMeanwhile(t) \/ ReplaceDeferred(t)
    \/ CloseFromHistory(t) \/ LeaveUnverified(t) \/ RecordStaleCancel(t)

(* A pass writes a row from an order of its trade, or leaves it open.      *)
LEMMA PassEvidence ==
    ASSUME ExecInv, IdentityInv, OpenInv, SnapInv, NEW t \in Trades, PassWrites(t)
    PROVE  \/ OrdersOf(t) # {}
           \/ LeaveUnverified(t) \/ RecordStaleCancel(t)
<1>h. proc.hist \subseteq Ids
  BY DEF ExecInv, CursorInv
<1>1. ASSUME NEW i \in HistMatches(t) PROVE i \in OrdersOf(t)
  BY <1>h, <1>1 DEF HistMatches, Matches, ExactMatch, ReservedMatch, FamilyMatch, OrdersOf
<1>2. CASE AdoptReplacement(t)
  BY <1>1, <1>2, Zenon DEF AdoptReplacement
<1>3. CASE CloseFromHistory(t)
  BY <1>1, <1>3, Zenon DEF CloseFromHistory, FollowsHistory
<1>4. CASE FollowOpenOrder(t) \/ RecordTimeoutCancel(t)
  BY <1>4, FollowedStaysOpen
<1>5. CASE ReserveReplacement(t)
  BY <1>5, ReserveIdentity
<1>6. CASE RecordReplacement(t) \/ OriginalFilledMeanwhile(t) \/ ReplaceDeferred(t)
  <2>1. proc.pc \in ReplacePcs /\ proc.cur = t
    BY <1>6 DEF RecordReplacement, OriginalFilledMeanwhile, ReplaceDeferred, At, ReplacePcs
  <2>2. ledger[t].repl
    BY <2>1 DEF IdentityInv, ReserveInv
  <2>3. BaseOrders(t) # {}
    BY <2>2 DEF IdentityInv, RowInv, GoodRow
  <2> QED
    BY <2>3 DEF BaseOrders
<1> QED
  BY <1>2, <1>3, <1>4, <1>5, <1>6 DEF PassWrites

(* A row that a pass writes was open, and what it makes of it is what the  *)
(* evidence allows.                                                        *)
LEMMA PassFollows ==
    ASSUME ExecInv, ExecInv', IdentityInv, IdentityInv', OpenInv, SnapInv, OpenRowInv,
           NEW t \in Trades, PassWrites(t), ReconcileStep, proc.pc \notin HandPcs,
           proc'.pc \notin HandPcs
    PROVE  /\ IsOpen(ledger'[t]) => MustReplay(ledger'[t])
           /\ \A u \in Trades \ {t} : ledger'[u] = ledger[u]
           /\ RowStep
<1>1. (\A u \in Trades \ {t} : ledger'[u] = ledger[u]) /\ orders' = orders
  <2>1. CASE ReserveReplacement(t)
    BY <2>1, ReservedRow DEF OnlyRow
  <2>2. CASE RecordStaleCancel(t)
    BY <2>2, ReconcileRows, UpsertRow DEF RecordStaleCancel
  <2> QED
    BY <2>1, <2>2, EntryStepEnds DEF PassWrites, OnlyRow
<1>2. \A u : OrdersOf(u)' = OrdersOf(u)
  BY <1>1 DEF OrdersOf, Ids
<1>3. Sending = {} /\ Sending' = {}
  BY NothingInHand
<1>4. OthersStay(t)
  BY <1>1, <1>2, <1>3, SameAbstractRow DEF OthersStay
<1>5. IsOpen(ledger[t])
  <2>1. CASE RecordStaleCancel(t)
    BY <2>1, EntryIsOpen DEF RecordStaleCancel
  <2>2. CASE ReserveReplacement(t)
    BY <2>2, EntryIsOpen DEF ReserveReplacement, FollowsOpen, InEntry
  <2> QED
    BY <2>1, <2>2, EntryStepEnds, EntryIsOpen DEF PassWrites
<1>6. AbstractRow(t) \in R!OpenStates
  BY <1>3, <1>5, OpenRow DEF IdentityInv
<1>7. CASE OrdersOf(t) # {}
  <2>1. AbstractRow(t) \in {"working", "unknown"}
    BY <1>3, <1>5, <1>7, SentRow DEF IdentityInv
  <2>2. MustReplay(ledger'[t]) /\ AbstractRow(t)' \in {"working", "unknown", "final"}
    <3>1. (BaseOrders(t) # {})'
      BY <1>2, <1>7 DEF IdentityInv, FamilyInv, OrdersOf
    <3>2. MustReplay(ledger'[t])
      BY <3>1 DEF ExecInv, ResubmittableMeansUnsent
    <3>3. ledger'[t].st \notin {"absent", "planned"}
      BY <3>2 DEF MustReplay
    <3> QED
      BY <1>2, <1>3, <1>7, <3>2, <3>3 DEF AbstractRow
  <2>3. RowStep
    BY <1>3, <1>4, <1>6, <2>1, <2>2, OneRowMoves DEF R!Evidence
  <2> QED
    BY <1>1, <2>2, <2>3
<1>8. CASE OrdersOf(t) = {}
  <2>0. ledger[t] \in Row
    BY DEF ExecInv, TypeOK, ExecTypeOK
  <2>1. LeaveUnverified(t) \/ RecordStaleCancel(t)
    BY <1>8, PassEvidence
  <2>2. MustReplay(ledger'[t]) /\ ledger'[t].st \in {"unknown", "cancel_pending"}
    <3>1. CASE LeaveUnverified(t)
      <4>1. ledger'[t] = [ledger[t] EXCEPT !.st = "unknown", !.raw = "NotOpenUnverified"]
        BY <3>1, ReconcileRows, UpsertRow
      <4>2. ledger'[t].st = "unknown" /\ ledger'[t].raw = "NotOpenUnverified"
        BY <2>0, <4>1 DEF Row
      <4> QED
        BY <4>2 DEF MustReplay, RetryableRaw
    <3>2. CASE RecordStaleCancel(t)
      <4>0. Upsert(t, [ledger[t] EXCEPT !.st = "cancel_pending"])
        BY <3>2, Zenon DEF RecordStaleCancel
      <4>1. ledger'[t] = [ledger[t] EXCEPT !.st = "cancel_pending"]
        BY <4>0, UpsertRow
      <4>2. /\ ledger'[t].st = "cancel_pending" /\ ledger'[t].raw = ledger[t].raw
            /\ ledger'[t].oid = ledger[t].oid /\ ledger'[t].filled = ledger[t].filled
        BY <2>0, <4>1 DEF Row
      <4>3. MustReplay(ledger[t]) \/ ledger[t].raw \notin RetryableRaw
        BY <1>5 DEF OpenRowInv
      <4> QED
        BY <4>2, <4>3 DEF MustReplay
    <3> QED
      BY <2>1, <3>1, <3>2
  <2>3. AbstractRow(t)' = "lost"
    BY <1>2, <1>3, <1>8, <2>2 DEF AbstractRow, IsTerminal, TerminalStates
  <2>4. AbstractRow(t) \in {"planned", "lost"}
    BY <1>3, <1>5, <1>8, UnsentRow
  <2>5. RowStep
    BY <1>3, <1>4, <1>6, <2>3, <2>4, OneRowMoves DEF R!Evidence
  <2> QED
    BY <1>1, <2>2, <2>5
<1> QED
  BY <1>7, <1>8

(* A step of a pass. *)
LEMMA ReconcileRowStep ==
    ASSUME ExecInv, ExecInv', IdentityInv, IdentityInv', SubmitInv, OpenInv, TrackInv, RowsInv,
           ReconcileStep
    PROVE  RowsInv' /\ RowStep
<1>1. proc.pc \notin HandPcs /\ proc'.pc \notin HandPcs
  <2>1. proc.pc \notin SubmitPcs
    BY ReconcileMoves DEF PassMoves
  <2>2. proc'.pc \notin SubmitPcs \/ proc'.pc = "plan"
    BY ReconcilePc DEF ExecInv, TypeOK, ExecTypeOK, ProcType
  <2> QED
    BY <2>1, <2>2 DEF HandPcs, PhasePcs, SubmitPcs
<1>2. HandInv' /\ AnswerInv'
  BY <1>1 DEF HandInv, AnswerInv, HandPcs, PhasePcs, SendPcs, WaitPcs, At
<1>3. CASE ledger' = ledger
  <2>1. OpenRowInv'
    BY <1>3 DEF RowsInv, OpenRowInv
  <2>2. CASE orders' = orders
    BY <1>1, <1>2, <1>3, <2>1, <2>2, CutRows DEF RowsInv, IdentityInv
  <2>3. CASE \E t \in Trades : PlaceReplacement(t) \/ SubmitReplacementPlaces(t)
    <3>1. PICK t \in Trades : PlaceReplacement(t) \/ SubmitReplacementPlaces(t)
      BY <2>3
    <3>2. PICK q : NewOrderIs(t, "repl", q) /\ ledger[t].repl
      BY <3>1, ReplacesDoneOrder
    <3>3. OrdersOf(t) # {} /\ OrdersOf(t)' # {} /\ \A u : u # t => OrdersOf(u)' = OrdersOf(u)
      <4>1. OrdersOf(t) # {}
        BY <3>2 DEF IdentityInv, RowInv, GoodRow, BaseOrders
      <4> QED
        BY <3>2, <4>1, NewFamilies
    <3>4. Sending = {} /\ Sending' = {}
      BY <1>1, NothingInHand
    <3>5. AbstractRow(t)' = AbstractRow(t)
      BY <1>3, <3>3, <3>4 DEF AbstractRow
    <3>6. \A u \in Trades : AbstractRow(u)' = AbstractRow(u)
      BY <1>3, <3>3, <3>4, <3>5, SameAbstractRow
    <3> QED
      BY <1>2, <2>1, <3>4, <3>6, RowsStutter DEF RowsInv
  <2>4. CASE \E t \in Trades : SendTimeoutCancel(t) \/ ReplaceCancelsOriginal(t) \/ SendStaleCancel(t)
    <3>1. \A u : OrdersOf(u)' = OrdersOf(u)
      BY <2>4, PassCancels, SameFamilies DEF IdentityInv
    <3>2. Sending = {} /\ Sending' = {}
      BY <1>1, NothingInHand
    <3>3. \A u \in Trades : AbstractRow(u)' = AbstractRow(u)
      BY <1>3, <3>1, <3>2, SameAbstractRow
    <3> QED
      BY <1>2, <2>1, <3>2, <3>3, RowsStutter DEF RowsInv
  <2> QED
    BY <2>2, <2>3, <2>4, ReconcileOrders
<1>4. CASE ledger' # ledger
  <2>1. PICK t \in Trades : PassWrites(t)
    BY <1>4, ReconcileWrites DEF PassWrites
  <2>2. /\ IsOpen(ledger'[t]) => MustReplay(ledger'[t])
        /\ \A u \in Trades \ {t} : ledger'[u] = ledger[u]
        /\ RowStep
    BY <1>1, <2>1, PassFollows DEF TrackInv, RowsInv
  <2>3. OpenRowInv'
    BY <2>2 DEF RowsInv, OpenRowInv
  <2> QED
    BY <1>2, <2>2, <2>3 DEF RowsInv
<1> QED
  BY <1>3, <1>4

-----------------------------------------------------------------------------
(* submit_plan. *)

(* A trade that is still to be sent or reported is in the batch. *)
LEMMA InHand ==
    ASSUME NEW t \in proc.fresh, proc.pc \in HandPcs, IsOpen(ledger[t]), OrdersOf(t) = {}
    PROVE  t \in Sending
BY DEF Sending, Unsubmitted

(* submit_plan ends, or the process dies. *)
LEMMA EndRowStep ==
    ASSUME ExecInv, ExecInv', IdentityInv, IdentityInv', SubmitInv, RowsInv,
           EndProcess, UNCHANGED <<orders, ledger>>
    PROVE  RowsInv' /\ RowStep
<1>1. proc'.pc = "idle"
  BY DEF EndProcess, IdleProc
<1>2. RowStep
  BY <1>1, CutRows DEF IdentityInv, HandPcs, PhasePcs
<1>3. OpenRowInv'
  BY DEF RowsInv, OpenRowInv
<1>4. HandInv' /\ AnswerInv'
  BY <1>1 DEF HandInv, AnswerInv, At, SendPcs, WaitPcs
<1> QED
  BY <1>2, <1>3, <1>4 DEF RowsInv

(* A phase starts. *)
LEMMA StartRowStep ==
    ASSUME ExecInv, RowsInv, NEW side, StartPhase(side), proc.pc \in HandPcs \ WaitPcs,
           UNCHANGED <<orders, ledger>>
    PROVE  RowsInv' /\ RowStep
<1>1. proc'.pc = "reprice" /\ proc'.fresh = proc.fresh /\ proc'.batch = {}
  BY DEF StartPhase, ExecInv, TypeOK, ExecTypeOK, ProcType
<1>2. RowStep
  BY <1>1, QuietRows DEF HandPcs, PhasePcs, WaitPcs
<1>3. OpenRowInv'
  BY DEF RowsInv, OpenRowInv
<1>4. HandInv' /\ AnswerInv'
  BY <1>1 DEF HandInv, AnswerInv, At, SendPcs, WaitPcs
<1> QED
  BY <1>2, <1>3, <1>4 DEF RowsInv

(* The phase moves on without touching a row. *)
LEMMA PhaseRowStep ==
    ASSUME ExecInv, SubmitInv, RowsInv, UNCHANGED <<orders, ledger>>,
           proc'.fresh = proc.fresh, proc'.batch = proc.batch,
           \/ At("plan_trade") /\ proc'.pc = "plan_trade"
           \/ At("reprice") /\ proc'.pc = "fit"
           \/ proc.pc \in {"reprice", "fit"} /\ proc'.pc \in {"mark", "block"} /\ proc'.todo = proc.batch
           \/ At("mark") /\ proc.todo = {} /\ proc'.pc = "send" /\ proc'.todo = proc.batch
           \/ /\ At("send") /\ proc'.pc = "record" /\ proc'.sendq = proc.sendq
              /\ proc'.todo = proc.batch
              /\ \A u \in Trades : u \notin proc.todo => proc'.res[u] = proc.res[u]
    PROVE  RowsInv' /\ RowStep
<1>1. proc.pc \in HandPcs \ WaitPcs /\ proc'.pc \in HandPcs \ WaitPcs
  BY DEF HandPcs, PhasePcs, WaitPcs, At
<1>2. RowStep
  BY <1>1, QuietRows
<1>3. OpenRowInv'
  BY DEF RowsInv, OpenRowInv
<1>4. HandInv'
  BY DEF RowsInv, HandInv, At, SendPcs
<1>5. AnswerInv'
  <2>1. CASE proc'.pc = "send"
    <3>1. ASSUME NEW t \in proc'.batch PROVE Answered(t)'
      BY <2>1, <3>1 DEF SubmitInv, MarkInv, At, Answered, IsTerminal, TerminalStates
    <3> QED
      BY <2>1, <3>1 DEF AnswerInv, At
  <2>2. CASE At("send") /\ proc'.pc = "record"
    <3>1. ASSUME NEW t \in proc'.todo, IsTerminal(ledger'[t]), t \in proc.batch PROVE Answered(t)'
      <4>0. t \in Trades
        BY <3>1 DEF ExecInv, TypeOK, ExecTypeOK, ProcType
      <4>1. t \notin proc.todo
        BY <2>2, <3>1 DEF SubmitInv, MarkInv, SendPcs, At, IsTerminal, TerminalStates
      <4>2. t \notin Awaited
        BY <2>2 DEF Awaited, At
      <4>3. Answered(t)
        BY <2>2, <3>1, <4>1, <4>2 DEF RowsInv, AnswerInv, SendPcs, At
      <4>4. proc'.res[t] = proc.res[t] /\ proc'.sendq[t] = proc.sendq[t] /\ ledger'[t] = ledger[t]
        BY <2>2, <4>0, <4>1 DEF At
      <4> QED
        BY <4>3, <4>4 DEF Answered, Ends
    <3>2. ASSUME NEW t \in proc'.todo, ~IsTerminal(ledger'[t]) PROVE Answered(t)'
      BY <3>2 DEF Answered
    <3> QED
      BY <2>2, <3>1, <3>2 DEF AnswerInv, At, SendPcs
  <2>3. CASE proc'.pc \notin {"send", "record"}
    BY <2>3 DEF AnswerInv, At, WaitPcs, SendPcs
  <2> QED
    BY <2>1, <2>2, <2>3 DEF At
<1> QED
  BY <1>2, <1>3, <1>4, <1>5 DEF RowsInv

(* A row that the broker never heard of is written for one trade. *)
LEMMA UnsentRowStep ==
    ASSUME ExecInv, IdentityInv, SubmitInv, RowsInv, NEW t \in Trades,
           OrdersOf(t) = {}, orders' = orders, t \in proc'.fresh,
           proc.pc \in HandPcs \ WaitPcs, proc'.pc = proc.pc,
           proc'.fresh \in {proc.fresh, proc.fresh \cup {t}},
           \A u \in Trades \ {t} : ledger'[u] = ledger[u],
           \/ ~MustReplay(ledger[t]) /\ IsOpen(ledger'[t])
           \/ t \in proc.fresh /\ IsOpen(ledger[t]) /\ ledger'[t].st \notin {"absent", "planned"}
    PROVE  RowStep
<1>1. \A u : OrdersOf(u)' = OrdersOf(u)
  BY DEF OrdersOf, Ids
<1>2. Awaited = {} /\ Awaited' = {} /\ proc.fresh \subseteq Trades
  BY AwaitedValue DEF ExecInv, TypeOK, ExecTypeOK, ProcType
<1>3. OthersStay(t)
  BY <1>1, <1>2, OneTradeMoves
<1>4. t \in Sending' <=> IsOpen(ledger'[t])
  BY <1>1, <1>2 DEF Sending, Unsubmitted
<1>5. CASE ~MustReplay(ledger[t]) /\ IsOpen(ledger'[t])
  <2>1. AbstractRow(t) \in {"absent", "planned", "retry"}
    <3>1. IsOpen(ledger[t]) => ledger[t].st = "planned"
      BY <1>5 DEF RowsInv, OpenRowInv
    <3> QED
      BY <1>5, <3>1 DEF AbstractRow, IsTerminal, IsOpen
  <2> QED
    BY <1>3, <1>4, <1>5, <2>1, OneRowMoves DEF R!Resubmittable
<1>6. CASE t \in proc.fresh /\ IsOpen(ledger[t]) /\ ledger'[t].st \notin {"absent", "planned"}
  <2>1. t \in Sending
    BY <1>6, InHand
  <2>2. t \notin Sending' => AbstractRow(t)' \in {"retry", "final"}
    BY <1>4, <1>6 DEF AbstractRow, IsOpen, IsTerminal
  <2> QED
    BY <1>3, <2>1, <2>2, OneRowMoves
<1> QED
  BY <1>5, <1>6

(* A local failure closes the row. *)
LEMMA FailureEnds ==
    ASSUME NEW raw \in SubmissionFailureRaw, NEW rem
    PROVE  ClassifyLifecycle(raw, 0, rem) = "rejected"
BY DEF ClassifyLifecycle, SubmissionFailureRaw, CancelledRaw

(* A recorded result leaves no open row that a retry would act on. *)
LEMMA RecordedRow ==
    ASSUME ExecInv, NEW t \in Trades, NEW res \in ResultType, RecordResult(t, res)
    PROVE  /\ ledger'[t].st \notin {"absent", "planned"}
           /\ IsOpen(ledger'[t]) => MustReplay(ledger'[t])
           /\ ledger'[t].st = ClassifyLifecycle(res.raw, res.filled,
                                                Monus(RecordBase(t).qty, res.filled))
           /\ \A u \in Trades \ {t} : ledger'[u] = ledger[u]
<1>1. /\ RecordBase(t) \in Row /\ ledger'[t] = WithOrderResult(RecordBase(t), res)
      /\ \A u \in Trades \ {t} : ledger'[u] = ledger[u]
  BY RecordWrites
<1>2. ledger'[t].st = ClassifyLifecycle(res.raw, res.filled, Monus(RecordBase(t).qty, res.filled))
  BY <1>1, ResultFields
<1>3. ledger'[t].st \notin {"absent", "planned"}
  BY <1>2, ClassifyRange
<1>4. ASSUME IsOpen(ledger'[t]) PROVE res.raw \notin RetryableRaw
  <2>1. SUFFICES ASSUME res.raw \in RetryableRaw PROVE FALSE
    OBVIOUS
  <2>2. ledger'[t].st \in {"filled", "rejected"}
    BY <1>2, <2>1 DEF ClassifyLifecycle, RetryableRaw, SubmissionFailureRaw, CancelledRaw
  <2> QED
    BY <1>4, <2>2 DEF IsOpen, TerminalStates
<1>5. IsOpen(ledger'[t]) => MustReplay(ledger'[t])
  BY <1>4, RecordRow
<1> QED
  BY <1>1, <1>2, <1>3, <1>5

(* A planned row says nothing that a retry would act on. *)
LEMMA PlannedFields ==
    ASSUME NEW q
    PROVE  /\ PlannedRow(q).st = "planned" /\ PlannedRow(q).qty = q
           /\ PlannedRow(q).raw \notin RetryableRaw
<1>1. PlannedRow(q).raw \notin RetryableRaw
  BY Zenon DEF PlannedRow, RetryableRaw
<1> QED
  BY <1>1 DEF PlannedRow

(* The row of a trade is planned. *)
LEMMA PlanRowRows ==
    ASSUME ExecInv, IdentityInv, SubmitInv, RowsInv, NEW t \in Trades,
           t \in proc.todo, orders' = orders, OrdersOf(t) = {},
           Upsert(t, PlannedRow(Qty[t])),
           \/ /\ At("plan_trade") /\ ~MustReplay(ledger[t])
              /\ proc' = [proc EXCEPT !.todo = @ \ {t}, !.fresh = @ \cup {t}]
           \/ /\ At("reprice")
              /\ proc' = [proc EXCEPT !.todo = @ \ {t}, !.batch = @ \cup {t}]
    PROVE  RowsInv' /\ RowStep
<1>t. proc \in ProcType
  BY DEF ExecInv, TypeOK, ExecTypeOK
<1>0. ledger'[t] = PlannedRow(Qty[t]) /\ \A u \in Trades \ {t} : ledger'[u] = ledger[u]
  BY UpsertRow
<1>1. /\ ledger'[t].st = "planned" /\ ledger'[t].raw \notin RetryableRaw /\ IsOpen(ledger'[t])
      /\ \A u \in Trades \ {t} : ledger'[u] = ledger[u]
  BY <1>0, PlannedFields DEF IsOpen, TerminalStates
<1>2. OpenRowInv'
  BY <1>1 DEF RowsInv, OpenRowInv
<1>3. CASE At("plan_trade")
  <2>1. proc'.pc = "plan_trade" /\ proc'.fresh = proc.fresh \cup {t} /\ ~MustReplay(ledger[t])
    BY <1>t, <1>3 DEF ProcType, At
  <2>2. RowStep
    BY <1>1, <1>3, <2>1, UnsentRowStep DEF At, HandPcs, WaitPcs
  <2>3. HandInv' /\ AnswerInv'
    BY <2>1 DEF HandInv, AnswerInv, At, SendPcs, WaitPcs
  <2> QED
    BY <1>2, <2>2, <2>3 DEF RowsInv
<1>4. CASE At("reprice")
  <2>1. /\ proc'.pc = "reprice" /\ proc'.fresh = proc.fresh /\ proc'.batch = proc.batch \cup {t}
        /\ t \in proc.fresh /\ proc'.todo = proc.todo \ {t}
    BY <1>t, <1>4, SubmitFacts DEF ProcType, At, PhasePcs, IdentityInv
  <2>2. ~MustReplay(ledger[t])
    BY <1>4 DEF SubmitInv, UnpricedInv, MustReplay
  <2>3. RowStep
    BY <1>1, <1>4, <2>1, <2>2, UnsentRowStep DEF At, HandPcs, WaitPcs, PhasePcs
  <2>4. HandInv'
    <3>1. ASSUME NEW u \in proc'.batch PROVE ledger'[u].st = "planned"
      <4>1. u \in Trades
        BY <1>t, <2>1 DEF ProcType
      <4>2. u # t => ledger[u].st = "planned"
        BY <1>4, <2>1 DEF RowsInv, HandInv, At
      <4> QED
        BY <1>1, <4>1, <4>2
    <3>2. proc'.todo \cap proc'.batch = {}
      BY <1>4, <2>1 DEF RowsInv, HandInv
    <3> QED
      BY <2>1, <3>1, <3>2 DEF HandInv, SendPcs, At
  <2>5. AnswerInv'
    BY <2>1 DEF AnswerInv, At, SendPcs, WaitPcs
  <2> QED
    BY <1>2, <2>3, <2>4, <2>5 DEF RowsInv
<1> QED
  BY <1>3, <1>4

(* A row is written before its order is sent. *)
LEMMA LocalRowStep ==
    ASSUME ExecInv, IdentityInv, SubmitInv, RowsInv, NEW t \in Trades,
           BlockOnQuote(t) \/ BlockBuy(t) \/ MarkUnconfirmed(t) \/ SendFails(t)
    PROVE  RowsInv' /\ RowStep
<1>f. /\ proc \in ProcType /\ OrdersOf(t) = {}
      /\ proc.pc \in PhasePcs => proc.todo \subseteq proc.fresh
  BY SubmitFacts, UnsentWrites DEF IdentityInv
<1>1. /\ proc.pc \in {"reprice", "block", "mark", "send"} /\ t \in proc.todo /\ orders' = orders
      /\ SendFails(t) <=> proc.pc = "send"
  BY Zenon DEF BlockOnQuote, BlockBuy, MarkUnconfirmed, SendFails, At
<1>2. PICK raw \in {"QuoteBlocked", "ContractUnresolved", "BuyingPowerBlocked",
                     "SubmissionUnconfirmed", "Failed"} :
        /\ RecordResult(t, Result(raw, NoId, 0))
        /\ SendFails(t) => raw = "Failed"
  BY Zenon DEF BlockOnQuote, BlockBuy, MarkUnconfirmed, SendFails
<1>3. Result(raw, NoId, 0) \in ResultType /\ Result(raw, NoId, 0).raw = raw
  BY LocalResult DEF RawStatuses, SubmissionFailureRaw
<1>4. /\ ledger'[t].st \notin {"absent", "planned"}
      /\ IsOpen(ledger'[t]) => MustReplay(ledger'[t])
      /\ \A u \in Trades \ {t} : ledger'[u] = ledger[u]
      /\ raw \notin RetryableRaw => MustReplay(ledger'[t])
  BY <1>2, <1>3, RecordedRow, RecordRow
<1>5. /\ proc'.pc = proc.pc /\ proc'.todo = proc.todo \ {t} /\ SameBatch
      /\ \A u \in Trades \ {t} : proc'.res[u] = proc.res[u]
      /\ SendFails(t) => proc'.res[t] = Result("Failed", NoId, 0)
  <2>1. CASE proc' = [proc EXCEPT !.todo = @ \ {t}] /\ ~SendFails(t)
    BY <1>f, <2>1 DEF ProcType, SameBatch
  <2>2. CASE proc' = [proc EXCEPT !.todo = @ \ {t}, !.res[t] = Result("Failed", NoId, 0)]
    <3>1. proc'.pc = proc.pc /\ proc'.todo = proc.todo \ {t} /\ SameBatch
          /\ proc'.res = [proc.res EXCEPT ![t] = Result("Failed", NoId, 0)]
      BY <1>f, <2>2 DEF ProcType, SameBatch
    <3> QED
      BY <1>f, <3>1 DEF ProcType
  <2>3. CASE SendFails(t)
    BY <2>2, <2>3, Zenon DEF SendFails
  <2>4. CASE ~SendFails(t)
    <3>1. proc' = [proc EXCEPT !.todo = @ \ {t}]
      BY <2>4, Zenon DEF BlockOnQuote, BlockBuy, MarkUnconfirmed
    <3> QED
      BY <2>1, <2>4, <3>1
  <2> QED
    BY <2>3, <2>4
<1>6. IsOpen(ledger[t])
  BY <1>1 DEF SubmitInv, UnpricedInv, MarkInv, RowsInv, HandInv, At, SendPcs, IsOpen, TerminalStates
<1>7. RowStep
  BY <1>f, <1>1, <1>4, <1>5, <1>6, UnsentRowStep DEF HandPcs, PhasePcs, WaitPcs, SameBatch
<1>8. OpenRowInv'
  BY <1>4 DEF RowsInv, OpenRowInv
<1>9. HandInv'
  <2>1. proc'.batch = proc.batch /\ proc.batch \subseteq Trades /\ proc.todo \subseteq Trades
    BY <1>f, <1>5 DEF SameBatch, ProcType
  <2> QED
    BY <1>1, <1>4, <1>5, <2>1 DEF RowsInv, HandInv, SendPcs, At
<1>10. AnswerInv'
  <2>1. CASE proc.pc = "send"
    <3>1. ASSUME NEW u \in proc'.batch \ Awaited', u # t PROVE Answered(u)'
      <4>1. u \in Trades /\ u \in proc.batch /\ proc'.sendq = proc.sendq
        BY <1>f, <1>5, <3>1 DEF SameBatch, ProcType
      <4>2. Answered(u)
        BY <2>1, <4>1 DEF RowsInv, AnswerInv, Awaited, SendPcs
      <4> QED
        BY <1>4, <1>5, <3>1, <4>1, <4>2 DEF Answered, Ends
    <3>2. Answered(t)'
      <4>1. proc'.res[t].raw = "Failed" /\ proc'.res[t].filled = 0
        BY <1>1, <1>5, <2>1 DEF Result
      <4>2. Ends(t)'
        <5>1. ClassifyLifecycle("Failed", 0, Monus(proc'.sendq[t], 0)) = "rejected"
          BY FailureEnds DEF SubmissionFailureRaw
        <5> QED
          BY <4>1, <5>1 DEF Ends, TerminalStates
      <4>3. "Failed" \notin RetryableRaw
        BY DEF RetryableRaw
      <4> QED
        BY <1>1, <1>2, <1>4, <2>1, <4>1, <4>2, <4>3 DEF Answered
    <3> QED
      BY <1>5, <2>1, <3>1, <3>2 DEF AnswerInv, At
  <2>2. CASE proc.pc # "send"
    BY <1>1, <1>5, <2>2 DEF AnswerInv, At, SendPcs
  <2> QED
    BY <2>1, <2>2
<1> QED
  BY <1>7, <1>8, <1>9, <1>10 DEF RowsInv

(* The results of the phase are recorded once more. *)
LEMMA RecordRowStep ==
    ASSUME ExecInv, ExecInv', IdentityInv, IdentityInv', SubmitInv, RowsInv,
           NEW t \in Trades, RecordPhaseResult(t)
    PROVE  RowsInv' /\ RowStep
<1>f. /\ proc \in ProcType /\ proc.batch \subseteq proc.fresh
      /\ proc.res[t] \in ResultType
  BY SubmitFacts DEF IdentityInv, RecordPhaseResult, At, PhasePcs, ProcType, ResultType
<1>1. /\ proc.pc = "record" /\ t \in proc.todo /\ RecordResult(t, proc.res[t])
      /\ proc' = [proc EXCEPT !.todo = @ \ {t}] /\ orders' = orders
  BY DEF RecordPhaseResult, At
<1>2. /\ proc'.pc = "record" /\ proc'.todo = proc.todo \ {t} /\ SameBatch /\ proc'.res = proc.res
  BY <1>f, <1>1 DEF ProcType, SameBatch
<1>3. t \in proc.batch /\ t \in proc.fresh
  BY <1>f, <1>1 DEF SubmitInv, BatchInv
<1>4. /\ ledger'[t].st \notin {"absent", "planned"}
      /\ IsOpen(ledger'[t]) => MustReplay(ledger'[t])
      /\ ledger'[t].st = ClassifyLifecycle(proc.res[t].raw, proc.res[t].filled,
                                           Monus(RecordBase(t).qty, proc.res[t].filled))
      /\ \A u \in Trades \ {t} : ledger'[u] = ledger[u]
      /\ proc.res[t].raw \notin RetryableRaw => MustReplay(ledger'[t])
  BY <1>f, <1>1, RecordedRow, RecordRow
<1>5. \A u : OrdersOf(u)' = OrdersOf(u)
  BY <1>1 DEF OrdersOf, Ids
<1>6. Awaited = {} /\ Awaited' = {} /\ proc.fresh \subseteq Trades /\ proc'.fresh = proc.fresh
  BY <1>f, <1>1, <1>2, AwaitedValue DEF WaitPcs, ProcType, SameBatch
<1>7. OthersStay(t)
  BY <1>1, <1>2, <1>4, <1>5, <1>6, OneTradeMoves DEF HandPcs, PhasePcs
<1>8. /\ t \in Sending <=> IsOpen(ledger[t]) /\ OrdersOf(t) = {}
      /\ t \in Sending' <=> IsOpen(ledger'[t]) /\ OrdersOf(t) = {}
  BY <1>1, <1>2, <1>3, <1>5, <1>6 DEF Sending, Unsubmitted, HandPcs, PhasePcs
<1>9. ASSUME IsTerminal(ledger[t]) PROVE IsTerminal(ledger'[t]) /\ MustReplay(ledger'[t])
  <2>1. Ends(t) /\ proc.res[t].raw \notin RetryableRaw
    BY <1>1, <1>9 DEF RowsInv, AnswerInv, Answered, At
  <2>2. RecordBase(t).qty = proc.sendq[t]
    BY <1>9, PlannedFields DEF RecordBase, IsOpen, IsTerminal
  <2> QED
    BY <1>4, <2>1, <2>2 DEF Ends, IsTerminal
<1>10. RowStep
  <2>1. CASE OrdersOf(t) # {}
    <3>1. AbstractRow(t)' \in {"working", "unknown", "final"}
      <4>1. (OrdersOf(t) # {})' /\ t \notin Sending'
        BY <1>5, <1>8, <2>1
      <4>2. MustReplay(ledger'[t])
        <5>1. (BaseOrders(t) # {})'
          BY <4>1 DEF IdentityInv, FamilyInv, OrdersOf
        <5> QED
          BY <5>1 DEF ExecInv, ResubmittableMeansUnsent
      <4> QED
        BY <1>4, <4>1, <4>2 DEF AbstractRow
    <3>2. CASE IsTerminal(ledger[t])
      <4>1. AbstractRow(t) = "final"
        BY <1>8, <2>1, <3>2, SentRow DEF IdentityInv
      <4>2. AbstractRow(t)' = "final"
        BY <1>8, <1>9, <2>1, <3>2 DEF AbstractRow
      <4> QED
        BY <1>7, <1>8, <2>1, <4>1, <4>2, OneRowMoves
    <3>3. CASE ~IsTerminal(ledger[t])
      <4>1. AbstractRow(t) \in {"working", "unknown"}
        <5>1. MustReplay(ledger[t])
          BY <2>1, SentRow DEF IdentityInv
        <5>2. IsOpen(ledger[t])
          BY <3>3, <5>1 DEF IsOpen, IsTerminal, MustReplay
        <5> QED
          BY <1>8, <2>1, <5>2, SentRow DEF IdentityInv
      <4> QED
        BY <1>7, <1>8, <2>1, <3>1, <4>1, OneRowMoves DEF R!OpenStates, R!Evidence
    <3> QED
      BY <3>2, <3>3
  <2>2. CASE OrdersOf(t) = {} /\ IsOpen(ledger[t])
    <3>1. t \notin Sending' => AbstractRow(t)' \in {"retry", "final"}
      BY <1>4, <1>8, <2>2 DEF AbstractRow, IsOpen, IsTerminal
    <3> QED
      BY <1>7, <1>8, <2>2, <3>1, OneRowMoves
  <2>3. CASE OrdersOf(t) = {} /\ ~IsOpen(ledger[t])
    <3>1. IsTerminal(ledger[t]) /\ MustReplay(ledger[t])
      <4>1. IsTerminal(ledger[t])
        BY <1>1, <1>3, <2>3 DEF RowsInv, HandInv, IsOpen, IsTerminal
      <4> QED
        BY <1>1, <4>1 DEF RowsInv, AnswerInv, Answered, At
    <3>2. t \notin Sending /\ t \notin Sending'
      BY <1>8, <1>9, <2>3, <3>1 DEF IsOpen, IsTerminal
    <3>3. AbstractRow(t) = "final" /\ AbstractRow(t)' = "final"
      BY <1>9, <3>1, <3>2 DEF AbstractRow
    <3> QED
      BY <1>7, <3>2, <3>3, OneRowMoves
  <2> QED
    BY <2>1, <2>2, <2>3
<1>11. OpenRowInv'
  BY <1>4 DEF RowsInv, OpenRowInv
<1>12. HandInv'
  <2>1. proc'.batch = proc.batch /\ proc.batch \subseteq Trades
    BY <1>f, <1>2 DEF SameBatch, ProcType
  <2> QED
    BY <1>1, <1>2, <1>4, <2>1 DEF RowsInv, HandInv, SendPcs, At
<1>13. AnswerInv'
  <2>1. ASSUME NEW u \in proc'.todo PROVE Answered(u)'
    <3>1. u \in Trades \ {t} /\ Answered(u) /\ proc'.sendq = proc.sendq
      BY <1>f, <1>1, <1>2, <2>1 DEF RowsInv, AnswerInv, At, ProcType, SameBatch
    <3> QED
      BY <1>2, <1>4, <3>1 DEF Answered, Ends
  <2> QED
    BY <1>2, <2>1 DEF AnswerInv, SendPcs
<1> QED
  BY <1>10, <1>11, <1>12, <1>13 DEF RowsInv

(* placeOrder: the order is at the broker, and its answer is awaited. *)
LEMMA PlaceRowStep ==
    ASSUME ExecInv, IdentityInv, SubmitInv, RowsInv, NEW t \in Trades, PlaceOrder(t)
    PROVE  RowsInv' /\ RowStep
<1>f. /\ proc \in ProcType /\ OrdersOf(t) = {} /\ IsOpen(ledger[t])
      /\ proc.todo \subseteq proc.fresh /\ proc.fresh \subseteq Trades
  <2>1. proc.pc = "send" /\ t \in proc.todo
    BY DEF PlaceOrder, At
  <2>2. proc \in ProcType /\ OrdersOf(t) = {} /\ proc.todo \subseteq proc.fresh
    BY <2>1, SubmitFacts, UnsentWrites DEF IdentityInv, PhasePcs
  <2> QED
    BY <2>1, <2>2 DEF SubmitInv, MarkInv, SendPcs, IsOpen, TerminalStates, ProcType
<1>1. /\ proc.pc = "send" /\ t \in proc.todo /\ ledger' = ledger
      /\ proc' = [proc EXCEPT !.pc = "placed", !.cur = t, !.todo = @ \ {t}]
  BY DEF PlaceOrder, At
<1>2. /\ proc'.pc = "placed" /\ proc'.cur = t /\ proc'.todo = proc.todo \ {t}
      /\ SameBatch /\ proc'.res = proc.res
  BY <1>f, <1>1 DEF ProcType, SameBatch
<1>3. PICK ref, q : NewOrderIs(t, ref, q)
  BY PlacesOrder DEF IdentityInv
<1>4. \A u \in Trades \ {t} : OrdersOf(u)' = OrdersOf(u)
  BY <1>3, NewFamilies
<1>5. Awaited = {} /\ Awaited' = {t}
  BY <1>1, <1>2, AwaitedValue DEF WaitPcs
<1>6. OthersStay(t)
  BY <1>f, <1>1, <1>2, <1>4, <1>5, OneTradeMoves DEF HandPcs, PhasePcs, SameBatch
<1>7. t \in Sending /\ t \in Sending'
  BY <1>f, <1>1, <1>5, InHand DEF Sending, HandPcs, PhasePcs
<1>8. RowStep
  BY <1>6, <1>7, OneRowMoves
<1>9. OpenRowInv' /\ HandInv'
  BY <1>1, <1>2 DEF RowsInv, OpenRowInv, HandInv, SendPcs, SameBatch, At
<1>10. AnswerInv'
  <2>1. ASSUME NEW u \in proc'.batch PROVE Answered(u)'
    <3>1. Answered(u) /\ proc'.sendq = proc.sendq
      BY <1>1, <1>2, <1>5, <2>1 DEF RowsInv, AnswerInv, SendPcs, SameBatch
    <3> QED
      BY <1>1, <1>2, <3>1 DEF Answered, Ends
  <2> QED
    BY <1>2, <2>1 DEF AnswerInv, At
<1> QED
  BY <1>8, <1>9, <1>10 DEF RowsInv

(* What the order answers while the process waits for it. *)
LEMMA AwaitRowStep ==
    ASSUME ExecInv, IdentityInv, SubmitInv, RowsInv, NEW t \in Trades,
           proc.pc \in WaitPcs, proc.cur = t,
           proc'.pc \in {"wait", "wait_cancel"}, proc'.cur = t, proc'.todo = proc.todo, SameBatch,
           proc'.res = proc.res, NoNewOrder,
           NEW res \in ResultType, RecordResult(t, res)
    PROVE  RowsInv' /\ RowStep
<1>f. proc \in ProcType /\ proc.fresh \subseteq Trades /\ proc.batch \subseteq Trades
  BY SubmitFacts DEF IdentityInv, ProcType
<1>1. Awaited = {t} /\ Awaited' = {t}
  BY AwaitedValue DEF WaitPcs
<1>2. /\ ledger'[t].st \notin {"absent", "planned"}
      /\ IsOpen(ledger'[t]) => MustReplay(ledger'[t])
      /\ \A u \in Trades \ {t} : ledger'[u] = ledger[u]
  BY RecordedRow
<1>3. \A u : OrdersOf(u)' = OrdersOf(u)
  BY SameFamilies
<1>4. OthersStay(t)
  BY <1>f, <1>1, <1>2, <1>3, OneTradeMoves DEF HandPcs, PhasePcs, WaitPcs, SameBatch
<1>5. RowStep
  BY <1>1, <1>4, OneRowMoves DEF Sending
<1>6. OpenRowInv'
  BY <1>2 DEF RowsInv, OpenRowInv
<1>7. HandInv'
  BY <1>f, <1>2 DEF RowsInv, HandInv, SendPcs, WaitPcs, SameBatch, At
<1>8. AnswerInv'
  <2>1. ASSUME NEW u \in proc'.batch \ {t} PROVE Answered(u)'
    <3>1. u \in Trades \ {t} /\ Answered(u) /\ proc'.sendq = proc.sendq
      BY <1>f, <1>1, <2>1 DEF RowsInv, AnswerInv, SendPcs, WaitPcs, SameBatch
    <3> QED
      BY <1>2, <3>1 DEF Answered, Ends
  <2> QED
    BY <1>1, <2>1 DEF AnswerInv, At
<1> QED
  BY <1>5, <1>6, <1>7, <1>8 DEF RowsInv

(* The wait ends with a result that the row already has, or now gets. *)
LEMMA AnswerRowStep ==
    ASSUME ExecInv, ExecInv', IdentityInv, IdentityInv', SubmitInv, RowsInv,
           NEW t \in Trades, proc.pc \in WaitPcs, proc.cur = t, orders' = orders,
           NEW r \in ResultType, r.raw \notin RetryableRaw,
           ReturnResult(t, r) \/ StopSending([Unsent(proc.todo) EXCEPT ![t] = r]),
           ledger' = ledger \/ \E res \in ResultType : RecordResult(t, res),
           IsTerminal(ledger'[t]) =>
               ClassifyLifecycle(r.raw, r.filled, Monus(proc.sendq[t], r.filled)) \in TerminalStates
    PROVE  RowsInv' /\ RowStep
<1>f. proc \in ProcType /\ proc.fresh \subseteq Trades /\ proc.batch \subseteq Trades
  BY SubmitFacts DEF IdentityInv, ProcType
<1>w. Placed \in Ids /\ orders[Placed].t = t /\ t \in proc.batch /\ t \notin proc.todo
  BY WaitFacts DEF IdentityInv
<1>1. /\ proc'.pc \in {"send", "record"} /\ SameBatch
      /\ proc'.todo = IF proc'.pc = "record" THEN proc.batch ELSE proc.todo
      /\ proc'.res[t] = r
      /\ \A u \in Trades \ {t} :
            u \notin proc.todo \/ proc'.pc # "record" => proc'.res[u] = proc.res[u]
  BY <1>f, ReturnFields
<1>2. Awaited = {t} /\ Awaited' = {}
  BY <1>1, AwaitedValue DEF WaitPcs
<1>3. \A u : OrdersOf(u)' = OrdersOf(u)
  BY DEF OrdersOf, Ids
<1>4. /\ \A u \in Trades \ {t} : ledger'[u] = ledger[u]
      /\ ledger'[t] = ledger[t] \/ ledger'[t].st # "absent"
      /\ OpenRowInv'
  <2>1. CASE ledger' = ledger
    BY <2>1 DEF RowsInv, OpenRowInv
  <2>2. CASE \E res \in ResultType : RecordResult(t, res)
    BY <2>2, RecordedRow DEF RowsInv, OpenRowInv
  <2> QED
    BY <2>1, <2>2
<1>5. OthersStay(t)
  BY <1>f, <1>1, <1>2, <1>3, <1>4, OneTradeMoves DEF HandPcs, PhasePcs, WaitPcs, SameBatch
<1>6. OrdersOf(t) # {} /\ t \in Sending /\ t \notin Sending'
  BY <1>w, <1>2, <1>3 DEF Sending, Unsubmitted, OrdersOf
<1>7. MustReplay(ledger'[t])
  <2>1. (BaseOrders(t) # {})'
    BY <1>3, <1>6 DEF IdentityInv, FamilyInv, OrdersOf
  <2> QED
    BY <2>1 DEF ExecInv, ResubmittableMeansUnsent
<1>8. AbstractRow(t)' \in {"working", "unknown", "final"}
  BY <1>3, <1>6, <1>7 DEF AbstractRow, MustReplay
<1>9. RowStep
  BY <1>5, <1>6, <1>8, OneRowMoves
<1>10. HandInv'
  <2>1. \A u \in proc.batch : ledger[u].st # "absent"
    BY DEF RowsInv, HandInv, SendPcs, WaitPcs
  <2> QED
    BY <1>f, <1>w, <1>1, <1>4, <2>1 DEF HandInv, SameBatch, At
<1>11. ASSUME NEW u \in proc.batch PROVE Answered(u)'
  <2>0. proc'.sendq = proc.sendq
    BY <1>1 DEF SameBatch
  <2>1. CASE u = t
    BY <1>1, <1>7, <2>0, <2>1 DEF Answered, Ends
  <2>2. CASE u # t
    <3>1. u \in Trades \ {t} /\ Answered(u)
      BY <1>f, <1>2, <1>11, <2>2 DEF RowsInv, AnswerInv, SendPcs, WaitPcs
    <3>2. u \in proc.todo => ~IsTerminal(ledger[u])
      BY DEF SubmitInv, MarkInv, SendPcs, WaitPcs, IsTerminal, TerminalStates
    <3> QED
      BY <1>1, <1>4, <2>0, <3>1, <3>2 DEF Answered, Ends
  <2> QED
    BY <2>1, <2>2
<1>12. AnswerInv'
  BY <1>1, <1>11 DEF AnswerInv, At, SendPcs, SameBatch
<1> QED
  BY <1>4, <1>9, <1>10, <1>12 DEF RowsInv

(* An order that is done closes its row, whatever the row expected. *)
LEMMA DoneEnds ==
    ASSUME NEW raw \in DoneRaw, NEW filled, NEW rem
    PROVE  ClassifyLifecycle(raw, filled, rem) \in TerminalStates
BY DEF ClassifyLifecycle, DoneRaw, CancelledRaw, TerminalStates

(* The steps that follow placeOrder. *)
LEMMA WaitRowStep ==
    ASSUME ExecInv, ExecInv', IdentityInv, IdentityInv', SubmitInv, TrackInv', RowsInv,
           NEW t \in Trades,
           \/ EmitPlaced(t) \/ OutcomeUncertain(t) \/ OrderAnswered(t)
           \/ AcceptanceTimeout(t) \/ CancelWaitEnds(t)
    PROVE  RowsInv' /\ RowStep
<1>f. proc \in ProcType /\ BrokerTypeOK
  BY SubmitFacts DEF IdentityInv
<1>0. proc.pc \in WaitPcs /\ proc.cur = t
  BY WaitResults
<1>w. /\ Placed \in Ids /\ Placed \in Nat /\ orders[Placed].t = t /\ t \in proc.batch
      /\ orders[Placed].filled \in 0..MaxQty
      /\ Reported \in ResultType /\ Reported.raw \notin RetryableRaw
      /\ Reported.raw = orders[Placed].st /\ Reported.filled = orders[Placed].filled
  BY <1>0, WaitFacts, ReportedType DEF IdentityInv, WaitPcs, Reported, Result
<1>c. ASSUME NEW pc \in {"wait", "wait_cancel"}, proc' = [proc EXCEPT !.pc = pc], NoNewOrder,
             NEW res \in ResultType, RecordResult(t, res)
      PROVE  RowsInv' /\ RowStep
  <2>1. proc'.pc = pc /\ proc'.cur = proc.cur /\ proc'.todo = proc.todo /\ SameBatch
        /\ proc'.res = proc.res
    BY <1>c, <1>f DEF ProcType, SameBatch
  <2> QED
    BY <1>0, <1>c, <2>1, AwaitRowStep
<1>d. ASSUME orders' = orders, IsTerminal(ledger'[t])
      PROVE  ClassifyLifecycle(Reported.raw, Reported.filled, Monus(proc.sendq[t], Reported.filled))
                 \in TerminalStates
  <2>1. Placed \notin LiveIds
    <3>1. SUFFICES ASSUME Placed \in LiveIds PROVE FALSE
      OBVIOUS
    <3>2. Placed \in LiveIds' /\ orders'[Placed].t = t
      BY <1>d, <1>w, <3>1 DEF LiveIds, IsLive, Ids
    <3>3. IsOpen(ledger'[t])
      BY <3>2 DEF TrackInv, LiveOrderIsTracked
    <3> QED
      BY <1>d, <3>3 DEF IsOpen, IsTerminal
  <2>2. orders[Placed].st \notin LiveRaw /\ orders[Placed] \in Order
    BY <1>f, <1>w, <2>1, OrderStatusRaw DEF LiveIds, IsLive
  <2>3. orders[Placed].st \in DoneRaw
    BY <2>2 DEF Order, DoneRaw, CancelledRaw
  <2> QED
    BY <1>w, <2>3, DoneEnds
<1>e. ASSUME orders' = orders, ReturnResult(t, Reported),
             ledger' = ledger \/ RecordResult(t, Reported)
      PROVE  RowsInv' /\ RowStep
  BY <1>0, <1>d, <1>e, <1>w, AnswerRowStep
<1>1. CASE EmitPlaced(t)
  <2>1. proc' = [proc EXCEPT !.pc = "wait"] /\ orders' = orders /\ RecordResult(t, Reported)
    BY <1>1, Zenon DEF EmitPlaced
  <2>2. NoNewOrder
    BY <1>f, <2>1, OrdersStay DEF IdentityInv
  <2> QED
    BY <1>c, <1>w, <2>1, <2>2
<1>2. CASE OutcomeUncertain(t)
  <2>1. PICK oid \in {NoId, Placed} :
          LET r == Result("SubmissionUnconfirmed", oid, IF oid = NoId THEN 0 ELSE orders[Placed].filled)
          IN  RecordResult(t, r) /\ StopSending([Unsent(proc.todo) EXCEPT ![t] = r])
    BY <1>2, Zenon DEF OutcomeUncertain
  <2> DEFINE r == Result("SubmissionUnconfirmed", oid, IF oid = NoId THEN 0 ELSE orders[Placed].filled)
  <2>2. r.filled \in 0..MaxQty /\ r.raw = "SubmissionUnconfirmed" /\ r \in ResultType
    <3>1. "SubmissionUnconfirmed" \in RawStatuses
      BY Zenon DEF RawStatuses
    <3> QED
      BY <1>w, <3>1 DEF Result, ResultType, NoId
  <2>3. RecordResult(t, r) /\ StopSending([Unsent(proc.todo) EXCEPT ![t] = r])
    BY <2>1
  <2>4. orders' = orders
    BY <1>2, Zenon DEF OutcomeUncertain
  <2> HIDE DEF r
  <2>5. r.raw \notin RetryableRaw /\ r.raw \in LooseRaw
    BY <2>2 DEF RetryableRaw, LooseRaw
  <2>6. ASSUME IsTerminal(ledger'[t])
        PROVE  ClassifyLifecycle(r.raw, r.filled, Monus(proc.sendq[t], r.filled)) \in TerminalStates
    <3>1. /\ RecordBase(t) \in Row
          /\ ledger'[t].st = ClassifyLifecycle(r.raw, r.filled, Monus(RecordBase(t).qty, r.filled))
      BY <2>2, <2>3, RecordWrites, RecordedRow
    <3>2. r.filled > 0 /\ Monus(RecordBase(t).qty, r.filled) = 0
      BY <2>2, <2>5, <2>6, <3>1, ClosedByFill DEF IsTerminal
    <3>3. RecordBase(t).qty >= proc.sendq[t] /\ RecordBase(t).qty \in Nat /\ proc.sendq[t] \in Nat
      <4>1. ledger[t].qty >= proc.sendq[t] /\ PlannedRow(proc.sendq[t]).qty = proc.sendq[t]
        BY <1>0, <1>w, PlannedFields DEF SubmitInv, BatchQtyInv, SendPcs, WaitPcs
      <4>2. RecordBase(t).qty = ledger[t].qty \/ RecordBase(t).qty = proc.sendq[t]
        BY <4>1 DEF RecordBase
      <4>3. proc.sendq[t] \in Nat
        BY <1>f DEF ProcType
      <4> QED
        BY <3>1, <4>1, <4>2, <4>3 DEF Row
    <3>4. Monus(proc.sendq[t], r.filled) = 0
      BY <2>2, <3>2, <3>3 DEF Monus
    <3> QED
      BY <3>2, <3>4 DEF ClassifyLifecycle, TerminalStates
  <2> QED
    BY <1>0, <2>2, <2>3, <2>4, <2>5, <2>6, AnswerRowStep
<1>3. CASE OrderAnswered(t) \/ CancelWaitEnds(t)
  BY <1>3, <1>e, Zenon DEF OrderAnswered, CancelWaitEnds, EmitChange
<1>4. CASE AcceptanceTimeout(t)
  <2> DEFINE r == Result("PendingCancel", Placed, Reported.filled)
  <2>1. CASE RequestCancel(Placed) /\ RecordResult(t, r) /\ proc' = [proc EXCEPT !.pc = "wait_cancel"]
    <3>1. r \in ResultType
      BY <1>w DEF Result, ResultType, RawStatuses
    <3> HIDE DEF r
    <3> QED
      BY <1>4, <1>c, <2>1, <3>1, TimeoutCancels DEF IdentityInv
  <2>2. CASE orders' = orders /\ ReturnResult(t, Reported) /\ ledger' = ledger
    BY <1>e, <2>2
  <2> QED
    BY <1>4, <2>1, <2>2, Zenon DEF AcceptanceTimeout
<1> QED
  BY <1>1, <1>2, <1>3, <1>4

(* Every step of submit_plan. *)
LEMMA SubmissionRowStep ==
    ASSUME ExecInv, ExecInv', IdentityInv, IdentityInv', SubmitInv, TrackInv', RowsInv,
           SubmissionStep
    PROVE  RowsInv' /\ RowStep
<1>f. proc \in ProcType
  BY SubmitFacts DEF IdentityInv
<1>n. ASSUME NextPhase, proc.pc \in {"reprice", "block", "record"}, UNCHANGED <<orders, ledger>>
      PROVE  RowsInv' /\ RowStep
  BY <1>n, StartRowStep, EndRowStep DEF NextPhase, HandPcs, PhasePcs, WaitPcs
<1>1. CASE BuildPlan
  <2>1. PICK P : proc' = [proc EXCEPT !.pc = "plan_trade", !.todo = P, !.fresh = {}]
    BY <1>1, Zenon DEF BuildPlan
  <2>2. /\ proc.pc = "plan" /\ proc'.pc = "plan_trade" /\ proc'.fresh = {}
        /\ orders' = orders /\ ledger' = ledger
    BY <1>f, <1>1, <2>1 DEF BuildPlan, At, ProcType
  <2>3. Sending = {} /\ Sending' = {}
    BY <2>2, NothingInHand, AwaitedValue DEF HandPcs, PhasePcs, Sending, Unsubmitted, WaitPcs
  <2>4. \A u : OrdersOf(u)' = OrdersOf(u)
    BY <2>2 DEF OrdersOf, Ids
  <2>5. RowStep
    BY <2>2, <2>3, <2>4, SameAbstractRow, RowsStutter
  <2>6. RowsInv'
    BY <2>2 DEF RowsInv, OpenRowInv, HandInv, AnswerInv, At, SendPcs
  <2> QED
    BY <2>5, <2>6
<1>2. CASE PlanDone
  BY <1>2, StartRowStep DEF PlanDone, At, HandPcs, PhasePcs, WaitPcs
<1>3. CASE RepriceDone
  <2>0. At("reprice") /\ UNCHANGED <<orders, ledger>>
    BY <1>3, Zenon DEF RepriceDone
  <2>1. CASE NextPhase
    BY <1>n, <2>0, <2>1 DEF At
  <2>2. CASE proc' = [proc EXCEPT !.pc = "fit"]
    <3>1. proc'.pc = "fit" /\ proc'.fresh = proc.fresh /\ proc'.batch = proc.batch
      BY <1>f, <2>2 DEF ProcType
    <3> QED
      BY <2>0, <3>1, PhaseRowStep
  <2>3. CASE proc' = [proc EXCEPT !.pc = "mark", !.todo = proc.batch]
    <3>1. /\ proc'.pc = "mark" /\ proc'.fresh = proc.fresh /\ proc'.batch = proc.batch
          /\ proc'.todo = proc.batch
      BY <1>f, <2>3 DEF ProcType
    <3> QED
      BY <2>0, <3>1, PhaseRowStep DEF At
  <2> QED
    BY <1>3, <2>1, <2>2, <2>3, Zenon DEF RepriceDone
<1>4. ASSUME BuysFit \/ BlockBuys \/ \E t \in Trades : TrimBuy(t) PROVE RowsInv' /\ RowStep
  <2>0. At("fit") /\ UNCHANGED <<orders, ledger>>
    BY <1>4, Zenon DEF BuysFit, BlockBuys, TrimBuy
  <2>1. /\ proc'.pc \in {"mark", "block"} /\ proc'.fresh = proc.fresh
        /\ proc'.batch = proc.batch /\ proc'.todo = proc.batch
    <3>1. CASE BuysFit \/ BlockBuys
      <4>1. PICK pc \in {"mark", "block"} : proc' = [proc EXCEPT !.pc = pc, !.todo = proc.batch]
        BY <3>1, Zenon DEF BuysFit, BlockBuys
      <4> QED
        BY <1>f, <4>1 DEF ProcType
    <3>2. CASE \E t \in Trades : TrimBuy(t)
      <4>1. PICK sendq : proc' = [proc EXCEPT !.pc = "mark", !.todo = proc.batch, !.sendq = sendq]
        BY <3>2 DEF TrimBuy
      <4> QED
        BY <1>f, <4>1 DEF ProcType
    <3> QED
      BY <1>4, <3>1, <3>2
  <2> QED
    BY <2>0, <2>1, PhaseRowStep DEF At
<1>6. CASE BlockDone \/ RecordDone
  BY <1>6, <1>n DEF BlockDone, RecordDone, At
<1>7. CASE MarkDone
  <2>0. At("mark") /\ proc.todo = {} /\ UNCHANGED <<orders, ledger>>
        /\ proc' = [proc EXCEPT !.pc = "send", !.todo = proc.batch, !.fails = 0]
    BY <1>7, Zenon DEF MarkDone
  <2>1. /\ proc'.pc = "send" /\ proc'.fresh = proc.fresh /\ proc'.batch = proc.batch
        /\ proc'.todo = proc.batch
    BY <1>f, <2>0 DEF ProcType
  <2> QED
    BY <2>0, <2>1, PhaseRowStep
<1>8. CASE SendUnavailable \/ SendDone
  <2>1. PICK resOf \in {Unsent(proc.todo), proc.res} : StopSending(resOf)
    BY <1>8, Zenon DEF SendUnavailable, SendDone
  <2>2. \A u \in Trades : u \notin proc.todo => resOf[u] = proc.res[u]
    BY DEF Unsent
  <2>3. At("send") /\ UNCHANGED <<orders, ledger>>
    BY <1>8, Zenon DEF SendUnavailable, SendDone
  <2>4. /\ proc'.pc = "record" /\ proc'.fresh = proc.fresh /\ proc'.batch = proc.batch
        /\ proc'.todo = proc.batch /\ proc'.sendq = proc.sendq /\ proc'.res = resOf
    BY <1>f, <2>1 DEF StopSending, ProcType
  <2> QED
    BY <2>2, <2>3, <2>4, PhaseRowStep
<1>9. ASSUME NEW t \in Trades, PlanTrade(t) PROVE RowsInv' /\ RowStep
  <2>0. At("plan_trade") /\ t \in proc.todo /\ orders' = orders
    BY <1>9, Zenon DEF PlanTrade
  <2>1. CASE proc' = [proc EXCEPT !.todo = @ \ {t}] /\ ledger' = ledger
    <3>1. proc'.pc = "plan_trade" /\ proc'.fresh = proc.fresh /\ proc'.batch = proc.batch
      BY <1>f, <2>0, <2>1 DEF ProcType, At
    <3> QED
      BY <2>0, <2>1, <3>1, PhaseRowStep
  <2>2. CASE /\ ~MustReplay(ledger[t]) /\ Upsert(t, PlannedRow(Qty[t]))
             /\ proc' = [proc EXCEPT !.todo = @ \ {t}, !.fresh = @ \cup {t}]
    <3>1. OrdersOf(t) = {}
      BY <2>2 DEF ExecInv, ResubmittableMeansUnsent, IdentityInv, FamilyInv, OrdersOf
    <3> QED
      BY <2>0, <2>2, <3>1, PlanRowRows
  <2> QED
    BY <1>9, <2>1, <2>2, Zenon DEF PlanTrade
<1>10. ASSUME NEW t \in Trades, RepriceTrade(t) PROVE RowsInv' /\ RowStep
  <2>1. /\ At("reprice") /\ t \in proc.todo /\ orders' = orders
        /\ proc' = [proc EXCEPT !.todo = @ \ {t}, !.batch = @ \cup {t}]
        /\ Upsert(t, PlannedRow(Qty[t]))
    BY <1>10, Zenon DEF RepriceTrade
  <2>2. OrdersOf(t) = {}
    BY <1>10, UnsentWrites DEF IdentityInv
  <2> QED
    BY <2>1, <2>2, PlanRowRows
<1> QED
  BY <1>1, <1>2, <1>3, <1>4, <1>6, <1>7, <1>8, <1>9, <1>10, LocalRowStep, RecordRowStep,
     PlaceRowStep, WaitRowStep DEF SubmissionStep

-----------------------------------------------------------------------------
(* The refinement. *)

(* Every step moves the rows as OrderRows lets it. *)
LEMMA RowsStep ==
    ASSUME ExecInv, ExecInv', IdentityInv, IdentityInv', SubmitInv, OpenInv, TrackInv, TrackInv',
           RowsInv, [Next]_vars
    PROVE  RowsInv' /\ RowStep
<1>t. proc \in ProcType /\ ledger \in [Trades -> Row] /\ BrokerTypeOK
  BY DEF ExecInv, TypeOK, ExecTypeOK
<1>s. ASSUME NoNewOrder, ledger' = ledger, proc' = proc PROVE RowsInv' /\ RowStep
  <2>1. RowStep
    BY <1>s, BrokerRows
  <2>2. OpenRowInv' /\ HandInv'
    BY <1>s DEF RowsInv, OpenRowInv, HandInv, At
  <2>3. AnswerInv'
    BY <1>s DEF RowsInv, AnswerInv, At, Awaited, Answered, Ends
  <2> QED
    BY <2>1, <2>2, <2>3 DEF RowsInv
<1>1. CASE SubmissionStep
  BY <1>1, SubmissionRowStep
<1>2. CASE ReconcileStep
  BY <1>2, ReconcileRowStep
<1>3. CASE BrokerActs
  BY <1>s, <1>t, <1>3, BrokerMoves DEF BrokerActs, IdentityInv, execVars
<1>4. CASE UNCHANGED vars
  BY <1>s, <1>t, <1>4, OrdersStay DEF vars, IdentityInv
<1>5. CASE Crash
  BY <1>5, EndRowStep DEF Crash
<1>6. ASSUME NEW t \in Trades, Tick(t) PROVE RowsInv' /\ RowStep
  <2>1. RowStep
    BY <1>6, TickRows
  <2>2. /\ proc'.pc = "idle"
        /\ ledger' = [ledger EXCEPT ![t] = [ledger[t] EXCEPT !.age = ledger[t].age + 1]]
    BY <1>6 DEF Tick, At, Upsert
  <2>3. \A u \in Trades : /\ ledger'[u].st = ledger[u].st /\ ledger'[u].raw = ledger[u].raw
                           /\ ledger'[u].oid = ledger[u].oid /\ ledger'[u].filled = ledger[u].filled
    BY <1>t, <2>2 DEF Row
  <2>4. OpenRowInv'
    BY <2>3 DEF RowsInv, OpenRowInv, IsOpen, MustReplay
  <2>5. HandInv' /\ AnswerInv'
    BY <2>2 DEF HandInv, AnswerInv, At, SendPcs
  <2> QED
    BY <2>1, <2>4, <2>5 DEF RowsInv
<1> QED
  BY <1>1, <1>2, <1>3, <1>4, <1>5, <1>6 DEF Next

(* The ledger starts as OrderRows does. *)
LEMMA RowsInit ==
    ASSUME Init
    PROVE  RowsInv /\ R!Init
<1>1. /\ proc.pc = "idle" /\ Ids = {}
      /\ \A t \in Trades : ledger[t] = AbsentRow
  BY DEF Init, BrokerInit, ExecInit, IdleProc, Ids
<1>2. AbsentRow.st = "absent"
  BY DEF AbsentRow, PlannedRow
<1>3. Sending = {}
  BY <1>1, NothingInHand DEF HandPcs, PhasePcs
<1>4. \A t \in Trades : AbstractRow(t) = "absent"
  BY <1>1, <1>2, <1>3 DEF AbstractRow, IsTerminal, TerminalStates
<1>5. R!Init
  BY <1>3, <1>4 DEF R!Init, AbstractRows
<1>6. RowsInv
  BY <1>1, <1>2 DEF RowsInv, OpenRowInv, HandInv, AnswerInv, IsOpen, At, SendPcs
<1> QED
  BY <1>5, <1>6

(* What submit_plan has in hand agrees with what the ledger says of it. *)
THEOREM RowsInvariant == Spec => []RowsInv
<1>1. Init => RowsInv
  BY RowsInit
<1>2. /\ ExecInv /\ ExecInv' /\ IdentityInv /\ IdentityInv' /\ SubmitInv /\ OpenInv
      /\ TrackInv /\ TrackInv' /\ RowsInv /\ [Next]_vars
      => RowsInv'
  BY RowsStep
<1> QED
  BY <1>1, <1>2, ExecInvariant, IdentityInvariant, SubmitInvariant, OpenInvariant, TrackInvariant,
     PTL DEF Spec

(* execution_manager.py implements OrderRows: wherever a process dies,     *)
(* whatever IBKR answers and whatever a retry or a pass does, a row that   *)
(* may stand for a broker order is never planned again nor called unsent,  *)
(* a final row stays final, and a row without an order is never closed on  *)
(* evidence.                                                               *)
THEOREM LedgerImplementsRows == Spec => RowsAreFollowed
<1>1. Init => R!Init
  BY RowsInit
<1>2. /\ ExecInv /\ ExecInv' /\ IdentityInv /\ IdentityInv' /\ SubmitInv /\ OpenInv
      /\ TrackInv /\ TrackInv' /\ RowsInv /\ [Next]_vars
      => [R!Next]_<<AbstractRows, Sending>>
  BY RowsStep DEF RowStep
<1> QED
  BY <1>1, <1>2, ExecInvariant, IdentityInvariant, SubmitInvariant, OpenInvariant, TrackInvariant,
     RowsInvariant, PTL DEF Spec, RowsAreFollowed, R!RowsSpec

=============================================================================
