------------------------------ MODULE Reconcile ------------------------------
(***************************************************************************)
(* ExecutionManager.reconcile and check_stale_orders, with the IbkrBroker  *)
(* calls they make (fetch_open_order_snapshots, cancel_order,              *)
(* replace_order, submit_replacement) and fetch_completed_order_snapshots. *)
(*                                                                         *)
(* Each network call is a step of its own, so that IBKR may act, and the   *)
(* process may die, between any two of them.                               *)
(***************************************************************************)
EXTENDS ExecutionState

(* reconcile-orders starts a process of its own; a rebalance attempt runs  *)
(* the same pass first, from check_stale_orders.  monitor resumes the last *)
(* run or starts the next one; an older run is never resumed.              *)
StartReconcile ==
    /\ At("idle")
    /\ proc' = [IdleProc EXCEPT !.pc = "rec_open", !.job = "reconcile"]
    /\ UNCHANGED <<orders, cash, ledger, session, crashes>>

StartRebalance ==
    /\ At("idle")
    /\ \/ /\ session.run > 0 /\ session.attempts < MaxAttempts
          /\ session' = [session EXCEPT !.attempts = @ + 1]
       \/ /\ session.run < MaxRun /\ MaxAttempts > 0
          /\ session' = [run |-> session.run + 1, attempts |-> 1]
    /\ proc' = [IdleProc EXCEPT !.pc = "rec_open", !.job = "rebalance"]
    /\ UNCHANGED <<orders, cash, ledger, crashes>>

-----------------------------------------------------------------------------
(* _match_snapshot: exact orderRef, else the reserved replacement, else    *)
(* the entry's own orderId within the orderRef family.                     *)

ExactMatch(t, ids) == {i \in ids : orders[i].t = t /\ orders[i].ref = ledger[t].ref}

ReservedMatch(t, ids) ==
    {i \in ids : orders[i].t = t /\ ledger[t].repl /\ orders[i].ref = "repl"}

FamilyMatch(t, ids) == {i \in ids : orders[i].t = t /\ i = ledger[t].oid}

Matches(t, ids) ==
    IF ExactMatch(t, ids) # {} THEN ExactMatch(t, ids)
    ELSE IF ReservedMatch(t, ids) # {} THEN ReservedMatch(t, ids)
    ELSE FamilyMatch(t, ids)

MatchIsReplacement(t, ids) == ExactMatch(t, ids) = {} /\ ReservedMatch(t, ids) # {}

(* Row of t after with_snapshot of an open order as it was fetched. *)
OpenUpdate(t, s) ==
    WithSnapshot(ledger[t], s.raw, s.id, s.filled, Monus(orders[s.id].qty, s.filled))

CurrentUpdate(row, i) ==
    WithSnapshot(row, orders[i].st, i, orders[i].filled, Remaining(orders[i]))

(* A completed order without its executions: Filled implies the quantity,  *)
(* any other status counts as no fill at all.                              *)
HistFilled(i) == IF proc.execs \/ orders[i].st = "Filled" THEN orders[i].filled ELSE 0

HistUpdate(row, i) ==
    WithSnapshot(row, orders[i].st, i, HistFilled(i), Monus(orders[i].qty, HistFilled(i)))

(* _restore_untracked_broker_orders stops the pass when a live order is    *)
(* not the identity the ledger currently tracks: its row is terminal, or   *)
(* its orderRef differs from the row's order_ref.                          *)
RestoreConflict(i) ==
    LET row == ledger[orders[i].t] IN IsTerminal(row) \/ row.ref # orders[i].ref

-----------------------------------------------------------------------------
(* Open orders are read; an unreachable IBKR, or a conflict, raises. *)

ReconcileRaises ==
    /\ At("rec_open")
    /\ EndProcess
    /\ UNCHANGED <<orders, cash, ledger, session, crashes>>

FetchOpenOrders ==
    /\ At("rec_open")
    /\ \A i \in LiveIds : ~RestoreConflict(i)
    /\ LET unmatched == {t \in OpenEntries : Matches(t, LiveIds) = {}}
       IN  proc' = [proc EXCEPT
              !.pc = IF unmatched = {} THEN "rec_entry" ELSE "rec_hist",
              !.opens = {[id |-> i, raw |-> orders[i].st, filled |-> orders[i].filled] : i \in LiveIds},
              !.todo = OpenEntries]
    /\ UNCHANGED <<orders, cash, ledger, session, crashes>>

(* reqCompletedOrders: a set of orders that are done; reqExecutions: their *)
(* fills, or nothing.                                                      *)
FetchHistory ==
    /\ At("rec_hist")
    /\ \E H \in SUBSET DoneIds, execs \in BOOLEAN :
          /\ LossyHistory \/ H = DoneIds
          /\ LossyFills \/ execs
          /\ proc' = [proc EXCEPT !.pc = "rec_entry", !.hist = H, !.execs = execs]
    /\ UNCHANGED <<orders, cash, ledger, session, crashes>>

FetchHistoryFails ==
    /\ At("rec_hist")
    /\ proc' = [proc EXCEPT !.pc = "rec_entry", !.histErr = TRUE]
    /\ UNCHANGED <<orders, cash, ledger, session, crashes>>

-----------------------------------------------------------------------------
(* One ledger entry: _reconcile_entry. *)

OpenIds == {s.id : s \in proc.opens}

OpenMatches(t) == Matches(t, OpenIds)

HistMatches(t) == Matches(t, proc.hist)

AtEntry(t) == At("rec_entry") /\ t \in proc.todo

EntryDone(t) == proc' = [proc EXCEPT !.pc = "rec_entry", !.cur = NoTrade,
                                     !.todo = @ \ {t}]

(* The failure of one entry is noted and the pass goes on. *)
EntryFails(t) == proc' = [proc EXCEPT !.pc = "rec_entry", !.cur = NoTrade,
                                      !.todo = @ \ {t}, !.err = TRUE]

HistoryUnavailable(t) ==
    /\ AtEntry(t) /\ OpenMatches(t) = {} /\ proc.histErr
    /\ EntryFails(t)
    /\ UNCHANGED <<orders, cash, ledger, session, crashes>>

(* _adopt_replacement from history.  The same call for an open reserved    *)
(* replacement is dead code behind IbkrBroker: such an order is a          *)
(* RestoreConflict, so the pass has already stopped.                       *)
AdoptReplacement(t) ==
    /\ AtEntry(t) /\ OpenMatches(t) = {} /\ MatchIsReplacement(t, proc.hist)
    /\ \E i \in HistMatches(t) :
          Upsert(t, HistUpdate([ledger[t] EXCEPT !.ref = "repl", !.repl = FALSE], i))
    /\ EntryDone(t)
    /\ UNCHANGED <<orders, cash, session, crashes>>

(* An open order of the entry itself: the replacement reservation is       *)
(* dropped once the original works again.                                  *)
FollowsOpen(t, s) ==
    /\ AtEntry(t)
    /\ s.id \in OpenMatches(t) /\ ~MatchIsReplacement(t, OpenIds)

Followed(t, s) ==
    LET row == OpenUpdate(t, s)
    IN  IF row.st \in WorkingStates THEN [row EXCEPT !.repl = FALSE] ELSE row

CancelDue(row) ==
    row.st \in WorkingStates /\ row.age = 2 /\ row.filled = 0 /\ row.oid # NoId

ReplaceDue(row) ==
    /\ AutoReplace
    /\ row.st \in WorkingStates /\ row.age = 1
    /\ row.filled = 0 /\ row.rc < 1 /\ row.oid # NoId

(* No action is due, or the cancel finds nothing open, or no acceptable    *)
(* fresh quote justifies a replacement.                                    *)
FollowOpenOrder(t) ==
    /\ \E s \in proc.opens :
          /\ FollowsOpen(t, s)
          /\ CancelDue(Followed(t, s)) => ~IsLive(Followed(t, s).oid)
          /\ Upsert(t, Followed(t, s))
    /\ EntryDone(t)
    /\ UNCHANGED <<orders, cash, session, crashes>>

(* cancel_order after CANCEL_AFTER_SECONDS; the ledger is written next. *)
SendTimeoutCancel(t) ==
    /\ \E s \in proc.opens :
          /\ FollowsOpen(t, s)
          /\ CancelDue(Followed(t, s)) /\ IsLive(Followed(t, s).oid)
          /\ RequestCancel(Followed(t, s).oid)
    /\ proc' = [proc EXCEPT !.pc = "rec_cancelled", !.cur = t]
    /\ UNCHANGED <<cash, ledger, session, crashes>>

(* Mutant: a requested cancel is recorded as done. *)
RecordTimeoutCancelled(t) ==
    /\ At("rec_cancelled") /\ proc.cur = t
    /\ \E s \in proc.opens :
          /\ s.id \in OpenMatches(t)
          /\ Upsert(t, [Followed(t, s) EXCEPT !.st = "cancelled"])
    /\ EntryDone(t)
    /\ UNCHANGED <<orders, cash, session, crashes>>

RecordTimeoutCancel(t) ==
    /\ At("rec_cancelled") /\ proc.cur = t
    /\ \E s \in proc.opens :
          /\ s.id \in OpenMatches(t)
          /\ Upsert(t, [Followed(t, s) EXCEPT !.st = "cancel_pending"])
    /\ EntryDone(t)
    /\ UNCHANGED <<orders, cash, session, crashes>>

-----------------------------------------------------------------------------
(* The single replace: reserve the replacement orderRef durably, cancel    *)
(* the original, and place the replacement once the cancel is confirmed.   *)

(* Mutant: the replacement orderRef is not written before it is used. *)
StartReplacement(t) ==
    /\ \E s \in proc.opens :
          /\ FollowsOpen(t, s) /\ ReplaceDue(Followed(t, s))
          /\ Upsert(t, [Followed(t, s) EXCEPT !.st = "replace_pending", !.rc = 1])
    /\ proc' = [proc EXCEPT !.pc = "rep_cancel", !.cur = t]
    /\ UNCHANGED <<orders, cash, session, crashes>>

ReserveReplacement(t) ==
    /\ \E s \in proc.opens :
          /\ FollowsOpen(t, s) /\ ReplaceDue(Followed(t, s))
          /\ Upsert(t, [Followed(t, s) EXCEPT
                          !.st = "replace_pending", !.raw = "ReplacementUnconfirmed",
                          !.rc = 1, !.repl = TRUE])
    /\ proc' = [proc EXCEPT !.pc = "rep_cancel", !.cur = t]
    /\ UNCHANGED <<orders, cash, session, crashes>>

(* replace_order raises when the original is gone or already has a fill. *)
ReplaceRefused(t) ==
    /\ At("rep_cancel") /\ proc.cur = t
    /\ ~IsLive(ledger[t].oid) \/ orders[ledger[t].oid].filled > 0
    /\ EntryFails(t)
    /\ UNCHANGED <<orders, cash, ledger, session, crashes>>

ReplaceCancelsOriginal(t) ==
    /\ At("rep_cancel") /\ proc.cur = t
    /\ IsLive(ledger[t].oid) /\ orders[ledger[t].oid].filled = 0
    /\ RequestCancel(ledger[t].oid)
    /\ proc' = [proc EXCEPT !.pc = "rep_wait"]
    /\ UNCHANGED <<cash, ledger, session, crashes>>

(* The original executed while the cancel was in flight. *)
OriginalFilledMeanwhile(t) ==
    /\ At("rep_wait") /\ proc.cur = t
    /\ orders[ledger[t].oid].filled > 0
    /\ Upsert(t, CurrentUpdate([ledger[t] EXCEPT !.repl = FALSE], ledger[t].oid))
    /\ EntryDone(t)
    /\ UNCHANGED <<orders, cash, session, crashes>>

(* CancelNotConfirmed: the reservation stays, the replacement is deferred. *)
ReplaceDeferred(t) ==
    /\ At("rep_wait") /\ proc.cur = t
    /\ orders[ledger[t].oid].filled = 0
    /\ orders[ledger[t].oid].st \notin CancelledRaw
    /\ Upsert(t, [ledger[t] EXCEPT !.st = "cancel_pending", !.raw = "PendingCancel"])
    /\ EntryDone(t)
    /\ UNCHANGED <<orders, cash, session, crashes>>

(* Mutant: the replacement does not wait for the cancel. *)
PlaceReplacementAtOnce(t) ==
    /\ At("rep_wait") /\ proc.cur = t
    /\ orders[ledger[t].oid].filled = 0
    /\ Place(t, "repl", orders[ledger[t].oid].qty)
    /\ proc' = [proc EXCEPT !.pc = "rep_placed"]
    /\ UNCHANGED <<cash, ledger, session, crashes>>

PlaceReplacement(t) ==
    /\ At("rep_wait") /\ proc.cur = t
    /\ orders[ledger[t].oid].filled = 0
    /\ orders[ledger[t].oid].st \in CancelledRaw
    /\ Place(t, "repl", orders[ledger[t].oid].qty)
    /\ proc' = [proc EXCEPT !.pc = "rep_placed"]
    /\ UNCHANGED <<cash, ledger, session, crashes>>

(* The replacement becomes the tracked identity; submitted_at restarts. *)
RecordReplacement(t) ==
    /\ proc.pc \in {"rep_placed", "resume_placed"} /\ proc.cur = t
    /\ Upsert(t, [CurrentUpdate([ledger[t] EXCEPT !.ref = "repl", !.repl = FALSE], Len(orders))
                    EXCEPT !.age = 0])
    /\ EntryDone(t)
    /\ UNCHANGED <<orders, cash, session, crashes>>

-----------------------------------------------------------------------------
(* An entry that is not open: completed history, then fail closed. *)

Completed(t, i) == HistUpdate(ledger[t], i)

FollowsHistory(t, i) ==
    /\ AtEntry(t) /\ OpenMatches(t) = {} /\ ~proc.histErr
    /\ i \in HistMatches(t) /\ ~MatchIsReplacement(t, proc.hist)

(* Mutant: a partial fill of the original is not looked at. *)
ResumeDueWhenCancelled(t, i) ==
    ledger[t].repl /\ Completed(t, i).st = "cancelled" /\ ledger[t].age < 2

ResumeDue(t, i) ==
    /\ ledger[t].repl
    /\ Completed(t, i).st = "cancelled" /\ Completed(t, i).filled = 0
    /\ ledger[t].age < 2

(* Closed by a terminal broker status (also when a due replacement finds   *)
(* no acceptable quote).                                                   *)
CloseFromHistory(t) ==
    /\ \E i \in Ids :
          /\ FollowsHistory(t, i)
          /\ Upsert(t, [Completed(t, i) EXCEPT !.repl = FALSE])
    /\ EntryDone(t)
    /\ UNCHANGED <<orders, cash, session, crashes>>

(* _resume_replacement: the deferred replacement is placed now. *)
ResumeReplacement(t) ==
    /\ \E i \in Ids : FollowsHistory(t, i) /\ ResumeDue(t, i)
    /\ proc' = [proc EXCEPT !.pc = "resume", !.cur = t]
    /\ UNCHANGED <<orders, cash, ledger, session, crashes>>

(* submit_replacement returns an open order that carries the orderRef, and *)
(* places one otherwise.  Only the second case can happen here: had the    *)
(* replacement been open, the pass would have stopped at RestoreConflict,  *)
(* and the one process that places orders is this one.                     *)
SentReplacements(t) == {i \in Ids : orders[i].t = t /\ orders[i].ref = "repl"}

OpenReplacements(t) == SentReplacements(t) \cap LiveIds

SubmitReplacementPlaces(t) ==
    /\ At("resume") /\ proc.cur = t
    /\ OpenReplacements(t) = {}
    /\ Cardinality(SentReplacements(t)) < MaxReplacements
    /\ \E i \in HistMatches(t) : Place(t, "repl", orders[i].qty)
    /\ proc' = [proc EXCEPT !.pc = "resume_placed"]
    /\ UNCHANGED <<cash, ledger, session, crashes>>

(* The connection fails inside a broker call made for this entry. *)
EntryCallFails(t) ==
    /\ \/ \E s \in proc.opens :
             FollowsOpen(t, s) /\ (CancelDue(Followed(t, s)) \/ ReplaceDue(Followed(t, s)))
       \/ \E i \in Ids : FollowsHistory(t, i) /\ ResumeDue(t, i)
       \/ /\ proc.cur = t
          /\ proc.pc \in {"rec_cancelled", "rep_cancel", "rep_wait", "rep_placed",
                          "resume", "resume_placed"}
    /\ EntryFails(t)
    /\ UNCHANGED <<orders, cash, ledger, session, crashes>>

(* Mutant: an order that disappeared is taken for expired. *)
LeaveExpired(t) ==
    /\ AtEntry(t) /\ OpenMatches(t) = {} /\ HistMatches(t) = {} /\ ~proc.histErr
    /\ Upsert(t, [ledger[t] EXCEPT !.st = "expired", !.raw = "NotOpenUnverified"])
    /\ EntryDone(t)
    /\ UNCHANGED <<orders, cash, session, crashes>>

(* _close_unreported_open_entry: disappearance proves nothing. *)
LeaveUnverified(t) ==
    /\ AtEntry(t) /\ OpenMatches(t) = {} /\ HistMatches(t) = {} /\ ~proc.histErr
    /\ Upsert(t, [ledger[t] EXCEPT !.st = "unknown", !.raw = "NotOpenUnverified"])
    /\ EntryDone(t)
    /\ UNCHANGED <<orders, cash, session, crashes>>

-----------------------------------------------------------------------------
(* End of the pass.  reconcile-orders exits; a rebalance stops when an     *)
(* entry failed, and otherwise looks for rows of other runs.               *)

ForeignEntries == {t \in OpenEntries : RunOf[t] # session.run}

FinishReconcile ==
    /\ At("rec_entry") /\ proc.todo = {}
    /\ IF proc.job = "rebalance" /\ ~proc.err
       THEN proc' = [IdleProc EXCEPT !.pc = "stale", !.job = "rebalance"]
       ELSE EndProcess
    /\ UNCHANGED <<orders, cash, ledger, session, crashes>>

(* check_stale_orders: an open row of another run blocks this attempt;     *)
(* under the cancel policy its cancellation is requested first.            *)
StaleCheck ==
    /\ At("stale")
    /\ IF ForeignEntries = {} THEN proc' = [proc EXCEPT !.pc = "plan"]
       ELSE IF StalePolicy = "cancel"
            THEN proc' = [proc EXCEPT !.pc = "stale_cancel", !.todo = ForeignEntries]
            ELSE EndProcess
    /\ UNCHANGED <<orders, cash, ledger, session, crashes>>

SendStaleCancel(t) ==
    /\ At("stale_cancel") /\ t \in proc.todo
    /\ ledger[t].oid \in LiveIds
    /\ RequestCancel(ledger[t].oid)
    /\ proc' = [proc EXCEPT !.pc = "stale_cancelled", !.cur = t]
    /\ UNCHANGED <<cash, ledger, session, crashes>>

(* Mutant: the row of a stale order is closed with the cancel request. *)
CloseStaleRow(t) ==
    /\ At("stale_cancelled") /\ proc.cur = t
    /\ Upsert(t, [ledger[t] EXCEPT !.st = "cancelled"])
    /\ proc' = [proc EXCEPT !.pc = "stale_cancel", !.cur = NoTrade, !.todo = @ \ {t}]
    /\ UNCHANGED <<orders, cash, session, crashes>>

RecordStaleCancel(t) ==
    /\ At("stale_cancelled") /\ proc.cur = t
    /\ Upsert(t, [ledger[t] EXCEPT !.st = "cancel_pending"])
    /\ proc' = [proc EXCEPT !.pc = "stale_cancel", !.cur = NoTrade, !.todo = @ \ {t}]
    /\ UNCHANGED <<orders, cash, session, crashes>>

SkipStaleCancel(t) ==
    /\ At("stale_cancel") /\ t \in proc.todo
    /\ ledger[t].oid \notin LiveIds
    /\ proc' = [proc EXCEPT !.todo = @ \ {t}]
    /\ UNCHANGED <<orders, cash, ledger, session, crashes>>

(* Mutant: the attempt goes on once the cancels are requested. *)
StaleCancelGoesOn ==
    /\ proc.pc \in {"stale_cancel", "stale_cancelled"}
    /\ proc' = [proc EXCEPT !.pc = "plan", !.cur = NoTrade, !.todo = {}]
    /\ UNCHANGED <<orders, cash, ledger, session, crashes>>

(* Every row was visited, or a cancel_order call raised.  Either way the    *)
(* attempt is blocked.                                                     *)
StaleCancelEnds ==
    /\ proc.pc \in {"stale_cancel", "stale_cancelled"}
    /\ EndProcess
    /\ UNCHANGED <<orders, cash, ledger, session, crashes>>

ReconcileStep ==
    \/ StartReconcile \/ StartRebalance
    \/ ReconcileRaises \/ FetchOpenOrders \/ FetchHistory \/ FetchHistoryFails
    \/ FinishReconcile \/ StaleCheck \/ StaleCancelEnds
    \/ \E t \in Trades :
          \/ HistoryUnavailable(t) \/ AdoptReplacement(t)
          \/ FollowOpenOrder(t) \/ SendTimeoutCancel(t) \/ RecordTimeoutCancel(t)
          \/ EntryCallFails(t)
          \/ ReserveReplacement(t) \/ ReplaceRefused(t) \/ ReplaceCancelsOriginal(t)
          \/ OriginalFilledMeanwhile(t) \/ ReplaceDeferred(t)
          \/ PlaceReplacement(t) \/ RecordReplacement(t)
          \/ CloseFromHistory(t) \/ ResumeReplacement(t)
          \/ SubmitReplacementPlaces(t)
          \/ LeaveUnverified(t)
          \/ SendStaleCancel(t) \/ RecordStaleCancel(t) \/ SkipStaleCancel(t)

=============================================================================
