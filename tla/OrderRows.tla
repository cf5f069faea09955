------------------------------ MODULE OrderRows ------------------------------
(***************************************************************************)
(* What one row of the order ledger goes through, as the callers of        *)
(* poma/execution_manager.py may rely on it: the abstract specification    *)
(* that ExecutionManager (the broker's orders, the rows' fields, every     *)
(* network call) and Session (commands, retries, kills) both implement.    *)
(*                                                                         *)
(* "retry": a failure before acceptance, without a broker order; "final":  *)
(* any other terminal row; "lost": an open row whose order was never sent, *)
(* so that no broker evidence can ever settle it.                          *)
(***************************************************************************)
EXTENDS FiniteSets

CONSTANT Keys           \* ledger keys

VARIABLES
    rows,               \* Keys -> RowStates
    batch               \* the planned rows the attempt at work may still send

RowStates == {"absent", "planned", "retry", "working", "unknown", "lost", "final"}

OpenStates == {"planned", "working", "unknown", "lost"}

(* The rows a retry may act on: none stands for a broker order. *)
Resubmittable == {"absent", "planned", "retry"}

Init == rows = [k \in Keys |-> "absent"] /\ batch = {}

(* submit_plan records a planned row before anything is sent. *)
Plan(K) ==
    /\ \A k \in K : rows[k] \in Resubmittable
    /\ rows' = [k \in Keys |-> IF k \in K THEN "planned" ELSE rows[k]]
    /\ batch' = batch \cup K

(* One trade of the attempt is sent, or blocked before it is; a send that  *)
(* raises may never have reached the broker.                               *)
Submit(k) ==
    /\ k \in batch /\ rows[k] = "planned"
    /\ \E row \in {"working", "unknown", "lost", "retry", "final"} : rows' = [rows EXCEPT ![k] = row]
    /\ batch' = batch \ {k}

(* The attempt ends or is killed.  Of the rows it had in hand one may have *)
(* its answer already; each other stays planned or, if it was marked       *)
(* already, is open without an answer.  None is called retryable.          *)
CutShort ==
    /\ \E f \in [batch -> OpenStates \cup {"final"}] :
          rows' = [k \in Keys |-> IF k \in batch THEN f[k] ELSE rows[k]]
    /\ batch' = {}

(* What evidence can make of an open row: none exists for an order that    *)
(* was never sent, and none takes an order back.                           *)
Evidence(row) == IF row \in {"planned", "lost"} THEN {"lost"} ELSE {"working", "unknown", "final"}

Follow(k) ==
    /\ k \notin batch /\ rows[k] \in OpenStates
    /\ \E row \in Evidence(rows[k]) : rows' = [rows EXCEPT ![k] = row]
    /\ UNCHANGED batch

Next ==
    \/ \E K \in SUBSET Keys : Plan(K)
    \/ \E k \in Keys : Submit(k) \/ Follow(k)
    \/ CutShort

RowsSpec == Init /\ [][Next]_<<rows, batch>>

=============================================================================
