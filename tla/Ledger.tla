------------------------------- MODULE Ledger -------------------------------
(***************************************************************************)
(* What the order ledger promises to ExecutionManager: a map from ledger   *)
(* keys to rows with one writer.  A write takes effect at once and becomes *)
(* durable before the call returns; a power failure may take back writes   *)
(* that are not durable yet, latest first, and nothing else.               *)
(***************************************************************************)
CONSTANTS
    Keys,           \* ledger keys
    Rows,           \* rows a caller may record
    Absent          \* no row

VARIABLES
    map,            \* Keys -> Rows \cup {Absent}: what a read returns
    survivors,      \* the maps a power failure may leave behind
    call            \* the last upsert: its arguments and how it ended

ledgerVars == <<map, survivors, call>>

Maps == [Keys -> Rows \cup {Absent}]

LedgerTypeOK ==
    /\ map \in Maps
    /\ survivors \in SUBSET Maps
    /\ call \in [st : {"none", "open", "ok", "raised"}, k : Keys, v : Rows]

LedgerInit ==
    /\ map \in Maps
    /\ survivors = {map}
    /\ call \in [st : {"none"}, k : Keys, v : Rows]

Call(k, v) ==
    /\ call.st # "open"
    /\ call' = [st |-> "open", k |-> k, v |-> v]
    /\ UNCHANGED <<map, survivors>>

Write ==
    /\ call.st = "open"
    /\ map' = [map EXCEPT ![call.k] = call.v]
    /\ survivors' = survivors \cup {map'}
    /\ UNCHANGED call

Harden ==
    /\ survivors' = {map}
    /\ UNCHANGED <<map, call>>

(* The call returns: its row is recorded, durably. *)
Return ==
    /\ call.st = "open"
    /\ map[call.k] = call.v
    /\ survivors = {map}
    /\ call' = [call EXCEPT !.st = "ok"]
    /\ UNCHANGED <<map, survivors>>

(* The call raises, or its process dies. *)
Raise ==
    /\ call.st = "open"
    /\ call' = [call EXCEPT !.st = "raised"]
    /\ UNCHANGED <<map, survivors>>

PowerFailure ==
    /\ map' \in survivors
    /\ survivors' = {map'}
    /\ call' = [call EXCEPT !.st = IF @ = "open" THEN "raised" ELSE @]

LedgerNext ==
    \/ \E k \in Keys, v \in Rows : Call(k, v)
    \/ Write \/ Harden \/ Return \/ Raise \/ PowerFailure

LedgerSpec == LedgerInit /\ [][LedgerNext]_ledgerVars

=============================================================================
