---------------------------- MODULE MCOrderStore ----------------------------
(* Instance of OrderStore for TLC: two ledger keys, an open and a terminal *)
(* row.                                                                    *)
EXTENDS OrderStore
=============================================================================
