------------------------------ MODULE MCSession ------------------------------
(* Model values for checking module Session. *)
EXTENDS Session

CONSTANTS a, b

OneTrade == {a}

TwoTrades == {a, b}

=============================================================================
