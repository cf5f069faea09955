----------------------------- MODULE MCExecution -----------------------------
(* Instances of ExecutionManager for TLC. *)
EXTENDS ExecutionManager, TLC

CONSTANTS s1, b1, b2

(* One sell and one buy of the same run; the buy has two increments, so    *)
(* that it can be trimmed.                                                 *)
SellBuySides == [t \in {s1, b1} |-> IF t = s1 THEN "SELL" ELSE "BUY"]
SellBuyRuns == [t \in {s1, b1} |-> 1]
TrimQty == [t \in {s1, b1} |-> IF t = s1 THEN 1 ELSE 2]

(* A buy of two increments, alone. *)
OneBuySides == [t \in {b1} |-> "BUY"]
OneBuyRuns == [t \in {b1} |-> 1]
OneBuyQty == [t \in {b1} |-> 2]

(* Two buys, of one run or of two. *)
TwoBuySides == [t \in {b1, b2} |-> "BUY"]
SameRunRuns == [t \in {b1, b2} |-> 1]
TwoRunRuns == [t \in {b1, b2} |-> IF t = b1 THEN 1 ELSE 2]
TwoBuyQty == [t \in {b1, b2} |-> 1]

(* Two buys of one run differ in nothing but their names. *)
BuySymmetry == Permutations({b1, b2})
=============================================================================
